\* Views of up to two elements, sizes one past that.
SPECIFICATION Spec
CONSTANTS
  Installed <- Surface
  MaxLen = 2
INVARIANTS BaseFresh PositionsInside RefsDropped OutcomeTold
