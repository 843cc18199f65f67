SPECIFICATION Spec
CONSTANTS
  Installed <- Surface
  MaxLen = 1
INVARIANT NoReentry
