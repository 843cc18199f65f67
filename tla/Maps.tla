-------------------------------- MODULE Maps --------------------------------
(***************************************************************************)
(* The memory maps of io.c and what abc.close of cont.c does to them: each *)
(* JS wrapper over a mapping has a record (base, length, identity) that    *)
(* its free_func uses when the engine drops it, and a map of mode "rw" or  *)
(* "c" also has a slot of its descriptor in FILE's table.  The addresses   *)
(* and the descriptor numbers of what was unmapped are given out again.    *)
(*                                                                         *)
(* External: FILE's table of slots (FILEMap*, FILEUnMap, FILEUnMapBase,    *)
(* FILECloseAll), the kernel's lowest free number, and an engine that      *)
(* counts references and collects cycles whenever it likes.                *)
(***************************************************************************)
EXTENDS Naturals, FiniteSets

CONSTANTS
    Wraps,      \* wrappers that may exist at a time
    Addrs,      \* base addresses
    Fds,        \* descriptor numbers (FILE_MAX_OPEN)
    PinMaps,    \* JABC_PIN_MAPS
    PinFds,     \* JABC_PIN_FDS
    MaxGen      \* bound: maps a slot ever has

MapsAssumption ==
    /\ Fds \subseteq Nat /\ PinMaps \in Nat \ {0} /\ PinFds \in Nat \ {0}
    /\ MaxGen \in Nat /\ "unmapped" \notin Addrs

VARIABLES
    wrap,       \* the record of each wrapper and who holds it
    slot,       \* FILE_WANT_BUFS: the base that a booked descriptor maps
    gen,        \* JABC_MAP_GEN
    mapped,     \* the addresses that are mapped
    plain,      \* descriptors opened by io.open
    pin,        \* JABC_PIN_MAP, JABC_PIN_FD
    mark,       \* JABC_PIN_MAP_MARK, JABC_PIN_FD_MARK
    refused     \* the last map found no free descriptor

vars == <<wrap, slot, gen, mapped, plain, pin, mark, refused>>

Unmapped == "unmapped"
NoWrap == [kind |-> "none", base |-> Unmapped, fd |-> 0, gen |-> 0,
           held |-> FALSE, view |-> FALSE]

Alive == {w \in Wraps : wrap[w].kind # "none"}
Slotted == {w \in Alive : wrap[w].kind = "slot"}
Tangled == {w \in Alive : ~wrap[w].held}    \* held by a cycle only
Viewed(w) == wrap[w].held /\ wrap[w].view
Booked == {f \in Fds : slot[f] # Unmapped}
FreeFds == Fds \ (plain \cup Booked)
Lowest(S) == CHOOSE f \in S : \A g \in S : f <= g
Floor(n, k) == IF n > k THEN n - k ELSE 0

\* (mutant) by the base only.
OwnsBase(w) == slot[wrap[w].fd] = wrap[w].base

\* The slot is still the one that this record was made for.
OwnsSlot(w) == slot[wrap[w].fd] = wrap[w].base /\ gen[wrap[w].fd] = wrap[w].gen

-----------------------------------------------------------------------------
(* What the free_funcs of a set of wrappers leave, which all run at once.   *)

\* (mutant) a once-map is left to the kernel.
UnmapsSlots(G) == {wrap[w].base : w \in {x \in G : wrap[x].kind # "once" /\ (wrap[x].kind = "slot" => OwnsSlot(x))}}

\* JABCMapFree, JABCMapROFree, JABCRamFree: the addresses they unmap.
Unmaps(G) == {wrap[w].base : w \in {x \in G : wrap[x].kind = "slot" => OwnsSlot(x)}}

\* The slots they close.
Closes(G) == {wrap[w].fd : w \in {x \in G \cap Slotted : OwnsSlot(x)}}

\* JABCPinDrop of each.
PinLess(G) == [map |-> Floor(pin.map, Cardinality(G)),
               fd |-> Floor(pin.fd, Cardinality(G \cap Slotted))]

SlotLess(F) == [f \in Fds |-> IF f \in F THEN Unmapped ELSE slot[f]]
WrapLess(G) == [w \in Wraps |-> IF w \in G THEN NoWrap ELSE wrap[w]]

Freed(G) ==
    /\ wrap' = WrapLess(G)
    /\ slot' = SlotLess(Closes(G))
    /\ mapped' = mapped \ Unmaps(G)
    /\ pin' = PinLess(G)

\* (mutant) the descriptors are not looked at.
BelowMapMark == pin.map < mark.map

\* JABCPinSweep: what it collects, and the marks after it.
BelowMarks == pin.map < mark.map /\ pin.fd < mark.fd
Swept == IF BelowMarks THEN {} ELSE Tangled
Marks == IF BelowMarks THEN mark
         ELSE [map |-> PinLess(Tangled).map + PinMaps, fd |-> PinLess(Tangled).fd + PinFds]

-----------------------------------------------------------------------------
Init ==
    /\ wrap = [w \in Wraps |-> NoWrap]
    /\ slot = [f \in Fds |-> Unmapped]
    /\ gen = [f \in Fds |-> 0]
    /\ mapped = {} /\ plain = {} /\ refused = FALSE
    /\ pin = [map |-> 0, fd |-> 0] /\ mark = [map |-> PinMaps, fd |-> PinFds]

\* The wrapper w over a fresh mapping at a, after the sweep: JABCPinTake.
Hand(w, kind, a, f, g) ==
    /\ w \in Wraps \ (Alive \ Swept)
    /\ a \in Addrs \ (mapped \ Unmaps(Swept))
    /\ wrap' = [WrapLess(Swept) EXCEPT ![w] =
                   [kind |-> kind, base |-> a, fd |-> f, gen |-> g,
                    held |-> TRUE, view |-> TRUE]]
    /\ mapped' = (mapped \ Unmaps(Swept)) \cup {a}
    /\ pin' = [map |-> PinLess(Swept).map + 1,
               fd |-> PinLess(Swept).fd + IF kind = "slot" THEN 1 ELSE 0]
    /\ mark' = Marks

\* io._mmap(path, "rw" or "c"): FILE books the lowest number; with no number
\* left the call throws, and the sweep is all it did.
MmapSlot(w, a) ==
    LET left == FreeFds \cup Closes(Swept)
        f == Lowest(left)
    IN  /\ left # {} /\ gen[f] < MaxGen
        /\ gen' = [gen EXCEPT ![f] = @ + 1]
        /\ slot' = [SlotLess(Closes(Swept)) EXCEPT ![f] = a]
        /\ Hand(w, "slot", a, f, gen[f] + 1)
        /\ UNCHANGED plain

\* io._mmap(path, "r") keeps no descriptor, io._ram has none.
MmapFree(w, a, kind) ==
    /\ slot' = SlotLess(Closes(Swept))
    /\ Hand(w, kind, a, 0, 0)
    /\ UNCHANGED <<gen, plain>>

\* A map that fails (no such file, no descriptor, larger than 2 GiB, no memory
\* for the record or the wrapper) gives back what it took; when the record had
\* its identity the slot's generation has moved on.
MmapFails ==
    LET left == FreeFds \cup Closes(Swept)
    IN  /\ Freed(Swept) /\ mark' = Marks
        /\ refused' = (left = {})
        /\ \/ gen' = gen
           \/ /\ left # {} /\ gen[Lowest(left)] < MaxGen
              /\ gen' = [gen EXCEPT ![Lowest(left)] = @ + 1]
        /\ UNCHANGED plain

\* The last reference goes, or a cycle keeps it; the engine collects cycles
\* when it likes.
Drop(w) ==
    /\ w \in Alive /\ wrap[w].held
    /\ \/ Freed({w})
       \/ wrap' = [wrap EXCEPT ![w].held = FALSE] /\ UNCHANGED <<slot, mapped, pin>>
    /\ UNCHANGED <<gen, plain, mark>>

Collect ==
    /\ Tangled # {}
    /\ Freed(Tangled)
    /\ UNCHANGED <<gen, plain, mark>>

\* FILEUnMapBase of io._munmap: the slot, if any, whose map is at the base.
ByBase(a) == {f \in Fds : slot[f] = a}

\* abc.close: detaches the views, trims a booked file by its path, which may
\* throw (then nothing more is done), and releases the slot.  Once detached it is a no-op.
Close(w) ==
    /\ Viewed(w)
    /\ wrap' = [wrap EXCEPT ![w].view = FALSE]
    /\ \/ /\ slot' = SlotLess(ByBase(wrap[w].base))
          /\ mapped' = IF ByBase(wrap[w].base) = {} THEN mapped ELSE mapped \ {wrap[w].base}
       \/ wrap[w].kind = "slot" /\ UNCHANGED <<slot, mapped>>
    /\ UNCHANGED <<gen, plain, pin, mark>>

\* io.open, io.close of other files, each closed once.
Open ==
    /\ FreeFds # {}
    /\ plain' = plain \cup {Lowest(FreeFds)}
    /\ UNCHANGED <<wrap, slot, gen, mapped, pin, mark>>
CloseFd(f) ==
    /\ f \in plain
    /\ plain' = plain \ {f}
    /\ UNCHANGED <<wrap, slot, gen, mapped, pin, mark>>

Next ==
    \/ MmapFails
    \/ /\ refused' = FALSE
       /\ \/ \E w \in Wraps, a \in Addrs :
                \/ MmapSlot(w, a)
                \/ \E kind \in {"once", "ram"} : MmapFree(w, a, kind)
          \/ \E w \in Wraps : Drop(w) \/ Close(w)
          \/ Collect
          \/ Open
          \/ \E f \in Fds : CloseFd(f)

Spec == Init /\ [][Next]_vars

-----------------------------------------------------------------------------
(* Memory that a view can reach is mapped and no other wrapper's, and stays *)
(* so whatever is unmapped, collected late or given out again: a stale      *)
(* record never frees a slot or an address that has a new owner (io.c:      *)
(* "so a stale husk never frees a reused slot").                            *)
ViewsMapped ==
    /\ \A w \in Alive : Viewed(w) =>
          wrap[w].base \in mapped /\ (wrap[w].kind = "slot" => OwnsSlot(w))
    /\ \A v, w \in Alive :
          Viewed(v) /\ Viewed(w) /\ wrap[v].base = wrap[w].base => v = w

(* Nothing is mapped and no descriptor booked without a wrapper whose end   *)
(* gives it back, so none is left when the wrappers are gone.               *)
NoneOrphaned ==
    /\ mapped = Unmaps(Alive)
    /\ Booked = Closes(Alive)

(* The pins count what is not yet freed and are never past the marks, so    *)
(* that the sweep they pay for comes; and a map is refused for want of a    *)
(* descriptor only when no dead wrapper has one, or when so many lived at   *)
(* the last sweep that the mark is out of reach (io.c: "the next mark is    *)
(* one floor further up, so it can't run away", "what the collector reaps   *)
(* serves this very map").                                                  *)
SweepsInTime ==
    /\ pin = [map |-> Cardinality(Alive), fd |-> Cardinality(Slotted)]
    /\ pin.map <= mark.map /\ pin.fd <= mark.fd
    /\ refused => \/ Tangled \cap Slotted = {}
                  \/ mark.fd > Cardinality(Fds \ plain)
=============================================================================
