------------------------------- MODULE MCParts -------------------------------
(***************************************************************************)
(* Parts that share nothing, checked side by side: Init picks the one that *)
(* runs.  Handles and Require lend their own names; the others are         *)
(* instances.  LeafNotes has no part of its own: what it assumes of the     *)
(* leaves is evaluated here.                                               *)
(***************************************************************************)
EXTENDS Handles, Require, LeafNotes, TLC

CONSTANTS w1, w2, w3, a1, a2,                                        \* Maps
          Wraps, Addrs, Fds, PinMaps, PinFds, MaxGen,
          Servers, Dgrams, Watchers, MaxQueue, MaxOpens,             \* Drains
          Keys, Vals, Per, MaxRows                                   \* PupPage

VARIABLES part,
          wrap, slot, gen, mapped, plain, pin, mark, refused,
          own, opens, inc, sock, track, table, loop, event, spoilt,
          lane, run, toc, needle, got, from

MCWraps == {w1, w2, w3}
MCAddrs == {a1, a2}
MCFds == 1 .. 2
MCSymmetry == Permutations(MCWraps)

\* Two builds: one has a script that the other has not.
MCPacks == [old |-> <<"main", "gone">>, new |-> <<"main">>]

mapsVars == <<wrap, slot, gen, mapped, plain, pin, mark, refused>>
drainsVars == <<own, opens, inc, sock, track, table, loop, event, spoilt>>
pagesVars == <<lane, run, toc, needle, got, from>>
partsVars == <<part, vars, mapsVars, drainsVars, requireVars, pagesVars>>

Table == INSTANCE LeafTable
Leaves == Table!Surface

M == INSTANCE Maps
D == INSTANCE Drains
P == INSTANCE PupPage

ASSUME PagesHold == P!PupPageAssumption
ASSUME MapsHold == M!MapsAssumption
ASSUME DrainsHold == D!DrainsAssumption
ASSUME ScriptsHold == RequireAssumption

NoPages == lane = "" /\ run = <<>> /\ toc = <<>> /\ needle = 0 /\ got = P!Unasked /\ from = <<>>

PartsInit ==
    /\ part \in {"maps", "handles", "drains", "require", "pages"}
    /\ Init /\ M!Init /\ D!Init /\ RequireInit
    /\ IF part = "pages" THEN P!Init ELSE NoPages

PartsNext ==
    /\ UNCHANGED part
    /\ \/ part = "maps" /\ M!Next /\ UNCHANGED <<vars, drainsVars, requireVars, pagesVars>>
       \/ part = "handles" /\ Next /\ UNCHANGED <<mapsVars, drainsVars, requireVars, pagesVars>>
       \/ part = "drains" /\ D!Next /\ UNCHANGED <<vars, mapsVars, requireVars, pagesVars>>
       \/ part = "require" /\ RequireNext /\ UNCHANGED <<vars, mapsVars, drainsVars, pagesVars>>
       \/ part = "pages" /\ P!Next /\ UNCHANGED <<vars, mapsVars, drainsVars, requireVars>>

PartsSpec == PartsInit /\ [][PartsNext]_partsVars

-----------------------------------------------------------------------------
(* Each of these is the property of its module, and holds of the other      *)
(* parts because they stay as they began.                                   *)

\* A view that works is over memory mapped for it alone (io.c, cont.c).
ViewsMapped == M!ViewsMapped
\* Nothing is left mapped or booked without a wrapper (io.c).
NoneOrphaned == M!NoneOrphaned
\* Maps are not refused while dead wrappers hold descriptors (io.c).
SweepsInTime == M!SweepsInTime
\* What a server, socket or watcher tells came to it while open (net.c, fsw.c).
OwnEvents == D!OwnEvents
\* Between handlers pol watches what is open (net.c, fsw.c).
StaysWatched == D!StaysWatched
\* Events are called lost only when they were (fsw.c).
LostIsReal == D!LostIsReal
\* A get finds a row of its key if the run has one (pup.c).
GetExact == P!GetExact
\* So does a range on the lanes ordered by key (pup.c).
KeyedRangeExact == P!KeyedRangeExact
=============================================================================
