# Specifications of quickjab

TLA+ specifications of the parts of quickjab where control passes back and
forth between C, JavaScript and the application: the event loop and its
handlers, the timer wheel, the sockets, the index handles, the memory maps and
other handles that C gives out and takes back, the unpacking of the built-in
scripts, and the leaf functions as such. TLC checks them on small instances;
TLAPS proves what is stated as a theorem for every value of the constants.

Line numbers below are those of `src/`.

## 1. The system

quickjab is one process with one JavaScript thread. C files export leaf
functions to the engine; most of them also carry a *bundle*, JavaScript source
in a C string, that keeps state of its own and calls the leaves. Nothing runs in
parallel, but almost everything calls back: the loop calls handlers, handlers
emit events, listeners are application code that may call anything again,
`pol.run` included. Concurrency in the usual sense comes from outside: the
kernel, the peer of a socket, other processes on the same files, and time.

| component | state | operations | hard because | correct when |
|---|---|---|---|---|
| Event loop, `pol.c` | POL's tracked fds and its one timer; the JS `table`, `timer`, `pol.default`; `JABC_POL_RUNNING`, `_THREW`, `_EXC` | watch, unwatch, more, timer, untimer, sooner, run, stop, init, default; the routers `_fd`, `_timer` and the C trampolines | handlers run inside the loop and change what it tracks; several of one poll(2) round may throw; loops nest; the decision to drop a source is made twice, in JS and in C | both sides forget together; the first exception comes out of `run`, and only it; no heap is freed under a loop |
| Timer wheel, `net.c` | the Map `TW`, `twId`, `twOn` | setTimeout, setInterval, clearTimeout, the tick | three layers remember whether the timer is on; callbacks act on the batch being fired; a deadline is rounded three times; promise jobs run before the returned period counts | every timer is covered by the one C timer; none fires early or twice; the loop does not end under a pending one |
| Stream sockets, `net.c` | the Socket fields; the kernel's socket; the fd number in pol's table | write, end, destroy, `_poll` and its parts, the listeners | a listener may act between any two steps of `_poll`; the kernel re-uses fd numbers; partial sends; EOF, FIN and reset in any order | data before FIN, once; always watched for what is owed; closed in the end; never another's fd |
| Server, Dgram, Emitter, `net.c` | listening fd, listener lists | listen, accept loop, bind, send, message, close, emit | close inside its own event; a loop on a number that may be re-used; a watch that fails | what is told came to the teller while it was open; what is open is watched |
| Index handles, `pup.c`, `cont.c` | slot table; per slot the mapped runs, memtable, `busy`, `epoch`, cursor, run views | open, close, put, commit, drop, get, range, seek, next, run | raw pointers of scans, cursors and views into memory that every write may move or unmap; a range's callback runs any script | no pointer outlives what it points at; reads see one ordered map, newest first |
| Page table, `pup.c` | a run's table of contents | `jpup_page` in get and range | page boundaries; a cell that is the answer itself | same answer as without it |
| Maps and files, `io.c` | FILE's slots and their generations, a record for each wrapper, pins and marks | mmap, ram, munmap, the free_funcs, sweep; open, read, write, stat, spawn... | wrappers die late, when their address and descriptor have new owners; descriptors run out while dead wrappers hold some | a view that works is over memory that is mapped for it alone; nothing is left mapped without a wrapper; the sweep comes in time |
| Bundle `cont.c` | the buffer's `_map`, `_path`, `watermark` | abc.ram, mmap, book, over, close, index | close moves the buffer away from under its views; containers over one buffer share its watermark | detached before unmapped |
| `buf.c` | four cursors | feed, fed, skip, shift, grow | order of cursors under growth | `past <= data <= idle <= end` |
| `fsw.c` | watcher fd, Buf, wd tables | watch, stop, drain, lost | stop and watch inside a callback of the drain | what is told is of the watcher that runs; "lost" is said of losses |
| `git.c`, `igno.c` | slots with a generation; a list of parked boxes | open, read, match, close; the pin's free_func | numbers given out again; pins collected late | a call works on its own thing or nothing; no slot is lost |
| `require.c`, `jsrcpack.*` | module cache, extracted pack | require, packExtract | several processes extract at once; a crash leaves `.tmp-<pid>` | the directory of a pack is whole whenever it is there |
| Leaves (`arg.c` and all files that export functions) | pointers into views, references, positions, the pending exception: all for one call | the gates of `arg.c`; some 180 leaves | any conversion may run JS, which may move every buffer; many ways out of each | no pointer is used after JS ran; positions are inside; references are given back; failures throw |
| `main.c` | engine, job queue | run file, drain jobs, `pol.run`, tear-down | order of tear-down | the loop is driven until nothing remains |

abc and dog (POL, FILE, SOCK, HIT, Pup...) are libraries outside this
repository. What is assumed of them is read off the calls and comments here and
stated at the head of each module.

`PROJECT.json` lists the components with their sources, the hazards with their
lines and, under `map`, the source lines of every definition.

## 2. Modules

    Timers   --- Timers_proofs (TLAPS)
       \--- MCTimers
    Pol      --- Pol_proofs (TLAPS)
       \--- MCPol
    Socket   --- Socket_proofs (TLAPS)
       \--- MCSocket
    Pup      --- Pup_proofs (TLAPS)
       |--- MCPup
       \        Pup implements Index (INSTANCE ... WITH)
    PupPage  --- MCPupPage
       \---------------\
    Maps, Handles, Drains, Require --- MCParts      one of the five at a time
       |                                 \--- Parts_proofs (TLAPS): Maps, Drains, PupPage
       Handles_proofs, Require_proofs (TLAPS)
    LeafSteps --- TextLeaves, ContainerLeaves, SystemLeaves --- LeafTable --- MCLeaf, MCParts
    LeafKnown --- Leaf --- MCLeaf
       \            \
        LeafNotes --- Leaf_proofs (TLAPS)
           \--- MCParts             evaluates what Leaf_proofs assumes

**Pol.** JavaScript and C share one stack, `stack`; a frame is a POLLoop with
what is left of its last poll(2) result, or a handler it called. Scripts and
handlers call `Watch`, `Unwatch`, `SetDefault`, `Stop`, `PolInit`, `Run`.
`Deliver` is a trampoline and a router up to the call of the handler (or the
router's release of a source nobody claims); `Keep`, `Drop`, `Negative`, `Throw` are the ways
a handler ends, with what the router does after it. Then `JABCPolCall` drains the
promise jobs (pol.c:66) before POL sees what the router returned: the frame becomes
one of `Jobs`, scripts may call everything again, and `TakeAnswer` is what the
trampoline's answer does to POL in the end. Socket and Drains have the same window,
and Timers has it as `TickReturn`. `RunEnd` is
the end of POLLoop and of `JABCPolRun`. The timer is one more source. External:
a POLLoop delivers the rest of a round after `POLStop`, and whether a source
that was untracked by its own handler is tracked again by the value the handler
returns is left open.

**Timers.** The wheel of net.c with `pol._timer` and the C trampoline, in time
quanta of which `MS` make a millisecond, so that `Math.ceil` in `twTick` and
`ms | 0` in `twArm` are visible. `setTimeout`, `setInterval`, `clearTimeout` may be
called by the script, by a callback and by a promise job (`ScriptRuns`).
`TickBegin` collects the batch, `Fire` is one round of its second loop up to the
call, `TickEmpty` and `TickRearm` compute the period, `TickReturn` is the return to POL
after the job queue was drained. `Throw`, `PolInit`, `UserTimer` and `OtherTick`
are what else may happen to pol's timer; the history variable `taken` records
that one of the first three did. External: `PolMerges` says what POL makes of a deadline asked for
(`pol.sooner`) while its trampoline runs. The checks take TRUE, the earlier of
the two survives; with FALSE a timer set by a callback could be lost, and
`LoopDrained` does not hold. The repository cannot settle it, so it is a named
constant and a stated assumption of two theorems.

**Socket.** A socket object and its connection share a number; `conn`, `track`,
`mask`, `table` are the kernel's and pol's views of each fd number. `Deliver` is
pol's trampoline calling `_poll`; a run of `_poll` is a frame with a program
counter (`PollError`, `Flush`, `Drained`, `Receive`, `Hangup`, `Ended`, `Fatal`,
`Mask`, `ReturnZero`), and every `emit` pushes a listener frame that may `Write`,
`End`, `EndWith`, `Destroy` or `Open` before it returns or throws. When `_poll` has
returned, what it returned is in `ret` and the frame is at "jobs": promise jobs may
do what listeners may, and only `TakeMask` gives the mask to POL, or drops the fd for
a 0. The peer sends, reads, closes and resets between any two steps. `Allow` names what applications
do besides the plain use (`Habits`): each is legal, and each breaks some promise of
the others (a throw, by design, orphans its socket). "reopen" is to open a socket
while the event of a closed one is handled, from a listener or from a job after it;
"lateWrite" is to write or end in a job when the mask that waits has no OUT (`Late`).
Jobs that write or end when it has OUT, or do so on the other socket, are plain use; a job that
destroys does it outside `_poll` ("destroyOutside"). So the main run leaves the habits
out, two runs show what two of them break, section 4 says what "reopen" does, and
`Socket_wild` allows all of them and checks what still holds.

**Pup.** One handle of the kv64 lane. Mappings are numbers given once; an entry
of a scan or of the cursor carries the mapping, or the generation of the
memtable, it points into, and the rows it saw there. An entry whose rows are used
up stays, empty: HIT passes over it. `Intact` says that the pointer is still good. `Put`, `Commit`, `Drop`, `Close`, `Open` are the leaves, each
with the whole of `JABCPupMoved` (detach the views, count the epoch); `RangeStart`,
`RangeRow`, `RangeEnd` are a scan with the script running in its callback; `Seek`,
`Pull` the cursor; `Run`, `Detach` the run views. External: when dog's Pup folds,
seals and merges is left open, so every schedule of the ladder is covered.

**Index.** What abc.index promises: one ordered map, scans over the rows of
their range, one cursor. Written without runs or memtable; `Pup!OneMap` is the
statement that Pup implements it, with `dict` mapped to the newest value of each
key over all sources.

**PupPage.** `get` and `range` in one run, on a lane ordered by key (`kv64`; `u64`
is the case without values) and on one ordered by key and value (`wh128`). The
run, its table of contents or the lack of it, and the needle are chosen by
Init, so a check covers every run up to the bound.

**Maps.** A wrapper is a typed array over a mapping; its record (`wrap`) has what
the free_func of io.c needs. `MmapSlot`, `MmapFree` and `MmapFails` are `io._mmap` and
`io._ram`, each with the whole of `JABCPinSweep` before it; `Drop` is the end of the
last reference, or of all but a cycle's, `Collect` the engine's collector, `Close`
abc.close with the detaching, the trim that may throw and `io._munmap`. `Open` and
`CloseFd` are other descriptors, which come from the same lowest-free numbers.
FILE's table of slots is external, as are the addresses: any that is free may be
given next.

**Handles.** Three ways to hand C's things to JS: the number of a slot (pup), a pin
with slot and generation (git), the address of a recycled box (igno). Scripts use
and close handles in any order, after a close too; a pin is collected some time
after it was dropped (`PinFree`). `reached` is what the last call worked on, `stale` the
kinds of which a handle was used after its own close.

**Drains.** The three handlers that take all there is before they return to pol,
with a script at each `emit` (`Listening`) that closes and opens any of the objects. `own`
is the object's number, `sock` what the kernel has at it, `track` and `table` POL's
and pol's view. A watch may fail after pol's table was set (`Open`); a throw costs
the number (`Throws`). `inc` and `sock[n].inc` count openings, so that an event can be
told from one of an earlier opening of the same object. `ReturnIn`, `ReturnZero` and
`Throws` are a handler's end up to pol's table; the jobs run, with the script at them,
until `TakeMask` does what POL does. An object opened on the number in between is lost
with a 0, and `spoilt`.

**Require.** `packExtract` in several processes, a step for each call that another
process can see: probe, mkdir, create and write of each file, rename, rmdir. Any
of them may fail, a process may crash between any two, and its pid may come
again. `Packs` gives two builds different sets of files.

**Leaf and its tables.** A C leaf runs to its end, but for the JS that its
conversions run. What arg.c's invariant is about is the order of a few kinds of
steps, so each leaf is written as that order: `LeafSteps` has the steps (convert an
argument, unwrap a view, take a position, compare it, keep a reference, drop it,
use a pointer, fail and how) and the gates of arg.c as short sequences of them;
`TextLeaves`, `ContainerLeaves`, `SystemLeaves` have the leaves, named as in the code; `LeafTable`
lists by file what is installed, the value of `Leaf`'s constant `Installed`. `Leaf` executes
one, the steps it has left being `code`: JS may run at every conversion of
an argument that is not known to be a primitive (`Converts`), at every property
read and call (`Calls`), and then moves any of the bases (`Stale`) and may throw.
A leaf that answers may leave an exception pending, which the next leaf finds
(`Begin`). Lengths and positions are at most `MaxLen` and one past it. Nothing is assumed of the
properties of an argument: each may be a getter that answers with an array of its own, which
lives by the leaf's reference alone (`ViewVia`). Where a leaf of the code
breaks a rule its name is in one of five sets of `LeafKnown` (`Reentrant`, `Unkept`, `Swallowers`,
`Misreaders`, `Backward`), and the property is claimed of all others.

`LeafNotes` has no state: it says what can be known of a leaf before each of its
steps without the sizes of its arrays, and what a step must find known to be safe
(section 5). It models no code of its own, only `Leaf` once more, from the outside.

Definitions marked `(mutant)` are plausible bugs of the definition beside them. They take no
part in a specification; each property is known to fail when one replaces its
original, as listed under `mutants`.

## 3. Runs

| run | bounds | shows |
|---|---|---|
| Pol | 2 fds and the timer, 2 handlers, stack 2 | `FirstThrowKept`, `FreeOutsideLoop`, `ReleasedSilent`, `ThrowSurfaces` |
| Timers | 2 timers, delays 0 and 1.5 ms, an hour of 4 ms, scripts run for 1 ms | `WheelArmed`, `FireOnce`, `ClearSticks`, `LoopDrained`, `DueFires`, `NeverEarly` |
| Timers_hour | delays 0.5 ms and 4 ms | *violated*: `LoopDrained` |
| Socket | 1 fd number, 2 sockets in turn, 2 + 1 chunks | `LiveWatched`, `PendingPolled`, `FinIsOwn`, `FinAfterData`, `NothingLost`, `QuietAfterClose`, `ClosesAfterEof`, `WritesFlush` |
| Socket_wild | 2 fd numbers, 2 sockets, all habits | `OwnFd` |
| Socket_drainend | 1 socket, 2 chunks | *violated*: `FinAfterData` |
| Socket_late | 1 socket, 1 chunk | *violated*: `PendingPolled` |
| Pup | 2 keys, 2 values, 2 runs, 3 mappings, 5 changes, 2 nested scans, not all at once (below) | `CursorIntact`, `ScansIntact`, `ViewsIntact`, `OneMap` |
| PupPage_start | runs up to 5 rows, 2 to a page, 6 keys, 2 values | *violated*: `StartExact` |
| Parts, maps | 3 wrappers, 2 addresses, 2 descriptors, marks after 2 maps and 1 descriptor | `ViewsMapped`, `NoneOrphaned`, `SweepsInTime` |
| Parts, handles | 3 handles, 2 slots of each kind, 3 openings | `OwnCalls`, `SlotsHeld` |
| Parts, drains | 1 server, 2 UDP sockets, 1 watcher, 2 numbers, 2 waiting, 3 openings | `OwnEvents`, `StaysWatched`, `LostIsReal` |
| Parts, require | 3 processes, 2 pids, 2 builds | `Served`, `RaceWins` |
| Parts, pages | as PupPage_start | `GetExact`, `KeyedRangeExact` |
| Leaves | lengths to 2, positions to 3 | `BaseFresh`, `PositionsInside`, `RefsDropped`, `OutcomeTold` |
| Leaves_reentry | lengths to 1 | *violated*: `NoReentry` |

Parts is one run: its module is the disjoint sum of five specifications that share
nothing, `part` says which of them Init chose, and the others stay as they began.
When it starts TLC also evaluates the assumptions of its modules, among them
`LeavesAgree` of LeafNotes, for all leaves of LeafTable.

Why the bounds are enough for what is asked:

* Pol: two sources ready in one round are what it takes to throw twice, to
  unwatch the other, and to deliver to a source that is gone; two handlers tell
  the old handler from the new and from pol.default. A stack of 2 is one loop and
  one handler, or the jobs after it; nested loops are left to section 4.
* Timers: two timers make a batch in which one callback clears, adds or throws
  before the other; 1.5 ms is a delay that is not a whole number of milliseconds.
  `Horizon` bounds when scripts act; the loop may wait beyond it (`MaxTime`), so every
  deadline set can be reached. `Hour` stands for 3600000.
* Socket: one number forces re-use at every open; two chunks make a partial
  send; four frames are a `_poll` and a listener, with room to spare.
  Socket_wild has a second number so that two sockets live at once; its chunks are one
  each. Socket_late needs a `_poll`, the job after it, and a chunk to lose.
* Pup: `Cap` is 3 where the code has 64; two runs with both parts of the memtable
  are then one source too many, which is the limit reached. Mappings, changes
  and nested scans bound the behaviours, not the handle. `Bounded` (MCPup) lets a behaviour
  have four changes while all rows have one value, three when there are two
  values, and five, without scans, when only one key is written: an open and four puts,
  the shortest way to too many sources. The two values are symmetric: the specification only compares them
  for equality.
* Maps: two addresses and two descriptors for three wrappers are given out again
  under records of both earlier owners; a mark of one descriptor is the smallest
  that a map can be under, at or past.
* Handles: three openings in two slots give a slot a third owner while a pin of
  the first may still wait.
* Drains: two numbers, so that a number closed in a listener has a new owner of the
  same or another kind while the other number is live; two things waiting are one
  more than the handler has taken.
* Require: three processes are a winner, a loser and the heir of a pid; the longer
  pack has two files, so that a crash can fall between them.
* Leaves: a length of 2 has positions before, at and past the end, and two
  positions that are in order or not. A loop of a leaf is run any number of times.
  `Rounds`, of LeafNotes, is no bound on what is checked: a search that ends too
  early makes the leaf disagree with its notes.
* PupPage: five rows at two a page are a first, a middle and a short last page.
  With two values a key of wh128 can have a row at the end of one page and one
  at the beginning of the next.

TLC checks for deadlock except where a system may stop: all timers fired, all
sockets closed and opened as often as the bound lets, all changes made.

**Fairness.** `Pol!FairSpec`: a loop on top of the stack goes on, and a handler
returns or throws (code that never returns blocks this process by nature).
`Timers!FairSpec`: the same for the tick, and time passes. `Socket!FairSpec`: `_poll`
and the listeners proceed; strong fairness of `Deliver(f)` because poll(2) reports
all ready fds of a round and POL delivers each; the peer keeps reading what it
is sent, without which no flush could end. No fairness is assumed of scripts,
of the peer's sending or of its closing.

## 4. What the code does otherwise

A name in parentheses is a run that TLC refutes; the others are exceptions that the
properties of a passing run name, or were seen in a run of the kind described.
All are under `findings`.

* **A timeout of an hour or more** (Timers_hour). `twTick` returns the whole delay,
  `pol._timer` (pol.c:249) reads 3600000 or more as "remove", and `twOn` stays up.
  The loop ends without the timer.
* **A nested `pol.run`** (Pol with `Nesting = TRUE` and the invariant `RunningFlag`) clears `JABC_POL_RUNNING` on its return into a
  handler of the outer loop; "YES while POLLoop is on the stack" (pol.c:24) is no
  longer so, and `pol.init` is not refused there.
* **end(data) in 'drain'** (Socket_drainend). `_flush` emits 'drain', then sends the
  FIN without looking at the buffer again.
* **A write in a promise job** (Socket_late), such as an async 'data' listener that answers after an
  `await`. `JABCPolCall` runs the jobs after `_poll` has returned its mask and before POL has
  it (pol.c:66, 75): `write` asks for OUT (net.c:323), the older mask IN replaces it, and the bytes wait until something else
  happens to the socket. `end()` likewise.
* **A socket opened while the event of a closed one is handled** (Socket with `Allow = {"reopen"}` and the invariant
  `LiveWatched`), such as a
  reconnect in 'close' or in a promise job after it, gets the freed number. `_poll` returns 0:
  `pol._fd` deletes a new socket's entry (one that a job opens comes too late for that), and then
  POL drops the fd.
* **wh128 range at a page boundary** (PupPage_start). The needle is the key with
  value 0. When the next page begins with the key, its cell is taken for the
  start, so rows of the key at the end of the page before are skipped.
* **A cell as the start of a range** (PupPage with the invariant `RangeExact`). What is taken then (pup.c:588) is
  a pointer into the table of contents, not into the run, also when the key has one row only
  and nothing is skipped.
* **Conversions with a pointer in hand** (Leaves_reentry). `JABCcfoldHi64` (cfold.c:20)
  calls `JS_ToCStringLen` without asking for a string first, and six leaves of cfold.c
  call it over unwrapped views; `rowUri` and `rowTime` (ulog.c:322, 334) and
  `_igno_match` (igno.c:68) convert with a box in hand. arg.c:14: "ONCE A VIEW IS
  UNWRAPPED, NO LEAF MAY LET JS RUN BEFORE IT IS DONE WITH THE POINTER".
* **fsw.drain over freed memory** (Leaf, `Unkept`). `JABCBufOf` frees the `bytes` it read (arg.c:429) and its caller uses the
  base (fsw.c:68). A Buf's own `bytes` is held by the Buf; one that a getter or Proxy made
  for this read is not, the case for which arg.c:296 keeps the runs of a list and `JABCBufOfKeep` the `bytes`.
* **Exceptions** (Leaf, `Swallowers` and `Misreaders`). Leaves that answer null or 0 when
  a gate threw leave the exception pending, and `io.readdir` (io.c:419) that of an
  option's getter; `git.close` (git.c:251), `git.pack`
  (pack.c:557) and `io.spawn` (io.c:926, 954) take any pending exception for their own.
  `_ulog_open` fails without one for a path that is too long, where ulog.c:262 says
  that it throws.
* **A reverse seek past the watermark** (ulog.c:176; Leaf, `Backward`) makes a slice
  whose head is past its end.
* **io.spawn** (io.c:935) loses pid and pipes when its answer cannot be built.
* **Stale handles.** `idx.close` keeps `_h` (cont.c:714), and a slot number is all there
  is: a closed index may read, write and close the slot's next one (pup.c:113). The
  address of an ignore box likewise (igno.c:42). git's generation prevents it.
* **Servers closed in 'connection'** (net.c:348) go on accepting at the number, whoever
  has it now. **UDP sockets** (net.c:378) closed in 'message' return 0 and with
  that delete the watch of the number's next owner.
* **fsw.stop in a callback** (fsw.c:136) is reported as lost events; stop and watch
  in a callback let the old loop go on over the new Buf.
* **A leftover `.tmp-<pid>`** (require.c:92) of another build is adopted with its files.
* **git.open** refuses (git.c:120) while pins that nobody has collected hold slots;
  `io.mmap` collects first.

Seen while modelling, and part of the models, without a run of their own:
clearTimeout does not stop a timer that the running tick has already collected
(net.c:412; `ClearSticks` says what does hold); a source dropped by a throw or a
negative number keeps its entry in the JS table (pol.c:242), so the fd watched
again without a handler goes to the old handler; a refused `pol.init` has cleared
the JS side already (pol.c:236-237); `destroy()` outside the socket's own `_poll`
leaves the fd watched, and poll(2)'s NVAL makes an 'error' after 'close'
(net.c:332); after 'drain', a destroyed socket half-closes whatever has its fd
number by then (net.c:296).

## 5. Proofs

`Timers_proofs` proves six theorems about `Spec` (no fairness), for every `MS`, `Hour`,
set of delays, and bound that satisfy `TimersAssumption`:

| theorem | states | further assumptions |
|---|---|---|
| TypeCorrect | `[]TypeOK` | none |
| FiresOnce | `[]FireOnce` | none |
| ClearsStick | `[]ClearSticks` | none |
| NotEarly | `NeverEarly` | none |
| AlwaysArmed | `[]WheelArmed` | `ShortDelays`, `PolMerges` |
| DrainsBeforeReturn | `LoopDrained` | `ShortDelays`, `PolMerges` |

`FireOnce` is not inductive: that a timer fired once forbids a second firing only
because it left both the Map and the batch. `ShotInv` adds that a one-shot held by either
has not fired, and that everything in the batch was due when collected,
which also gives `NotEarly`.

`WheelArmed` speaks of the states where script code runs or the loop waits, while the
deadline it is about is made during the tick. `ArmedInv` therefore has one part for
each phase: `Waiting` (`twOn` exactly when `timer` is the wheel's and POL is armed
early enough for every entry), `Ticking` (the entry POL served is still there;
new deadlines are in `asked`) and `Jobs` (the period computed, with what the jobs
ask for since, reaches every entry; `late` is the time the jobs take). `SoonInv`
says that no entry is an hour away: it makes a returned period of an hour mean
"empty", and it is where `ShortDelays` is needed; Timers_hour is what happens
without it. The arithmetic of the rounding is in lemmas of its own
(`DivMS`, `ArmBound`, `PeriodBound`).

`Handles_proofs` and `Require_proofs` prove the safety of two other modules:

| theorem | states | assumptions |
|---|---|---|
| CallsAreOwn | `[]OwnCalls`, any number of slots, handles and openings | none |
| SlotsStayHeld | `[]SlotsHeld` | none |
| DirIsWhole | `[]Served`, any number of processes, pids, builds and files | `RequireAssumption` |
| LosersWin | `[]RaceWins` | `RequireAssumption` |

`OwnCalls` speaks of the last call; what it rests on is a relation of handles and
slots. `HInv` has it in two parts. `SameGen`: a slot of git with a pin's generation has the
pin's store; it is kept because `gitGen` is above every generation given
(`Numbered`) and no two handles are of one thing (`Distinct`). `OwnSlot`: the slot of an
open index or box is its handle's own; it is kept until a handle of that kind is
used after its own close, which is as far as these two kinds can be trusted (section
4). `SlotsHeld` is needed for `OwnSlot`, since a box that is parked twice, or while
open, would be given to a second handle.

`RequireAssumption` says that a pack is a sequence of its files and that `NoDir` is none of
the directories. `Served` depends on what each process has in its `.tmp-<pid>`: `Untars`
says which files are whole at each step, `OwnPid` that no two live processes have
the same, `Clean` and `Owned` that without an heir there are no others' files in it.
`Lost` is the heart of `RaceWins`: whoever gives up without an I/O error found the
directory there. The lemma `Frame` says that all this is untouched for the other
processes when p moves, so each action owes only the facts about p.

`Pol_proofs`, for any sources, handlers, depth of stack and bounds:

| theorem | states | assumptions |
|---|---|---|
| FirstThrowIsKept | `[]FirstThrowKept` | `Nesting = FALSE` |
| FreesOutsideLoop | `FreeOutsideLoop` | `Nesting = FALSE` |
| ReleasedStaySilent | `ReleasedSilent` | none |

The assumption is no convenience: with a loop in a loop both properties fail
(section 4, "A nested `pol.run`"), and the Pol run checks them under it too. What they
rest on is `OneLoop`: the stack is empty, or it is one loop with at most one handler, or the jobs after one, on it,
and `running` is up exactly when it is not empty. `ReleasedSilent` needs `Silent`: a source that is
`released` has no handler in the table, whatever POL still tracks.

`Socket_proofs`, for any number of sockets, fd numbers, chunks and frames:

| theorem | states | habits left out of `Allow` |
|---|---|---|
| SocketsOwnTheirFd | `[]OwnFd` | none |
| ChunksAreKept | `[]NothingLost` | none |
| ClosedSocketsAreQuiet | `QuietAfterClose` | destroyOutside |
| FinsAreOwn | `[]FinIsOwn` | reopen |
| FinsComeLast | `[]FinAfterData` | reopen, endInDrain |
| LiveSocketsAreWatched | `[]LiveWatched` | reopen, throws |
| PendingSocketsArePolled | `[]PendingPolled` | reopen, throws, lateWrite |

The Socket run has no habits at all (`Allow = {}`), so the theorems say more than the run does: each names just those
habits that really break it. The common invariant `Inv` says who owns what
(`Owned`: an open socket's number is its own with the kernel, and what the kernel and pol have at
a number is the socket it was given to), what a frame may assume (`Framed`: its socket is at the number
it was called with, and a `_poll` is at the bottom of the stack) and what a place in
`_poll` tells of its socket (`Served`). `Accounts` adds that a connection nobody opened has
nothing. `NumberFree` is where "reopen" matters: until POL has dropped the number of a closed
socket, nobody has it. `Watched` and `Polled` are the last two
properties without "between events": they hold at every step. What they owe to the jobs are
two facts about the answer that waits while the jobs run: a 0 is that of a closed
socket (`Dropped`, where "throws" matters), and the mask of a socket that
owes data or a FIN has OUT (`Promised`, where "lateWrite" does), so `TakeMask` takes away
nothing that is needed.

`Pup_proofs`, for any keys, values, stack, schedule of the
ladder and depth of scans:

| theorem | states | assumptions |
|---|---|---|
| ViewsStayMapped | `[]ViewsIntact` | `PupAssumption` |
| ScansStayIntact | `[]ScansIntact` | `PupAssumption` |
| CursorStaysIntact | `[]CursorIntact` | `PupAssumption` |
| HandleIsOneMap | `OneMap` | `PupAssumption` |

`PupAssumption` says that keys are numbers, that `None` is no value and that the bounds are
numbers. None of the three safety properties is inductive. `Held`: `busy` is up exactly while a scan runs, each
frame's `was` tells whether one ran outside it, and while it is up the
handle is open and its memtable sorted; so no write passes its guard, and sorting moves nothing. `Current`:
no cursor is of a later epoch, and under one of the present epoch the memtable is sorted.
`Lending`: a view is of the run at its index, every buffer JavaScript holds is a view's, and `nview = 0`
means that there are none, which is what `JABCPupUnview` trusts (`Counted` makes it so). `ScansSafe` and
`CursorSafe` are the two properties without their condition that the handle is open, which the others supply.

The refinement is proved step by step: each action of Pup has a lemma that names the
action of Index it is, or says that Index sees no change. Its core is
the algebra of `Over`, one layer of rows over another: it is associative, so a
seal, a fold or a merge of any tail of the stack keeps `Whole` (`SealedWhole`,
`SourcesHoldWhole`), and `NewestOf` of two stacks is one over the other (`NewestOfConcat`). `MapInv` adds to the
invariant above that no layer holds a value its key was never given (`Given`), that a
new mapping is none of the runs' (`Below`), that the rows a scan has left are rows of the map
(`ScansHold`) and that a current cursor holds exactly those past its bound (`CursorHolds`).

`Parts_proofs` is about the instances that MCParts makes of Maps, Drains and
PupPage; with Handles_proofs and Require_proofs it proves all of what the Parts run checks.

| theorem | states | assumptions |
|---|---|---|
| ViewsStayMapped | `[]ViewsMapped`, any wrappers, addresses, descriptors, marks, generations | `MapsAssumption` |
| NothingOrphaned | `[]NoneOrphaned` | `MapsAssumption` |
| SweepsComeInTime | `[]SweepsInTime` | `MapsAssumption` |
| EventsAreOwn | `[]OwnEvents`, any servers, sockets, watchers, numbers, queues | `DrainsAssumption` |
| OpenStaysWatched | `[]StaysWatched` | `DrainsAssumption` |
| LossIsReal | `[]LostIsReal` | `DrainsAssumption` |
| GetIsExact | `[]GetExact`, any keys, values, rows and rows to a page | `PupPageAssumption` |
| KeyedRangeIsExact | `[]KeyedRangeExact` | `PupPageAssumption` |
| PartsSafe | all eight, of `PartsSpec` | the three above |

`MapsAssumption` and `DrainsAssumption` say that descriptors are numbers (not 0 in
Drains, where 0 is "closed"), the bounds and floors numbers, the kinds of objects disjoint, and
that `"unmapped"` and `"none"` are no address and no object. `PupPageAssumption` says that keys,
values and lengths are numbers and that a page has a row at least.

`MInv`, for Maps: an *owner* is a wrapper whose record still describes what is there,
the slot's base and generation when it has a slot. A dead wrapper of an old map may stay for
as long as the collector likes, so nothing can be said of wrappers in general; of owners it can.
No two have one base (`MOne`), whatever a view can reach is an owner (`MViews`), and
the maps and booked slots are exactly the owners' (`MBooks`), so what a free_func gives back
is its own wrapper's and nobody else's. `MGens` keeps a stale record stale: a slot's generation only
grows. `SweepsInTime` is about cardinalities: a sweep frees a set of
wrappers and the pins go down by the size of just that set (the lemmas on `M!PinLess`).

`DInv`, for Drains: a number that an object has is the kernel's for it, as it was last
opened, and pol's table agrees (`DOwned`); a handler that runs has its object's number
until the script closes the object in it, and a batch it goes through is the present opening's
(`DLoop`). `DWatched` is `StaysWatched` without "between handlers": it holds while the jobs run
because who has the number of a 0 or a throw is `spoilt` by then. After a close in the handler, `shut`, the
number may be anybody's: this is the one case that `OwnEvents` and `LostIsReal` exempt.

`PInv`, for PupPage: the run is sorted, so the table's cells are (`PSorted`); the cell found
has no row of the needle's key before its page, and none after it unless the next cell
answers (`PCell`, `PEdges`). From there `get` is exact on both lanes. A range is exact on kv64 because
there no cell answers (`CellOf` is already the last cell that is not greater); on wh128 one may, and it
is not (section 4).

`Leaf_proofs`, for arrays and positions of every size, and for any leaves:

| theorem | states | assumptions |
|---|---|---|
| BaseStaysFresh | `[]BaseFresh` | `LeavesAgree` |
| PositionsStayInside | `[]PositionsInside` | `LeavesAgree`, `MaxLenAssumption` |
| RefsAreDropped | `[]RefsDropped` | `LeavesAgree` |
| OutcomeIsTold | `[]OutcomeTold` | `LeavesAgree` |

What makes these four true is in the table of leaves as much as in the machine that runs
them, and a proof for each of 180 leaves would be no proof to read. So the work is divided.
A *note* (`LeafNotes`) is what is known of a leaf at one place of one way through it: what
it holds, whose the pending exception is, which bases are surely fresh and what they live by,
which positions are surely inside, and which are in order. A note has no length and no
number in it, so a leaf has finitely many, and `Notes` finds them by going from the two
notes a leaf may start with (with an older exception pending or without) to all `Results` of
its steps. `LeavesAgree` says of every leaf installed that the search came to an end (no step
leads out of its notes), that each step is `Sound` in all notes it may have and that the leaf is
`Told` whichever way it ends. TLC evaluates that for LeafTable.

TLAPS proves that it is enough. `IInv`: some note of the leaf tells the truth about the state
(`Known`), and between two leaves there is nothing on the stack. `StepLeads` is its core, with a
lemma for each action of Leaf: from a state of which n is true, a step goes to one of which some
member of `Results` of n is true. It needs the types of bases and positions and nothing of
their bound. The four properties are then read off `Sound` and `Told`.

`LeavesAgree` is as sharp as the runs: each of the mutants that breaks a property of Leaves
makes just the leaves that use what it changes disagree; and with the sets of `LeafKnown` empty, and
io.spawn not excepted, the leaves that disagree are exactly those that were in the sets, and io.spawn.

Only checked by TLC: liveness (`DueFires`, `ThrowSurfaces`, `ClosesAfterEof`,
`WritesFlush`), which is outside what TLAPS does here, and that the leaves of LeafTable agree with
their notes, which is a calculation. What FindGE does is its result, not its loop: a
search by halves is induction over data, which the installed provers cannot do.

## 6. Not modelled

* abc and dog themselves, and what the codecs, parsers and containers compute:
  calls into libraries that are not in the repository. The leaves around them are.
* rpmalloc: vendored. The build, `ansi.c`, `console.c`: no state.
* In Pol: `pol.any`, `pol.now`, `pol.sleep`, periods other than through Timers, loops
  within loops (section 4).
* In Pup: the set lanes' merges, the size of the memtable, failures of the file system.
* In Socket: `connect` in progress, the content and the size of chunks, HUP with
  data from exotic socket types.
* In Maps: the watermark that containers over one buffer share (cont.c:412), the
  contents of files. In Drains: the copy of the listener list that `emit` goes
  over (net.c:248), the numbers that `accept` takes for its connections, the wd
  tables. In Require: power loss (nothing is synced before the rename), the resolution of names and the
  module cache.
* In Leaf: the width of numbers, leaves without view, reference or position.
* `buf.c`: one-line arithmetic on an object's own fields.

## 7. Plan

Modules: the shared watermark of `abc.over` beside Maps; the wd tables of fsw; the module cache of
`require.c` under cycles and throws; `ms | 0` and the 32 bits of `drop(i)` (pup.c:719)
as operators on widths.

Theorems: with the properties above, those of the modules to come.
