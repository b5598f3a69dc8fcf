# A TLA+ model of phase 4: sleep, disk and terminals

`src/phase4/phase4.c` adds six system calls to a teaching kernel that runs on the
USLOSS simulator: `Sleep`, `DiskSize`, `DiskRead`, `DiskWrite`, `TermRead` and
`TermWrite`. Every call is served by a handler that runs in the calling process and
by a daemon of its own; the two meet in linked lists of nodes that live on the
callers' stacks, in mailboxes of phase 2 and in the devices. This directory holds
TLA+ models of these parts, TLC configurations that check them on small instances,
and proofs that TLAPS checks for instances of any size.

Line numbers below and in the modules are lines of `src/phase4/phase4.c`, unless another
file is named.

## The system

| component | state | operations | waits for and wakes |
|---|---|---|---|
| initialisation (121-176) | system call vector, mailboxes, globals | `phase4_init`, `phase4_start_service_processes` | forks `get_tracks` and seven daemons, all of priority 1 |
| sleep list (389-415, 486-499) | `sleep_list`, `time_counter` | `Sleep_handler`, `sleep_daemon` | handler: `blockMe`; daemon: clock interrupt, `unblockProc` |
| disk queue, one per unit (501-628, 761-887) | `disk_list0/1`, the nodes, the daemon's `req` and `status`, the device | `disk_helper`, `disk_daemon` | handler: a mailbox of its own; daemon: disk interrupt; a new head wakes the daemon with a TRACKS request |
| track counts (268-345, 630-759) | `track_count0/1`, `track_list0/1` | `get_track_count`, `wait_get_tracks`, `DiskSize_handler` | daemons and the first caller of a unit wait for the count, so that `get_track_count` is alone on the device |
| terminals (191-255, 417-484) | line buffer, `read_mb` of ten lines, `write_mb` of one | `TermRead_handler`, `TermWrite_handler`, `term_daemon` | daemon: terminal interrupt, conditional mailbox operations |
| mailbox mutexes (895-1008) | ten one-slot mailboxes | lock = send, unlock = receive | each other |
| user-mode stubs (`phase4_usermode.c`) | none | pack and unpack arguments | trap |
| mailbox pool (134-154, 507, 625) | the mailboxes phase 2 has left | `MboxCreate`, `MboxRelease` | a disk call waits in a mailbox of its own |
| test programs (`testcases/test00.c` to `test24.c`) | buffers | the six calls, `Spawn`, `Wait` | each other, by `Wait` |

Shared by all: the dispatcher of phase 1 (strict priorities, with time slices among
equals), the mailboxes of phase 2 with `waitDevice`, and the devices. They come as
binaries; the models take from them only what phase 4 relies on.

What is hard here, and would make the components wrong:

- a handler runs with interrupts off up to the point where it blocks, a daemon runs
  with interrupts on. A caller of priority 1, the daemons' own, can run between any
  two steps of a daemon, a caller of a lower priority only while every daemon is
  blocked. Most of the code is right only for the second kind.
- the daemon of a unit is a state machine driven by one interrupt per request: each
  path back to `waitDevice` must leave a request in the device, or a caller that is
  about to send one, and never two.
- list nodes live on stacks, so a node must be off every list when its owner returns.
- an interrupt posts its status to a mailbox with one slot and drops it when the slot
  is full; `USLOSS_DeviceOutput` to a busy device is refused; nobody looks at either.
- the lists are kept in an order, and both insertions have cases at the head.
- one status register of a terminal carries a received character and the state of the
  transmitter, and the daemon reads it in two places, each of which looks at one half.
- a mailbox is a resource: a call that is refused keeps it, and a call that gets none
  goes on.

`PROJECT.json` lists these hazards at their lines, with the properties that would
catch them.

## The modules

| module | what it is |
|---|---|
| `LinkedLists` | a list as the sequence of its nodes' owners; insertion behind a node |
| `DiskBlocks` | the blocks of a disk: the test a request passes, the blocks it means, how far the disk reaches, the answer that follows |
| `DiskRequests` | the arguments of `DiskRead`/`DiskWrite` a caller may pass |
| `DiskQueue` | one unit: callers in `disk_helper`, the queue, `disk_daemon`, the device, the part of `get_track_count` on the same device |
| `DiskService` | abstract: operations one at a time, block after block, up to the last or to the end of the disk; what is moved and the answer depend on the arguments alone |
| `DiskQueueService` | the refinement mapping from `DiskQueue` to `DiskService` |
| `SleepClock` | `Sleep_handler`, `sleep_list`, `sleep_daemon`, the clock |
| `TrackCount` | both units' start-up: `get_tracks`, `get_track_count`, `wait_get_tracks`, `DiskSize_handler`, with the locks as steps |
| `Buffers` | what a message leaves in a buffer it is copied into |
| `Terminal` | one terminal: writers, `read_mb` and `write_mb`, `term_daemon`, `termWriting`, `termReading`, the device |
| `LineOutput` | abstract: lines shown whole, one after the other, in the order accepted |
| `TerminalLines` | the refinement mapping from `Terminal` to `LineOutput` |
| `SystemCalls` | stubs, handlers and the pool of mailboxes as a program meets them, with the daemons as what the abstract modules say of them |
| `TestPrograms` | the test programs, as steps of `SystemCalls` |
| `MCDiskQueue`, `MCSleepClock`, `MCTrackCount`, `MCTerminal`, `MCSystemCalls` | argument sets and symmetry for TLC |
| `LinkedListProofs`, `DiskQueueProofs`, `DiskTransferProofs`, `DiskOrderProofs`, `SleepClockProofs`, `TrackCountProofs`, `TerminalProofs`, `SystemCallsProofs` | theorems and their proofs |

A definition named in a comment as "Mutant of X" is X with a slip a programmer could
have made. It is part of no specification; replacing X by it must make the property
it is paired with fail, which shows that the property depends on that piece of code.

### DiskQueue

A disk unit is modelled once. The code repeats everything for unit 1 (579-617,
779-784, 796-800, 826-831) with other names and the same steps, and nothing is shared
between the units that changes after start-up.

State and code:

| variable | in the code |
|---|---|
| `disk_list` | `disk_list0`, as the sequence of the nodes' owners |
| `node[p]` | `new_node` in p's frame of `disk_helper` |
| `mbox` | the processes in whose mailbox the daemon's message lies |
| `pc[p]` | `"kick"`: between 538 and 550; `"recv"`: at 622 |
| `dpc` | `"boot"`: 766; `"wait"`: 770; `"got"`: with a status, before the decision; `"send"`: before 881 |
| `status`, `req` | the daemon's locals |
| `gpc` | `get_track_count`: before the request, waiting for it, count published |
| `dev`, `arm`, `slot` | the device's request, the track under the heads, the interrupt mailbox |
| `calls`, `asked`, `reply`, `moved` | the calls made, their arguments and results, and the blocks the device has moved for the current call |

A step is what the code does between two points where another process can run and see
the difference. `SubmitBusy` is the handler from its entry to `MboxRecv` when the list
has a head, `SubmitIdle` the same for an empty list and a known track count,
`SubmitEarly` and `Kick` the two halves of it when the process loses the processor in
between: in `wait_get_tracks`, or, at the daemon's priority, in `disk_unlock0`, when the
daemon was waiting for the lock. The daemon's step from a status to a decision is one
action per branch (`DaemonIdle`, `DaemonError`, `DaemonFinish`, `DaemonStart`,
`DaemonCross`, `DaemonTransfer`); the decision and `DeviceOutput` are separate
(`DaemonSend`), because the lock is free between them. The insertion loops (556-574)
are not transcribed: `FrontEnd`, `BehindFront` and `InFront` say where each loop stops,
and the loop's condition fixes that place uniquely.

The critical sections between `disk_lock` and `disk_unlock` are one step. The locks are
mailboxes of one slot; `TrackCount` has such locks as steps and proves that they exclude,
and the sections of the disk locks are built the same way.

`DeviceDone`, `DeviceOutput` and `Outcome` model the simulator: one request at a time,
a seek outside the disk ends in an error, a status posted to a full slot is dropped. A
transfer that the device carries out is recorded in `moved` for the call it was sent
for; a repeated transfer of an answered call is not counted for the next call.

The data are not modelled: a block is named by its track, its number and the sector of
the caller's buffer it is moved from or to, which is what `ExactTransfer` tells apart.

### SleepClock

`Sleep(p)` is the whole handler. The daemon's body is broken after the loads of
`sleep_list->pid` and `sleep_list->next`, after the store to `sleep_list` and after
`unblockProc`, since the list has no lock and interrupts are on. `DaemonStore` puts the
loaded pointer into `sleep_list`: the list then starts at that node, and whatever was
linked between it and the old head is gone. `between` is a history of who called
while the daemon was there. Ticks that find nobody on the list only
shift `time_counter` and are left out.

### TrackCount

A caller goes `"out"` -> `"count"` (holds the count's lock) -> `"list"` (has read -1) ->
`"link"` (holds the list's lock) -> `"recv"` -> `"out"`; `get_track_count` goes `"ask"` ->
`"dev"` -> `"got"` -> `"store"` -> `"stored"` -> `"walk"` and `"sent"` by turns, for unit 0
and then for unit 1. `wait_get_tracks` and `DiskSize_handler` take the same steps and
differ in the answer; `todo[p]` says which calls p has to make. `DiskSize_handler` treats
every unit but 0 as unit 1 (`UnitOf`).

Who runs matters here. `running` is the process that has the processor: it keeps it
until it blocks or gives it up, since handlers have interrupts off and nothing is above
priority 1. `sliced`, chosen at the start and then fixed, adds that a process of priority
1 may take over from another at any step, as when a time slice ends; `get_tracks` and the
disk daemons have that priority and interrupts on.

`next[p]` and `response[p]` are fields of the node in p's frame. After the owner has
returned, `Advance` reads the old value or NULL for whatever the frame holds now.

### Terminal

State and code:

| variable | in the code |
|---|---|
| `pc[p]`, `text[p]` | `"write"`: in the `MboxSend` of 251, with the caller's buffer |
| `lines`, `taken` | everything ever sent to `read_mb`, and how much of it was received; the mailbox holds the rest (`unread`) |
| `write_mb` | the mailbox of one text |
| `dpc` | `"wait"`: at 429; `"send"`: at 462; `"sent"`: at 465 or 467 |
| `to_write`, `w`, `received` | the buffer of `term_daemon`, the pointer of `termWriting`, the character in the status the daemon got before it began to write |
| `buffer` | the line buffer of `term_data` |
| `slot`, `xmit`, `sending`, `row`, `input` | the interrupt mailbox, the transmitter, what it has put out in the current row, what was typed |
| `kept` | history: what was typed and can be in a line, less what the code has dropped |

When there is nothing to write the daemon's loop is one step (`DaemonPass`). When there
is, `StartWriting`, `SendChar`, `AwaitSent` and `SendEnd` divide `termWriting` at each
`DeviceOutput` and `waitDevice`; the character that came with the first status is looked
at after the text has been sent, as in 442. The callers share nothing with the daemon but
two mailboxes, so any priority of theirs gives the same interleavings. A reader is one
step: until there is a line it makes no difference who waits for it. The argument checks
and results of the two handlers are in `SystemCalls`.

`Tick` is the device: a character has come, or the transmitter has finished, or it is
ready and asks. `late`, chosen at the start, lets it interrupt at any step of the daemon;
without it the device waits until the daemon is back in `waitDevice`, which is how the
simulator's terminals behave at their speed.

`kept` says what the lines should be made of. A typed character joins it when the interrupt
finds the slot free. It leaves again in two places only: `termWriting` throws the received
character of a status away (`Unheard`, 465-468), or `termReading` finds `read_mb` full and
the whole line goes (`Without`, 476-483). `LinesAreInput` then compares it, at every step and also
after such losses, with the lines, the line buffer and the characters under way.

`MboxRecv` copies the message and no NUL, so a shorter text over a longer one would leave
the longer one's end in the buffer (`Overwritten`). `TerminalLines` maps the terminal to
`LineOutput` for texts with a newline at their end, as those of the test programs: the
rest of an older text is then never sent.

### SystemCalls and TestPrograms

A process does the steps of its program: calls, `Spawn` of all children, `Wait` for them,
a buffer filled, a buffer compared. A call is the stub that packs the arguments (`Trap`),
then one action for what the handler makes of them: a refusal, or the answer. The
daemons are what `DiskService`, `LineOutput` and `SleepClock` say of them: an answer may
come at any time, in any order between processes, and a disk operation is one step, with
the extent and the verdict of `DiskBlocks`, which `DiskService` uses too; the track counts
are known. Every order of answers includes the order each daemon would
choose, so what holds here holds for the composition as far as the daemons keep those
promises. `DiskService` is implemented for callers below the daemons' priority
only; run `disk_wrongtrack` shows what one of priority 1 can do to a transfer. The
children of test16 and test18 have that priority: for these two programs, and for
any other with disk calls of priority 1, `SystemCalls` says what their checks
find if the disks serve them as they serve the others. The repeated last block of `disk_resend`
is left out: the one program that could see it, test14, overwrites the buffer and reads
from the disk after the children are gone.

`stock` is what `phase4_init` has left of the pool; `free`, `holding` and `leaked` say where
that is now: `CallDisk` takes a mailbox or finds none,
`ServeDisk` gives it back, `RefuseDisk` loses it. `PassDisk` is the call without one:
`MboxRecv` of mailbox -1 returns at once, the handler answers 0 with the status its node
has from the beginning, and the node stays on a queue behind a frame that is gone. What
the daemon then does is not defined, so the model stops at `dangling`.

`TestPrograms` has test00 to test16, test18 to test20 and test22 to test24. A step's `ret` and
`status` are the results the program's assert or comparison accepts; an `Expected` is a
comparison, or a printed buffer whose text is in the test's `.out` file. Lines and blocks
are sequences of words, since the programs tell them apart by nothing finer.

## What the runs check

All runs use Spec with no fairness for safety and FairSpec for liveness. Deadlock is
not checked: the bound on calls lets every instance come to rest. Bounds: `MaxCalls`
calls per process (in `terminal`, of all processes), `MaxTime` ticks; the sets of arguments are in the MC modules.

| run | instance | shows |
|---|---|---|
| `disk_safety` | 3 processes below the daemon's priority, 2 calls each, 2 tracks of 2 blocks, all kinds of arguments | nodes live (`NodeLifetime`), only the head started (`OnlyHeadStarted`) and kept until answered (`HeadStable`), one thing in flight (`OneInFlight`), no stall except behind an error (`NoStall`), success means exactly the blocks asked for (`ExactTransfer`), an error that the disk ends before the request and was reached (`HonestAnswer`), and the queue implements `DiskService` (`ImplementsService`) |
| `disk_prio1` | one of 2 callers has the daemon's priority, arguments on the disk | the nodes still live, the queue does not stall, every call returns |
| `disk_service` | 3 processes, 2 calls, 3 tracks of one block | the two ascending parts of the queue are kept while its tracks differ (`OrderKept`); `DiskService` with its fairness (`ServesForever`) |
| `sleep` | 2 sleepers below the daemon's priority and one of it, 2 calls each | `NodeLifetime`, `TailSorted`, `NeverEarly`, nobody put off by a later call past the tick that bound it (`NeverPutOff`), and for both priorities, but for whoever calls between the daemon's load and store: never lost (`NoneLost`), always woken (`EverySleeperWakes`) |
| `tracks` | both disk daemons, two user processes, one of which asks for both sizes and the other for one of a unit 7; both units; every interleaving of time slices, and none | `MutualExclusion`, `RightCount` (DiskSize reports the asked disk's number) with callers of priority 1 that call once; `LockHolderRuns` (whoever has a lock can go on, and no path leaves with it); without time slices `NodesLive` (the walk stays on live nodes), `NoneForgotten` (every waiter lies on its way) and `UnslicedReturns` (every waiter is told) |
| `terminal` | two writers, 3 calls of two texts, 3 typed characters of a letter, a newline and a NUL, lines of at most 2 characters, a `read_mb` of one line, interrupts late and not | the shape of lines (`LineShape`); what was typed, less the characters and the whole lines that the code drops, is read once and in order (`LinesAreInput`); nothing sent to a busy transmitter (`OutputReady`, when no interrupt is late), lines written whole and in order (`ImplementsLineOutput`), writers return (`EveryWriterReturns`) |
| `calls` | every test program, with a pool that has 2 mailboxes left for calls and one that has 12 | every check of every program holds in every order of answers (`ChecksHold`), the mailboxes balance (`PoolKept`), a node is left on a queue only when what `phase4_init` has left of the pool, less what refusals have lost, is not a mailbox for each process (`NeverDangling`), the programs end (`TestEnds`) |

Why the bounds are enough to be of interest. Three callers give a head, an operation
queued behind it and a third inserted between or behind; two calls let a process that
was answered come back while the queue is in any state, so that dead nodes and stale
messages would show. Two blocks to a track are the least with a crossing in the middle
of an operation and one at its start. Three tracks and three operations are the least
with a second part of the queue that has an order. Two ticks to a second tell "one tick
early" from "in time". Lengths of -1 and 1 seconds give times that have passed and that
have not; the code makes no other distinction. Unit 0 has three waiters in `tracks`, the
least with a node inserted between the head and another, and the second unit shows that
no lock or list is taken for the other's.

In `terminal` two characters to a line give a line ended by its length, by a newline and
by a NUL. Two typed newlines are the least that a `read_mb` of one slot cannot hold, and a third
character follows a dropped line into the buffer, or precedes it; the longer text keeps
`termWriting` waiting long enough to throw a character away between two that are kept. Three
calls put one text into `to_write`, one into `write_mb` and have a writer waiting behind
them; one text is shorter than the other, so that a leftover would show. In `calls` the tests that repeat themselves are shortened: two lines per child and
two terminals where test19, test20, test22 and test23 have five and four (`Rounds`, `Few`), two sleepers
where test02 and test23 have ten and five (`Sleepers`), five blocks per child where test14 has seven
(`Turns`; they include every block that start4 reads). A pool of 22 leaves two mailboxes, fewer
than the two refusals of test15 need for its last call; one of 32 leaves as many as the largest
family of a disk test has members, and more. In the first, test16 leaves a node behind without
any refusal, since its eight writers are more than two, and test15 after its refusals; in the second no
program leaves one. The bound of `NeverDangling` is reached: with one process less on its right
side it fails.

Fairness. `WF` on the daemon and on `get_tracks`: they have the highest priority and are
ready whenever their action is enabled. `WF` on the device and the clock: the simulator
always completes a request and always ticks. `WF` on `Proceed(p)` in `TrackCount`: a call
that has begun goes on whenever the dispatcher can run its process. `WF` on `Kick(p)` and `Return(p)`: a process
that is ready runs once nothing above it is; every daemon spends its time blocked. No
fairness makes a process call. In `Terminal`, `WF` on the daemon as above, on `Transmit`,
since a transmitter whose interrupts are enabled (426) keeps asking while it is ready and
gets ready when it is busy, and on `EndWrite(p)`; nobody has to type. In `SystemCalls`, `WF`
on `Next`: somebody who can go on does, and the programs have no endless loops, so it is
enough.

The bound `MaxTime` is large enough that every sleeper of the instance is due before it
is reached (six sleeps of at most two ticks, and at most one more tick each that was
posted before the list became empty), so `EverySleeperWakes` is not a statement about
the bound.

### Where the code and its comments disagree

| run | property | what happens |
|---|---|---|
| `disk_errstall` | `EveryCallReturns` | After `USLOSS_DEV_ERROR` (789-806) the daemon answers the head and waits for an interrupt, but has sent no request. With another operation in the queue there is no new head to send one, so the rest of the queue is never served. |
| `disk_wrongtrack` | `ExactTransfer` | A process of priority 1 becomes the head of the empty queue while the daemon holds a status; its TRACKS request occupies the device when the daemon sends SEEK (881), which is refused. The daemon goes on as if the arm had moved. |
| `disk_resend` | `CompleteMeansIdle` | The branch that finishes an operation (815-836) reaches `DeviceOutput` with the last request of that operation; the device moves the block again, from or to the buffer of a process that has its answer. |
| `sleep_oversleep` | `OnTime` | Insertion never happens before the head (405-410), so a shorter sleep waits for the head's. |
| `tracks_lost` | `EveryWaiterReturns` | The count is read under one lock (692), the waiter is linked under another (705-717). A time slice that ends in between lets `get_tracks` publish the count and walk over the list; the node that is linked afterwards waits forever. |

More that the models show, without a run of its own:

- A process of priority 1 that sleeps between the daemon's load and store of `sleep_list`
  (494) can be unlinked with the head and is then never woken, though 390 says "Add myself
  to queue". `between` remembers who has called there; `NoneLost`, `NeverPutOff` and
  `EverySleeperWakes` make an exception of them, and without it the first and the last
  are violated in the `sleep` instance.
- A second text that arrives while the first could not be sent yet replaces it (432): the
  first writer has been told that it was written. `LineOutput` has `Lose` for it; with the
  comment at 225, "All of the character of the buffer will be written atomically", a
  reader would not expect it. If the texts had no newline at the end, the second would
  also be followed by the rest of a longer first.
- Characters that come while a text is being sent are dropped (465-468), all but the one
  that came with the first status. `kept` is without them.
- A line longer than the caller's buffer is consumed and nothing of it is copied, since
  `MboxRecv` (217) refuses it; 180 says "only part of the buffer will be copied and the rest
  discarded", and `testcases/test05.out` has 13 bytes of the line.
- The count of `TermRead` is the `strlen` of the caller's buffer (219), where 187 says "number
  of characters read". In a buffer that held a longer line it is that line's:
  `testcases/test23.out` has 40 after 61, the code gives 61. test20 and test22 use their buffers
  again as well.
- A refused disk call keeps its mailbox (507-514).
- A process of priority 1 that asks for the size of both disks while they are still counted can
  mislead `get_tracks` into giving another process the wrong size. (test16 and test18 spawn processes
  of priority 1, but none that asks for sizes.) When a time slice ends between the message and
  `curr = curr->next` (666-667), the process returns, asks for unit 1, finds no count and links
  its new node, which lies in the same frame (298), on
  `track_list1`; the walk over `track_list0` follows it onto that list and gives whoever
  waits there the count of unit 0. With such a process `RightCount` fails in an
  instance like `tracks` in which the two user processes ask for <<0, 1>> and 1; `OneCall` excludes it.
- `DiskSize_handler` sets no return value; the stub returns what its arguments hold.

`OrderKept` needs `Distinct`: with two queued operations on one track
the loop at 570 stops early, because its second comparison is strict, and a later
insertion goes before nodes of lower tracks. `ImplementsService` allows an operation
with a negative number of sectors, which the code accepts and which ends with an error
when the disk does.

## What is proved

TLAPS checks these for any number of processes, any set of priority-1 processes, any
disk and any arguments, unless a hypothesis is named. They rest on `RequestsAssumption`,
`ConstantsAssumption`, `SleepAssumption`, `TrackAssumption`, `TerminalAssumption` and
`SystemCallsAssumption`, which say what kind of value each constant has. For
`SystemCalls` that includes `TypedStep`: the arguments in a program have the types of the
C parameters.

Five hypotheses are on theorems, each because the claim is false without it:

| hypothesis | theorems | without it |
|---|---|---|
| `HighPrio = {}` | `ExactTransferCorrect`, `HonestAnswerCorrect`, `ImplementsServiceCorrect` | run `disk_wrongtrack` |
| `OneCall`: a process of priority 1 makes at most one call, as each daemon does | `RightCountCorrect` | the wrong size described above |
| `NewlineEnds`: every text that is written ends with a newline | `WritesLines` | the rest of an older text is sent with a newer, shorter one |
| `LegalCalls`, `AmplePools`: every disk call is one the handler accepts, and the pool has a mailbox for each process | `LegalCallsWait` | a refused call keeps its mailbox (507-514) |
| `AllSettled`: a program takes the result each call's arguments ask for, compares no contents, and writes lines from buffers that only the writer fills | `ChecksHoldWhenSettled` | a program may expect what it likes |

The last is a fact about twelve of the test programs, which TLC evaluates
(`SettledAssumption` in `TestPrograms`); test15, with its refused calls, is one of them.

`OneInFlight`, `OutputReady`, `NodesLive` and `NoneForgotten` state such a condition themselves: no caller of
the daemon's priority, no late interrupt, no time slices.

### The disk queue

- `DiskQueueProofs!TypeCorrect`, then `NodeLifetimeCorrect`: `NodeLifetime` is inductive
  relative to `TypeOK`. A caller is not on the list when it calls, so an insertion repeats
  nothing (`InsertMembers`); only the daemon unlinks, and puts the message where it
  unlinks (`TailMembers`).
- `OnlyHeadStartedCorrect`: inductive relative to the two; insertion keeps the head
  (`InsertAfterProperties`), a new node is not started, and a started head is unlinked
  as a whole. `HeadStableCorrect` follows from the same facts about each action.
- `NoStallCorrect`: `NoStall` is not inductive. `WakeUpInv` adds that the daemon boots only
  when the count is known, that until then the head is in its `Kick`, and that a daemon
  with a started node has a request to repeat. The last part is what makes
  `DaemonFinish` safe: the request that `disk_resend` shows to be sent twice is also the
  only thing that wakes the daemon for the next operation.
- `OneInFlightCorrect`: `InFlightInv` adds that `get_tracks` has received its answer before
  the daemon or a caller uses the device.
- `DiskTransferProofs!ExactTransferCorrect`, from `TransferInv` in `DiskQueue`. An operation
  begun is in one of four places: its request about to be sent, in the device, ended with
  a status in the mailbox, or in the daemon's hands (`HeadInv`), and in each of them
  `moved`, `sectors_done` and the place in the track agree: the blocks moved are the first
  ones asked for, one more than the daemon has counted from the moment the device ends the
  transfer. A request that no operation is waiting for ends without an error
  (`NoStrayError`), so an error reaches the right caller; and a transfer in the device is
  the head's, or an old one (`Accounted`), which is what makes the repetition of
  `disk_resend` harmless for `moved`. That the daemon, which counts blocks up and crosses
  when it reaches 16, is at the i-th block of the request is the arithmetic of `DivMod`,
  `Distribute` and `NextTrack`.
- `HonestAnswerCorrect`, from the same invariant: the device's error at a track behind the
  last, and the daemon's own at a crossing there, come when the blocks moved are those up to
  the end of the disk and fewer than asked for (`CutShort`). So the answer is a function of
  the arguments. That is what `DiskService` promises, and `SystemCalls` takes from it.
- `ImplementsServiceCorrect`: the mapping of `DiskQueueService` takes every initial state of
  `DiskQueue` to one of `DiskService` and every step to a step or a stutter. Most stutter.
  `DaemonStart` begins an operation; the device's end of a transfer moves a block,
  unless it is a repeated one; `DaemonFinish` and `DaemonError` answer. `TransferInv` gives in
  each case the guard of the abstract action.
- `DiskOrderProofs!OrderKeptCorrect`, for callers of any priority: `Elevator` is restated as
  `Ring`, every earlier track before every later one in the order `Before(h, _, _)` that
  goes up from the head's track h and then on from the lowest. `Before` is transitive,
  so an insertion needs only the two neighbours that the loop compares; unlinking or
  moving the head changes h to a track that is next on the way. The place where a
  loop stops is the least index with the loop's condition (`LeastNatural`).

### The sleep list

- `SleepClockProofs!TypeCorrect`, and `NodeLifetimeCorrect` from `LifetimeInv`, which adds that
  the daemon between load and store still holds the head.
- `TailSortedCorrect`: from `NodeLifetime`, since a new sleeper's time changes no listed one.
- `NoneLostCorrect`: `NoneLostInv` adds that the pointer the daemon has loaded leads to a
  node of the list, and that only sleepers linked since the load stand between the head and
  it. `NoneBelowLost` follows, since only a process of priority 1 can call there.
- `NeverEarlyCorrect`: `DueInv` adds that the process whose pid the daemon has read is asleep
  and due until it is woken, which no call in between can change.
- `NeverPutOffCorrect` says what is left of "a specified number of seconds" where `OnTime` fails:
  `Due(p)`, the later of p's time and the head's, never grows while p is on the list. A later
  call leaves the head and all times (`DueSleep`). The store makes a node of the sorted tail
  the head, whose time is then no later than that of anybody behind it (`DueStore`, from
  `TailSorted`). And the daemon goes back to waiting only before every such tick
  (`DueRound`, from `NoneLost`).

### The track counts

- `TrackCountProofs!TypeCorrect`, and `MutualExclusionCorrect` from `LockInv`, which adds that
  a lock is taken exactly while somebody is inside. Each step either enters with the slot
  empty, leaves, or changes neither (`LockStep`); nobody else is moved (`OthersStay`).
- `NodesLiveCorrect` and `RightCountCorrect`, from three invariants. `CountInv`: a count is -1
  until it is stored and right from then on. `SchedInv`: who can run, in particular that
  while `get_track_count` is busy only processes of priority 1 do, and none at all without
  time slices. `ListInv`: up to its walk a list consists of nodes of processes that wait
  for that unit; the walk stays in a set of such nodes that nobody links behind; a message
  is sent after the answer is right. The set is named by an existential quantifier
  (`WalkIn`), so nothing has to be said about the shape of the list. `ListInv` holds when
  there are no time slices or `OneCall` (`Orderly`): a node whose owner has returned for good
  keeps leading into the set, one whose owner has linked it again need not.
- `LockHolderRunsCorrect`, from `LockInv` and `SchedInv`: the one inside has the processor or
  has lost it only to a time slice, since no step inside a section blocks.
- `NoneForgottenCorrect`: `WayInv` adds that a caller between its look at the count and its
  link comes before the count of its unit is stored, which is where `tracks_lost` breaks it.
  That the list leads to a node is said with sets (`Leads`: p is in every set of nodes
  that holds the first and that `next` does not leave), so that insertion behind the head and
  each step of the walk need no induction along the list.

### A terminal

- `TerminalProofs!TypeCorrect`, `LineShapeCorrect` and `OutputReadyCorrect`, for any line length
  and any texts, from one invariant `IInv`. `Typing` adds to the types where `w` may point;
  `NulTyped` that a NUL under way has been typed, which the shape of the line it ends
  needs; `StatusCurrent` that, without late interrupts, the status in the slot is the
  transmitter's, which is why a daemon that has read "ready" may send. `ReceiveShape` is
  the step of the line buffer, shared by the two actions that end the loop's body.
- `LinesAreInputCorrect`: `InputInv` adds that the daemon holds no character while it waits.
  When a line or a character is dropped it goes from the middle or the end of `kept`, where
  the equation has it: `WithoutMiddle` takes the middle of three sequences out, and `UnheardIs`
  the last character that can be in a line, if the status held one.
  The lines are concatenated by `FlattenSeq`, a recursive function. That the recursion has a
  solution for every length (`SolutionExists`) and only one (`SolutionUnique`) is shown at the
  least length, or index, where it would fail; that flattening `Append(s, x)` appends x
  follows (`FlattenAppend`). `LeastNatural` takes the place of an induction theorem, whose
  operator parameter the provers could not instantiate.
- `WritesLines`: without late interrupts every step of `Terminal` is a step of `LineOutput` or a
  stutter under the mapping of `TerminalLines`. `WriteInv` adds that the row holds the part
  of the text that `termWriting` has given to the device, and no newline (`Written`), and is
  complete while the daemon waits. `CutOverwritten` says that a text with a newline at its
  end is sent alike whether or not it overwrites another. `ImplementsLineOutput` has the
  fairness of `LineOutput` too; that part stays with the run.

### System calls

- `SystemCallsProofs!TypeCorrect`: `TypeInv` adds that a process in a call has a step left, and
  that the arguments of a disk call are those its stub packed.
- `PoolCorrect`, for any programs, any number of processes and any pool: `PoolInv` says
  that only processes in a disk call hold a mailbox, that one without a mailbox has seen the
  pool empty, so that since then the free and the held ones together are fewer than the
  processes, and that the same is so once a node has been left (`Drained`). `PoolKeptCorrect`
  follows from the same lemma about each action, counting `holding` by `FS_AddElement` and
  `FS_RemoveElement`.
- `NeverDanglingCorrect`: what is free, in use or lost is always what `phase4_init` has left of the
  pool (`StockInv`), so `Drained` bounds `stock - leaked`. With a mailbox for each process it
  takes refusals, then, to leave a node behind; `LegalCallsWait` adds that a program
  whose disk calls are legal makes none.
- `ChecksHoldWhenSettled`: `ResultInv` adds to `ChecksHold` that the Sysargs of a terminal's call
  are still those the stub would pack now, and that the buffers lines are written from hold
  no more than a line. Other processes' steps do not touch such a buffer (`LinesKept`), a
  received line fits into one (`ReadTermFills`), so each call returns what its arguments ask
  for whenever the answer comes (`ResultTaken`).

### Only model-checked

- Liveness: `EveryCallReturns`, `ServesForever`, `EverySleeperWakes`, `UnslicedReturns`,
  `EveryWriterReturns`, `TestEnds` and the fairness in `ImplementsLineOutput`. Their proofs need
  rules for ENABLED that the installed provers do not have.
- `ChecksHold` for the programs that compare contents: the blocks and lines they expect are
  what each of them has written before, in the order of its own steps.

`OnTime`, `CompleteMeansIdle`, `EveryWaiterReturns` and the properties of the other runs that
expect a violation do not hold there.

## Not modelled, and the plan

Not modelled: tracing; test21, which takes the `strlen` of a buffer without a NUL; the
timeout process and the stubs of an MMU in `testcases/phase4_common_testcase_code.c`; the
order in which the daemons are forked, apart from what `TrackCount` has of it; the memory
behind the last terminal that unit 4 addresses (205, 249). External: the libraries and
devices. Starvation of an operation by callers that keep asking for the head's track
(570) needs processes that never stop calling.

Left for later: what the composition rests on. `SystemCalls` takes the answers of the daemons
from `DiskService`, `LineOutput` and `SleepClock`; the first two are proved to be implemented,
the one for a unit with callers below the daemon's priority, the other for a terminal without late
interrupts. What `DiskService` promises of an answer (`Verdict`, `Extent`) is then in
`SystemCalls` by construction. Worth stating are invariants of `LineOutput` and `DiskService`
alone, from which `ExactTransfer` and `HonestAnswer` would follow through the refinement
too; and what the contents a test expects rest on, which would bring the other programs
into `ChecksHoldWhenSettled`.
