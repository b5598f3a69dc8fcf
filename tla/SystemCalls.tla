---------------------------- MODULE SystemCalls ----------------------------
(***************************************************************************)
(* The system calls as a program meets them: the stub packs the arguments  *)
(* of a call into USLOSS_Sysargs, the handler checks them, the process     *)
(* waits for a daemon, and the stub takes the results out.  The daemons    *)
(* are what DiskService, LineOutput and SleepClock say of them: an answer  *)
(* may come at any time, and a disk operation is one step.                 *)
(*                                                                         *)
(* The processes run a test program, after get_tracks has found the track  *)
(* counts.  Nothing here depends on their priorities, but the daemons keep *)
(* what DiskService says for callers below the daemons' priority only, so  *)
(* that a program with disk calls of priority 1 (the children of test16    *)
(* and test18) is modelled with disks that work for it too.                *)
(***************************************************************************)
EXTENDS Buffers, FiniteSets

CONSTANTS
    Tests,      \* programs: functions from processes to sequences of steps
    Main,       \* the process that runs start4
    Texts,      \* the contents of characters and blocks
    NTracks,    \* tracks of each disk
    NBlocks,    \* USLOSS_DISK_TRACK_SIZE, 16 in the code
    NTerms,     \* USLOSS_MAX_UNITS, 4 in the code
    MaxLine,    \* MAXLINE, 80 in the code
    Input,      \* the lines typed at each terminal
    Pools       \* how many mailboxes phase 2 may have left for phase 4

Units == {0, 1}
Terminals == 0 .. NTerms - 1

\* The mailboxes phase4_init creates: the disk mutexes twice, three of each
\* terminal, two of the track counts and two of the lists of waiters.
Fixed == 2 + 3 * NTerms + 2 + 2 + 2

\* The arguments of a program's steps have the types of the C parameters.
TypedStep(s) ==
    /\ s.call = "Fill" => s.text \in Seq(Texts)
    /\ s.call \in {"DiskRead", "DiskWrite"} =>
          /\ s.unit \in Int /\ s.track \in Int /\ s.first \in Int /\ s.sectors \in Int
          /\ s.offset \in Nat
    /\ s.call = "TermRead" => s.size \in Int /\ s.unit \in Int

ASSUME SystemCallsAssumption ==
    /\ \A t \in Tests : Main \in DOMAIN t /\ IsFiniteSet(DOMAIN t)
    /\ \A t \in Tests : \A p \in DOMAIN t :
          Len(t[p]) \in Nat /\ \A i \in 1 .. Len(t[p]) : TypedStep(t[p][i])
    /\ NTracks \in [Units -> Nat \ {0}] /\ NBlocks \in Nat \ {0}
    /\ NTerms \in Nat /\ MaxLine \in Nat
    /\ Input \in [Terminals -> Seq(Seq(Texts))]
    /\ \A n \in Pools : n \in Nat /\ n >= Fixed

VARIABLES
    test,       \* the program
    at,         \* a process: "unborn", "user", "call"
    pos,        \* the steps it has done
    args,       \* the USLOSS_Sysargs of its call
    memory,     \* the buffers of the program, by name
    disk,       \* the blocks that have been written, by unit and number
    taken,      \* the lines that have been read from each terminal
    stock,      \* mailboxes phase4_init has left in the pool
    free,       \* mailboxes left in the pool now
    holding,    \* processes whose call has one
    leaked,     \* mailboxes of refused calls
    dangling,   \* does a queue hold the node of a call that has returned?
    wrong       \* processes for which a check of the program failed

vars == <<test, at, pos, args, memory, disk, taken, stock, free, holding, leaked,
          dangling, wrong>>

Clients == DOMAIN test
Step(p) == test[p][pos[p] + 1]

\* The process has terminated.
Over(p) == pos[p] = Len(test[p])

Does(p, calls) == at[p] = "user" /\ ~Over(p) /\ Step(p).call \in calls

Content(buffer) == IF buffer \in DOMAIN memory THEN memory[buffer] ELSE <<>>

Stored(f, new) == [x \in DOMAIN f \cup DOMAIN new |-> IF x \in DOMAIN new THEN new[x] ELSE f[x]]

-----------------------------------------------------------------------------
(***************************************************************************)
(* The program's own steps.                                                *)
(***************************************************************************)
Done(p, ok) ==
    /\ pos' = [pos EXCEPT ![p] = @ + 1]
    /\ wrong' = IF ok THEN wrong ELSE wrong \cup {p}

\* Spawn of every child.
Spawn(p) ==
    /\ Does(p, {"Spawn"})
    /\ at' = [q \in Clients |-> IF at[q] = "unborn" THEN "user" ELSE at[q]]
    /\ Done(p, TRUE)
    /\ UNCHANGED <<test, args, memory, disk, taken, free, holding, leaked, dangling>>

\* As many Waits as there are children.
Wait(p) ==
    /\ Does(p, {"Wait"})
    /\ \A q \in Clients \ {p} : Over(q)
    /\ Done(p, TRUE)
    /\ UNCHANGED <<test, at, args, memory, disk, taken, free, holding, leaked, dangling>>

\* strcpy, sprintf, memset.
Fill(p) ==
    /\ Does(p, {"Fill"})
    /\ memory' = Stored(memory, [b \in {Step(p).buffer} |-> Step(p).text])
    /\ Done(p, TRUE)
    /\ UNCHANGED <<test, at, args, disk, taken, free, holding, leaked, dangling>>

\* A comparison, or a printout whose text the test's .out file has.
Expect(p) ==
    /\ Does(p, {"Expect"})
    /\ Done(p, Content(Step(p).buffer) = Step(p).text)
    /\ UNCHANGED <<test, at, args, memory, disk, taken, free, holding, leaked, dangling>>

-----------------------------------------------------------------------------
(***************************************************************************)
(* The stubs of phase4_usermode.c.                                         *)
(***************************************************************************)
\* Mutant of DiskArgs: the track and the block change places.
DiskArgsSwapped(c) ==
    [arg1 |-> <<c.buffer, c.offset>>, arg2 |-> c.sectors, arg3 |-> c.first,
     arg4 |-> c.track, arg5 |-> c.unit]

\* A pointer is a buffer and an offset in it, counted in blocks.
DiskArgs(c) ==
    [arg1 |-> <<c.buffer, c.offset>>, arg2 |-> c.sectors, arg3 |-> c.track,
     arg4 |-> c.first, arg5 |-> c.unit]

TermArgs(c) ==
    [arg1 |-> c.buffer, arg3 |-> c.unit,
     arg2 |-> IF c.call = "TermRead" THEN c.size ELSE Len(Content(c.buffer))]

SleepArgs(c) == [arg1 |-> c.seconds]

\* The trap: the process is in the handler.
Trap(p, a) ==
    /\ at' = [at EXCEPT ![p] = "call"]
    /\ args' = [args EXCEPT ![p] = a]

\* USLOSS_Syscall returns, and the program looks at the results.
Return(p, ok) ==
    /\ at' = [at EXCEPT ![p] = "user"]
    /\ Done(p, ok)

In(p, calls) == at[p] = "call" /\ Step(p).call \in calls

-----------------------------------------------------------------------------
(***************************************************************************)
(* DiskRead and DiskWrite: disk_helper, the queue and the daemon.          *)
(***************************************************************************)
DiskCalls == {"DiskRead", "DiskWrite"}

\* disk_helper creates its mailbox before it looks at the arguments; there is none
\* when the pool is empty.
CallDisk(p) ==
    /\ Does(p, DiskCalls)
    /\ Trap(p, DiskArgs(Step(p)))
    /\ IF free > 0
       THEN free' = free - 1 /\ holding' = holding \cup {p}
       ELSE UNCHANGED <<free, holding>>
    /\ UNCHANGED <<test, pos, memory, disk, taken, leaked, dangling, wrong>>

\* The disk of a unit carries a request out as DiskService says.
Disk(unit) == INSTANCE DiskBlocks WITH NTracks <- NTracks[unit]

Asked(a) == [track |-> a.arg3, start |-> a.arg4, sectors |-> a.arg2]

DiskRefused(a) == a.arg5 \notin Units \/ ~Disk(a.arg5)!Valid(Asked(a))

\* The return value is -1 and the mailbox stays where it is.
RefuseDisk(p) ==
    /\ In(p, DiskCalls)
    /\ DiskRefused(args[p])
    /\ holding' = holding \ {p}
    /\ leaked' = IF p \in holding THEN leaked + 1 ELSE leaked
    /\ Return(p, -1 \in Step(p).ret)
    /\ UNCHANGED <<test, args, memory, disk, taken, free, dangling>>

\* The number of the i-th block on its disk.
Number(a, i) == Disk(a.arg5)!Place(Asked(a), i)

\* How many blocks are moved.
Count(a) == Disk(a.arg5)!Extent(Asked(a))

OnDisk(unit, n) == IF <<unit, n>> \in DOMAIN disk THEN disk[<<unit, n>>] ELSE "blank"

InMemory(pointer, i) ==
    LET b == Content(pointer[1]) IN
    IF pointer[2] + i < Len(b) THEN b[pointer[2] + i + 1] ELSE "blank"

\* No program reads to an offset.
Read(a) ==
    LET blocks == [i \in 1 .. Count(a) |-> OnDisk(a.arg5, Number(a, i - 1))] IN
    /\ memory' = Stored(memory,
                    [b \in {a.arg1[1]} |-> Overwritten(Content(b), blocks)])
    /\ UNCHANGED disk

Write(a) ==
    /\ disk' = Stored(disk,
                   [b \in {<<a.arg5, Number(a, i)>> : i \in 0 .. Count(a) - 1} |->
                       InMemory(a.arg1, b[2] - Number(a, 0))])
    /\ UNCHANGED memory

\* Mutant of Release: the mailbox is not released.
Keep(p) == holding' = holding \ {p} /\ free' = free

Release(p) == holding' = holding \ {p} /\ free' = free + 1

\* The daemon carries the operation out and sends a message to the mailbox; the
\* caller releases it and returns 0 and the status.
ServeDisk(p) ==
    /\ In(p, DiskCalls)
    /\ ~DiskRefused(args[p])
    /\ p \in holding
    /\ IF Step(p).call = "DiskRead" THEN Read(args[p]) ELSE Write(args[p])
    /\ Release(p)
    /\ Return(p, /\ 0 \in Step(p).ret
                 /\ Disk(args[p].arg5)!Verdict(Asked(args[p])) \in Step(p).status)
    /\ UNCHANGED <<test, args, taken, leaked, dangling>>

\* Without a mailbox there is nothing to wait for: the handler returns with the
\* status its node has from the beginning, and leaves the node on the queue.  What
\* happens from then on is not defined, and the model stops.
PassDisk(p) ==
    /\ In(p, DiskCalls)
    /\ ~DiskRefused(args[p])
    /\ p \notin holding
    /\ dangling' = TRUE
    /\ Return(p, 0 \in Step(p).ret /\ "READY" \in Step(p).status)
    /\ UNCHANGED <<test, args, memory, disk, taken, free, holding, leaked>>

\* DiskSize of a counted disk; every unit but 0 is taken for 1.
DiskSize(p) ==
    /\ Does(p, {"DiskSize"})
    /\ Done(p, Step(p).tracks = NTracks[IF Step(p).unit = 0 THEN 0 ELSE 1])
    /\ UNCHANGED <<test, at, args, memory, disk, taken, free, holding, leaked, dangling>>

-----------------------------------------------------------------------------
(***************************************************************************)
(* The terminals and the clock.                                            *)
(***************************************************************************)
CallTerm(p) ==
    /\ Does(p, {"TermRead", "TermWrite"})
    /\ Trap(p, TermArgs(Step(p)))
    /\ UNCHANGED <<test, pos, memory, disk, taken, free, holding, leaked, dangling,
                   wrong>>

\* Mutant of ReadRefused: looks at no unit, as WriteRefused.
ReadRefusedSize(a) == a.arg2 <= 0 \/ a.arg2 > MaxLine

\* A unit equal to NTerms is not refused; what is behind the last terminal is not
\* defined, and no program asks for it.
ReadRefused(a) == a.arg2 <= 0 \/ a.arg2 > MaxLine \/ a.arg3 < 0 \/ a.arg3 > NTerms

WriteRefused(a) == a.arg2 < 0 \/ a.arg2 > MaxLine

TermRefused(p) ==
    IF Step(p).call = "TermRead" THEN ReadRefused(args[p]) ELSE WriteRefused(args[p])

RefuseTerm(p) ==
    /\ In(p, {"TermRead", "TermWrite"})
    /\ TermRefused(p)
    /\ Return(p, -1 \in Step(p).ret)
    /\ UNCHANGED <<test, args, memory, disk, taken, free, holding, leaked, dangling>>

\* A line comes and is received: not copied when it is longer than the buffer, else
\* without a NUL.  The count is the strlen of what the buffer holds then.
ReadTerm(p) ==
    LET a == args[p]  unit == a.arg3 IN
    /\ In(p, {"TermRead"})
    /\ ~TermRefused(p)
    /\ unit \in Terminals /\ taken[unit] < Len(Input[unit])
    /\ taken' = [taken EXCEPT ![unit] = @ + 1]
    /\ LET line == Input[unit][taken[unit] + 1]
           text == IF Len(line) > a.arg2 THEN Content(a.arg1)
                                         ELSE Overwritten(Content(a.arg1), line)
       IN  /\ memory' = Stored(memory, [b \in {a.arg1} |-> text])
           /\ Return(p, /\ 0 \in Step(p).ret
                        /\ Step(p).counted => Len(text) = Len(line))
    /\ UNCHANGED <<test, args, disk, free, holding, leaked, dangling>>

\* The slot of write_mb is free; the count is the size that was asked for.
WriteTerm(p) ==
    /\ In(p, {"TermWrite"})
    /\ ~TermRefused(p)
    /\ Return(p, 0 \in Step(p).ret /\ args[p].arg2 = Len(Content(args[p].arg1)))
    /\ UNCHANGED <<test, args, memory, disk, taken, free, holding, leaked, dangling>>

CallSleep(p) ==
    /\ Does(p, {"Sleep"})
    /\ Trap(p, SleepArgs(Step(p)))
    /\ UNCHANGED <<test, pos, memory, disk, taken, free, holding, leaked, dangling,
                   wrong>>

WakeUp(p) ==
    /\ In(p, {"Sleep"})
    /\ Return(p, TRUE)
    /\ UNCHANGED <<test, args, memory, disk, taken, free, holding, leaked, dangling>>

-----------------------------------------------------------------------------
Init ==
    /\ test \in Tests
    /\ at = [p \in Clients |-> IF p = Main THEN "user" ELSE "unborn"]
    /\ pos = [p \in Clients |-> 0]
    /\ args = [p \in Clients |-> <<>>]
    /\ memory = <<>> /\ disk = <<>>
    /\ taken = [t \in Terminals |-> 0]
    /\ \E n \in Pools : stock = n - Fixed
    /\ free = stock
    /\ holding = {} /\ leaked = 0
    /\ dangling = FALSE /\ wrong = {}

Own(p) == Spawn(p) \/ Wait(p) \/ Fill(p) \/ Expect(p)

Call(p) == CallDisk(p) \/ DiskSize(p) \/ CallTerm(p) \/ CallSleep(p)

Answer(p) ==
    \/ RefuseDisk(p) \/ ServeDisk(p) \/ PassDisk(p)
    \/ RefuseTerm(p) \/ ReadTerm(p) \/ WriteTerm(p) \/ WakeUp(p)

Run(p) == Own(p) \/ Call(p) \/ Answer(p)

Next == ~dangling /\ (\E p \in Clients : Run(p)) /\ UNCHANGED stock

Spec == Init /\ [][Next]_vars

\* The daemons answer every call (DiskService, LineOutput, SleepClock), every line of
\* the input is typed, and somebody who can run does.  Programs have no loops.
FairSpec == Spec /\ WF_vars(Next)

-----------------------------------------------------------------------------
(***************************************************************************)
(* Properties.                                                             *)
(***************************************************************************)
\* The type of every variable.
TypeOK ==
    /\ test \in Tests
    /\ at \in [Clients -> {"unborn", "user", "call"}]
    /\ \A p \in Clients : pos[p] \in 0 .. Len(test[p])
    /\ \A b \in DOMAIN memory : memory[b] \in Seq(Texts \cup {"blank"})
    /\ \A b \in DOMAIN disk : /\ b \in Units \X Nat
                             /\ b[2] < NTracks[b[1]] * NBlocks
                             /\ disk[b] \in Texts \cup {"blank"}
    /\ \A t \in Terminals : taken[t] \in 0 .. Len(Input[t])
    /\ stock \in Nat /\ free \in Nat /\ leaked \in Nat
    /\ holding \subseteq {p \in Clients : at[p] = "call"}
    /\ dangling \in BOOLEAN /\ wrong \subseteq Clients

\* Whatever the order of the daemons' answers, every assert and every comparison of
\* the test programs holds, and so does what their .out files say of the blocks and
\* lines they print, through the stubs' arguments, the handlers' checks and the disks.
\* Left out are lines that do not fit (217) and lines in a buffer that held another
\* (219), where test05.out and test23.out say what the code does not do.
ChecksHold == ~dangling => wrong = {}

\* Does the step take the result that the arguments of the call ask for?
FitsDisk(s) ==
    LET r == [track |-> s.track, start |-> s.first, sectors |-> s.sectors] IN
    IF s.unit \in Units /\ Disk(s.unit)!Valid(r)
    THEN 0 \in s.ret /\ Disk(s.unit)!Verdict(r) \in s.status
    ELSE -1 \in s.ret

FitsRead(s) ==
    IF ReadRefused([arg1 |-> s.buffer, arg2 |-> s.size, arg3 |-> s.unit])
    THEN -1 \in s.ret
    ELSE 0 \in s.ret /\ ~s.counted

Fits(s) ==
    /\ s.call # "Expect"
    /\ s.call \in DiskCalls => FitsDisk(s)
    /\ s.call = "DiskSize" => s.tracks = NTracks[IF s.unit = 0 THEN 0 ELSE 1]
    /\ s.call = "TermRead" => FitsRead(s)
    /\ s.call = "TermWrite" => 0 \in s.ret

\* A line that is written comes from a buffer that only its writer fills.
OwnLine(t, p, buffer) ==
    \A q \in DOMAIN t : \A i \in 1 .. Len(t[q]) :
        LET s == t[q][i] IN
        s.call \in {"Fill", "TermRead", "DiskRead"} /\ s.buffer = buffer =>
            /\ q = p /\ s.call # "DiskRead"
            /\ s.call = "Fill" => Len(s.text) <= MaxLine

\* The programs that compare no contents and take the result each call asks for.
Settled(t) ==
    \A p \in DOMAIN t : \A i \in 1 .. Len(t[p]) :
        /\ Fits(t[p][i])
        /\ t[p][i].call = "TermWrite" => OwnLine(t, p, t[p][i].buffer)

\* The mailboxes of the pool: a step returns what its call has taken, or loses it
\* with a refusal (507-514, 626).
Balance == free + Cardinality(holding) + leaked

PoolKept == [][Balance' = Balance]_vars

\* A call returns without waiting for its operation, leaving its node on the queue,
\* only when what phase4_init has left of the pool, less what refused calls (507-514)
\* have lost, is not a mailbox for each process.  A pool that is smaller than the
\* family from the beginning needs no refusal for it.
NeverDangling == dangling => stock - leaked < Cardinality(Clients)

\* start4 comes to its end, unless a node has been left on a queue.
TestEnds == <>(Over(Main) \/ dangling)
=============================================================================
