----------------------------- MODULE SleepClock -----------------------------
(***************************************************************************)
(* Sleep_handler and sleep_daemon of phase4.c: the processes that sleep,   *)
(* the list they wait in, and the daemon that counts the clock's ticks and *)
(* wakes them.                                                             *)
(*                                                                         *)
(* sleep_list has no lock.  The handler runs with interrupts off, hence in *)
(* one step; the daemon runs with interrupts on, and a process of its own  *)
(* priority (HighPrio) may run between any two of its steps, a process of  *)
(* a lower priority only while the daemon is blocked in waitDevice.        *)
(***************************************************************************)
EXTENDS LinkedLists

CONSTANTS
    Procs,          \* the processes that sleep
    HighPrio,       \* those of priority 1, the daemon's priority
    Nobody,         \* the NULL at the end of the list
    Seconds,        \* the arguments passed to Sleep; the code checks none
    TicksPerSecond, \* 10 in the code
    MaxCalls,       \* bound of the model: calls a process makes
    MaxTime         \* bound of the model: ticks the daemon counts

ASSUME SleepAssumption ==
    /\ HighPrio \subseteq Procs
    /\ Nobody \notin Procs
    /\ Seconds \subseteq Int
    /\ TicksPerSecond \in Nat \ {0}
    /\ MaxCalls \in Nat
    /\ MaxTime \in Nat

VARIABLES
    pc,             \* a process: "user" or "asleep", blocked in blockMe
    calls,          \* calls a process has made
    wake_up_time,   \* of a process's sleep_list_node
    between,        \* history: whose last call came between the daemon's load and store
    sleep_list,
    time_counter,
    slot,           \* the clock's interrupt mailbox, one slot
    dpc,            \* sleep_daemon: "wait", "scan", "store", "unblock"
    pid,            \* its local pid
    next            \* the value of sleep_list->next it has loaded

procVars == <<pc, calls, wake_up_time, between>>
vars == <<procVars, sleep_list, time_counter, slot, dpc, pid, next>>

-----------------------------------------------------------------------------
CanRun(p) == p \in HighPrio \/ (dpc = "wait" /\ slot = "NONE")

Asleep == {p \in Procs : pc[p] = "asleep"}

\* Mutant of InsertAt: takes the end of the list.
InsertAtEnd(times, t, k) == k = Len(times)

\* Where the handler's loop stops: it starts behind the head, whatever its time.
InsertAt(times, t, k) ==
    /\ k \in DOMAIN times
    /\ \A j \in 1 .. k - 1 : times[j + 1] < t
    /\ k < Len(times) => times[k + 1] >= t

WakeTimes(list) == [i \in DOMAIN list |-> wake_up_time[list[i]]]

Link(p, t) ==
    \/ /\ sleep_list = <<>>
       /\ sleep_list' = <<p>>
    \/ /\ sleep_list # <<>>
       /\ \E k \in DOMAIN sleep_list :
             /\ InsertAt(WakeTimes(sleep_list), t, k)
             /\ sleep_list' = InsertAfter(sleep_list, k, p)

Sleep(p) ==
    \E seconds \in Seconds :
        LET t == time_counter + seconds * TicksPerSecond IN
        /\ CanRun(p)
        /\ pc[p] = "user"
        /\ calls[p] < MaxCalls
        /\ calls' = [calls EXCEPT ![p] = @ + 1]
        /\ wake_up_time' = [wake_up_time EXCEPT ![p] = t]
        /\ Link(p, t)
        /\ pc' = [pc EXCEPT ![p] = "asleep"]
        /\ between' = IF dpc = "store" THEN between \cup {p} ELSE between \ {p}
        /\ UNCHANGED <<time_counter, slot, dpc, pid, next>>

-----------------------------------------------------------------------------
\* The clock interrupt posts a tick; one that finds the slot full is lost, which
\* is a stutter.  Ticks that find nobody on the list only shift the counter and
\* are left out.
Tick ==
    /\ slot = "NONE"
    /\ sleep_list # <<>>
    /\ time_counter < MaxTime
    /\ slot' = "TICK"
    /\ UNCHANGED <<procVars, sleep_list, time_counter, dpc, pid, next>>

\* Mutant of DaemonWake: counts down.
DaemonCountDown ==
    /\ dpc = "wait"
    /\ slot = "TICK"
    /\ slot' = "NONE"
    /\ time_counter' = time_counter - 1
    /\ dpc' = "scan"
    /\ UNCHANGED <<procVars, sleep_list, pid, next>>

\* waitDevice returns; time_counter++.
DaemonWake ==
    /\ dpc = "wait"
    /\ slot = "TICK"
    /\ slot' = "NONE"
    /\ time_counter' = time_counter + 1
    /\ dpc' = "scan"
    /\ UNCHANGED <<procVars, sleep_list, pid, next>>

\* Mutant of HeadExpired: one tick early.
HeadExpiring ==
    sleep_list # <<>> /\ wake_up_time[Head(sleep_list)] <= time_counter + 1

\* The condition of the daemon's loop.
HeadExpired ==
    sleep_list # <<>> /\ wake_up_time[Head(sleep_list)] <= time_counter

DaemonSleep ==
    /\ dpc = "scan"
    /\ ~HeadExpired
    /\ dpc' = "wait"
    /\ UNCHANGED <<procVars, sleep_list, time_counter, slot, pid, next>>

\* Reads the head's pid and its next pointer ...
DaemonLoad ==
    /\ dpc = "scan"
    /\ HeadExpired
    /\ pid' = Head(sleep_list)
    /\ next' = IF Len(sleep_list) > 1 THEN sleep_list[2] ELSE Nobody
    /\ dpc' = "store"
    /\ UNCHANGED <<procVars, sleep_list, time_counter, slot>>

\* Mutant of DaemonStore: leaves the list as it is.
DaemonKeep ==
    /\ dpc = "store"
    /\ dpc' = "unblock"
    /\ UNCHANGED <<procVars, sleep_list, time_counter, slot, pid, next>>

\* ... stores that pointer in sleep_list, which then starts at that node ...
DaemonStore ==
    /\ dpc = "store"
    /\ \E i \in 2 .. Len(sleep_list) + 1 :
          /\ next = IF i <= Len(sleep_list) THEN sleep_list[i] ELSE Nobody
          /\ sleep_list' = SubSeq(sleep_list, i, Len(sleep_list))
    /\ dpc' = "unblock"
    /\ UNCHANGED <<procVars, time_counter, slot, pid, next>>

\* Mutant of DaemonUnblock: wakes one sleeper a tick and drops its successor.
DaemonUnblockOne ==
    /\ dpc = "unblock"
    /\ pc' = [pc EXCEPT ![pid] = "user"]
    /\ sleep_list' = <<>>
    /\ dpc' = "wait"
    /\ UNCHANGED <<calls, wake_up_time, between, time_counter, slot, pid, next>>

\* ... and unblocks the process.
DaemonUnblock ==
    /\ dpc = "unblock"
    /\ pc' = [pc EXCEPT ![pid] = "user"]
    /\ dpc' = "scan"
    /\ UNCHANGED <<calls, wake_up_time, between, sleep_list, time_counter, slot, pid, next>>

-----------------------------------------------------------------------------
Init ==
    /\ pc = [p \in Procs |-> "user"]
    /\ calls = [p \in Procs |-> 0]
    /\ wake_up_time = [p \in Procs |-> 0]
    /\ between = {}
    /\ sleep_list = <<>>
    /\ time_counter = 0
    /\ slot = "NONE"
    /\ dpc = "wait"
    /\ pid = Nobody
    /\ next = Nobody

Daemon ==
    DaemonWake \/ DaemonSleep \/ DaemonLoad \/ DaemonStore \/ DaemonUnblock

Next == (\E p \in Procs : Sleep(p)) \/ Tick \/ Daemon

Spec == Init /\ [][Next]_vars

\* The clock keeps ticking and the daemon has the highest priority.
FairSpec == Spec /\ WF_vars(Tick) /\ WF_vars(Daemon)

-----------------------------------------------------------------------------
(***************************************************************************)
(* Properties.                                                             *)
(***************************************************************************)
\* The type of every variable.
TypeOK ==
    /\ pc \in [Procs -> {"user", "asleep"}]
    /\ calls \in [Procs -> Nat]
    /\ wake_up_time \in [Procs -> Int]
    /\ between \subseteq Procs
    /\ sleep_list \in Seq(Procs)
    /\ time_counter \in Nat
    /\ slot \in {"NONE", "TICK"}
    /\ dpc \in {"wait", "scan", "store", "unblock"}
    /\ pid \in Procs \cup {Nobody}
    /\ next \in Procs \cup {Nobody}

\* The process the daemon has unlinked and not yet unblocked.
Waking == IF dpc = "unblock" THEN {pid} ELSE {}

\* A node lives on the stack of the process that sleeps: the list holds only
\* processes that are asleep and will not be woken before they are unlinked, and
\* holds them once, whatever the daemon was doing when they called (401-412).
NodeLifetime ==
    /\ NoRepeat(sleep_list)
    /\ Members(sleep_list) \subseteq Asleep \ Waking
    /\ Waking \subseteq Asleep

\* "Add myself to queue" (390): whoever sleeps can be found on the list, or is the one
\* being woken, unless it has called Sleep between the daemon's load of next and its
\* store (494).  Then it may be lost itself; whatever its node is linked to may not.
NoneLost == Asleep \ between \subseteq Members(sleep_list) \cup Waking

\* The nodes behind the head are in the order of their times (406-410).
TailSorted ==
    \A i, j \in DOMAIN sleep_list :
        1 < i /\ i < j => wake_up_time[sleep_list[i]] <= wake_up_time[sleep_list[j]]

\* A process is woken only when its time has come (492).
NeverEarly ==
    [][\A p \in Procs : pc[p] = "asleep" /\ pc'[p] = "user"
          => wake_up_time[p] <= time_counter]_vars

\* "Pauses the current process for a specified number of seconds" (382): when
\* the daemon has handled a slot, nobody whose time has come is left asleep.
OnTime ==
    [][dpc = "scan" /\ dpc' = "wait" =>
         \A p \in Asleep : wake_up_time[p] > time_counter]_vars

\* The tick by which a process on the list is woken: its own or the head's, which the
\* handler never compares with it (405-406), whichever is later.
Due(p) ==
    LET h == wake_up_time[Head(sleep_list)]
    IN  IF wake_up_time[p] <= h THEN h ELSE wake_up_time[p]

\* What is left of "for a specified number of seconds" (382): later sleepers and the
\* daemon's own steps never put a process on the list off past the tick that bound it
\* when it joined (405-411, 494), and when the daemon has handled a slot nobody sleeps whose
\* tick has come, but those that may be lost (492-495).
NeverPutOff ==
    [][/\ \A p \in Members(sleep_list) \cap Members(sleep_list') : Due(p)' <= Due(p)
       /\ dpc = "scan" /\ dpc' = "wait" =>
             \A p \in Asleep \ between : time_counter < Due(p)]_vars

\* Every sleeper that has not called in the gap of 494 is woken in the end (382, 492-495),
\* those of the daemon's priority too.
EverySleeperWakes ==
    \A p \in Procs : pc[p] = "asleep" /\ p \notin between ~> pc[p] = "user"
=============================================================================
