----------------------------- MODULE TrackCount -----------------------------
(***************************************************************************)
(* How phase4.c learns the number of tracks of its two disks: get_tracks,  *)
(* which asks the devices when the system starts, and wait_get_tracks and  *)
(* DiskSize_handler, which wait for the answer in track_list0 or           *)
(* track_list1.  The critical sections are modelled as the code has them,  *)
(* with a mailbox of one slot as the lock.                                 *)
(*                                                                         *)
(* Scheduling.  get_tracks and the disk daemons have priority 1, and so    *)
(* may a caller (HighPrio).  Whoever runs goes on until it blocks: a       *)
(* handler has interrupts off, and nothing is above priority 1.  Only when *)
(* a time slice expires can one process of priority 1 take over from       *)
(* another in the middle; sliced says whether that may happen.             *)
(***************************************************************************)
EXTENDS Integers, Sequences, FiniteSets

CONSTANTS
    Procs,      \* the callers: the disk daemons and user processes
    HighPrio,   \* those of priority 1
    Getter,     \* get_tracks
    Nobody,     \* NULL
    CallLists,  \* the calls each process may make, a set of sequences
    Size        \* the number of tracks of each unit's disk

Units == {0, 1}

\* The branches test unit == 0 and take anything else for unit 1.
UnitOf(arg) == IF arg = 0 THEN 0 ELSE 1

CallArgs == [kind : {"wait", "size"}, unit : Int]

ASSUME TrackAssumption ==
    /\ HighPrio \subseteq Procs
    /\ Getter \notin Procs
    /\ Nobody \notin Procs \cup {Getter}
    /\ CallLists \in [Procs -> SUBSET Seq(CallArgs)]
    /\ Size \in [Units -> Nat]

Users == Procs \cup {Getter}

VARIABLES
    pc,             \* where a process is, see TypeOK
    todo,           \* the calls it has still to make, the current one first
    answer,         \* what its last DiskSize has reported for each unit
    track_count,    \* track_count0 and track_count1
    count_mutex,    \* the one-slot mailboxes of track_count_lock ...
    list_mutex,     \* ... and track_list_lock: is the slot taken?
    track_list,     \* track_list0 and track_list1: the owner of the first node
    next,           \* of a process's track_list_node
    response,       \* of a process's track_list_node
    mbox,           \* does the node's mailbox hold the message?
    unit,           \* get_track_count: its unit ...
    curr,           \* ... and the node it has come to
    dev,            \* a unit's device: "idle", "busy", "done" (status posted)
    running,        \* the process that has the processor
    sliced          \* may time slices expire among processes of priority 1?

callVars == <<todo, answer>>
countVars == <<track_count, count_mutex>>
listVars == <<track_list, next, response, mbox, list_mutex>>
getVars == <<unit, curr, dev>>
vars == <<pc, callVars, countVars, listVars, getVars, running, sliced>>

-----------------------------------------------------------------------------
(***************************************************************************)
(* The dispatcher.                                                         *)
(***************************************************************************)
\* phase4_start_service_processes forks get_tracks and the daemons with priority 1.
High == HighPrio \cup {Getter}

\* A caller outside its calls may be blocked elsewhere; get_tracks is not.
Blocked(p) ==
    \/ pc[p] = "out" /\ (p = Getter => todo[p] = <<>>)
    \/ pc[p] = "recv" /\ ~mbox[p]
    \/ pc[p] = "dev" /\ dev[unit] # "done"

CanRun(p) ==
    \/ running = p
    \/ running = Nobody /\ (p \in High \/ \A q \in High : Blocked(q))
    \/ sliced /\ p \in High /\ running \in High

\* p goes on from one point to the next, and keeps the processor.
Goes(p, from, to) ==
    /\ CanRun(p)
    /\ pc[p] = from
    /\ pc' = [pc EXCEPT ![p] = to]
    /\ running' = p
    /\ UNCHANGED sliced

\* It gives the processor up.
Stops(p, from, to) ==
    /\ CanRun(p)
    /\ pc[p] = from
    /\ pc' = [pc EXCEPT ![p] = to]
    /\ running' = Nobody
    /\ UNCHANGED sliced

\* Mutant of Lock: does not wait for the slot.
LockAnyway(mutex, u) == mutex' = [mutex EXCEPT ![u] = TRUE]

\* MboxSend to the mutex mailbox, which blocks while its slot is taken.
Lock(mutex, u) == ~mutex[u] /\ mutex' = [mutex EXCEPT ![u] = TRUE]

\* MboxRecv from it.
Unlock(mutex, u) == mutex' = [mutex EXCEPT ![u] = FALSE]

-----------------------------------------------------------------------------
(***************************************************************************)
(* wait_get_tracks and DiskSize_handler, which differ in what they return. *)
(***************************************************************************)
Unit(p) == UnitOf(Head(todo[p]).unit)

\* The call of p is over; DiskSize reports count.
Answered(p, count) ==
    /\ todo' = [todo EXCEPT ![p] = Tail(@)]
    /\ answer' = IF Head(todo[p]).kind = "size"
                 THEN [answer EXCEPT ![p][Unit(p)] = count]
                 ELSE answer

Enter(p) ==
    /\ todo[p] # <<>>
    /\ Goes(p, "out", "count")
    /\ Lock(count_mutex, Unit(p))
    /\ UNCHANGED <<callVars, track_count, listVars, getVars>>

\* Mutant of KnownCount: returns with the lock.
KnownCountLocked(p) ==
    /\ Stops(p, "count", "out")
    /\ track_count[Unit(p)] > -1
    /\ Answered(p, track_count[Unit(p)])
    /\ UNCHANGED <<countVars, listVars, getVars>>

KnownCount(p) ==
    /\ Stops(p, "count", "out")
    /\ track_count[Unit(p)] > -1
    /\ Unlock(count_mutex, Unit(p))
    /\ Answered(p, track_count[Unit(p)])
    /\ UNCHANGED <<track_count, listVars, getVars>>

UnknownCount(p) ==
    /\ Goes(p, "count", "list")
    /\ track_count[Unit(p)] < 0
    /\ Unlock(count_mutex, Unit(p))
    /\ UNCHANGED <<callVars, track_count, listVars, getVars>>

LockList(p) ==
    /\ Goes(p, "list", "link")
    /\ Lock(list_mutex, Unit(p))
    /\ UNCHANGED <<callVars, countVars, track_list, next, response, mbox, getVars>>

\* Mutant of Inserted: forgets the nodes behind the head.
InsertedLast(head, p) == [next EXCEPT ![p] = Nobody, ![head] = p]

\* new_node.next = head->next; head->next = &new_node.
Inserted(head, p) == [next EXCEPT ![p] = next[head], ![head] = p]

\* The new node is linked, as the head or behind it; then the lock is released.
Link(p) ==
    LET head == track_list[Unit(p)] IN
    /\ Stops(p, "link", "recv")
    /\ \/ /\ head = Nobody
          /\ track_list' = [track_list EXCEPT ![Unit(p)] = p]
          /\ next' = [next EXCEPT ![p] = Nobody]
       \/ /\ head # Nobody
          /\ next' = Inserted(head, p)
          /\ UNCHANGED track_list
    /\ mbox' = [mbox EXCEPT ![p] = FALSE]
    /\ Unlock(list_mutex, Unit(p))
    /\ UNCHANGED <<callVars, countVars, response, getVars>>

\* Mutant of Recv: does not wait for the message.
RecvAtOnce(p) ==
    /\ Stops(p, "recv", "out")
    /\ mbox' = [mbox EXCEPT ![p] = FALSE]
    /\ Answered(p, response[p])
    /\ UNCHANGED <<countVars, track_list, next, response, list_mutex, getVars>>

\* The message arrives: the frame with the node is left.
Recv(p) ==
    /\ mbox[p]
    /\ Stops(p, "recv", "out")
    /\ mbox' = [mbox EXCEPT ![p] = FALSE]
    /\ Answered(p, response[p])
    /\ UNCHANGED <<countVars, track_list, next, response, list_mutex, getVars>>

Proceed(p) ==
    KnownCount(p) \/ UnknownCount(p) \/ LockList(p) \/ Link(p) \/ Recv(p)

-----------------------------------------------------------------------------
(***************************************************************************)
(* get_tracks: get_track_count(0), get_track_count(1), then DiskSize of    *)
(* both units, as the calls it has to do.                                  *)
(***************************************************************************)
Ask ==
    /\ Stops(Getter, "ask", "dev")
    /\ dev' = [dev EXCEPT ![unit] = "busy"]
    /\ UNCHANGED <<callVars, countVars, listVars, unit, curr>>

\* The device, and its interrupt handler, which posts the status.
DeviceDone(u) ==
    /\ dev[u] = "busy"
    /\ dev' = [dev EXCEPT ![u] = "done"]
    /\ UNCHANGED <<pc, callVars, countVars, listVars, unit, curr, running, sliced>>

\* waitDevice returns.
GotCount ==
    /\ dev[unit] = "done"
    /\ Goes(Getter, "dev", "got")
    /\ dev' = [dev EXCEPT ![unit] = "idle"]
    /\ UNCHANGED <<callVars, countVars, listVars, unit, curr>>

LockCount ==
    /\ Goes(Getter, "got", "store")
    /\ Lock(count_mutex, unit)
    /\ UNCHANGED <<callVars, track_count, listVars, getVars>>

StoreCount ==
    /\ Goes(Getter, "store", "stored")
    /\ track_count' = [track_count EXCEPT ![unit] = Size[unit]]
    /\ Unlock(count_mutex, unit)
    /\ UNCHANGED <<callVars, listVars, getVars>>

StartWalk ==
    /\ Goes(Getter, "stored", "walk")
    /\ Lock(list_mutex, unit)
    /\ curr' = track_list[unit]
    /\ UNCHANGED <<callVars, countVars, track_list, next, response, mbox, unit, dev>>

\* Mutant of Notify: sends the message without the count.
NotifyOnly ==
    /\ curr # Nobody
    /\ Goes(Getter, "walk", "sent")
    /\ mbox' = [mbox EXCEPT ![curr] = TRUE]
    /\ UNCHANGED <<callVars, countVars, track_list, next, response, list_mutex,
                   getVars>>

Notify ==
    /\ curr # Nobody
    /\ Goes(Getter, "walk", "sent")
    /\ response' = [response EXCEPT ![curr] = track_count[unit]]
    /\ mbox' = [mbox EXCEPT ![curr] = TRUE]
    /\ UNCHANGED <<callVars, countVars, track_list, next, list_mutex, getVars>>

\* curr = curr->next, after MboxSend.  When the owner of curr has returned in the
\* meantime, its frame holds the old value or what was written over it, for which
\* NULL stands.
Advance ==
    /\ Goes(Getter, "sent", "walk")
    /\ \/ curr' = next[curr]
       \/ pc[curr] # "recv" /\ curr' = Nobody
    /\ UNCHANGED <<callVars, countVars, listVars, unit, dev>>

\* Mutant of EndWalk: goes on to a third unit.
EndWalkLate ==
    /\ curr = Nobody
    /\ Goes(Getter, "walk", "ask")
    /\ unit' = unit + 1
    /\ Unlock(list_mutex, unit)
    /\ UNCHANGED <<callVars, countVars, track_list, next, response, mbox, curr, dev>>

EndWalk ==
    /\ curr = Nobody
    /\ \/ unit = 0 /\ unit' = 1 /\ Goes(Getter, "walk", "ask")
       \/ unit = 1 /\ unit' = 1 /\ Goes(Getter, "walk", "out")
    /\ Unlock(list_mutex, unit)
    /\ UNCHANGED <<callVars, countVars, track_list, next, response, mbox, curr, dev>>

GetTrackCount ==
    Ask \/ GotCount \/ LockCount \/ StoreCount \/ StartWalk \/ Notify \/ Advance
        \/ EndWalk

-----------------------------------------------------------------------------
GetterCalls == <<[kind |-> "size", unit |-> 0], [kind |-> "size", unit |-> 1]>>

Init ==
    /\ pc = [p \in Users |-> IF p = Getter THEN "ask" ELSE "out"]
    /\ \E f \in [Procs -> UNION {CallLists[p] : p \in Procs}] :
          /\ \A p \in Procs : f[p] \in CallLists[p]
          /\ todo = [p \in Users |-> IF p = Getter THEN GetterCalls ELSE f[p]]
    /\ answer = [p \in Users |-> [u \in Units |-> -1]]
    /\ track_count = [u \in Units |-> -1]
    /\ count_mutex = [u \in Units |-> FALSE]
    /\ list_mutex = [u \in Units |-> FALSE]
    /\ track_list = [u \in Units |-> Nobody]
    /\ next = [p \in Users |-> Nobody]
    /\ response = [p \in Users |-> -1]
    /\ mbox = [p \in Users |-> FALSE]
    /\ unit = 0
    /\ curr = Nobody
    /\ dev = [u \in Units |-> "idle"]
    /\ running = Nobody
    /\ sliced \in BOOLEAN

Next ==
    \/ \E p \in Users : Enter(p) \/ Proceed(p)
    \/ GetTrackCount
    \/ \E u \in Units : DeviceDone(u)

Spec == Init /\ [][Next]_vars

\* The device answers, get_tracks has the highest priority, and a call that has
\* begun goes on whenever its process can run.
FairSpec ==
    /\ Spec
    /\ WF_vars(GetTrackCount \/ Enter(Getter))
    /\ \A u \in Units : WF_vars(DeviceDone(u))
    /\ \A p \in Users : WF_vars(Proceed(p))

-----------------------------------------------------------------------------
(***************************************************************************)
(* Properties.                                                             *)
(***************************************************************************)
\* The type of every variable.  A process is outside ("out"), holds the lock of
\* the count ("count", "store"), is about to take the lock of the list ("list",
\* "stored"), holds it ("link", "walk", "sent") or waits ("recv", "dev").
TypeOK ==
    /\ pc \in [Users -> {"out", "count", "list", "link", "recv", "ask", "dev",
                         "got", "store", "stored", "walk", "sent"}]
    /\ todo \in [Users -> Seq(CallArgs)]
    /\ answer \in [Users -> [Units -> Int]]
    /\ track_count \in [Units -> Int]
    /\ count_mutex \in [Units -> BOOLEAN]
    /\ list_mutex \in [Units -> BOOLEAN]
    /\ track_list \in [Units -> Users \cup {Nobody}]
    /\ next \in [Users -> Users \cup {Nobody}]
    /\ response \in [Users -> Int]
    /\ mbox \in [Users -> BOOLEAN]
    /\ unit \in Units
    /\ curr \in Users \cup {Nobody}
    /\ dev \in [Units -> {"idle", "busy", "done"}]
    /\ running \in Users \cup {Nobody}
    /\ sliced \in BOOLEAN

\* The processes between lock and unlock of a unit's count, and of its list.
InCount(u) ==
    {p \in Users : pc[p] = "count" /\ Unit(p) = u}
        \cup (IF pc[Getter] = "store" /\ unit = u THEN {Getter} ELSE {})

InList(u) ==
    {p \in Users : pc[p] = "link" /\ Unit(p) = u}
        \cup (IF pc[Getter] \in {"walk", "sent"} /\ unit = u THEN {Getter} ELSE {})

\* One process at a time is between lock and unlock, wherever time slices end: a
\* mailbox of one slot is a mutex (895-990).
MutualExclusion ==
    \A u \in Units :
        /\ \A p, q \in InCount(u) : p = q
        /\ \A p, q \in InList(u) : p = q

\* A lock that is taken is held by a process that can run: nobody waits at a mutex
\* for one that is itself held up, whatever its priority, and none is left taken by
\* the path that returns early (275-292, 302-330, 656-685).
LockHolderRuns ==
    \A u \in Units :
        /\ count_mutex[u] => \E p \in InCount(u) : CanRun(p)
        /\ list_mutex[u] => \E p \in InList(u) : CanRun(p)

\* get_track_count walks over nodes whose owners still wait in the frame the node
\* lives in, as long as no time slice ends in between (662-668).
NodesLive ==
    ~sliced /\ pc[Getter] \in {"walk", "sent"} /\ curr # Nobody => pc[curr] = "recv"

\* The walk over unit u's list is to come.
Unwalked(u) ==
    \/ unit < u
    \/ unit = u /\ pc[Getter] \in {"ask", "dev", "got", "store", "stored"}

\* The first node of unit u's list that get_track_count has still to come to.
Ahead(u) ==
    IF Unwalked(u) THEN track_list[u]
    ELSE IF unit = u /\ pc[Getter] = "walk" THEN curr
    ELSE IF unit = u /\ pc[Getter] = "sent" THEN next[curr]
    ELSE Nobody

\* Following next from node n, one comes to the node of p: p is in every set that n
\* is in and that next does not lead out of.
Leads(n, p) ==
    \A S \in SUBSET Users :
        n \in S \cup {Nobody} /\ (\A q \in S : next[q] \in S \cup {Nobody}) => p \in S

\* As long as no time slice ends in between, whoever waits for a count without a
\* message is on the way of get_track_count: insertion behind the head loses no node
\* (713-714), no node is linked after its unit's walk has passed (692-717), and the
\* walk skips none (662-668).  After the walk nobody is left without a message.
NoneForgotten ==
    ~sliced => \A p \in Users :
                  pc[p] = "recv" /\ ~mbox[p] => Leads(Ahead(Unit(p)), p)

\* Each process of priority 1 makes one call at most, as the disk daemons do (766).
OneCall == \A p \in HighPrio : \A calls \in CallLists[p] : Len(calls) <= 1

\* DiskSize reports the number of tracks of the disk it was asked about: not the
\* -1 of the start, not the other unit's number, not what its node held when it
\* was allocated (278-281, 343-344, 663).  It needs ~sliced or OneCall: a user
\* process of priority 1 that runs between MboxSend and curr->next (666-667) and
\* waits for the other unit next leads the walk onto that unit's list.
RightCount ==
    [][\A p \in Users :
         todo'[p] # todo[p] /\ Head(todo[p]).kind = "size"
            => answer'[p][Unit(p)] = Size[Unit(p)]]_vars

\* "so daemon can wake me up at the right time" (335): every call of DiskSize and
\* wait_get_tracks returns.
EveryWaiterReturns ==
    \A p \in Users : pc[p] \in {"count", "list", "link", "recv"} ~> pc[p] = "out"

\* So it is as long as no time slice ends between the reading of the count and the
\* linking of the node (692-717), or between MboxSend and curr->next (666-667).
UnslicedReturns ==
    \A p \in Users :
        ~sliced /\ pc[p] \in {"count", "list", "link", "recv"} ~> pc[p] = "out"
=============================================================================
