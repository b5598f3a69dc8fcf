------------------------------ MODULE DiskQueue ------------------------------
(***************************************************************************)
(* The request queue of one disk unit of phase4.c: disk_helper, run by the *)
(* processes that call DiskRead and DiskWrite, and disk_daemon, which      *)
(* serves the queue one device request at a time.  The code keeps two      *)
(* copies of everything here, for disk0 and disk1; a copy is an instance.  *)
(*                                                                         *)
(* The queue is a linked list of nodes that live on the callers' stacks,   *)
(* so a node is named by its owner: disk_list is a sequence of processes.  *)
(*                                                                         *)
(* Atomicity.  A system call handler runs with interrupts off, hence in    *)
(* one step up to the point where it blocks.  The daemon runs with         *)
(* interrupts on; each of its critical sections (disk_lock .. disk_unlock) *)
(* is one step, together with the private computation around it.  The      *)
(* dispatcher runs the daemon, of the highest priority, before any process *)
(* of a lower one; a process of the daemon's own priority (HighPrio) may   *)
(* run between any two of its steps.                                       *)
(***************************************************************************)
EXTENDS DiskRequests, LinkedLists

CONSTANTS
    Procs,      \* the processes that use the disk
    HighPrio,   \* those of priority 1, the daemon's priority
    Nobody,     \* owner of a device request that moves no data
    MaxCalls    \* bound of the model: calls a process makes

ASSUME ConstantsAssumption ==
    /\ HighPrio \subseteq Procs
    /\ Nobody \notin Procs
    /\ MaxCalls \in Nat

VARIABLES
    pc,         \* a process: "user"; "kick", about to wake the daemon;
                \* "recv", waiting on its mailbox
    calls,      \* calls a process has made (also names its current call)
    asked,      \* args of the current or last call of a process
    reply,      \* args->arg1 and arg4 as its last call left them
    moved,      \* history: what the device has moved for the current call,
                \* as <<track, block, sector of the buffer>>
    disk_list,  \* disk_list0 (or disk_list1)
    node,       \* disk_list_node of a process
    mbox,       \* processes whose mailbox holds the daemon's message
    dpc,        \* disk_daemon: "boot", "wait", "got" a status, "send"
    status,     \* its local status
    req,        \* its local req
    gpc,        \* get_track_count in get_tracks: "start", "wait", "done"
    dev,        \* the request the device is executing
    arm,        \* the track under the heads
    slot        \* the device's interrupt mailbox, one slot

userVars == <<pc, calls, asked, reply>>
daemonVars == <<dpc, status, req>>
deviceVars == <<dev, arm, slot, moved>>
vars == <<userVars, disk_list, node, mbox, daemonVars, gpc, deviceVars>>

-----------------------------------------------------------------------------
(***************************************************************************)
(* Device requests and the disk.                                           *)
(***************************************************************************)
Statuses == {"READY", "ERROR"}

DeviceRequest ==
    [opr : {"NONE", "TRACKS", "SEEK", "READ", "WRITE"}, reg1 : Int,
     owner : Procs \cup {Nobody}, sector : Int, call : Nat]

\* A request without data; reg1 is the track of a SEEK.
Command(opr, reg1) ==
    [opr |-> opr, reg1 |-> reg1, owner |-> Nobody, sector |-> 0, call |-> 0]

NoRequest == Command("NONE", 0)

Busy == dev # NoRequest

Moves(r) == r.opr \in {"READ", "WRITE"}

\* USLOSS_DeviceOutput: a busy device refuses the request, and no caller looks
\* at the result.
DeviceOutput(r) == dev' = IF Busy THEN dev ELSE r

\* The status a request ends with: only a SEEK off the disk fails.
Outcome(r) ==
    IF r.opr = "SEEK" /\ ~OnTracks(r.reg1) THEN "ERROR" ELSE "READY"

\* The device completes its request and the interrupt handler posts the status;
\* the status is dropped when the last one was not yet received.
DeviceDone ==
    /\ Busy
    /\ dev' = NoRequest
    /\ arm' = IF dev.opr = "SEEK" /\ Outcome(dev) = "READY" THEN dev.reg1 ELSE arm
    /\ moved' = IF Moves(dev) /\ dev.call = calls[dev.owner]
                THEN [moved EXCEPT ![dev.owner] =
                        @ \cup {<<arm, dev.reg1, dev.sector>>}]
                ELSE moved
    /\ slot' = IF slot = "NONE" THEN Outcome(dev) ELSE slot
    /\ UNCHANGED <<userVars, disk_list, node, mbox, daemonVars, gpc>>

-----------------------------------------------------------------------------
(***************************************************************************)
(* The queue: where disk_helper inserts a node, as a relation between the  *)
(* tracks tr of the list, the new track t and the position k of the node   *)
(* the new one is linked behind.                                           *)
(***************************************************************************)
Tracks(list) == [i \in DOMAIN list |-> node[list[i]].track]

\* The loop that looks for the end of the list's first, ascending, part.
FrontEnd(tr, m) ==
    /\ m \in DOMAIN tr
    /\ \A j \in 1 .. m - 1 : tr[j] <= tr[j + 1]
    /\ m < Len(tr) => tr[m] > tr[m + 1]

\* A track below the head's goes to the second part.
BehindFront(tr, t, k) ==
    \E m \in DOMAIN tr :
        /\ FrontEnd(tr, m)
        /\ k \in m .. Len(tr)
        /\ \A j \in m .. k - 1 : tr[j + 1] < t
        /\ k < Len(tr) => tr[k + 1] >= t

\* Mutant of InFront: walks on into the second part.
InFrontThrough(tr, t, k) ==
    /\ k \in DOMAIN tr
    /\ \A j \in 1 .. k - 1 : tr[j + 1] < t
    /\ k < Len(tr) => tr[k + 1] >= t

\* Any other track goes to the first part.
InFront(tr, t, k) ==
    /\ k \in DOMAIN tr
    /\ \A j \in 1 .. k - 1 : tr[j + 1] < t /\ tr[j] < tr[j + 1]
    /\ k < Len(tr) => ~(tr[k + 1] < t /\ tr[k] < tr[k + 1])

InsertAt(tr, t, k) ==
    IF t < tr[1] THEN BehindFront(tr, t, k) ELSE InFront(tr, t, k)

-----------------------------------------------------------------------------
(***************************************************************************)
(* disk_helper.                                                            *)
(***************************************************************************)
TracksKnown == gpc = "done"

\* The daemon and get_tracks are blocked on a mailbox.
DaemonsBlocked ==
    /\ (dpc = "boot" /\ ~TracksKnown) \/ (dpc = "wait" /\ slot = "NONE")
    /\ gpc = "wait" => slot = "NONE"

CanRun(p) == p \in HighPrio \/ DaemonsBlocked

NewNode(r) ==
    [op |-> r.op, track |-> r.track, sectors |-> r.sectors,
     start_block |-> r.start, sectors_done |-> 0, started |-> FALSE,
     response |-> "READY"]

\* The arguments are taken and, when valid, the node is filled in.
Call(p, r) ==
    /\ CanRun(p)
    /\ pc[p] = "user"
    /\ calls[p] < MaxCalls
    /\ calls' = [calls EXCEPT ![p] = @ + 1]
    /\ asked' = [asked EXCEPT ![p] = r]

Reject(p) ==
    \E r \in Requests :
        /\ Call(p, r)
        /\ ~Valid(r)
        /\ reply' = [reply EXCEPT ![p] = "INVALID"]
        /\ moved' = [moved EXCEPT ![p] = {}]
        /\ UNCHANGED <<pc, disk_list, node, mbox, daemonVars, gpc, dev, arm, slot>>

Enqueue(p, r) ==
    /\ Call(p, r)
    /\ Valid(r)
    /\ node' = [node EXCEPT ![p] = NewNode(r)]
    /\ reply' = [reply EXCEPT ![p] = "NONE"]
    /\ moved' = [moved EXCEPT ![p] = {}]
    /\ UNCHANGED <<mbox, daemonVars, gpc, arm, slot>>

\* The list has a head: link the node behind it and wait for the message.
SubmitBusy(p) ==
    \E r \in Requests :
        /\ Enqueue(p, r)
        /\ disk_list # <<>>
        /\ \E k \in DOMAIN disk_list :
              /\ InsertAt(Tracks(disk_list), r.track, k)
              /\ disk_list' = InsertAfter(disk_list, k, p)
        /\ pc' = [pc EXCEPT ![p] = "recv"]
        /\ UNCHANGED dev

\* Mutant of SubmitIdle: does not wait for the track count.
SubmitAtOnce(p) ==
    \E r \in Requests :
        /\ Enqueue(p, r)
        /\ disk_list = <<>>
        /\ disk_list' = <<p>>
        /\ pc' = [pc EXCEPT ![p] = "recv"]
        /\ DeviceOutput(Command("TRACKS", 0))

\* The list is empty and the track count is known: the new head wakes the
\* daemon with a TRACKS request.
SubmitIdle(p) ==
    \E r \in Requests :
        /\ Enqueue(p, r)
        /\ disk_list = <<>>
        /\ TracksKnown
        /\ disk_list' = <<p>>
        /\ pc' = [pc EXCEPT ![p] = "recv"]
        /\ DeviceOutput(Command("TRACKS", 0))

\* The list is empty, and the caller loses the processor between the insertion
\* and the request: in wait_get_tracks, or, at the daemon's priority, because
\* disk_unlock readied a daemon that was waiting for the lock.
SubmitEarly(p) ==
    \E r \in Requests :
        /\ Enqueue(p, r)
        /\ disk_list = <<>>
        /\ ~TracksKnown \/ (p \in HighPrio /\ dpc = "got")
        /\ disk_list' = <<p>>
        /\ pc' = [pc EXCEPT ![p] = "kick"]
        /\ UNCHANGED dev

\* Mutant of Kick: sends no request.
KickSilent(p) ==
    /\ pc[p] = "kick"
    /\ TracksKnown
    /\ CanRun(p)
    /\ pc' = [pc EXCEPT ![p] = "recv"]
    /\ UNCHANGED <<calls, asked, reply, disk_list, node, mbox, daemonVars, gpc,
                   deviceVars>>

Kick(p) ==
    /\ pc[p] = "kick"
    /\ TracksKnown
    /\ CanRun(p)
    /\ pc' = [pc EXCEPT ![p] = "recv"]
    /\ DeviceOutput(Command("TRACKS", 0))
    /\ UNCHANGED <<calls, asked, reply, disk_list, node, mbox, daemonVars, gpc,
                   arm, slot, moved>>

\* MboxRecv finds the daemon's message; the handler returns to the caller.
Return(p) ==
    /\ pc[p] = "recv"
    /\ p \in mbox
    /\ CanRun(p)
    /\ mbox' = mbox \ {p}
    /\ pc' = [pc EXCEPT ![p] = "user"]
    /\ reply' = [reply EXCEPT ![p] = node[p].response]
    /\ UNCHANGED <<calls, asked, disk_list, node, daemonVars, gpc, deviceVars>>

-----------------------------------------------------------------------------
(***************************************************************************)
(* get_tracks, as far as it shares the unit's device with the daemon.      *)
(***************************************************************************)
AskTracks ==
    /\ gpc = "start"
    /\ gpc' = "wait"
    /\ DeviceOutput(Command("TRACKS", 0))
    /\ UNCHANGED <<userVars, disk_list, node, mbox, daemonVars, arm, slot, moved>>

PublishTracks ==
    /\ gpc = "wait"
    /\ slot # "NONE"
    /\ slot' = "NONE"
    /\ gpc' = "done"
    /\ UNCHANGED <<userVars, disk_list, node, mbox, daemonVars, dev, arm, moved>>

-----------------------------------------------------------------------------
(***************************************************************************)
(* disk_daemon.                                                            *)
(***************************************************************************)
DaemonBoot ==
    /\ dpc = "boot"
    /\ TracksKnown
    /\ dpc' = "wait"
    /\ UNCHANGED <<userVars, disk_list, node, mbox, status, req, gpc, deviceVars>>

\* waitDevice returns.
DaemonWake ==
    /\ dpc = "wait"
    /\ slot # "NONE"
    /\ status' = slot
    /\ slot' = "NONE"
    /\ dpc' = "got"
    /\ UNCHANGED <<userVars, disk_list, node, mbox, req, gpc, dev, arm, moved>>

DaemonIdle ==
    /\ dpc = "got"
    /\ disk_list = <<>>
    /\ dpc' = "wait"
    /\ UNCHANGED <<userVars, disk_list, node, mbox, status, req, gpc, deviceVars>>

\* Mutant of PopHead: answers the head but leaves it on the list.
AnswerHead ==
    LET h == Head(disk_list) IN
    /\ node' = [node EXCEPT ![h].response = status]
    /\ mbox' = mbox \cup {h}
    /\ UNCHANGED disk_list

\* Unlink the head, set its response and send to its mailbox.
PopHead ==
    LET h == Head(disk_list) IN
    /\ disk_list' = Tail(disk_list)
    /\ node' = [node EXCEPT ![h].response = status]
    /\ mbox' = mbox \cup {h}

\* The daemon has a status and a head to serve.
Serving == dpc = "got" /\ disk_list # <<>>

\* The branch of USLOSS_DEV_ERROR: no request follows it.
DaemonError ==
    /\ Serving
    /\ status = "ERROR"
    /\ PopHead
    /\ dpc' = "wait"
    /\ UNCHANGED <<userVars, status, req, gpc, deviceVars>>

\* Mutant of Complete: one sector early.
CompleteEarly(n) == n.sectors_done + 1 >= n.sectors

\* Mutant of Complete: a negative number of sectors is done at once.
CompleteAtLeast(n) == n.sectors_done >= n.sectors

Complete(n) == n.sectors_done = n.sectors

\* Mutant of DaemonFinish: goes back to waitDevice without a request.
DaemonFinishSilent ==
    /\ Serving
    /\ status # "ERROR"
    /\ node[Head(disk_list)].started
    /\ Complete(node[Head(disk_list)])
    /\ PopHead
    /\ dpc' = "wait"
    /\ UNCHANGED <<userVars, status, req, gpc, deviceVars>>

\* The head's last sector is done.  The daemon goes on to DeviceOutput with the
\* request it sent last.
DaemonFinish ==
    /\ Serving
    /\ status # "ERROR"
    /\ node[Head(disk_list)].started
    /\ Complete(node[Head(disk_list)])
    /\ PopHead
    /\ dpc' = "send"
    /\ UNCHANGED <<userVars, status, req, gpc, deviceVars>>

\* A node the daemon starts is sent to its track first.
Started(n) == [n EXCEPT !.started = TRUE]

DaemonStart ==
    LET h == Head(disk_list) IN
    /\ Serving
    /\ status # "ERROR"
    /\ ~node[h].started
    /\ node' = [node EXCEPT ![h] = Started(@)]
    /\ req' = Command("SEEK", node[h].track)
    /\ dpc' = "send"
    /\ UNCHANGED <<userVars, disk_list, mbox, status, gpc, deviceVars>>

\* The head of a started operation that is not complete.
Continuing ==
    /\ Serving
    /\ status # "ERROR"
    /\ node[Head(disk_list)].started
    /\ ~Complete(node[Head(disk_list)])

\* Mutant of Crossed: takes back a sector that was never counted.
CrossedBack(n) ==
    [n EXCEPT !.start_block = 0, !.track = @ + 1, !.sectors_done = @ - 1]

\* Past the track's last block: on to block 0 of the next track.
Crossed(n) == [n EXCEPT !.start_block = 0, !.track = @ + 1]

DaemonCross ==
    LET h == Head(disk_list) IN
    /\ Continuing
    /\ node[h].start_block = NBlocks
    /\ node' = [node EXCEPT ![h] = Crossed(@)]
    /\ req' = Command("SEEK", node[h].track + 1)
    /\ dpc' = "send"
    /\ UNCHANGED <<userVars, disk_list, mbox, status, gpc, deviceVars>>

\* Mutant of Advanced: the block number stays.
AdvancedInPlace(n) == [n EXCEPT !.sectors_done = @ + 1]

\* The next block, from or to the next sector of the caller's buffer.
Advanced(n) == [n EXCEPT !.sectors_done = @ + 1, !.start_block = @ + 1]

DaemonTransfer ==
    LET h == Head(disk_list) IN
    /\ Continuing
    /\ node[h].start_block # NBlocks
    /\ node' = [node EXCEPT ![h] = Advanced(@)]
    /\ req' = [opr |-> node[h].op, reg1 |-> node[h].start_block, owner |-> h,
               sector |-> node[h].sectors_done, call |-> calls[h]]
    /\ dpc' = "send"
    /\ UNCHANGED <<userVars, disk_list, mbox, status, gpc, deviceVars>>

DaemonSend ==
    /\ dpc = "send"
    /\ dpc' = "wait"
    /\ DeviceOutput(req)
    /\ UNCHANGED <<userVars, disk_list, node, mbox, status, req, gpc, arm, slot,
                   moved>>

-----------------------------------------------------------------------------
NoArgs == [op |-> "READ", track |-> 0, start |-> 0, sectors |-> 0]

Init ==
    /\ pc = [p \in Procs |-> "user"]
    /\ calls = [p \in Procs |-> 0]
    /\ asked = [p \in Procs |-> NoArgs]
    /\ reply = [p \in Procs |-> "NONE"]
    /\ moved = [p \in Procs |-> {}]
    /\ disk_list = <<>>
    /\ node = [p \in Procs |-> NewNode(NoArgs)]
    /\ mbox = {}
    /\ dpc = "boot"
    /\ status = "READY"
    /\ req = NoRequest
    /\ gpc = "start"
    /\ dev = NoRequest
    /\ arm = 0
    /\ slot = "NONE"

Helper(p) ==
    Reject(p) \/ SubmitBusy(p) \/ SubmitIdle(p) \/ SubmitEarly(p) \/ Kick(p) \/ Return(p)

GetTracks == AskTracks \/ PublishTracks

Daemon ==
    DaemonBoot \/ DaemonWake \/ DaemonIdle \/ DaemonError \/ DaemonFinish
        \/ DaemonStart \/ DaemonCross \/ DaemonTransfer \/ DaemonSend

Next == (\E p \in Procs : Helper(p)) \/ GetTracks \/ Daemon \/ DeviceDone

Spec == Init /\ [][Next]_vars

\* The daemon and get_tracks have the highest priority, the device always
\* answers, and a process that is ready runs once nothing above it is.  Nothing
\* makes a process call.
Fairness ==
    /\ WF_vars(Daemon)
    /\ WF_vars(GetTracks)
    /\ WF_vars(DeviceDone)
    /\ \A p \in Procs : WF_vars(Kick(p)) /\ WF_vars(Return(p))

FairSpec == Spec /\ Fairness
-----------------------------------------------------------------------------
(***************************************************************************)
(* Properties.                                                             *)
(***************************************************************************)
DiskNode ==
    [op : {"READ", "WRITE"}, track : Int, sectors : Int, start_block : Int,
     sectors_done : Nat, started : BOOLEAN, response : Statuses]

Owners == Members(disk_list)

\* The type of every variable.
TypeOK ==
    /\ pc \in [Procs -> {"user", "kick", "recv"}]
    /\ calls \in [Procs -> Nat]
    /\ asked \in [Procs -> Arguments]
    /\ reply \in [Procs -> {"NONE", "INVALID"} \cup Statuses]
    /\ moved \in [Procs -> SUBSET (Int \X Int \X Int)]
    /\ disk_list \in Seq(Procs)
    /\ node \in [Procs -> DiskNode]
    /\ mbox \in SUBSET Procs
    /\ dpc \in {"boot", "wait", "got", "send"}
    /\ status \in Statuses
    /\ req \in DeviceRequest
    /\ gpc \in {"start", "wait", "done"}
    /\ dev \in DeviceRequest
    /\ OnTracks(arm)
    /\ slot \in {"NONE"} \cup Statuses

\* A node lives on the stack of the process that called disk_helper: the list
\* holds it once, from the call until the daemon's message, and never after the
\* process has the message, when the frame may be gone (620-627, 794, 823).
NodeLifetime ==
    /\ NoRepeat(disk_list)
    /\ \A p \in Procs : p \in Owners <=> pc[p] # "user" /\ p \notin mbox
    /\ \A p \in mbox : pc[p] # "user"

\* The daemon works on one operation at a time: only the head is ever started,
\* whatever was linked behind it in the meantime (553-575, 875).
OnlyHeadStarted ==
    \A i \in DOMAIN disk_list : node[disk_list[i]].started => i = 1

\* The head is about to send the request that wakes the daemon.
KickPending == \E p \in Procs : pc[p] = "kick"

\* A queue with work never stands still: when the daemon sleeps in waitDevice
\* with nothing to receive, the device is busy or the head is about to wake it.
\* After an error it may stand still, since no request follows one (789-806).
NoStall ==
    dpc = "wait" /\ slot = "NONE" /\ disk_list # <<>>
        => Busy \/ KickPending \/ status = "ERROR"

\* What NoStall rests on: the daemon leaves its boot wait only when the track
\* count is known; until then the head waits with it; and once a node has been
\* started, req holds a request to repeat.
WakeUpInv ==
    /\ dpc # "boot" => TracksKnown
    /\ ~TracksKnown /\ disk_list # <<>> => KickPending
    /\ dpc \in {"boot", "wait"} /\ slot = "NONE" /\ disk_list # <<>>
          => Busy \/ KickPending \/ (dpc = "wait" /\ status = "ERROR")
    /\ \A p \in Procs : node[p].started => req # NoRequest
    /\ dpc = "send" => req # NoRequest

\* Below the daemon's priority, the unit has one thing in flight: a request, a
\* status or the daemon.  So the device is idle when the daemon sends, no status
\* is dropped, and a status answers the daemon's last request (810-881).
OneInFlight ==
    HighPrio = {} =>
        /\ dpc \in {"got", "send"} => ~Busy /\ slot = "NONE"
        /\ Busy => slot = "NONE"

\* What OneInFlight rests on: get_tracks is done with the device before the
\* daemon and the callers start to use it.
InFlightInv ==
    HighPrio = {} =>
        /\ OneInFlight
        /\ dpc # "boot" => TracksKnown
        /\ gpc = "start" => ~Busy /\ slot = "NONE"
        /\ dpc = "boot" /\ TracksKnown => ~Busy /\ slot = "NONE"

\* When the daemon answers 0, the device has moved exactly the blocks asked for,
\* each from or to its place in the buffer, across track boundaries (841-869).
ExactTransfer ==
    \A p \in mbox : node[p].response = "READY" => moved[p] = Wanted(asked[p])

\* The answer fits the arguments: an error is given exactly for a request the disk
\* ends before, and comes when every block up to that end has been moved; so two
\* calls with the same arguments are answered alike, whatever else is queued
\* (786-806, 815, 841-847).
HonestAnswer ==
    \A p \in mbox :
        /\ node[p].response = Verdict(asked[p])
        /\ node[p].response = "ERROR" =>
              moved[p] = FirstBlocks(asked[p], Extent(asked[p]))

\* The request has been carried out as far as the disk reaches, and not in full.
CutShort(r, k) == k = Extent(r) /\ Verdict(r) = "ERROR"

\* The node of p stands at block sectors_done of its request, or just behind the
\* end of the track before; one not begun is as disk_helper filled it in.
Placed(p) ==
    LET n == node[p]
        a == asked[p]
    IN  /\ n.start_block \in 0 .. NBlocks
        /\ n.track * NBlocks + n.start_block = Place(a, n.sectors_done)
        /\ n.sectors = a.sectors
        /\ a.sectors >= 0 => n.sectors_done <= a.sectors
        /\ ~n.started => n.track = a.track /\ n.sectors_done = 0 /\ moved[p] = {}

\* The daemon's last request is the SEEK to the track h's node stands on.
Seeking(h) ==
    /\ req = Command("SEEK", node[h].track)
    /\ IF OnTracks(node[h].track) THEN OnTracks(asked[h].track)
                                 ELSE CutShort(asked[h], node[h].sectors_done)
    /\ moved[h] = FirstBlocks(asked[h], node[h].sectors_done)

\* The daemon's last request moves the block before the one h's node stands at.
Transferring(h) ==
    /\ Moves(req)
    /\ req.owner = h
    /\ req.call = calls[h]
    /\ req.reg1 = node[h].start_block - 1
    /\ req.sector = node[h].sectors_done - 1
    /\ node[h].sectors_done > 0
    /\ node[h].start_block > 0
    /\ arm = node[h].track
    /\ OnTracks(asked[h].track)
    /\ moved[h] = FirstBlocks(asked[h], node[h].sectors_done - 1)

\* A transfer that is sent again changes nothing.
Repeats(r) == r.owner \in Procs /\ <<arm, r.reg1, r.sector>> \in moved[r.owner]

\* The daemon's last request has ended with status s.
Landed(h, s) ==
    /\ moved[h] = FirstBlocks(asked[h], node[h].sectors_done)
    /\ s = "READY" => /\ arm = node[h].track /\ Outcome(req) = "READY"
                      /\ OnTracks(asked[h].track)
    /\ s = "READY" /\ Moves(req) =>
          req.owner = h /\ req.call = calls[h] /\ Repeats(req)
    /\ s = "ERROR" => CutShort(asked[h], node[h].sectors_done)

\* The daemon has begun the head's operation.
Begun == disk_list # <<>> /\ node[Head(disk_list)].started

\* An operation begun is in one of four places: its request about to be sent, in
\* the device, ended with its status in the mailbox, or in the daemon's hands.
HeadInv ==
    LET h == Head(disk_list) IN
    Begun =>
        \/ dpc = "send" /\ (Seeking(h) \/ Transferring(h))
        \/ dpc = "wait" /\ Busy /\ dev = req /\ (Seeking(h) \/ Transferring(h))
        \/ dpc = "wait" /\ ~Busy /\ slot # "NONE" /\ Landed(h, slot)
        \/ dpc = "got" /\ Landed(h, status)

\* No request ends with an error unless an operation is begun.
NoStrayError ==
    ~Begun =>
        /\ dpc = "send" => Outcome(req) = "READY"
        /\ dpc = "got" => status = "READY"
        /\ Busy => Outcome(dev) = "READY"
        /\ slot # "ERROR"

\* The transfer r is the head's, or is sent again, or is of an earlier call.
Accounted(r) ==
    Moves(r) =>
        /\ r.owner \in Procs
        /\ r.call <= calls[r.owner]
        /\ r.call = calls[r.owner] =>
              \/ Begun /\ r.owner = Head(disk_list)
              \/ r.owner \notin Owners /\ Repeats(r)

\* What ExactTransfer rests on when no caller has the daemon's priority.
TransferInv ==
    /\ \A p \in Owners : Placed(p)
    /\ HeadInv
    /\ NoStrayError
    /\ Accounted(dev)
    /\ dpc = "send" => Accounted(req)
    /\ ExactTransfer
    /\ HonestAnswer

\* Once begun, an operation keeps the head of the queue until the daemon answers
\* its process: no other operation can get between its sectors (349, 366).
HeadStable ==
    [][disk_list # <<>> /\ node[Head(disk_list)].started =>
         \/ disk_list' # <<>> /\ Head(disk_list') = Head(disk_list)
         \/ Head(disk_list) \in mbox']_vars

\* The order the comments of the insertion describe: a first part of ascending
\* tracks from the head's on, then a second part, ascending below it (555, 569).
Elevator ==
    LET tr == Tracks(disk_list) IN
    \A i, j \in DOMAIN tr :
        i < j => \/ (tr[1] <= tr[i] /\ tr[i] <= tr[j])
                 \/ (tr[1] <= tr[i] /\ tr[j] < tr[1])
                 \/ (tr[i] <= tr[j] /\ tr[j] < tr[1])

Distinct == \A i, j \in DOMAIN disk_list :
    i # j => node[disk_list[i]].track # node[disk_list[j]].track

\* While no two queued operations are on one track, insertions, removals and the
\* head's own moves from track to track keep that order (553-575, 842-847).
OrderKept == [][Elevator /\ Distinct /\ Distinct' => Elevator']_vars

\* Every call of disk_helper returns (620: the daemon wakes the caller).
EveryCallReturns == \A p \in Procs : pc[p] # "user" ~> pc[p] = "user"

\* "Operation is complete" (624): a process that has its answer has no transfer
\* left in the device.
CompleteMeansIdle ==
    Moves(dev) => dev.owner \in Owners
=============================================================================
