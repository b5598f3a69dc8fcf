-------------------------- MODULE DiskQueueProofs --------------------------
(***************************************************************************)
(* Theorems about DiskQueue, for any number of processes, any requests and *)
(* any disk.                                                               *)
(***************************************************************************)
EXTENDS DiskQueue, LinkedListProofs

-----------------------------------------------------------------------------
(***************************************************************************)
(* Type correctness.                                                       *)
(***************************************************************************)

LEMMA DeviceTypes ==
    /\ NoRequest \in DeviceRequest
    /\ Command("TRACKS", 0) \in DeviceRequest
    /\ \A t \in Int : Command("SEEK", t) \in DeviceRequest
    /\ \A r : Outcome(r) \in Statuses
BY DEF NoRequest, Command, DeviceRequest, Outcome, Statuses

LEMMA OutputType ==
    ASSUME NEW r \in DeviceRequest, dev \in DeviceRequest, DeviceOutput(r)
    PROVE  dev' \in DeviceRequest
BY DEF DeviceOutput

LEMMA NewNodeType ==
    ASSUME NEW r \in Arguments
    PROVE  NewNode(r) \in DiskNode
BY DEF NewNode, DiskNode, Arguments, Statuses

LEMMA NodeSteps ==
    ASSUME NEW n \in DiskNode
    PROVE  /\ Started(n) \in DiskNode
           /\ Crossed(n) \in DiskNode
           /\ Advanced(n) \in DiskNode
<1>1. Started(n) \in DiskNode
  BY DEF Started, DiskNode
<1>2. n.track \in Int /\ n.start_block \in Int /\ n.sectors_done \in Nat
  BY DEF DiskNode
<1>3. Crossed(n) \in DiskNode
  <2> DEFINE m == [n EXCEPT !.start_block = 0]
  <2>1. m \in DiskNode /\ m.track = n.track
    BY DEF DiskNode
  <2>2. n.track + 1 \in Int
    BY <1>2
  <2>3. [m EXCEPT !.track = n.track + 1] \in DiskNode
    BY <2>1, <2>2 DEF DiskNode
  <2>4. Crossed(n) = [m EXCEPT !.track = n.track + 1]
    BY <2>1 DEF Crossed
  <2> QED
    BY <2>3, <2>4
<1>4. Advanced(n) \in DiskNode
  <2> DEFINE m == [n EXCEPT !.sectors_done = n.sectors_done + 1]
  <2>1. n.sectors_done + 1 \in Nat /\ n.start_block + 1 \in Int
    BY <1>2
  <2>2. m \in DiskNode /\ m.start_block = n.start_block
    BY <2>1 DEF DiskNode
  <2>3. [m EXCEPT !.start_block = n.start_block + 1] \in DiskNode
    BY <2>1, <2>2 DEF DiskNode
  <2>4. Advanced(n) = [m EXCEPT !.start_block = n.start_block + 1]
    BY <2>2 DEF Advanced
  <2> QED
    BY <2>3, <2>4
<1> QED
  BY <1>1, <1>3, <1>4

\* The variables Call and Enqueue change keep their types.
LEMMA EnqueueType ==
    ASSUME TypeOK, NEW p \in Procs, NEW r \in Requests, Enqueue(p, r)
    PROVE  /\ r \in Arguments
           /\ calls' \in [Procs -> Nat]
           /\ asked' \in [Procs -> Arguments]
           /\ reply' \in [Procs -> {"NONE", "INVALID"} \cup Statuses]
           /\ moved' \in [Procs -> SUBSET (Int \X Int \X Int)]
           /\ node' \in [Procs -> DiskNode]
<1>1. r \in Arguments
  BY RequestsAssumption
<1>2. NewNode(r) \in DiskNode
  BY <1>1, NewNodeType
<1> QED
  BY <1>1, <1>2 DEF TypeOK, Enqueue, Call

LEMMA TypeInit == Init => TypeOK
<1> SUFFICES ASSUME Init PROVE TypeOK
  OBVIOUS
<1>1. NoArgs \in Arguments
  BY DEF NoArgs, Arguments
<1>2. NewNode(NoArgs) \in DiskNode
  BY <1>1, NewNodeType
<1>3. OnTracks(0)
  BY RequestsAssumption DEF OnTracks
<1> QED
  BY <1>1, <1>2, <1>3, DeviceTypes, EmptySeq DEF Init, TypeOK, Statuses

LEMMA TypeHelper ==
    ASSUME TypeOK, NEW p \in Procs, Helper(p)
    PROVE  TypeOK'
<1> USE DEF TypeOK, userVars, daemonVars, deviceVars
<1>1. CASE Reject(p)
  <2>1. PICK r \in Requests : Call(p, r)
    BY <1>1 DEF Reject
  <2>2. r \in Arguments
    BY RequestsAssumption
  <2> QED
    BY <1>1, <2>1, <2>2 DEF Reject, Call
<1>2. CASE SubmitBusy(p)
  <2>1. PICK r \in Requests, k \in DOMAIN disk_list :
           /\ Enqueue(p, r)
           /\ disk_list' = InsertAfter(disk_list, k, p)
           /\ pc' = [pc EXCEPT ![p] = "recv"]
           /\ UNCHANGED dev
    BY <1>2 DEF SubmitBusy
  <2>k. k \in 1 .. Len(disk_list)
    BY LenProperties
  <2>2. disk_list' \in Seq(Procs)
    BY <2>1, <2>k, InsertAfterProperties
  <2> QED
    BY <2>1, <2>2, EnqueueType DEF Enqueue
<1>3. CASE SubmitIdle(p)
  <2>1. PICK r \in Requests :
           /\ Enqueue(p, r)
           /\ disk_list' = <<p>>
           /\ pc' = [pc EXCEPT ![p] = "recv"]
           /\ DeviceOutput(Command("TRACKS", 0))
    BY <1>3 DEF SubmitIdle
  <2>2. dev' \in DeviceRequest
    BY <2>1, OutputType, DeviceTypes
  <2>3. <<p>> \in Seq(Procs)
    OBVIOUS
  <2> QED
    BY <2>1, <2>2, <2>3, EnqueueType DEF Enqueue
<1>4. CASE SubmitEarly(p)
  <2>1. PICK r \in Requests :
           /\ Enqueue(p, r)
           /\ disk_list' = <<p>>
           /\ pc' = [pc EXCEPT ![p] = "kick"]
           /\ UNCHANGED dev
    BY <1>4 DEF SubmitEarly
  <2>2. <<p>> \in Seq(Procs)
    OBVIOUS
  <2> QED
    BY <2>1, <2>2, EnqueueType DEF Enqueue
<1>5. CASE Kick(p)
  <2>1. dev' \in DeviceRequest
    BY <1>5, OutputType, DeviceTypes DEF Kick
  <2> QED
    BY <1>5, <2>1 DEF Kick
<1>6. CASE Return(p)
  <2>1. node[p].response \in Statuses
    BY DEF DiskNode
  <2> QED
    BY <1>6, <2>1 DEF Return
<1> QED
  BY <1>1, <1>2, <1>3, <1>4, <1>5, <1>6 DEF Helper

LEMMA PopType ==
    ASSUME TypeOK, disk_list # <<>>, PopHead
    PROVE  /\ disk_list' \in Seq(Procs)
           /\ node' \in [Procs -> DiskNode]
           /\ mbox' \in SUBSET Procs
<1>1. Head(disk_list) \in Procs /\ Tail(disk_list) \in Seq(Procs)
  BY TailProperties DEF TypeOK
<1>2. [node[Head(disk_list)] EXCEPT !.response = status] \in DiskNode
  BY <1>1 DEF TypeOK, DiskNode
<1> QED
  BY <1>1, <1>2 DEF PopHead, TypeOK

LEMMA TypeDaemon ==
    ASSUME TypeOK, Daemon
    PROVE  TypeOK'
<1> DEFINE h == Head(disk_list)
<1>a. disk_list # <<>> => h \in Procs /\ node[h] \in DiskNode
  BY TailProperties DEF TypeOK
<1>b. \A n \in DiskNode :
         /\ n.op \in {"READ", "WRITE"} /\ n.track \in Int /\ n.start_block \in Int
         /\ n.sectors_done \in Nat
         /\ n.track + 1 \in Int /\ n.start_block + 1 \in Int
         /\ n.sectors_done + 1 \in Nat
  BY DEF DiskNode
<1> USE DEF userVars, daemonVars, deviceVars
<1>1. CASE DaemonBoot
  BY <1>1 DEF DaemonBoot, TypeOK
<1>2. CASE DaemonWake
  BY <1>2 DEF DaemonWake, TypeOK
<1>3. CASE DaemonIdle
  BY <1>3 DEF DaemonIdle, TypeOK
<1>4. CASE DaemonError
  BY <1>4, PopType DEF DaemonError, Serving, TypeOK
<1>5. CASE DaemonFinish
  BY <1>5, PopType DEF DaemonFinish, Serving, TypeOK
<1>6. CASE DaemonStart
  <2>1. Started(node[h]) \in DiskNode
    BY <1>6, <1>a, NodeSteps DEF DaemonStart, Serving
  <2>2. Command("SEEK", node[h].track) \in DeviceRequest
    BY <1>6, <1>a, DeviceTypes DEF DaemonStart, Serving, DiskNode
  <2> QED
    BY <1>6, <1>a, <2>1, <2>2 DEF DaemonStart, Serving, TypeOK
<1>7. CASE DaemonCross
  <2>a. h \in Procs /\ node[h] \in DiskNode
    BY <1>7, <1>a DEF DaemonCross, Continuing, Serving
  <2>1. Crossed(node[h]) \in DiskNode
    BY <2>a, NodeSteps
  <2>2. Command("SEEK", node[h].track + 1) \in DeviceRequest
    BY <2>a, <1>b, DeviceTypes
  <2>3. node' = [node EXCEPT ![h] = Crossed(node[h])]
    BY <1>7 DEF DaemonCross
  <2>4. node' \in [Procs -> DiskNode]
    BY <2>1, <2>3 DEF TypeOK
  <2>5. req' \in DeviceRequest
    BY <1>7, <2>2 DEF DaemonCross
  <2> QED
    BY <1>7, <2>4, <2>5 DEF DaemonCross, TypeOK
<1>8. CASE DaemonTransfer
  <2>a. h \in Procs /\ node[h] \in DiskNode
    BY <1>8, <1>a DEF DaemonTransfer, Continuing, Serving
  <2>1. Advanced(node[h]) \in DiskNode
    BY <2>a, NodeSteps
  <2>2. calls[h] \in Nat
    BY <2>a DEF TypeOK
  <2>3. req' = [opr |-> node[h].op, reg1 |-> node[h].start_block, owner |-> h,
                sector |-> node[h].sectors_done, call |-> calls[h]]
    BY <1>8 DEF DaemonTransfer
  <2>4. req' \in DeviceRequest
    BY <2>a, <1>b, <2>2, <2>3 DEF DeviceRequest
  <2>5. node' = [node EXCEPT ![h] = Advanced(node[h])]
    BY <1>8 DEF DaemonTransfer
  <2>6. node' \in [Procs -> DiskNode]
    BY <2>1, <2>5 DEF TypeOK
  <2> QED
    BY <1>8, <2>4, <2>6 DEF DaemonTransfer, TypeOK
<1>9. CASE DaemonSend
  <2>1. dev' \in DeviceRequest
    BY <1>9, OutputType DEF DaemonSend, TypeOK
  <2> QED
    BY <1>9, <2>1 DEF DaemonSend, TypeOK
<1> QED
  BY <1>1, <1>2, <1>3, <1>4, <1>5, <1>6, <1>7, <1>8, <1>9 DEF Daemon

LEMMA TypeDevice ==
    ASSUME TypeOK, GetTracks \/ DeviceDone
    PROVE  TypeOK'
<1> USE DEF userVars, daemonVars, deviceVars
<1>1. CASE AskTracks
  <2>1. dev' \in DeviceRequest
    BY <1>1, OutputType, DeviceTypes DEF AskTracks, TypeOK
  <2> QED
    BY <1>1, <2>1 DEF AskTracks, TypeOK
<1>2. CASE PublishTracks
  BY <1>2 DEF PublishTracks, TypeOK
<1>3. CASE DeviceDone
  <2>1. dev.reg1 \in Int /\ dev.sector \in Int
    BY DEF TypeOK, DeviceRequest
  <2>2. OnTracks(arm)'
    BY <1>3, <2>1 DEF DeviceDone, TypeOK, Outcome, OnTracks
  <2>3. <<arm, dev.reg1, dev.sector>> \in Int \X Int \X Int
    BY <2>1 DEF TypeOK, OnTracks
  <2>4. moved' \in [Procs -> SUBSET (Int \X Int \X Int)]
    BY <1>3, <2>3 DEF DeviceDone, TypeOK
  <2> QED
    BY <1>3, <2>2, <2>4, DeviceTypes DEF DeviceDone, TypeOK
<1> QED
  BY <1>1, <1>2, <1>3 DEF GetTracks

\* Every variable keeps its type, whatever the constants.
THEOREM TypeCorrect == Spec => []TypeOK
<1>1. TypeOK /\ [Next]_vars => TypeOK'
  <2> SUFFICES ASSUME TypeOK, [Next]_vars PROVE TypeOK'
    OBVIOUS
  <2>1. CASE UNCHANGED vars
    BY <2>1 DEF vars, userVars, daemonVars, deviceVars, TypeOK
  <2> QED
    BY <2>1, TypeHelper, TypeDaemon, TypeDevice DEF Next
<1> QED
  BY <1>1, TypeInit, PTL DEF Spec

-----------------------------------------------------------------------------
(***************************************************************************)
(* The life of a node.                                                     *)
(***************************************************************************)
LEMMA LifetimeUnchanged ==
    ASSUME NodeLifetime, UNCHANGED <<pc, disk_list, mbox>>
    PROVE  NodeLifetime'
BY DEF NodeLifetime, Owners

\* A process that has just called is not on the list.
LEMMA CallerIsFree ==
    ASSUME NodeLifetime, NEW p \in Procs, NEW r \in Requests, Enqueue(p, r)
    PROVE  pc[p] = "user" /\ p \notin Owners /\ p \notin mbox
BY DEF NodeLifetime, Enqueue, Call

LEMMA LifetimeHelper ==
    ASSUME TypeOK, NodeLifetime, NEW p \in Procs, Helper(p)
    PROVE  NodeLifetime'
<1>1. CASE Reject(p)
  BY <1>1, LifetimeUnchanged DEF Reject
<1>2. CASE SubmitBusy(p)
  <2>1. PICK r \in Requests, k \in DOMAIN disk_list :
           /\ Enqueue(p, r)
           /\ disk_list' = InsertAfter(disk_list, k, p)
           /\ pc' = [pc EXCEPT ![p] = "recv"]
    BY <1>2 DEF SubmitBusy
  <2>2. k \in 1 .. Len(disk_list)
    BY LenProperties DEF TypeOK
  <2>3. pc[p] = "user" /\ p \notin Owners /\ p \notin mbox
    BY <2>1, CallerIsFree
  <2>4. NoRepeat(disk_list') /\ Owners' = Owners \cup {p}
    BY <2>1, <2>2, <2>3, InsertMembers DEF Owners, NodeLifetime, TypeOK
  <2>5. mbox' = mbox
    BY <2>1 DEF Enqueue
  <2> QED
    BY <2>1, <2>3, <2>4, <2>5 DEF NodeLifetime, TypeOK
<1>3. CASE SubmitIdle(p) \/ SubmitEarly(p)
  <2>1. PICK r \in Requests, w \in {"recv", "kick"} :
           /\ Enqueue(p, r)
           /\ disk_list = <<>>
           /\ disk_list' = <<p>>
           /\ pc' = [pc EXCEPT ![p] = w]
    BY <1>3 DEF SubmitIdle, SubmitEarly
  <2>2. pc[p] = "user" /\ p \notin mbox
    BY <2>1, CallerIsFree
  <2>3. NoRepeat(disk_list') /\ Owners' = {p} /\ Owners = {}
    BY <2>1 DEF Owners, Members, NoRepeat
  <2>4. mbox' = mbox
    BY <2>1 DEF Enqueue
  <2> QED
    BY <2>1, <2>2, <2>3, <2>4 DEF NodeLifetime, TypeOK
<1>4. CASE Kick(p)
  <2>1. pc' = [pc EXCEPT ![p] = "recv"] /\ pc[p] = "kick"
    BY <1>4 DEF Kick
  <2>2. disk_list' = disk_list /\ mbox' = mbox
    BY <1>4 DEF Kick
  <2> QED
    BY <2>1, <2>2 DEF NodeLifetime, TypeOK, Owners
<1>5. CASE Return(p)
  <2>1. /\ pc' = [pc EXCEPT ![p] = "user"] /\ p \in mbox
        /\ mbox' = mbox \ {p} /\ disk_list' = disk_list
    BY <1>5 DEF Return
  <2> QED
    BY <2>1 DEF NodeLifetime, TypeOK, Owners
<1> QED
  BY <1>1, <1>2, <1>3, <1>4, <1>5 DEF Helper

LEMMA LifetimeDaemon ==
    ASSUME TypeOK, NodeLifetime, Daemon
    PROVE  NodeLifetime'
<1>1. CASE DaemonError \/ DaemonFinish
  <2>1. disk_list # <<>> /\ PopHead /\ pc' = pc
    BY <1>1 DEF DaemonError, DaemonFinish, Serving, userVars
  <2> DEFINE h == Head(disk_list)
  <2>2. /\ NoRepeat(disk_list') /\ Owners' = Owners \ {h} /\ h \in Owners
        /\ mbox' = mbox \cup {h} /\ h \in Procs
    BY <2>1, TailMembers, TailProperties DEF PopHead, Owners, NodeLifetime, TypeOK
  <2> QED
    BY <2>1, <2>2 DEF NodeLifetime
<1>2. CASE UNCHANGED <<pc, disk_list, mbox>>
  BY <1>2, LifetimeUnchanged
<1> QED
  BY <1>1, <1>2 DEF Daemon, DaemonBoot, DaemonWake, DaemonIdle, DaemonStart,
                    DaemonCross, DaemonTransfer, DaemonSend, userVars

\* The list holds the node of a process exactly while the process is inside
\* disk_helper without the daemon's answer, and holds it once.
THEOREM NodeLifetimeCorrect == Spec => []NodeLifetime
<1>1. Init => NodeLifetime
  BY DEF Init, NodeLifetime, NoRepeat, Owners, Members
<1>2. TypeOK /\ NodeLifetime /\ [Next]_vars => NodeLifetime'
  <2> SUFFICES ASSUME TypeOK, NodeLifetime, [Next]_vars PROVE NodeLifetime'
    OBVIOUS
  <2>1. CASE GetTracks \/ DeviceDone \/ UNCHANGED vars
    BY <2>1, LifetimeUnchanged DEF GetTracks, AskTracks, PublishTracks,
                                   DeviceDone, vars, userVars
  <2> QED
    BY <2>1, LifetimeHelper, LifetimeDaemon DEF Next
<1> QED
  BY <1>1, <1>2, TypeCorrect, PTL DEF Spec

-----------------------------------------------------------------------------
(***************************************************************************)
(* One operation at a time.                                                *)
(***************************************************************************)

\* A step that links no node and starts none keeps OnlyHeadStarted.
LEMMA StartedUnchanged ==
    ASSUME OnlyHeadStarted, disk_list' = disk_list,
           \A i \in DOMAIN disk_list :
              node'[disk_list[i]].started = node[disk_list[i]].started
    PROVE  OnlyHeadStarted'
BY DEF OnlyHeadStarted

LEMMA StartedHelper ==
    ASSUME TypeOK, NodeLifetime, OnlyHeadStarted, NEW p \in Procs, Helper(p)
    PROVE  OnlyHeadStarted'
<1>1. CASE Reject(p) \/ Kick(p) \/ Return(p)
  BY <1>1, StartedUnchanged DEF Reject, Kick, Return
<1>2. CASE SubmitBusy(p)
  <2>1. PICK r \in Requests, k \in DOMAIN disk_list :
           /\ Enqueue(p, r)
           /\ disk_list' = InsertAfter(disk_list, k, p)
    BY <1>2 DEF SubmitBusy
  <2>2. /\ Len(disk_list) \in Nat /\ k \in 1 .. Len(disk_list)
        /\ DOMAIN disk_list = 1 .. Len(disk_list)
    BY LenProperties DEF TypeOK
  <2>3. /\ disk_list' \in Seq(Procs)
        /\ Len(disk_list') = Len(disk_list) + 1
        /\ \A i \in 1 .. Len(disk_list) + 1 :
              disk_list'[i] = IF i <= k THEN disk_list[i]
                              ELSE IF i = k + 1 THEN p ELSE disk_list[i - 1]
    <3>1. disk_list \in Seq(Procs) /\ k \in 1 .. Len(disk_list)
      BY <2>2 DEF TypeOK
    <3> QED
      BY SMTT(30), <2>1, <3>1, InsertAfterProperties
  <2>4. DOMAIN disk_list' = 1 .. Len(disk_list) + 1
    BY <2>3, LenProperties
  <2>5. ~node'[p].started
    BY <2>1 DEF Enqueue, NewNode, TypeOK
  <2>6. \A q \in Procs : q # p => node'[q] = node[q]
    BY <2>1 DEF Enqueue, TypeOK
  <2> SUFFICES ASSUME NEW i \in DOMAIN disk_list', node'[disk_list'[i]].started
               PROVE  i = 1
    BY DEF OnlyHeadStarted
  <2>7. disk_list'[i] \in Procs /\ disk_list'[i] # p
    BY <2>3, <2>4, <2>5, ElementOfSeq
  <2>8. node[disk_list'[i]].started
    BY <2>6, <2>7
  <2>9. CASE i <= k
    BY <2>2, <2>3, <2>4, <2>8, <2>9 DEF OnlyHeadStarted
  <2>10. CASE i > k + 1
    <3>1. i - 1 \in DOMAIN disk_list /\ disk_list'[i] = disk_list[i - 1]
      BY <2>2, <2>3, <2>4, <2>10
    <3>2. i - 1 = 1
      BY <2>8, <3>1 DEF OnlyHeadStarted
    <3> QED
      BY <2>2, <2>4, <2>10, <3>2
  <2>11. i # k + 1
    BY <2>2, <2>3, <2>4, <2>7
  <2> QED
    BY <2>2, <2>4, <2>9, <2>10, <2>11
<1>3. CASE SubmitIdle(p) \/ SubmitEarly(p)
  <2>1. disk_list' = <<p>>
    BY <1>3 DEF SubmitIdle, SubmitEarly
  <2> QED
    BY <2>1 DEF OnlyHeadStarted
<1> QED
  BY <1>1, <1>2, <1>3 DEF Helper

LEMMA StartedDaemon ==
    ASSUME TypeOK, NodeLifetime, OnlyHeadStarted, Daemon
    PROVE  OnlyHeadStarted'
<1> DEFINE h == Head(disk_list)
<1>1. CASE DaemonError \/ DaemonFinish
  <2>1. disk_list # <<>> /\ PopHead
    BY <1>1 DEF DaemonError, DaemonFinish, Serving
  <2>2. /\ Len(disk_list) \in Nat \ {0} /\ h \in Procs
        /\ DOMAIN disk_list = 1 .. Len(disk_list)
        /\ DOMAIN disk_list' = 1 .. Len(disk_list) - 1
        /\ \A i \in 1 .. Len(disk_list) - 1 : disk_list'[i] = disk_list[i + 1]
    BY <2>1, TailProperties, LenProperties DEF PopHead, TypeOK
  <2>3. \A q \in Procs : node'[q].started = node[q].started
    BY <2>1, <2>2 DEF PopHead, TypeOK, DiskNode
  <2> SUFFICES ASSUME NEW i \in DOMAIN disk_list' PROVE ~node'[disk_list'[i]].started
    BY DEF OnlyHeadStarted
  <2>4. /\ i + 1 \in DOMAIN disk_list /\ i + 1 # 1
        /\ disk_list'[i] = disk_list[i + 1]
    BY <2>2
  <2>5. disk_list[i + 1] \in Procs
    BY <2>2, <2>4, ElementOfSeq DEF TypeOK
  <2> QED
    BY <2>3, <2>4, <2>5 DEF OnlyHeadStarted
<1>2. CASE DaemonStart \/ DaemonCross \/ DaemonTransfer
  <2>1. disk_list # <<>> /\ disk_list' = disk_list
    BY <1>2 DEF DaemonStart, DaemonCross, DaemonTransfer, Continuing, Serving
  <2>2. h \in Procs /\ h = disk_list[1] /\ 1 \in DOMAIN disk_list
    BY <2>1, TailProperties, LenProperties DEF TypeOK
  <2>3. \A q \in Procs \ {h} : node'[q] = node[q]
    BY <1>2, <2>2 DEF DaemonStart, DaemonCross, DaemonTransfer, TypeOK
  <2> SUFFICES ASSUME NEW i \in DOMAIN disk_list, node'[disk_list[i]].started
               PROVE  i = 1
    BY <2>1 DEF OnlyHeadStarted
  <2>4. CASE disk_list[i] = h
    BY <2>2, <2>4 DEF NodeLifetime, NoRepeat
  <2>5. CASE disk_list[i] # h
    <3>1. disk_list[i] \in Procs
      BY LenProperties, ElementOfSeq DEF TypeOK
    <3> QED
      BY <2>3, <2>5, <3>1 DEF OnlyHeadStarted
  <2> QED
    BY <2>4, <2>5
<1>3. CASE DaemonBoot \/ DaemonWake \/ DaemonIdle \/ DaemonSend
  BY <1>3, StartedUnchanged DEF DaemonBoot, DaemonWake, DaemonIdle, DaemonSend
<1> QED
  BY <1>1, <1>2, <1>3 DEF Daemon

\* The daemon never has a second operation begun.
THEOREM OnlyHeadStartedCorrect == Spec => []OnlyHeadStarted
<1>1. Init => OnlyHeadStarted
  BY DEF Init, OnlyHeadStarted
<1>2. TypeOK /\ NodeLifetime /\ OnlyHeadStarted /\ [Next]_vars => OnlyHeadStarted'
  <2> SUFFICES ASSUME TypeOK, NodeLifetime, OnlyHeadStarted, [Next]_vars
               PROVE  OnlyHeadStarted'
    OBVIOUS
  <2>1. CASE GetTracks \/ DeviceDone \/ UNCHANGED vars
    BY <2>1, StartedUnchanged DEF GetTracks, AskTracks, PublishTracks,
                                  DeviceDone, vars
  <2> QED
    BY <2>1, StartedHelper, StartedDaemon DEF Next
<1> QED
  BY <1>1, <1>2, TypeCorrect, NodeLifetimeCorrect, PTL DEF Spec

\* A started operation keeps the head of the queue until it is answered.
THEOREM HeadStableCorrect == Spec => HeadStable
<1> DEFINE Stable == disk_list # <<>> /\ node[Head(disk_list)].started =>
                        \/ disk_list' # <<>> /\ Head(disk_list') = Head(disk_list)
                        \/ Head(disk_list) \in mbox'
<1>1. TypeOK /\ [Next]_vars => Stable
  <2> SUFFICES ASSUME TypeOK, [Next]_vars, disk_list # <<>>,
                      node[Head(disk_list)].started
               PROVE  \/ disk_list' # <<>> /\ Head(disk_list') = Head(disk_list)
                      \/ Head(disk_list) \in mbox'
    OBVIOUS
  <2>1. CASE disk_list' = disk_list
    BY <2>1
  <2>2. ASSUME NEW p \in Procs, SubmitBusy(p)
        PROVE  disk_list' # <<>> /\ Head(disk_list') = Head(disk_list)
    <3>1. PICK k \in DOMAIN disk_list : disk_list' = InsertAfter(disk_list, k, p)
      BY <2>2 DEF SubmitBusy
    <3>2. disk_list \in Seq(Procs) /\ k \in 1 .. Len(disk_list)
      BY LenProperties DEF TypeOK
    <3> QED
      BY <3>1, <3>2, InsertAfterProperties
  <2>3. CASE DaemonError \/ DaemonFinish
    BY <2>3 DEF DaemonError, DaemonFinish, PopHead
  <2>4. ASSUME NEW p \in Procs, Helper(p), ~SubmitBusy(p)
        PROVE  disk_list' = disk_list
    BY <2>4 DEF Helper, Reject, SubmitIdle, SubmitEarly, Kick, Return
  <2>5. CASE GetTracks \/ DeviceDone \/ UNCHANGED vars
    BY <2>1, <2>5 DEF GetTracks, AskTracks, PublishTracks, DeviceDone, vars
  <2>6. CASE Daemon /\ ~DaemonError /\ ~DaemonFinish
    BY <2>1, <2>6 DEF Daemon, DaemonBoot, DaemonWake, DaemonIdle, DaemonStart,
                      DaemonCross, DaemonTransfer, DaemonSend
  <2> QED
    BY <2>1, <2>2, <2>3, <2>4, <2>5, <2>6 DEF Next
<1>2. Spec => [][Stable]_vars
  BY <1>1, TypeCorrect, PTL DEF Spec
<1> QED
  BY <1>2 DEF HeadStable

-----------------------------------------------------------------------------
(***************************************************************************)
(* No lost wakeup.                                                         *)
(***************************************************************************)
LEMMA RequestsDiffer ==
    /\ Command("TRACKS", 0) # NoRequest
    /\ \A t : Command("SEEK", t) # NoRequest
    /\ \A r : r.opr \in {"READ", "WRITE"} => r # NoRequest
BY DEF Command, NoRequest

\* After DeviceOutput of a real request the device is busy.
LEMMA OutputBusy ==
    ASSUME NEW r, r # NoRequest, DeviceOutput(r)
    PROVE  Busy'
BY DEF DeviceOutput, Busy

\* A head that is about to send its request still is, when another process moves.
LEMMA KickStays ==
    ASSUME NEW p \in Procs, pc[p] # "kick", NEW w, pc' = [pc EXCEPT ![p] = w],
           TypeOK, KickPending
    PROVE  KickPending'
BY DEF KickPending, TypeOK

LEMMA WakeUpHelper ==
    ASSUME TypeOK, WakeUpInv, NEW p \in Procs, Helper(p)
    PROVE  WakeUpInv'
<1> USE DEF daemonVars, deviceVars, userVars
<1>1. CASE Reject(p)
  BY <1>1 DEF Reject, WakeUpInv, TracksKnown, KickPending, Busy
<1>2. CASE SubmitBusy(p) \/ SubmitIdle(p) \/ SubmitEarly(p)
  <2>1. PICK r \in Requests : Enqueue(p, r)
    BY <1>2 DEF SubmitBusy, SubmitIdle, SubmitEarly
  <2>2. pc[p] = "user" /\ UNCHANGED <<dpc, status, req, gpc, slot>>
    BY <2>1 DEF Enqueue, Call
  <2>3. \A q \in Procs : node'[q].started => req # NoRequest
    <3>1. node' = [node EXCEPT ![p] = NewNode(r)] /\ ~NewNode(r).started
      BY <2>1 DEF Enqueue, NewNode
    <3> QED
      BY <3>1 DEF WakeUpInv, TypeOK
  <2>4. CASE SubmitBusy(p)
    <3>1. disk_list # <<>> /\ pc' = [pc EXCEPT ![p] = "recv"] /\ dev' = dev
      BY <2>4 DEF SubmitBusy
    <3>2. KickPending => KickPending'
      BY <2>2, <3>1, KickStays
    <3> QED
      BY <2>2, <2>3, <3>1, <3>2 DEF WakeUpInv, TracksKnown, Busy
  <2>5. CASE SubmitIdle(p)
    <3>1. TracksKnown /\ Busy'
      BY <2>5, OutputBusy, RequestsDiffer DEF SubmitIdle
    <3> QED
      BY <2>2, <2>3, <3>1 DEF WakeUpInv, TracksKnown
  <2>6. CASE SubmitEarly(p)
    <3>1. pc' = [pc EXCEPT ![p] = "kick"]
      BY <2>6 DEF SubmitEarly
    <3>2. KickPending'
      BY <3>1 DEF KickPending, TypeOK
    <3> QED
      BY <2>2, <2>3, <3>2 DEF WakeUpInv, TracksKnown
  <2> QED
    BY <1>2, <2>4, <2>5, <2>6
<1>3. CASE Kick(p)
  <2>1. Busy'
    BY <1>3, OutputBusy, RequestsDiffer DEF Kick
  <2> QED
    BY <1>3, <2>1 DEF Kick, WakeUpInv, TracksKnown
<1>4. CASE Return(p)
  <2>1. pc[p] = "recv" /\ pc' = [pc EXCEPT ![p] = "user"]
    BY <1>4 DEF Return
  <2>2. KickPending => KickPending'
    BY <2>1, KickStays
  <2> QED
    BY <1>4, <2>2 DEF Return, WakeUpInv, TracksKnown, Busy
<1> QED
  BY <1>1, <1>2, <1>3, <1>4 DEF Helper

LEMMA WakeUpDaemon ==
    ASSUME TypeOK, WakeUpInv, Daemon
    PROVE  WakeUpInv'
<1> DEFINE h == Head(disk_list)
<1> USE DEF daemonVars, deviceVars, userVars, WakeUpInv, TracksKnown
<1>1. CASE DaemonBoot
  BY <1>1 DEF DaemonBoot, KickPending, Busy
<1>2. CASE DaemonWake
  BY <1>2 DEF DaemonWake, KickPending
<1>3. CASE DaemonIdle
  BY <1>3 DEF DaemonIdle
<1>4. CASE DaemonError \/ DaemonFinish
  <2>1. /\ Serving /\ PopHead
        /\ UNCHANGED <<pc, status, req, gpc, dev, slot>>
        /\ \/ DaemonError /\ dpc' = "wait" /\ status = "ERROR"
           \/ DaemonFinish /\ dpc' = "send" /\ node[h].started
    BY <1>4 DEF DaemonError, DaemonFinish
  <2>2. disk_list # <<>> /\ dpc = "got"
    BY <2>1 DEF Serving
  <2>3. h \in Procs
    BY <2>2, TailProperties DEF TypeOK
  <2>4. \A q \in Procs : node'[q].started = node[q].started
    BY <2>1, <2>3 DEF PopHead, TypeOK, DiskNode
  <2>5. TracksKnown
    BY <2>2
  <2> QED
    BY <2>1, <2>2, <2>3, <2>4, <2>5 DEF KickPending, Busy
<1>5. CASE DaemonStart \/ DaemonCross \/ DaemonTransfer
  <2>1. /\ Serving /\ dpc' = "send"
        /\ UNCHANGED <<pc, disk_list, gpc>>
    BY <1>5 DEF DaemonStart, DaemonCross, DaemonTransfer, Continuing
  <2>2. disk_list # <<>> /\ dpc = "got"
    BY <2>1 DEF Serving
  <2>3. h \in Procs
    BY <2>2, TailProperties DEF TypeOK
  <2>4. req' # NoRequest
    <3>1. node[h].op \in {"READ", "WRITE"}
      BY <2>3 DEF TypeOK, DiskNode
    <3>2. DaemonTransfer => req'.opr \in {"READ", "WRITE"}
      BY <3>1 DEF DaemonTransfer
    <3> QED
      BY <1>5, <3>2, RequestsDiffer DEF DaemonStart, DaemonCross
  <2>5. TracksKnown
    BY <2>2
  <2> QED
    BY <2>1, <2>4, <2>5
<1>6. CASE DaemonSend
  <2>1. Busy' /\ TracksKnown
    BY <1>6, OutputBusy DEF DaemonSend
  <2> QED
    BY <1>6, <2>1 DEF DaemonSend
<1> QED
  BY <1>1, <1>2, <1>3, <1>4, <1>5, <1>6 DEF Daemon

LEMMA WakeUpDevice ==
    ASSUME TypeOK, WakeUpInv, GetTracks \/ DeviceDone
    PROVE  WakeUpInv'
<1> USE DEF daemonVars, deviceVars, userVars, WakeUpInv, TracksKnown
<1>1. CASE AskTracks
  <2>1. Busy'
    BY <1>1, OutputBusy, RequestsDiffer DEF AskTracks
  <2> QED
    BY <1>1, <2>1 DEF AskTracks, KickPending
<1>2. CASE PublishTracks
  BY <1>2 DEF PublishTracks, KickPending
<1>3. CASE DeviceDone
  <2>1. slot' # "NONE"
    BY <1>3, DeviceTypes DEF DeviceDone, Statuses
  <2> QED
    BY <1>3, <2>1 DEF DeviceDone, KickPending
<1> QED
  BY <1>1, <1>2, <1>3 DEF GetTracks

THEOREM WakeUpCorrect == Spec => []WakeUpInv
<1>1. Init => WakeUpInv
  BY DEF Init, WakeUpInv, TracksKnown, NewNode
<1>2. TypeOK /\ WakeUpInv /\ [Next]_vars => WakeUpInv'
  <2> SUFFICES ASSUME TypeOK, WakeUpInv, [Next]_vars PROVE WakeUpInv'
    OBVIOUS
  <2>1. CASE UNCHANGED vars
    BY <2>1 DEF vars, userVars, daemonVars, deviceVars, WakeUpInv, TracksKnown,
                KickPending, Busy
  <2> QED
    BY <2>1, WakeUpHelper, WakeUpDaemon, WakeUpDevice DEF Next
<1> QED
  BY <1>1, <1>2, TypeCorrect, PTL DEF Spec

\* While no error has been served since the daemon's last wakeup, a queue with
\* work has someone to move it on: callers of any priority, any requests.
THEOREM NoStallCorrect == Spec => []NoStall
<1>1. WakeUpInv => NoStall
  BY DEF WakeUpInv, NoStall
<1> QED
  BY <1>1, WakeUpCorrect, PTL

-----------------------------------------------------------------------------
(***************************************************************************)
(* One thing in flight.                                                    *)
(***************************************************************************)
LEMMA InFlightHelper ==
    ASSUME InFlightInv, NEW p \in Procs, Helper(p)
    PROVE  InFlightInv'
<1> SUFFICES ASSUME HighPrio = {} PROVE InFlightInv'
  BY DEF InFlightInv
<1> USE DEF daemonVars, deviceVars, userVars, InFlightInv, OneInFlight, TracksKnown
<1>1. UNCHANGED <<dpc, gpc, slot>>
  BY DEF Helper, Reject, SubmitBusy, SubmitIdle, SubmitEarly, Kick, Return, Enqueue
<1>2. CASE dev' = dev
  BY <1>1, <1>2 DEF Busy
<1>3. CASE SubmitIdle(p) \/ Kick(p)
  <2>1. CanRun(p) /\ gpc = "done"
    BY <1>3 DEF SubmitIdle, Kick, Enqueue, Call
  <2>2. dpc = "wait" /\ slot = "NONE"
    BY <2>1 DEF CanRun, DaemonsBlocked
  <2> QED
    BY <1>1, <2>1, <2>2
<1> QED
  BY <1>2, <1>3 DEF Helper, Reject, SubmitBusy, SubmitEarly, Return

LEMMA InFlightDaemon ==
    ASSUME InFlightInv, Daemon \/ GetTracks \/ DeviceDone
    PROVE  InFlightInv'
<1> SUFFICES ASSUME HighPrio = {} PROVE InFlightInv'
  BY DEF InFlightInv
<1> USE DEF daemonVars, deviceVars, userVars, InFlightInv, OneInFlight, TracksKnown
<1>1. CASE Daemon /\ ~DaemonSend /\ ~DaemonWake
  BY <1>1 DEF Daemon, DaemonBoot, DaemonIdle, DaemonError, DaemonFinish,
              DaemonStart, DaemonCross, DaemonTransfer, Continuing, Serving, Busy
<1>2. CASE DaemonSend
  BY <1>2 DEF DaemonSend
<1>3. CASE DaemonWake
  BY <1>3 DEF DaemonWake, Busy
<1>4. CASE AskTracks
  BY <1>4 DEF AskTracks
<1>5. CASE PublishTracks
  BY <1>5 DEF PublishTracks, Busy
<1>6. CASE DeviceDone
  <2>1. Busy /\ ~Busy'
    BY <1>6 DEF DeviceDone, Busy
  <2> QED
    BY <1>6, <2>1 DEF DeviceDone
<1> QED
  BY <1>1, <1>2, <1>3, <1>4, <1>5, <1>6 DEF GetTracks

LEMMA InFlightCorrect == Spec => []InFlightInv
<1>1. Init => InFlightInv
  BY DEF Init, InFlightInv, OneInFlight, TracksKnown, Busy
<1>2. InFlightInv /\ [Next]_vars => InFlightInv'
  <2> SUFFICES ASSUME InFlightInv, [Next]_vars PROVE InFlightInv'
    OBVIOUS
  <2>1. CASE UNCHANGED vars
    BY <2>1 DEF vars, daemonVars, deviceVars, InFlightInv, OneInFlight,
                TracksKnown, Busy
  <2> QED
    BY <2>1, InFlightHelper, InFlightDaemon DEF Next
<1> QED
  BY <1>1, <1>2, PTL DEF Spec

\* Without callers of the daemon's priority, the unit never has two of: a
\* request in the device, a status in the mailbox, the daemon at work.
THEOREM OneInFlightCorrect == Spec => []OneInFlight
<1>1. InFlightInv => OneInFlight
  BY DEF InFlightInv, OneInFlight
<1> QED
  BY <1>1, InFlightCorrect, PTL
=============================================================================
