------------------------- MODULE DiskTransferProofs -------------------------
(***************************************************************************)
(* Below the daemon's priority, a DiskQueue answers a call with success    *)
(* only when the device has moved exactly what was asked for, and the      *)
(* whole implements DiskService: for any number of processes, any requests *)
(* and any disk.                                                           *)
(***************************************************************************)
EXTENDS DiskQueueProofs, DiskQueueService, FiniteSetTheorems

-----------------------------------------------------------------------------
(***************************************************************************)
(* Blocks.                                                                 *)
(***************************************************************************)

LEMMA DivMod ==
    ASSUME NEW n \in Nat \ {0}, NEW q \in Int, NEW b \in 0 .. n - 1
    PROVE  (q * n + b) \div n = q /\ (q * n + b) % n = b
BY SMT

LEMMA Distribute ==
    ASSUME NEW n \in Int, NEW t \in Int, NEW u \in Int
    PROVE  (t - u) * n = t * n - u * n
BY SMT

LEMMA NextTrack ==
    ASSUME NEW n \in Int, NEW t \in Int
    PROVE  (t + 1) * n = t * n + n
BY SMT

\* Counting tracks and blocks up as the daemon does reaches the i-th block.
LEMMA BlockAt ==
    ASSUME NEW r \in Arguments, NEW i \in Int, NEW t \in Int, NEW b \in 0 .. NBlocks - 1,
           t * NBlocks + b = Place(r, i)
    PROVE  BlockOf(r, i) = <<t, b, i>>
<1>1. NBlocks \in Nat \ {0} /\ r.track \in Int /\ r.start \in Int
  BY RequestsAssumption DEF Arguments
<1>2. r.start + i = (t - r.track) * NBlocks + b
  <2>1. (t - r.track) * NBlocks = t * NBlocks - r.track * NBlocks
    BY <1>1, Distribute
  <2>2. t * NBlocks \in Int /\ r.track * NBlocks \in Int /\ b \in Int
    BY <1>1
  <2> QED
    BY <1>1, <2>1, <2>2 DEF Place
<1>3. (r.start + i) \div NBlocks = t - r.track /\ (r.start + i) % NBlocks = b
  <2>1. t - r.track \in Int
    BY <1>1
  <2>2. ((t - r.track) * NBlocks + b) \div NBlocks = t - r.track
        /\ ((t - r.track) * NBlocks + b) % NBlocks = b
    BY <1>1, <2>1, DivMod
  <2> QED
    BY <1>2, <2>2
<1>4. r.track + (t - r.track) = t
  BY <1>1
<1> QED
  BY <1>3, <1>4 DEF BlockOf

LEMMA FirstBlocksProperties ==
    ASSUME NEW r \in Arguments
    PROVE  /\ FirstBlocks(r, 0) = {}
           /\ \A k \in Nat : FirstBlocks(r, k + 1) = FirstBlocks(r, k) \cup {BlockOf(r, k)}
           /\ \A k \in Nat : BlockOf(r, k) \notin FirstBlocks(r, k)
           /\ Wanted(r) = FirstBlocks(r, r.sectors)
<1>1. FirstBlocks(r, 0) = {}
  BY DEF FirstBlocks
<1>2. ASSUME NEW k \in Nat
      PROVE  FirstBlocks(r, k + 1) = FirstBlocks(r, k) \cup {BlockOf(r, k)}
  <2>1. 0 .. (k + 1) - 1 = 0 .. k - 1 \cup {k}
    OBVIOUS
  <2> QED
    BY <2>1 DEF FirstBlocks
<1>3. ASSUME NEW k \in Nat PROVE BlockOf(r, k) \notin FirstBlocks(r, k)
  BY DEF FirstBlocks, BlockOf
<1> QED
  BY <1>1, <1>2, <1>3 DEF Wanted

\* A place on a track of the disk, or just behind it, is no further than the end of
\* the disk.
LEMMA PlaceOnDisk ==
    ASSUME NEW t, OnTracks(t), NEW b \in 0 .. NBlocks
    PROVE  /\ t * NBlocks + b <= NTracks * NBlocks
           /\ b < NBlocks => t * NBlocks + b < NTracks * NBlocks
<1>1. /\ t \in Int /\ NBlocks \in Nat /\ NTracks \in Int /\ NTracks - 1 - t \in Nat
      /\ b \in Int /\ b <= NBlocks
  BY RequestsAssumption DEF OnTracks
<1>2. (NTracks - 1 - t) * NBlocks >= 0
  BY <1>1
<1>3. (NTracks - 1 - t) * NBlocks = NTracks * NBlocks - t * NBlocks - NBlocks
  <2>1. (NTracks - 1 - t) * NBlocks = (NTracks - 1) * NBlocks - t * NBlocks
    BY <1>1, Distribute
  <2>2. (NTracks - 1) * NBlocks = NTracks * NBlocks - 1 * NBlocks
    BY <1>1, Distribute
  <2> QED
    BY <1>1, <2>1, <2>2
<1>4. NTracks * NBlocks \in Int /\ t * NBlocks \in Int
  BY <1>1
<1> QED
  BY <1>1, <1>2, <1>3, <1>4

\* What the daemon counts of request r when it has moved k blocks.
LEMMA Extents ==
    ASSUME NEW r \in Arguments, NEW k \in Nat, OnTracks(r.track)
    PROVE  /\ r.sectors = k /\ Place(r, k) <= NTracks * NBlocks
                => Extent(r) = k /\ Verdict(r) = "READY"
           /\ (r.sectors >= 0 => k < r.sectors) /\ Place(r, k) = NTracks * NBlocks
                => CutShort(r, k)
           /\ (r.sectors >= 0 => k < r.sectors) /\ Place(r, k) < NTracks * NBlocks
                => k < Extent(r)
<1> DEFINE room == NTracks * NBlocks - Place(r, 0)
<1>1. /\ r.sectors \in Int /\ room \in Int
      /\ Place(r, k) = NTracks * NBlocks - room + k
      /\ NTracks * NBlocks \in Int
  <2>1. r.sectors \in Int /\ r.track \in Int /\ r.start \in Int
    BY DEF Arguments
  <2>2. NBlocks \in Int /\ NTracks \in Int
    BY RequestsAssumption
  <2>3. NTracks * NBlocks \in Int /\ r.track * NBlocks \in Int
    BY <2>1, <2>2
  <2> QED
    BY <2>1, <2>3 DEF Place
<1>2. Extent(r) = IF r.sectors \in 0 .. room THEN r.sectors ELSE room
  BY DEF Extent
<1> HIDE DEF room
<1>3. PICK e \in Int : e = NTracks * NBlocks
  BY <1>1
<1>4. Place(r, k) = e - room + k
  BY <1>1, <1>3
<1>5. r.sectors = k /\ Place(r, k) <= e => Extent(r) = k /\ Verdict(r) = "READY"
  BY <1>1, <1>2, <1>4 DEF Verdict
<1>6. (r.sectors >= 0 => k < r.sectors) /\ Place(r, k) = e => CutShort(r, k)
  BY <1>1, <1>2, <1>4 DEF Verdict, CutShort
<1>7. (r.sectors >= 0 => k < r.sectors) /\ Place(r, k) < e => k < Extent(r)
  BY <1>1, <1>2, <1>4
<1> QED
  BY <1>3, <1>5, <1>6, <1>7

-----------------------------------------------------------------------------
(***************************************************************************)
(* The list.                                                               *)
(***************************************************************************)
LEMMA OwnersAreProcs == TypeOK => Owners \subseteq Procs
BY ElementOfSeq DEF TypeOK, Owners, Members

LEMMA HeadFacts ==
    ASSUME TypeOK, NodeLifetime, disk_list # <<>>
    PROVE  /\ Head(disk_list) \in Procs
           /\ Head(disk_list) \in Owners
           /\ Head(disk_list) \notin mbox
BY TailMembers, TailProperties DEF Owners, NodeLifetime, TypeOK

-----------------------------------------------------------------------------
(***************************************************************************)
(* Steps of the callers and of get_tracks.                                 *)
(***************************************************************************)

\* The device takes no request but one that moves nothing, and that only when no
\* operation is begun.
HarmlessOutput ==
    \/ dev' = dev
    \/ /\ dev' = Command("TRACKS", 0)
       /\ ~Busy
       /\ dpc = "boot" \/ (dpc = "wait" /\ slot = "NONE")

LEMMA HarmlessOutputs ==
    ASSUME InFlightInv, HighPrio = {},
           \/ DeviceOutput(Command("TRACKS", 0))
              /\ \E p \in Procs : CanRun(p)
           \/ AskTracks
    PROVE  HarmlessOutput
<1> USE DEF HarmlessOutput, DeviceOutput
<1>1. CASE AskTracks
  BY <1>1 DEF AskTracks, InFlightInv, TracksKnown
<1>2. CASE DeviceOutput(Command("TRACKS", 0)) /\ \E p \in Procs : CanRun(p)
  BY <1>2 DEF CanRun, DaemonsBlocked
<1> QED
  BY <1>1, <1>2

LEMMA HarmlessOutcome == Outcome(Command("TRACKS", 0)) = "READY"
BY DEF Outcome, Command

LEMMA HarmlessNotTransfer == ~Moves(Command("TRACKS", 0)) /\ ~Moves(NoRequest)
BY DEF Moves, Command, NoRequest

\* What a caller does before it waits leaves the operations of others alone, and
\* puts its own, not begun, on the list, or nothing.
LEMMA CallFrame ==
    ASSUME TypeOK, NodeLifetime, TransferInv, NEW p \in Procs, p \notin Owners,
           p \notin mbox, HarmlessOutput,
           calls' = [calls EXCEPT ![p] = @ + 1],
           \A q \in Procs : q # p =>
              node'[q] = node[q] /\ asked'[q] = asked[q] /\ moved'[q] = moved[q],
           UNCHANGED <<mbox, dpc, status, req, arm, slot>>,
           \/ disk_list # <<>> /\ disk_list' # <<>> /\ Head(disk_list') = Head(disk_list)
           \/ disk_list = <<>> /\ disk_list' = <<>>
           \/ disk_list = <<>> /\ disk_list' = <<p>> /\ ~node'[p].started,
           \/ Owners' = Owners
           \/ /\ Owners' = Owners \cup {p}
              /\ \E r \in Requests : /\ Valid(r)
                                     /\ asked'[p] = r
                                     /\ node'[p] = NewNode(r)
                                     /\ moved'[p] = {}
    PROVE  TransferInv'
<1>1. \A q \in Procs : q # p => calls'[q] = calls[q]
  BY DEF TypeOK
<1>2. calls[p] \in Nat /\ calls'[p] = calls[p] + 1
  BY DEF TypeOK
<1>3. Owners \subseteq Procs
  BY OwnersAreProcs
<1>4. \A q \in Owners' : Placed(q)'
  <2> SUFFICES ASSUME NEW q \in Owners' PROVE Placed(q)'
    OBVIOUS
  <2>1. CASE q \in Owners
    <3>1. q # p /\ q \in Procs /\ Placed(q)
      BY <1>3, <2>1 DEF TransferInv
    <3> QED
      BY <3>1 DEF Placed
  <2>2. CASE q \notin Owners
    <3>1. PICK r \in Requests : /\ Valid(r) /\ q = p
                                /\ asked'[p] = r
                                /\ node'[p] = NewNode(r)
                                /\ moved'[p] = {}
      BY <2>2
    <3>2. r.track \in Int /\ r.start \in Int /\ r.sectors \in Int /\ NBlocks \in Nat
      BY RequestsAssumption DEF Arguments
    <3>3. r.track * NBlocks \in Int
      BY <3>2
    <3>4. r.start \in 0 .. NBlocks
      BY <3>1, <3>2 DEF Valid
    <3> QED
      BY <3>1, <3>2, <3>3, <3>4 DEF Placed, Place, NewNode
  <2> QED
    BY <2>1, <2>2
<1>5. /\ Begun' <=> Begun
      /\ Begun => /\ Head(disk_list') = Head(disk_list)
                  /\ Head(disk_list) \in Procs /\ Head(disk_list) # p
  BY HeadFacts DEF Begun
<1>6. HeadInv'
  <2> SUFFICES ASSUME Begun' PROVE HeadInv'
    BY DEF HeadInv
  <2> DEFINE h == Head(disk_list)
  <2>1. /\ Begun /\ h' = h
        /\ UNCHANGED <<node[h], asked[h], moved[h], calls[h]>>
    BY <1>1, <1>5
  <2>2. /\ Seeking(h) => Seeking(h)'
        /\ Transferring(h) => Transferring(h)'
        /\ \A s : Landed(h, s) => Landed(h, s)'
    BY <2>1 DEF Seeking, Transferring, Landed, Repeats
  <2>3. CASE dev' = dev
    BY <2>1, <2>2, <2>3 DEF HeadInv, TransferInv, Busy
  <2>4. CASE dev' # dev
    <3>1. FALSE
      BY <2>1, <2>4 DEF HeadInv, TransferInv, HarmlessOutput
    <3> QED
      BY <3>1
  <2> QED
    BY <2>3, <2>4
<1>7. ASSUME NEW r \in DeviceRequest, Accounted(r) PROVE Accounted(r)'
  <2> SUFFICES ASSUME Moves(r) PROVE Accounted(r)'
    BY DEF Accounted, Moves
  <2>1. r.owner \in Procs /\ r.call <= calls[r.owner]
    BY <1>7 DEF Accounted
  <2>2. CASE r.owner = p
    BY <1>2, <2>1, <2>2 DEF Accounted, DeviceRequest
  <2>3. CASE r.owner # p
    <3>1. UNCHANGED <<calls[r.owner], moved[r.owner]>>
      BY <1>1, <2>1, <2>3
    <3>2. r.owner \in Owners' <=> r.owner \in Owners
      BY <2>3
    <3> QED
      BY <1>5, <1>7, <2>1, <3>1, <3>2 DEF Accounted, Repeats
  <2> QED
    BY <2>2, <2>3
<1>8. ExactTransfer' /\ HonestAnswer'
  BY DEF TransferInv, ExactTransfer, HonestAnswer, TypeOK
<1>9. Accounted(dev)'
  <2>1. CASE dev' = dev
    BY <1>7, <2>1 DEF TransferInv, Accounted, TypeOK
  <2>2. CASE dev' = Command("TRACKS", 0)
    BY <2>2, HarmlessNotTransfer DEF Accounted
  <2> QED
    BY <2>1, <2>2 DEF HarmlessOutput
<1>10. (dpc = "send" => Accounted(req))'
  BY <1>7 DEF TransferInv, Accounted, TypeOK
<1>11. NoStrayError'
  BY <1>5, HarmlessOutcome DEF TransferInv, NoStrayError, HarmlessOutput, Busy, Outcome
<1> QED
  BY <1>4, <1>6, <1>8, <1>9, <1>10, <1>11 DEF TransferInv

\* A step that touches no operation but takes an answer, or wakes the daemon.
LEMMA QuietFrame ==
    ASSUME TransferInv, HarmlessOutput, mbox' \subseteq mbox,
           UNCHANGED <<calls, asked, moved, disk_list, node, dpc, status, req, arm, slot>>
    PROVE  TransferInv'
<1>1. Owners' = Owners /\ Begun' = Begun /\ (\A q : Placed(q) => Placed(q)')
  BY DEF Owners, Begun, Placed
<1>2. \A h : /\ Seeking(h) => Seeking(h)'
             /\ Transferring(h) => Transferring(h)'
             /\ \A s : Landed(h, s) => Landed(h, s)'
  BY DEF Seeking, Transferring, Landed, Repeats
<1>3. HeadInv'
  <2> SUFFICES ASSUME Begun PROVE HeadInv'
    BY <1>1 DEF HeadInv
  <2>1. dev' = dev
    BY DEF HeadInv, TransferInv, HarmlessOutput
  <2> QED
    BY <1>2, <2>1 DEF HeadInv, TransferInv, Busy
<1>4. Accounted(dev)'
  <2>1. CASE dev' = dev
    BY <1>1, <2>1 DEF TransferInv, Accounted, Repeats
  <2>2. CASE dev' = Command("TRACKS", 0)
    BY <2>2, HarmlessNotTransfer DEF Accounted
  <2> QED
    BY <2>1, <2>2 DEF HarmlessOutput
<1>5. (dpc = "send" => Accounted(req))'
  BY <1>1 DEF TransferInv, Accounted, Repeats
<1>6. ExactTransfer' /\ HonestAnswer'
  BY DEF TransferInv, ExactTransfer, HonestAnswer
<1>7. NoStrayError'
  BY <1>1, HarmlessOutcome DEF TransferInv, NoStrayError, HarmlessOutput, Busy, Outcome
<1> QED
  BY <1>1, <1>3, <1>4, <1>5, <1>6, <1>7 DEF TransferInv

LEMMA TransferHelper ==
    ASSUME TypeOK, NodeLifetime, InFlightInv, HighPrio = {}, TransferInv,
           NEW p \in Procs, Helper(p)
    PROVE  TransferInv'
<1> USE DEF daemonVars, deviceVars, userVars
<1>1. CASE Reject(p)
  <2>1. PICK r \in Requests : Call(p, r)
    BY <1>1 DEF Reject
  <2>2. p \notin Owners /\ p \notin mbox /\ calls' = [calls EXCEPT ![p] = @ + 1]
    BY <2>1 DEF Call, NodeLifetime
  <2>3. /\ UNCHANGED <<disk_list, node, mbox, dpc, status, req, arm, slot, dev>>
        /\ \A q \in Procs : q # p => asked'[q] = asked[q] /\ moved'[q] = moved[q]
    BY <1>1, <2>1 DEF Reject, Call, TypeOK
  <2>4. Owners' = Owners
    BY <2>3 DEF Owners
  <2> QED
    BY <2>2, <2>3, <2>4, CallFrame DEF HarmlessOutput
<1>2. CASE SubmitBusy(p) \/ SubmitIdle(p) \/ SubmitEarly(p)
  <2>1. PICK r \in Requests :
           /\ Enqueue(p, r)
           /\ \/ /\ disk_list # <<>> /\ dev' = dev
                 /\ \E k \in DOMAIN disk_list : disk_list' = InsertAfter(disk_list, k, p)
              \/ /\ disk_list = <<>> /\ disk_list' = <<p>>
                 /\ dev' = dev \/ DeviceOutput(Command("TRACKS", 0))
    BY <1>2 DEF SubmitBusy, SubmitIdle, SubmitEarly
  <2>2. /\ p \notin Owners /\ p \notin mbox
        /\ CanRun(p)
        /\ Valid(r)
        /\ calls' = [calls EXCEPT ![p] = @ + 1]
        /\ UNCHANGED <<mbox, dpc, status, req, arm, slot>>
    BY <2>1, CallerIsFree DEF Enqueue, Call
  <2>3. /\ asked'[p] = r /\ node'[p] = NewNode(r) /\ moved'[p] = {}
        /\ \A q \in Procs : q # p =>
              node'[q] = node[q] /\ asked'[q] = asked[q] /\ moved'[q] = moved[q]
    BY <2>1 DEF Enqueue, Call, TypeOK
  <2>4. HarmlessOutput
    BY <2>1, <2>2, HarmlessOutputs DEF HarmlessOutput
  <2>5. ~node'[p].started
    BY <2>3 DEF NewNode
  <2>6. CASE disk_list # <<>>
    <3>1. PICK k \in DOMAIN disk_list : disk_list' = InsertAfter(disk_list, k, p)
      BY <2>1, <2>6
    <3>2. disk_list \in Seq(Procs) /\ k \in 1 .. Len(disk_list)
      BY LenProperties DEF TypeOK
    <3>3. Owners' = Owners \cup {p}
      BY <2>2, <3>1, <3>2, InsertMembers DEF Owners, NodeLifetime
    <3>4. disk_list' # <<>> /\ Head(disk_list') = Head(disk_list)
      BY <3>1, <3>2, InsertAfterProperties
    <3> QED
      BY <2>2, <2>3, <2>4, <2>6, <3>3, <3>4, CallFrame
  <2>7. CASE disk_list = <<>>
    <3>1. disk_list' = <<p>>
      BY <2>1, <2>7
    <3>2. Owners' = Owners \cup {p}
      BY <2>7, <3>1 DEF Owners, Members
    <3> QED
      BY <2>2, <2>3, <2>4, <2>5, <2>7, <3>1, <3>2, CallFrame
  <2> QED
    BY <2>6, <2>7
<1>3. CASE Kick(p)
  <2>1. HarmlessOutput
    BY <1>3, HarmlessOutputs DEF Kick
  <2> QED
    BY <1>3, <2>1, QuietFrame DEF Kick
<1>4. CASE Return(p)
  BY <1>4, QuietFrame DEF Return, HarmlessOutput
<1> QED
  BY <1>1, <1>2, <1>3, <1>4 DEF Helper

LEMMA TransferGetTracks ==
    ASSUME InFlightInv, HighPrio = {}, TransferInv, GetTracks
    PROVE  TransferInv'
<1> USE DEF daemonVars, deviceVars, userVars
<1>1. CASE AskTracks
  <2>1. HarmlessOutput
    BY <1>1, HarmlessOutputs
  <2> QED
    BY <1>1, <2>1, QuietFrame DEF AskTracks
<1>2. CASE PublishTracks
  <2>1. dpc = "boot" /\ ~Begun
    BY <1>2 DEF PublishTracks, InFlightInv, TracksKnown, TransferInv, HeadInv
  <2>2. UNCHANGED <<calls, asked, moved, disk_list, node, mbox, dpc, dev, arm>>
    BY <1>2 DEF PublishTracks
  <2> QED
    BY <1>2, <2>1, <2>2
       DEF PublishTracks, TransferInv, HeadInv, NoStrayError, Outcome, Busy, Accounted,
           ExactTransfer, HonestAnswer, Repeats, Begun, Placed, Owners
<1> QED
  BY <1>1, <1>2 DEF GetTracks

-----------------------------------------------------------------------------
(***************************************************************************)
(* Steps of the daemon.                                                    *)
(***************************************************************************)

\* While the daemon has a status or is about to send, the device is idle.
LEMMA DeviceIdle ==
    ASSUME InFlightInv, HighPrio = {}, dpc \in {"got", "send"}
    PROVE  dev = NoRequest /\ ~Busy /\ slot = "NONE"
BY DEF InFlightInv, OneInFlight, Busy

\* The daemon works on the head: it turns the node into m and is about to send.
LEMMA HeadStep ==
    ASSUME TypeOK, NodeLifetime, InFlightInv, HighPrio = {}, TransferInv, Serving,
           NEW m, m.started,
           node' = [node EXCEPT ![Head(disk_list)] = m],
           Placed(Head(disk_list))',
           Seeking(Head(disk_list))' \/ Transferring(Head(disk_list))',
           dpc' = "send",
           UNCHANGED <<userVars, disk_list, mbox, deviceVars>>
    PROVE  TransferInv'
<1> DEFINE h == Head(disk_list)
<1> USE DEF userVars, deviceVars
<1>1. disk_list # <<>> /\ dpc = "got" /\ dev = NoRequest
  BY DeviceIdle DEF Serving
<1>2. h \in Procs /\ h \in Owners /\ h \notin mbox /\ h' = h
  BY <1>1, HeadFacts
<1>3. node'[h] = m /\ \A q \in Procs : q # h => node'[q] = node[q]
  BY <1>2 DEF TypeOK
<1>4. Owners' = Owners /\ Owners \subseteq Procs
  BY OwnersAreProcs DEF Owners
<1>5. \A q \in Owners' : Placed(q)'
  <2> SUFFICES ASSUME NEW q \in Owners, q # h PROVE Placed(q)'
    BY <1>2, <1>4
  <2>1. Placed(q) /\ node'[q] = node[q]
    BY <1>3, <1>4 DEF TransferInv
  <2> QED
    BY <2>1 DEF Placed
<1>6. Begun'
  BY <1>1, <1>3 DEF Begun
<1>7. HeadInv'
  BY <1>2 DEF HeadInv
<1>8. Accounted(dev)'
  BY <1>1, HarmlessNotTransfer DEF Accounted
<1>9. Accounted(req)'
  <2>1. Seeking(h)' => ~Moves(req')
    BY DEF Seeking, Moves, Command
  <2>2. Transferring(h)' => req'.owner = h /\ req'.call = calls[h] /\ calls[h] \in Nat
    BY <1>2 DEF Transferring, TypeOK
  <2> QED
    BY <1>2, <1>6, <2>1, <2>2 DEF Accounted, Moves
<1>10. ExactTransfer' /\ HonestAnswer'
  <2>1. mbox \subseteq Procs
    BY DEF TypeOK
  <2> QED
    BY <1>2, <1>3, <2>1 DEF TransferInv, ExactTransfer, HonestAnswer
<1> QED
  BY <1>5, <1>6, <1>7, <1>8, <1>9, <1>10 DEF TransferInv, NoStrayError

LEMMA TransferStart ==
    ASSUME TypeOK, NodeLifetime, InFlightInv, HighPrio = {}, TransferInv, DaemonStart
    PROVE  TransferInv'
<1> DEFINE h == Head(disk_list)
           m == Started(node[h])
<1> USE DEF userVars, deviceVars
<1>1. /\ Serving /\ ~node[h].started
      /\ node' = [node EXCEPT ![h] = m] /\ req' = Command("SEEK", node[h].track)
      /\ dpc' = "send" /\ UNCHANGED <<userVars, disk_list, mbox, deviceVars>>
  BY DEF DaemonStart
<1>2. disk_list # <<>> /\ h \in Procs /\ h \in Owners
  BY <1>1, HeadFacts DEF Serving
<1>3. Placed(h)
  BY <1>2 DEF TransferInv
<1>4. /\ m.started /\ m.track = node[h].track /\ m.sectors = node[h].sectors
      /\ m.start_block = node[h].start_block /\ m.sectors_done = node[h].sectors_done
  BY <1>2 DEF Started, TypeOK, DiskNode
<1>5. node'[h] = m /\ h' = h
  BY <1>1, <1>2 DEF TypeOK
<1>6. Placed(h)'
  BY <1>1, <1>3, <1>4, <1>5 DEF Placed
<1>7. Seeking(h)'
  <2>1. node[h].track = asked[h].track /\ node[h].sectors_done = 0 /\ moved[h] = {}
    BY <1>1, <1>3 DEF Placed
  <2>2. asked[h] \in Arguments
    BY <1>2 DEF TypeOK
  <2>3. FirstBlocks(asked[h], 0) = {}
    BY <2>2, FirstBlocksProperties
  <2>4. ~OnTracks(asked[h].track) => CutShort(asked[h], 0)
    BY DEF CutShort, Extent, Verdict
  <2> QED
    BY <1>1, <1>4, <1>5, <2>1, <2>3, <2>4 DEF Seeking
<1> QED
  BY <1>1, <1>4, <1>6, <1>7, HeadStep

\* The head the daemon goes on with: its last request ended well.
LEMMA ContinuingFacts ==
    ASSUME TypeOK, NodeLifetime, TransferInv, Continuing
    PROVE  LET h == Head(disk_list)
               n == node[h]
               a == asked[h]
           IN  /\ h \in Procs /\ h \in Owners /\ a \in Arguments /\ n \in DiskNode
               /\ Landed(h, "READY")
               /\ Placed(h)
               /\ a.sectors >= 0 => n.sectors_done < a.sectors
<1> DEFINE h == Head(disk_list)
<1>1. h \in Procs /\ h \in Owners /\ asked[h] \in Arguments /\ node[h] \in DiskNode
  BY HeadFacts DEF Continuing, Serving, TypeOK
<1>2. status = "READY"
  BY DEF Continuing, TypeOK, Statuses
<1>3. Landed(h, "READY")
  BY <1>2 DEF Continuing, Serving, TransferInv, HeadInv, Begun
<1>4. Placed(h)
  BY <1>1 DEF TransferInv
<1>5. asked[h].sectors >= 0 => node[h].sectors_done < asked[h].sectors
  <2>1. node[h].sectors_done \in Int /\ asked[h].sectors \in Int
    BY <1>1 DEF DiskNode, Arguments
  <2> QED
    BY <1>4, <2>1 DEF Placed, Continuing, Complete
<1> QED
  BY <1>1, <1>3, <1>4, <1>5

LEMMA CrossedFields ==
    ASSUME NEW n \in DiskNode
    PROVE  LET m == Crossed(n) IN
           /\ m.started = n.started /\ m.sectors = n.sectors
           /\ m.track = n.track + 1 /\ m.start_block = 0
           /\ m.sectors_done = n.sectors_done
BY DEF Crossed, DiskNode

LEMMA AdvancedFields ==
    ASSUME NEW n \in DiskNode
    PROVE  LET m == Advanced(n) IN
           /\ m.started = n.started /\ m.sectors = n.sectors
           /\ m.track = n.track /\ m.start_block = n.start_block + 1
           /\ m.sectors_done = n.sectors_done + 1
BY DEF Advanced, DiskNode

LEMMA TransferCross ==
    ASSUME TypeOK, NodeLifetime, InFlightInv, HighPrio = {}, TransferInv, DaemonCross
    PROVE  TransferInv'
<1> DEFINE h == Head(disk_list)
           n == node[h]
           a == asked[h]
           m == Crossed(n)
<1> USE DEF userVars, deviceVars
<1>1. /\ Continuing /\ Serving /\ n.started /\ n.start_block = NBlocks
      /\ node' = [node EXCEPT ![h] = m] /\ req' = Command("SEEK", n.track + 1)
      /\ dpc' = "send" /\ UNCHANGED <<userVars, disk_list, mbox, deviceVars>>
  BY DEF DaemonCross, Continuing
<1>2. /\ h \in Procs /\ a \in Arguments /\ n \in DiskNode
      /\ Landed(h, "READY") /\ Placed(h)
      /\ a.sectors >= 0 => n.sectors_done < a.sectors
  BY <1>1, ContinuingFacts
<1>3. /\ m.started /\ m.track = n.track + 1 /\ m.sectors = n.sectors
      /\ m.start_block = 0 /\ m.sectors_done = n.sectors_done
  BY <1>1, <1>2, CrossedFields
<1>4. node'[h] = m /\ h' = h /\ a' = a /\ moved'[h] = moved[h]
  BY <1>1, <1>2 DEF TypeOK
<1>5. /\ NBlocks \in Nat \ {0} /\ n.track \in Int /\ n.sectors_done \in Nat
      /\ a.track \in Int /\ a.start \in Int /\ a.sectors \in Int
      /\ n.track * NBlocks \in Int /\ a.track * NBlocks \in Int
  BY <1>2, RequestsAssumption DEF DiskNode, Arguments
<1>6. (n.track + 1) * NBlocks + 0 = Place(a, n.sectors_done)
  <2>1. (n.track + 1) * NBlocks = n.track * NBlocks + NBlocks
    BY <1>5, NextTrack
  <2>2. n.track * NBlocks + NBlocks = Place(a, n.sectors_done)
    BY <1>1, <1>2 DEF Placed
  <2> QED
    BY <1>5, <2>1, <2>2
<1>7. Placed(h)'
  <2>1. 0 \in 0 .. NBlocks
    BY <1>5
  <2> QED
    BY <1>2, <1>3, <1>4, <1>6, <2>1 DEF Placed
<1>8. Seeking(h)'
  <2>1. OnTracks(n.track) /\ OnTracks(a.track)
    BY <1>2 DEF Landed, TypeOK
  <2>3. ASSUME ~OnTracks(n.track + 1) PROVE CutShort(a, n.sectors_done)
    <3>1. n.track + 1 = NTracks
      BY <1>5, <2>1, <2>3, RequestsAssumption DEF OnTracks
    <3>2. Place(a, n.sectors_done) = NTracks * NBlocks
      <4>1. NTracks * NBlocks + 0 = NTracks * NBlocks
        BY RequestsAssumption
      <4> QED
        BY <1>6, <3>1, <4>1
    <3> QED
      BY <1>2, <1>5, <2>1, <3>2, Extents
  <2>2. moved[h] = FirstBlocks(a, n.sectors_done)
    BY <1>2 DEF Landed
  <2> QED
    BY <1>1, <1>3, <1>4, <2>1, <2>2, <2>3 DEF Seeking
<1> QED
  BY <1>1, <1>3, <1>7, <1>8, HeadStep

LEMMA TransferTransfer ==
    ASSUME TypeOK, NodeLifetime, InFlightInv, HighPrio = {}, TransferInv, DaemonTransfer
    PROVE  TransferInv'
<1> DEFINE h == Head(disk_list)
           n == node[h]
           a == asked[h]
           m == Advanced(n)
<1> USE DEF userVars, deviceVars
<1>1. /\ Continuing /\ Serving /\ n.started /\ n.start_block # NBlocks
      /\ node' = [node EXCEPT ![h] = m]
      /\ req' = [opr |-> n.op, reg1 |-> n.start_block, owner |-> h,
                 sector |-> n.sectors_done, call |-> calls[h]]
      /\ dpc' = "send" /\ UNCHANGED <<userVars, disk_list, mbox, deviceVars>>
  BY DEF DaemonTransfer, Continuing
<1>2. /\ h \in Procs /\ a \in Arguments /\ n \in DiskNode
      /\ Landed(h, "READY") /\ Placed(h)
      /\ a.sectors >= 0 => n.sectors_done < a.sectors
  BY <1>1, ContinuingFacts
<1>3. /\ m.started /\ m.track = n.track /\ m.sectors = n.sectors
      /\ m.start_block = n.start_block + 1 /\ m.sectors_done = n.sectors_done + 1
  BY <1>1, <1>2, AdvancedFields
<1>4. /\ node'[h] = m /\ h' = h /\ a' = a /\ moved'[h] = moved[h]
      /\ calls'[h] = calls[h] /\ arm' = arm
  BY <1>1, <1>2 DEF TypeOK
<1>5. /\ NBlocks \in Nat \ {0} /\ n.track \in Int /\ n.sectors_done \in Nat
      /\ n.start_block \in 0 .. NBlocks
      /\ a.track \in Int /\ a.start \in Int /\ a.sectors \in Int
      /\ n.track * NBlocks \in Int /\ a.track * NBlocks \in Int
  BY <1>2, RequestsAssumption DEF DiskNode, Arguments, Placed
<1>6. Placed(h)'
  <2>1. n.start_block + 1 \in 0 .. NBlocks
    BY <1>1, <1>5
  <2>2. n.track * NBlocks + (n.start_block + 1) = Place(a, n.sectors_done + 1)
    <3>1. n.track * NBlocks + n.start_block = a.track * NBlocks + a.start + n.sectors_done
      BY <1>2 DEF Placed, Place
    <3>2. PICK x \in Int, y \in Int : x = n.track * NBlocks /\ y = a.track * NBlocks
      BY <1>5
    <3>3. x + n.start_block = y + a.start + n.sectors_done
      BY <3>1, <3>2
    <3>4. x + (n.start_block + 1) = y + a.start + (n.sectors_done + 1)
      <4>1. n.start_block \in Int /\ n.sectors_done \in Int /\ a.start \in Int
        BY <1>5
      <4> QED
        BY <3>3, <4>1
    <3> QED
      BY <3>2, <3>4 DEF Place
  <2>3. a.sectors >= 0 => n.sectors_done + 1 <= a.sectors
    BY <1>2, <1>5
  <2> QED
    BY <1>2, <1>3, <1>4, <2>1, <2>2, <2>3 DEF Placed
<1>7. Transferring(h)'
  <2>1. Moves(req')
    BY <1>1, <1>2 DEF Moves, DiskNode
  <2>2. /\ n.start_block = (n.start_block + 1) - 1 /\ n.start_block + 1 > 0
        /\ n.sectors_done = (n.sectors_done + 1) - 1 /\ n.sectors_done + 1 > 0
    BY <1>5
  <2>3. moved[h] = FirstBlocks(a, n.sectors_done) /\ arm = n.track /\ OnTracks(a.track)
    BY <1>2 DEF Landed
  <2> QED
    BY <1>1, <1>3, <1>4, <2>1, <2>2, <2>3 DEF Transferring, Moves
<1> QED
  BY <1>1, <1>3, <1>6, <1>7, HeadStep

\* The steps that leave every operation where it is.
LEMMA TransferWakeSend ==
    ASSUME TypeOK, InFlightInv, HighPrio = {}, TransferInv,
           DaemonBoot \/ DaemonWake \/ DaemonIdle \/ DaemonSend
    PROVE  TransferInv'
<1> USE DEF userVars, deviceVars
<1>1. UNCHANGED <<calls, asked, moved, disk_list, node, mbox, req, arm>>
  BY DEF DaemonBoot, DaemonWake, DaemonIdle, DaemonSend
<1>2. /\ Owners' = Owners /\ Begun' = Begun
      /\ \A q : Placed(q) => Placed(q)'
      /\ \A h : /\ Seeking(h) => Seeking(h)'
                /\ Transferring(h) => Transferring(h)'
                /\ \A s : Landed(h, s) => Landed(h, s)'
  BY <1>1 DEF Owners, Begun, Placed, Seeking, Transferring, Landed, Repeats
<1>3. ExactTransfer' /\ HonestAnswer'
  BY <1>1 DEF ExactTransfer, HonestAnswer, TransferInv
<1>4. NoStrayError'
  BY <1>2, DeviceIdle DEF NoStrayError, TransferInv, DaemonBoot, DaemonWake, DaemonIdle,
                          DaemonSend, DeviceOutput, Outcome, Busy, TypeOK, Statuses
<1>5. CASE DaemonBoot \/ DaemonIdle
  <2>1. ~Begun /\ dev' = dev /\ dpc' = "wait"
    BY <1>5 DEF DaemonBoot, DaemonIdle, TransferInv, HeadInv, Begun
  <2> QED
    BY <1>1, <1>2, <1>3, <1>4, <2>1 DEF TransferInv, HeadInv, Accounted, Repeats
<1>6. CASE DaemonWake
  <2>1. /\ dpc = "wait" /\ slot # "NONE" /\ status' = slot /\ dpc' = "got" /\ dev' = dev
        /\ ~Busy
    BY <1>6 DEF DaemonWake, InFlightInv, OneInFlight
  <2>2. HeadInv'
    BY <1>1, <1>2, <2>1 DEF HeadInv, TransferInv
  <2> QED
    BY <1>1, <1>2, <1>3, <1>4, <2>1, <2>2 DEF TransferInv, Accounted, Repeats
<1>7. CASE DaemonSend
  <2>1. dpc = "send" /\ dpc' = "wait" /\ dev' = req /\ Accounted(req)
    BY <1>7, DeviceIdle DEF DaemonSend, DeviceOutput, TransferInv
  <2>2. Accounted(dev)'
    BY <1>1, <1>2, <2>1 DEF Accounted, Repeats
  <2>3. HeadInv'
    <3> SUFFICES ASSUME Begun PROVE HeadInv'
      BY <1>2 DEF HeadInv
    <3> DEFINE h == Head(disk_list)
    <3>1. Seeking(h) \/ Transferring(h)
      BY <2>1 DEF HeadInv, TransferInv
    <3>2. req # NoRequest
      BY <3>1, RequestsDiffer, HarmlessNotTransfer DEF Seeking, Transferring
    <3> QED
      BY <1>1, <1>2, <2>1, <3>1, <3>2 DEF HeadInv, Busy
  <2> QED
    BY <1>2, <1>3, <1>4, <2>1, <2>2, <2>3 DEF TransferInv
<1> QED
  BY <1>5, <1>6, <1>7

\* The head is answered: with success when all its blocks have been moved, with an
\* error when the disk has ended before.
LEMMA TransferPop ==
    ASSUME TypeOK, NodeLifetime, OnlyHeadStarted, InFlightInv, HighPrio = {}, TransferInv,
           DaemonError \/ DaemonFinish
    PROVE  TransferInv'
<1> DEFINE h == Head(disk_list)
<1> USE DEF userVars, deviceVars
<1>1. /\ Serving /\ PopHead
      /\ UNCHANGED <<calls, asked, moved, req, dev, arm>>
      /\ \/ dpc' = "wait" /\ status = "ERROR"
         \/ dpc' = "send" /\ status = "READY" /\ node[h].started /\ Complete(node[h])
  BY DEF DaemonError, DaemonFinish, TypeOK, Statuses
<1>2. disk_list # <<>> /\ dpc = "got" /\ dev = NoRequest
  BY <1>1, DeviceIdle DEF Serving
<1>3. h \in Procs /\ h \in Owners /\ h \notin mbox
  BY <1>2, HeadFacts
<1>4. Owners' = Owners \ {h} /\ mbox' = mbox \cup {h}
  BY <1>1, <1>2, TailMembers DEF PopHead, Owners, NodeLifetime, TypeOK
<1>5. /\ \A q \in Procs : q # h => node'[q] = node[q]
      /\ node'[h].response = status
      /\ \A q \in Procs : node'[q].started = node[q].started
  BY <1>1, <1>3 DEF PopHead, TypeOK, DiskNode
<1>6. \A q \in Owners' : Placed(q)'
  <2>1. ASSUME NEW q \in Owners, q # h PROVE Placed(q)'
    <3>1. Placed(q) /\ node'[q] = node[q]
      BY <1>5, <2>1, OwnersAreProcs DEF TransferInv
    <3> QED
      BY <1>1, <3>1 DEF Placed
  <2> QED
    BY <1>4, <2>1
<1>7. ~Begun'
  <2> SUFFICES ASSUME disk_list' # <<>> PROVE ~node'[Head(disk_list')].started
    BY DEF Begun
  <2>1. /\ disk_list \in Seq(Procs) /\ Len(disk_list) \in Nat \ {0}
        /\ DOMAIN disk_list = 1 .. Len(disk_list)
        /\ disk_list' = Tail(disk_list) /\ disk_list' \in Seq(Procs)
        /\ DOMAIN disk_list' = 1 .. Len(disk_list) - 1
        /\ \A i \in 1 .. Len(disk_list) - 1 : disk_list'[i] = disk_list[i + 1]
    BY <1>1, <1>2, TailProperties, LenProperties DEF PopHead, TypeOK
  <2>2. Len(disk_list') \in Nat \ {0} /\ Head(disk_list') = disk_list'[1]
        /\ DOMAIN disk_list' = 1 .. Len(disk_list')
    BY <2>1, TailProperties, LenProperties
  <2>3. 1 \in DOMAIN disk_list'
    BY <2>2
  <2>4. 2 \in DOMAIN disk_list /\ Head(disk_list') = disk_list[2]
    BY <2>1, <2>2, <2>3
  <2>5. ~node[disk_list[2]].started /\ disk_list[2] \in Procs
    BY <2>1, <2>4, ElementOfSeq DEF OnlyHeadStarted
  <2> QED
    BY <1>5, <2>4, <2>5
<1>8. dpc' = "send" => Landed(h, "READY")
  BY <1>1, <1>2 DEF TransferInv, HeadInv, Begun
<1>9. (dpc = "send" => Accounted(req))'
  <2> SUFFICES ASSUME dpc' = "send", Moves(req) PROVE Accounted(req)'
    BY <1>1 DEF Accounted, Moves
  <2>1. req.owner = h /\ req.call = calls[h] /\ Repeats(req) /\ calls[h] \in Nat
    BY <1>3, <1>8 DEF Landed, TypeOK
  <2> QED
    BY <1>1, <1>3, <1>4, <2>1 DEF Accounted, Repeats
<1>10. Accounted(dev)'
  BY <1>1, <1>2, HarmlessNotTransfer DEF Accounted
<1>11. ExactTransfer'
  <2> SUFFICES ASSUME NEW q \in mbox', node'[q].response = "READY"
               PROVE  moved'[q] = Wanted(asked'[q])
    BY DEF ExactTransfer
  <2>1. CASE q = h
    <3>1. moved[h] = FirstBlocks(asked[h], node[h].sectors_done)
      BY <1>1, <1>5, <1>8, <2>1 DEF Landed
    <3>2. node[h].sectors_done = asked[h].sectors
      BY <1>1, <1>3, <1>5, <2>1 DEF Complete, TransferInv, Placed
    <3>3. asked[h] \in Arguments
      BY <1>3 DEF TypeOK
    <3> QED
      BY <1>1, <2>1, <3>1, <3>2, <3>3, FirstBlocksProperties
  <2>2. CASE q # h
    BY <1>1, <1>4, <1>5, <2>2 DEF TransferInv, ExactTransfer, TypeOK
  <2> QED
    BY <2>1, <2>2
<1>13. HonestAnswer'
  <2> SUFFICES ASSUME NEW q \in mbox'
               PROVE  /\ node'[q].response = Verdict(asked[q])
                      /\ node'[q].response = "ERROR" =>
                            moved[q] = FirstBlocks(asked[q], Extent(asked[q]))
    BY <1>1 DEF HonestAnswer
  <2>1. CASE q # h
    BY <1>1, <1>4, <1>5, <2>1 DEF TransferInv, HonestAnswer, TypeOK
  <2>2. CASE q = h /\ status = "ERROR"
    <3>1. Begun
      BY <1>2, <2>2 DEF TransferInv, NoStrayError
    <3>2. Landed(h, "ERROR")
      BY <1>2, <2>2, <3>1 DEF TransferInv, HeadInv
    <3> QED
      BY <1>5, <2>2, <3>2 DEF Landed, CutShort
  <2>3. CASE q = h /\ status = "READY"
    <3> DEFINE n == node[h]
               a == asked[h]
    <3>1. Landed(h, "READY") /\ Placed(h) /\ Complete(n) /\ a \in Arguments /\ n \in DiskNode
      BY <1>1, <1>3, <1>8, <2>3 DEF TransferInv, TypeOK
    <3>2. /\ n.sectors_done = a.sectors /\ n.sectors_done \in Nat
          /\ Place(a, n.sectors_done) = n.track * NBlocks + n.start_block
          /\ n.start_block \in 0 .. NBlocks
      BY <3>1 DEF Placed, Complete, DiskNode
    <3>3. OnTracks(n.track) /\ OnTracks(a.track)
      BY <3>1 DEF Landed, TypeOK
    <3>4. Verdict(a) = "READY"
      BY <3>1, <3>2, <3>3, PlaceOnDisk, Extents
    <3> QED
      BY <1>5, <2>3, <3>4
  <2> QED
    BY <1>1, <2>1, <2>2, <2>3
<1>12. NoStrayError'
  <2>1. dpc' = "send" => Outcome(req) = "READY"
    BY <1>8 DEF Landed
  <2>2. slot' = "NONE" /\ ~Busy'
    BY <1>1, <1>2, DeviceIdle DEF DaemonError, DaemonFinish, Busy
  <2> QED
    BY <1>1, <2>1, <2>2 DEF NoStrayError, Outcome
<1> QED
  BY <1>6, <1>7, <1>9, <1>10, <1>11, <1>12, <1>13 DEF TransferInv, HeadInv

-----------------------------------------------------------------------------
(***************************************************************************)
(* The device.                                                             *)
(***************************************************************************)
HeadTransfer ==
    LET h == Head(disk_list) IN
    Begun /\ dev = req /\ Transferring(h)

\* What the device moves: the head's next block, or nothing new.
LEMMA DeviceMoves ==
    ASSUME TypeOK, NodeLifetime, InFlightInv, HighPrio = {}, TransferInv, DeviceDone
    PROVE  LET h == Head(disk_list)
               a == asked[h]
               k == node[h].sectors_done
           IN  \/ /\ HeadTransfer
                  /\ moved' = [moved EXCEPT ![h] = @ \cup {BlockOf(a, k - 1)}]
                  /\ k - 1 \in Nat
                  /\ moved[h] = FirstBlocks(a, k - 1)
                  /\ moved'[h] = FirstBlocks(a, k)
                  /\ k - 1 < Extent(a)
               \/ moved' = moved /\ ~HeadTransfer
<1> DEFINE h == Head(disk_list)
           n == node[h]
           a == asked[h]
           k == n.sectors_done
<1>1. CASE HeadTransfer
  <2>1. h \in Procs /\ h \in Owners /\ n \in DiskNode /\ a \in Arguments
    BY <1>1, HeadFacts DEF HeadTransfer, Begun, TypeOK
  <2>2. Placed(h)
    BY <2>1 DEF TransferInv
  <2>3. /\ Moves(dev) /\ dev.call = calls[dev.owner] /\ dev.owner = h
        /\ dev.reg1 = n.start_block - 1 /\ dev.sector = k - 1
        /\ n.start_block > 0 /\ k > 0 /\ arm = n.track
        /\ moved[h] = FirstBlocks(a, k - 1) /\ OnTracks(a.track)
    BY <1>1 DEF HeadTransfer, Transferring
  <2>4. moved' = [moved EXCEPT ![h] = @ \cup {<<n.track, n.start_block - 1, k - 1>>}]
    BY <2>3 DEF DeviceDone
  <2>5. /\ NBlocks \in Nat \ {0} /\ n.track \in Int /\ k \in Nat
        /\ n.start_block \in 0 .. NBlocks
        /\ a.track \in Int /\ a.start \in Int /\ a.sectors \in Int
    BY <2>1, <2>2, RequestsAssumption DEF DiskNode, Arguments, Placed
  <2>6. k - 1 \in Nat /\ k - 1 \in Int /\ n.start_block - 1 \in 0 .. NBlocks - 1
    BY <2>3, <2>5
  <2>7. n.track * NBlocks + (n.start_block - 1) = Place(a, k - 1)
    <3>1. n.track * NBlocks + n.start_block = a.track * NBlocks + a.start + k
      BY <2>2 DEF Placed, Place
    <3>2. PICK x \in Int, y \in Int : x = n.track * NBlocks /\ y = a.track * NBlocks
      BY <2>5
    <3>3. x + n.start_block = y + a.start + k
      BY <3>1, <3>2
    <3>4. x + (n.start_block - 1) = y + a.start + (k - 1)
      <4>1. PICK b \in Int, d \in Int, s \in Int :
               b = n.start_block /\ d = k /\ s = a.start
        BY <2>5
      <4>2. x + b = y + s + d
        BY <3>3, <4>1
      <4>3. x + (b - 1) = y + s + (d - 1)
        BY <4>2
      <4> QED
        BY <4>1, <4>3
    <3> QED
      BY <3>2, <3>4 DEF Place
  <2>8. moved' = [moved EXCEPT ![h] = @ \cup {BlockOf(a, k - 1)}]
    <3>1. BlockOf(a, k - 1) = <<n.track, n.start_block - 1, k - 1>>
      BY <2>1, <2>5, <2>6, <2>7, BlockAt
    <3> QED
      BY <2>4, <3>1
  <2>9. FirstBlocks(a, (k - 1) + 1) = FirstBlocks(a, k - 1) \cup {BlockOf(a, k - 1)}
    BY <2>1, <2>6, FirstBlocksProperties
  <2>10. (k - 1) + 1 = k
    BY <2>5
  <2>11. moved'[h] = FirstBlocks(a, k)
    BY <2>1, <2>3, <2>8, <2>9, <2>10 DEF TypeOK
  <2>12. k - 1 < Extent(a)
    <3>1. a.sectors >= 0 => k - 1 < a.sectors
      BY <2>2, <2>5 DEF Placed
    <3>2. OnTracks(n.track)
      BY <2>3 DEF TypeOK
    <3>3. Place(a, k - 1) < NTracks * NBlocks
      <4>1. n.start_block - 1 \in 0 .. NBlocks /\ n.start_block - 1 < NBlocks
        BY <2>5, <2>6
      <4> QED
        BY <2>7, <3>2, <4>1, PlaceOnDisk
    <3> QED
      BY <2>1, <2>3, <2>6, <3>1, <3>3, Extents
  <2> QED
    BY <1>1, <2>3, <2>6, <2>8, <2>11, <2>12
<1>2. CASE ~HeadTransfer
  <2>1. CASE ~Moves(dev) \/ dev.call # calls[dev.owner]
    BY <1>2, <2>1 DEF DeviceDone
  <2>2. CASE Moves(dev) /\ dev.call = calls[dev.owner]
    <3>1. ~(Begun /\ dev.owner = h)
      <4> SUFFICES ASSUME Begun, dev.owner = h PROVE FALSE
        OBVIOUS
      <4>1. Busy /\ dpc \notin {"send", "got"}
        BY DeviceIdle DEF DeviceDone
      <4>2. dev = req /\ (Seeking(h) \/ Transferring(h))
        BY <4>1 DEF TransferInv, HeadInv
      <4>3. ~Seeking(h)
        BY <2>2, <4>2 DEF Seeking, Moves, Command
      <4> QED
        BY <1>2, <4>2, <4>3 DEF HeadTransfer
    <3>2. dev.owner \in Procs /\ <<arm, dev.reg1, dev.sector>> \in moved[dev.owner]
      BY <2>2, <3>1 DEF TransferInv, Accounted, Repeats
    <3>3. moved[dev.owner] \cup {<<arm, dev.reg1, dev.sector>>} = moved[dev.owner]
      BY <3>2
    <3>4. moved' = [moved EXCEPT ![dev.owner] = moved[dev.owner]]
      BY <2>2, <3>3 DEF DeviceDone
    <3> QED
      BY <1>2, <3>4 DEF TypeOK
  <2> QED
    BY <2>1, <2>2
<1> QED
  BY <1>1, <1>2

LEMMA TransferDevice ==
    ASSUME TypeOK, NodeLifetime, InFlightInv, HighPrio = {}, TransferInv, DeviceDone
    PROVE  TransferInv'
<1> DEFINE h == Head(disk_list)
<1> USE DEF userVars, deviceVars, daemonVars
<1>1. /\ Busy /\ slot = "NONE" /\ dpc \notin {"got", "send"} /\ dev' = NoRequest /\ ~Busy'
      /\ UNCHANGED <<calls, asked, disk_list, node, mbox, dpc, status, req>>
      /\ slot' = Outcome(dev)
      /\ arm' = IF dev.opr = "SEEK" /\ Outcome(dev) = "READY" THEN dev.reg1 ELSE arm
  BY DeviceIdle DEF DeviceDone, InFlightInv, OneInFlight, Busy
<1>2. Owners' = Owners /\ Begun' = Begun
  BY <1>1 DEF Owners, Begun
<1>3. Begun => h \in Procs /\ h \in Owners /\ h \notin mbox /\ asked[h] \in Arguments
  BY HeadFacts DEF Begun, TypeOK
<1>4. \A q \in Procs : moved'[q] # moved[q] => Begun /\ q = h
  <2>1. moved' = moved \/ (HeadTransfer /\ \E b : moved' = [moved EXCEPT ![h] = b])
    BY DeviceMoves
  <2> QED
    BY <1>3, <2>1 DEF HeadTransfer, TypeOK
<1>5. \A q \in Owners' : Placed(q)'
  <2> SUFFICES ASSUME NEW q \in Owners PROVE Placed(q)'
    BY <1>2
  <2>1. Placed(q) /\ (~node[q].started => moved'[q] = moved[q])
    BY <1>4, OwnersAreProcs DEF TransferInv, Begun
  <2> QED
    BY <1>1, <2>1 DEF Placed
<1>6. HeadInv'
  <2> SUFFICES ASSUME Begun PROVE dpc = "wait" /\ slot' # "NONE" /\ Landed(h, slot)'
    BY <1>1, <1>2 DEF HeadInv
  <2>1. dpc = "wait" /\ dev = req /\ (Seeking(h) \/ Transferring(h))
    BY <1>1 DEF TransferInv, HeadInv
  <2>2. slot' \in Statuses
    BY <1>1, DeviceTypes
  <2>3. CASE Seeking(h)
    <3>1. /\ req.opr = "SEEK" /\ req.reg1 = node[h].track /\ ~Moves(req)
      BY <2>3 DEF Seeking, Command, Moves
    <3>2. ~HeadTransfer
      BY <3>1 DEF HeadTransfer, Transferring
    <3>3. moved' = moved
      BY <3>2, DeviceMoves
    <3>4. slot' = "ERROR" => CutShort(asked[h], node[h].sectors_done)
      BY <1>1, <2>1, <2>3, <3>1 DEF Outcome, Seeking
    <3>5. slot' = "READY" => /\ arm' = node[h].track /\ Outcome(req) = "READY"
                             /\ OnTracks(asked[h].track)
      BY <1>1, <2>1, <2>3, <3>1 DEF Outcome, Seeking
    <3>6. moved[h] = FirstBlocks(asked[h], node[h].sectors_done)
      BY <2>3 DEF Seeking
    <3> QED
      BY <1>1, <2>1, <2>2, <3>1, <3>3, <3>4, <3>5, <3>6
         DEF Landed, Statuses, Moves, Outcome
  <2>4. CASE Transferring(h)
    <3>1. HeadTransfer
      BY <2>1, <2>4 DEF HeadTransfer
    <3>2. moved'[h] = FirstBlocks(asked[h], node[h].sectors_done)
      BY <3>1, DeviceMoves
    <3>3. /\ Moves(req) /\ req.owner = h /\ req.call = calls[h]
          /\ arm = node[h].track /\ OnTracks(asked[h].track)
      BY <2>4 DEF Transferring
    <3>4. slot' = "READY" /\ arm' = arm /\ Outcome(req) = "READY"
      BY <1>1, <2>1, <3>3 DEF Moves, Outcome
    <3>5. <<arm, req.reg1, req.sector>> \in moved'[h]
      BY <1>3, <2>1, <3>3 DEF DeviceDone, TypeOK
    <3>6. Repeats(req)'
      BY <1>1, <1>3, <3>3, <3>4, <3>5 DEF Repeats
    <3> QED
      BY <1>1, <2>1, <3>2, <3>3, <3>4, <3>6 DEF Landed, Outcome
  <2> QED
    BY <2>1, <2>3, <2>4
<1>7. Accounted(dev)'
  BY <1>1, HarmlessNotTransfer DEF Accounted
<1>8. ExactTransfer' /\ HonestAnswer'
  BY <1>1, <1>3, <1>4 DEF ExactTransfer, HonestAnswer, TransferInv, TypeOK
<1>9. NoStrayError'
  BY <1>1, <1>2 DEF NoStrayError, TransferInv
<1> QED
  BY <1>1, <1>5, <1>6, <1>7, <1>8, <1>9 DEF TransferInv

-----------------------------------------------------------------------------
LEMMA TransferNext ==
    ASSUME TypeOK, NodeLifetime, OnlyHeadStarted, InFlightInv, HighPrio = {},
           TransferInv, [Next]_vars
    PROVE  TransferInv'
<1>1. CASE UNCHANGED vars
  <2>1. HarmlessOutput
    BY <1>1 DEF vars, deviceVars, HarmlessOutput
  <2> QED
    BY <1>1, <2>1, QuietFrame DEF vars, userVars, daemonVars, deviceVars
<1>2. CASE Daemon
  BY <1>2, TransferStart, TransferCross, TransferTransfer, TransferWakeSend, TransferPop
     DEF Daemon
<1> QED
  BY <1>1, <1>2, TransferHelper, TransferGetTracks, TransferDevice DEF Next

LEMMA TransferCorrect ==
    ASSUME HighPrio = {}
    PROVE  Spec => []TransferInv
<1>1. Init => TransferInv
  <2> SUFFICES ASSUME Init PROVE TransferInv
    OBVIOUS
  <2>1. Owners = {} /\ ~Begun /\ dev = NoRequest /\ dpc = "boot" /\ mbox = {}
    BY DEF Init, Owners, Members, Begun
  <2> QED
    BY <2>1, HarmlessNotTransfer
       DEF Init, TransferInv, HeadInv, NoStrayError, Busy, Accounted, ExactTransfer,
           HonestAnswer
<1>2. TypeOK /\ NodeLifetime /\ OnlyHeadStarted /\ InFlightInv
        /\ TransferInv /\ [Next]_vars => TransferInv'
  BY TransferNext
<1> QED
  BY <1>1, <1>2, TypeCorrect, NodeLifetimeCorrect, OnlyHeadStartedCorrect,
     InFlightCorrect, PTL DEF Spec

\* Without callers of the daemon's priority: whenever disk_helper is answered
\* with 0, the device has moved exactly the blocks asked for, each to or from its
\* own place in the buffer (841-869).
THEOREM ExactTransferCorrect ==
    ASSUME HighPrio = {}
    PROVE  Spec => []ExactTransfer
<1>1. TransferInv => ExactTransfer
  BY DEF TransferInv
<1> QED
  BY <1>1, TransferCorrect, PTL

\* Without callers of the daemon's priority, the answer fits the arguments: an error
\* comes exactly when the disk ends before the request does, and after every block
\* up to that end has been moved (786-806, 815, 841-847).
THEOREM HonestAnswerCorrect ==
    ASSUME HighPrio = {}
    PROVE  Spec => []HonestAnswer
<1>1. TransferInv => HonestAnswer
  BY DEF TransferInv
<1> QED
  BY <1>1, TransferCorrect, PTL

-----------------------------------------------------------------------------
(***************************************************************************)
(* The refinement of DiskService: every step maps to a step of the service *)
(* or to none.                                                             *)
(***************************************************************************)
LEMMA FirstBlocksCardinality ==
    ASSUME NEW r \in Arguments
    PROVE  \A k \in Nat : /\ IsFiniteSet(FirstBlocks(r, k))
                          /\ Cardinality(FirstBlocks(r, k)) = k
<1> SUFFICES ASSUME NEW k \in Nat
             PROVE  /\ IsFiniteSet(FirstBlocks(r, k))
                    /\ Cardinality(FirstBlocks(r, k)) = k
  OBVIOUS
<1> DEFINE f == [i \in 0 .. k - 1 |-> BlockOf(r, i)]
<1>1. f \in Bijection(0 .. k - 1, FirstBlocks(r, k))
  BY DEF Bijection, Injection, Surjection, IsInjective, FirstBlocks, BlockOf
<1>2. IsFiniteSet(0 .. k - 1) /\ Cardinality(0 .. k - 1) = k
  BY FS_Interval
<1> QED
  BY <1>1, <1>2, FS_Bijection DEF ExistsBijection

\* How a step changes the phases when it changes no more than p's.
LEMMA PhaseStep ==
    ASSUME NEW p \in Procs, NEW w,
           \A q \in Procs : q # p => /\ pc'[q] = pc[q]
                                     /\ q \in mbox' <=> q \in mbox
                                     /\ node'[q].started = node[q].started,
           PhaseOf(p)' = w
    PROVE  phaseBar' = [phaseBar EXCEPT ![p] = w]
<1>1. \A q \in Procs : q # p => PhaseOf(q)' = PhaseOf(q)
  BY DEF PhaseOf
<1> QED
  BY <1>1 DEF phaseBar

LEMMA ResultStep ==
    ASSUME NEW p \in Procs, NEW w,
           \A q \in Procs : q # p => node'[q].response = node[q].response,
           node'[p].response = w
    PROVE  resultBar' = [resultBar EXCEPT ![p] = w]
BY DEF resultBar

LEMMA BarsUnchanged ==
    ASSUME mbox' = mbox,
           \A q \in Procs : /\ pc'[q] = pc[q] \/ (pc[q] = "kick" /\ pc'[q] = "recv")
                            /\ node'[q].started = node[q].started
                            /\ node'[q].response = node[q].response
    PROVE  phaseBar' = phaseBar /\ resultBar' = resultBar
<1>1. \A q \in Procs : PhaseOf(q)' = PhaseOf(q)
  BY DEF PhaseOf
<1> QED
  BY <1>1 DEF phaseBar, resultBar

LEMMA ServiceHelper ==
    ASSUME TypeOK, NodeLifetime, NEW p \in Procs, Helper(p)
    PROVE  Service!Next \/ UNCHANGED Service!vars
<1> USE DEF daemonVars, deviceVars, userVars
<1>1. CASE Reject(p)
  <2>1. PICK r \in Requests :
           /\ Call(p, r) /\ ~Valid(r)
           /\ reply' = [reply EXCEPT ![p] = "INVALID"]
           /\ moved' = [moved EXCEPT ![p] = {}]
    BY <1>1 DEF Reject
  <2>2. pc[p] = "user" /\ asked' = [asked EXCEPT ![p] = r]
    BY <2>1 DEF Call
  <2>3. phaseBar[p] = "idle"
    BY <2>2 DEF phaseBar, PhaseOf
  <2>4. phaseBar' = phaseBar /\ resultBar' = resultBar
    BY <1>1, BarsUnchanged DEF Reject
  <2>5. Service!Refuse(p)
    BY <2>1, <2>2, <2>3, <2>4 DEF Service!Refuse, Service!Valid, Valid
  <2> QED
    BY <2>5 DEF Service!Next
<1>2. CASE SubmitBusy(p) \/ SubmitIdle(p) \/ SubmitEarly(p)
  <2>1. PICK r \in Requests, w \in {"recv", "kick"} :
           Enqueue(p, r) /\ pc' = [pc EXCEPT ![p] = w]
    BY <1>2 DEF SubmitBusy, SubmitIdle, SubmitEarly
  <2>2. /\ pc[p] = "user" /\ p \notin mbox /\ Valid(r) /\ mbox' = mbox
        /\ asked' = [asked EXCEPT ![p] = r]
        /\ moved' = [moved EXCEPT ![p] = {}]
        /\ reply' = [reply EXCEPT ![p] = "NONE"]
    BY <2>1, CallerIsFree DEF Enqueue, Call
  <2>3. /\ node'[p] = NewNode(r)
        /\ \A q \in Procs : q # p => node'[q] = node[q] /\ pc'[q] = pc[q]
        /\ pc'[p] = w
    BY <2>1 DEF Enqueue, TypeOK
  <2>4. phaseBar[p] = "idle"
    BY <2>2 DEF phaseBar, PhaseOf
  <2>5. PhaseOf(p)' = "queued" /\ node'[p].response = "READY"
    BY <2>2, <2>3 DEF PhaseOf, NewNode
  <2>6. phaseBar' = [phaseBar EXCEPT ![p] = "queued"]
    BY <2>2, <2>3, <2>5, PhaseStep
  <2>7. resultBar' = [resultBar EXCEPT ![p] = "READY"]
    BY <2>3, <2>5, ResultStep
  <2>8. Service!Accept(p)
    BY <2>2, <2>4, <2>6, <2>7 DEF Service!Accept, Service!Valid, Valid
  <2> QED
    BY <2>8 DEF Service!Next
<1>3. CASE Kick(p)
  <2>1. phaseBar' = phaseBar /\ resultBar' = resultBar
    BY <1>3, BarsUnchanged DEF Kick, TypeOK
  <2> QED
    BY <1>3, <2>1 DEF Kick, Service!vars
<1>4. CASE Return(p)
  <2>1. /\ p \in mbox /\ mbox' = mbox \ {p} /\ pc[p] = "recv"
        /\ pc' = [pc EXCEPT ![p] = "user"]
        /\ reply' = [reply EXCEPT ![p] = node[p].response]
        /\ UNCHANGED <<asked, node, moved>>
    BY <1>4 DEF Return
  <2>2. phaseBar[p] = "done" /\ PhaseOf(p)' = "idle"
    BY <2>1 DEF phaseBar, PhaseOf, TypeOK
  <2>3. phaseBar' = [phaseBar EXCEPT ![p] = "idle"]
    BY <2>1, <2>2, PhaseStep DEF TypeOK
  <2>4. resultBar' = resultBar /\ resultBar[p] = node[p].response
    BY <2>1 DEF resultBar
  <2>5. Service!Return(p)
    BY <2>1, <2>2, <2>3, <2>4 DEF Service!Return
  <2> QED
    BY <2>5 DEF Service!Next
<1> QED
  BY <1>1, <1>2, <1>3, <1>4 DEF Helper

\* The service's active operation is the one the daemon has begun.
LEMMA ActiveIsHead ==
    ASSUME TypeOK, NodeLifetime, OnlyHeadStarted, NEW q \in Procs
    PROVE  phaseBar[q] = "active" <=> Begun /\ q = Head(disk_list)
<1>1. phaseBar[q] = "active" <=> q \in Owners /\ node[q].started
  BY DEF phaseBar, PhaseOf, NodeLifetime
<1>2. ASSUME q \in Owners, node[q].started PROVE Begun /\ q = Head(disk_list)
  <2>1. PICK i \in DOMAIN disk_list : disk_list[i] = q
    BY <1>2 DEF Owners, Members
  <2>2. i = 1
    BY <1>2, <2>1 DEF OnlyHeadStarted
  <2>3. disk_list # <<>>
    BY <2>1
  <2>4. Head(disk_list) = q
    BY <2>1, <2>2, <2>3, TailProperties DEF TypeOK
  <2> QED
    BY <1>2, <2>3, <2>4 DEF Begun
<1>3. Begun => Head(disk_list) \in Owners
  BY HeadFacts DEF Begun
<1> QED
  BY <1>1, <1>2, <1>3 DEF Begun

LEMMA ServiceStart ==
    ASSUME TypeOK, NodeLifetime, OnlyHeadStarted, DaemonStart
    PROVE  Service!Next
<1>1. PICK p \in Procs :
         /\ p = Head(disk_list) /\ p \in Owners /\ p \notin mbox
         /\ disk_list # <<>> /\ ~node[p].started
         /\ node' = [node EXCEPT ![p] = Started(@)]
         /\ UNCHANGED <<pc, asked, moved, reply, mbox>>
  BY HeadFacts DEF DaemonStart, Serving, userVars, deviceVars
<1>2. pc[p] # "user"
  BY <1>1 DEF NodeLifetime
<1>3. /\ \A q \in Procs : q # p => node'[q] = node[q]
      /\ node'[p].started /\ node'[p].response = node[p].response
  BY <1>1 DEF TypeOK, Started, DiskNode
<1>4. phaseBar[p] = "queued" /\ PhaseOf(p)' = "active"
  BY <1>1, <1>2, <1>3 DEF phaseBar, PhaseOf
<1>5. phaseBar' = [phaseBar EXCEPT ![p] = "active"]
  BY <1>1, <1>3, <1>4, PhaseStep
<1>6. resultBar' = resultBar
  BY <1>3 DEF resultBar
<1>7. \A q \in Procs : phaseBar[q] # "active"
  BY <1>1, ActiveIsHead DEF Begun
<1>8. Service!Begin(p)
  BY <1>1, <1>4, <1>5, <1>6, <1>7 DEF Service!Begin
<1> QED
  BY <1>8 DEF Service!Next, Service!Serve

\* Moving the node on changes no phase: the blocks move in the device.
LEMMA ServiceContinue ==
    ASSUME TypeOK, NodeLifetime, DaemonCross \/ DaemonTransfer
    PROVE  UNCHANGED Service!vars
<1> DEFINE h == Head(disk_list)
<1>1. /\ Continuing /\ UNCHANGED <<pc, asked, moved, reply, mbox>>
      /\ node' = [node EXCEPT ![h] = Crossed(node[h])]
         \/ node' = [node EXCEPT ![h] = Advanced(node[h])]
  BY DEF DaemonCross, DaemonTransfer, userVars, deviceVars
<1>2. h \in Procs /\ node[h] \in DiskNode
  BY <1>1, HeadFacts DEF Continuing, Serving, TypeOK
<1>3. /\ Crossed(node[h]).started = node[h].started
      /\ Crossed(node[h]).response = node[h].response
      /\ Advanced(node[h]).started = node[h].started
      /\ Advanced(node[h]).response = node[h].response
  BY <1>2 DEF Crossed, Advanced, DiskNode
<1>4. \A q \in Procs : /\ node'[q].started = node[q].started
                       /\ node'[q].response = node[q].response
  BY <1>1, <1>2, <1>3 DEF TypeOK
<1>5. phaseBar' = phaseBar /\ resultBar' = resultBar
  BY <1>1, <1>4, BarsUnchanged
<1> QED
  BY <1>1, <1>5 DEF Service!vars

LEMMA ServiceData ==
    /\ \A r, i : Service!BlockOf(r, i) = BlockOf(r, i)
    /\ \A r, k : Service!FirstBlocks(r, k) = FirstBlocks(r, k)
    /\ \A r : Service!Extent(r) = Extent(r) /\ Service!Verdict(r) = Verdict(r)
<1>1. \A r, i : Service!BlockOf(r, i) = BlockOf(r, i)
  BY DEF Service!BlockOf, BlockOf
<1>2. \A r, k : Service!FirstBlocks(r, k) = FirstBlocks(r, k)
  BY <1>1 DEF Service!FirstBlocks, FirstBlocks
<1>3. \A r : Service!Extent(r) = Extent(r)
  BY DEF Service!Extent, Extent, Service!OnTracks, OnTracks, Service!Place, Place
<1>4. \A r : Service!Verdict(r) = Verdict(r)
  BY <1>3 DEF Service!Verdict, Verdict, Service!OnTracks, OnTracks
<1> QED
  BY <1>1, <1>2, <1>3, <1>4

LEMMA ServiceCardinality ==
    ASSUME NEW S
    PROVE  Service!Cardinality(S) = Cardinality(S)
BY DEF Service!Cardinality, Cardinality

LEMMA ServicePop ==
    ASSUME TypeOK, NodeLifetime, OnlyHeadStarted, InFlightInv, HighPrio = {}, TransferInv,
           DaemonError \/ DaemonFinish
    PROVE  Service!Next
<1>1. PICK p \in Procs :
         /\ p = Head(disk_list) /\ p \in Owners /\ p \notin mbox
         /\ dpc = "got" /\ disk_list # <<>>
         /\ mbox' = mbox \cup {p}
         /\ node' = [node EXCEPT ![p].response = status]
         /\ UNCHANGED <<pc, asked, moved, reply>>
         /\ \/ status = "ERROR"
            \/ status = "READY" /\ node[p].started /\ Complete(node[p])
  BY HeadFacts DEF DaemonError, DaemonFinish, PopHead, Serving, TypeOK, Statuses,
                   userVars, deviceVars
<1>2. Begun
  BY <1>1 DEF TransferInv, NoStrayError, Begun
<1>4. pc[p] # "user" /\ pc'[p] # "user"
  BY <1>1 DEF NodeLifetime
<1>5. /\ \A q \in Procs : q # p => node'[q] = node[q]
      /\ node'[p].response = status
  BY <1>1 DEF TypeOK, DiskNode
<1>6. phaseBar[p] = "active" /\ PhaseOf(p)' = "done"
  BY <1>1, <1>2, <1>4, ActiveIsHead DEF PhaseOf
<1>7. phaseBar' = [phaseBar EXCEPT ![p] = "done"]
  BY <1>1, <1>5, <1>6, PhaseStep
<1>8. resultBar' = [resultBar EXCEPT ![p] = status]
  BY <1>5, ResultStep
<1>9. HonestAnswer' /\ ExactTransfer' /\ p \in mbox' /\ asked' = asked /\ moved' = moved
  BY <1>1, TransferPop DEF TransferInv
<1>10. status = Verdict(asked[p])
  BY <1>5, <1>9 DEF HonestAnswer
<1>11. moved[p] = FirstBlocks(asked[p], Extent(asked[p]))
  <2>1. CASE status = "ERROR"
    BY <1>5, <1>9, <2>1 DEF HonestAnswer
  <2>2. CASE status = "READY"
    BY <1>5, <1>9, <1>10, <2>2 DEF ExactTransfer, Wanted, Verdict
  <2> QED
    BY <1>1, <2>1, <2>2
<1>12. Service!Answer(p)
  BY <1>1, <1>6, <1>7, <1>8, <1>10, <1>11, ServiceData DEF Service!Answer
<1> QED
  BY <1>12 DEF Service!Next, Service!Serve

LEMMA ServiceDevice ==
    ASSUME TypeOK, NodeLifetime, OnlyHeadStarted, InFlightInv, HighPrio = {}, TransferInv,
           DeviceDone
    PROVE  Service!Next \/ UNCHANGED Service!vars
<1>1. UNCHANGED <<pc, asked, reply, mbox, node>>
  BY DEF DeviceDone, userVars
<1>2. phaseBar' = phaseBar /\ resultBar' = resultBar
  BY <1>1, BarsUnchanged
<1>3. CASE moved' = moved
  BY <1>1, <1>2, <1>3 DEF Service!vars
<1>4. CASE moved' # moved
  <2>1. PICK p \in Procs, j \in Nat :
           /\ p = Head(disk_list) /\ Begun
           /\ j = node[p].sectors_done - 1
           /\ moved' = [moved EXCEPT ![p] = @ \cup {BlockOf(asked[p], j)}]
           /\ moved[p] = FirstBlocks(asked[p], j)
           /\ j < Extent(asked[p])
    BY <1>4, DeviceMoves, HeadFacts DEF HeadTransfer, Begun
  <2>2. asked[p] \in Arguments /\ phaseBar[p] = "active"
    BY <2>1, ActiveIsHead DEF TypeOK
  <2>3. Cardinality(moved[p]) = j
    BY <2>1, <2>2, FirstBlocksCardinality
  <2>5. moved' = [moved EXCEPT ![p] =
                    @ \cup {Service!BlockOf(asked[p], Cardinality(@))}]
    BY <2>1, <2>3, ServiceData
  <2>6. Service!Move(p)
    BY <1>1, <1>2, <2>1, <2>2, <2>3, <2>5, ServiceCardinality, ServiceData
       DEF Service!Move
  <2> QED
    BY <2>6 DEF Service!Next, Service!Serve
<1> QED
  BY <1>3, <1>4

LEMMA ServiceNext ==
    ASSUME TypeOK, NodeLifetime, OnlyHeadStarted, InFlightInv, HighPrio = {}, TransferInv,
           [Next]_vars
    PROVE  Service!Next \/ UNCHANGED Service!vars
<1> USE DEF userVars, deviceVars, daemonVars
<1>1. CASE \/ UNCHANGED vars \/ GetTracks
           \/ DaemonBoot \/ DaemonWake \/ DaemonIdle \/ DaemonSend
  <2>1. UNCHANGED <<pc, asked, moved, reply, mbox, node>>
    BY <1>1 DEF vars, GetTracks, AskTracks, PublishTracks, DaemonBoot, DaemonWake,
                DaemonIdle, DaemonSend
  <2>2. phaseBar' = phaseBar /\ resultBar' = resultBar
    BY <2>1, BarsUnchanged
  <2> QED
    BY <2>1, <2>2 DEF Service!vars
<1> QED
  BY <1>1, ServiceHelper, ServiceStart, ServiceContinue, ServicePop, ServiceDevice
     DEF Next, Daemon

\* Without callers of the daemon's priority, disk_helper and disk_daemon carry out
\* one operation at a time, block after block, and answer each with what became
\* of it (348-349, 786-882).
THEOREM ImplementsServiceCorrect ==
    ASSUME HighPrio = {}
    PROVE  Spec => ImplementsService
<1>1. Init => Service!Init
  <2> SUFFICES ASSUME Init PROVE Service!Init
    OBVIOUS
  <2>1. TypeOK
    BY TypeInit
  <2>2. phaseBar = [p \in Procs |-> "idle"]
    BY DEF Init, phaseBar, PhaseOf
  <2>3. resultBar = [p \in Procs |-> "READY"]
    BY DEF Init, resultBar, NewNode
  <2> QED
    BY <2>1, <2>2, <2>3 DEF Init, TypeOK, Service!Init, Service!Arguments, Arguments
<1>2. TypeOK /\ NodeLifetime /\ OnlyHeadStarted /\ InFlightInv /\ TransferInv
        /\ [Next]_vars => [Service!Next]_(Service!vars)
  BY ServiceNext
<1> QED
  BY <1>1, <1>2, TypeCorrect, NodeLifetimeCorrect, OnlyHeadStartedCorrect,
     InFlightCorrect, TransferCorrect, PTL DEF Spec, ImplementsService, Service!Spec
=============================================================================
