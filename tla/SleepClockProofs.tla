-------------------------- MODULE SleepClockProofs --------------------------
(***************************************************************************)
(* Theorems about SleepClock, for any number of sleepers of any priority   *)
(* and any arguments.                                                      *)
(***************************************************************************)
EXTENDS SleepClock, LinkedListProofs

-----------------------------------------------------------------------------
(***************************************************************************)
(* Type correctness.                                                       *)
(***************************************************************************)
LEMMA SleepType ==
    ASSUME TypeOK, NEW p \in Procs, Sleep(p)
    PROVE  TypeOK'
<1>1. PICK seconds \in Seconds :
        LET t == time_counter + seconds * TicksPerSecond IN
        /\ calls' = [calls EXCEPT ![p] = @ + 1]
        /\ wake_up_time' = [wake_up_time EXCEPT ![p] = t]
        /\ Link(p, t)
        /\ pc' = [pc EXCEPT ![p] = "asleep"]
        /\ between' \subseteq between \cup {p}
        /\ UNCHANGED <<time_counter, slot, dpc, pid, next>>
  BY DEF Sleep
<1> DEFINE t == time_counter + seconds * TicksPerSecond
<1>2. t \in Int
  BY SleepAssumption DEF TypeOK
<1>3. sleep_list' \in Seq(Procs)
  <2>1. CASE sleep_list' = <<p>>
    BY <2>1
  <2>2. CASE \E k \in DOMAIN sleep_list : sleep_list' = InsertAfter(sleep_list, k, p)
    <3>1. PICK k \in DOMAIN sleep_list : sleep_list' = InsertAfter(sleep_list, k, p)
      BY <2>2
    <3>2. sleep_list \in Seq(Procs) /\ k \in 1 .. Len(sleep_list)
      BY LenProperties DEF TypeOK
    <3> QED
      BY <3>1, <3>2, InsertAfterProperties
  <2> QED
    BY <1>1, <2>1, <2>2 DEF Link
<1>4. wake_up_time' \in [Procs -> Int]
  BY <1>1, <1>2 DEF TypeOK
<1> QED
  BY <1>1, <1>3, <1>4 DEF TypeOK

LEMMA DaemonType ==
    ASSUME TypeOK, Daemon \/ Tick
    PROVE  TypeOK'
<1> USE DEF TypeOK, procVars
<1>1. CASE DaemonLoad
  <2>1. sleep_list # <<>>
    BY <1>1 DEF DaemonLoad, HeadExpired
  <2>2. Head(sleep_list) \in Procs
    BY <2>1, TailProperties
  <2>3. Len(sleep_list) > 1 => sleep_list[2] \in Procs
    BY LenProperties, ElementOfSeq
  <2> QED
    BY <1>1, <2>2, <2>3 DEF DaemonLoad
<1>2. CASE DaemonStore
  <2>1. PICK i \in 2 .. Len(sleep_list) + 1 :
           sleep_list' = SubSeq(sleep_list, i, Len(sleep_list))
    BY <1>2 DEF DaemonStore
  <2>2. \A j \in i .. Len(sleep_list) : sleep_list[j] \in Procs
    BY LenProperties, ElementOfSeq
  <2>3. sleep_list' \in Seq(Procs)
    BY <2>1, <2>2, LenProperties, SubSeqProperties
  <2> QED
    BY <1>2, <2>3 DEF DaemonStore
<1>3. CASE DaemonUnblock
  BY <1>3 DEF DaemonUnblock
<1>4. CASE Tick \/ DaemonWake \/ DaemonSleep
  BY <1>4 DEF Tick, DaemonWake, DaemonSleep
<1> QED
  BY <1>1, <1>2, <1>3, <1>4 DEF Daemon

THEOREM TypeCorrect == Spec => []TypeOK
<1>1. Init => TypeOK
  BY EmptySeq DEF Init, TypeOK
<1>2. TypeOK /\ [Next]_vars => TypeOK'
  <2> SUFFICES ASSUME TypeOK, [Next]_vars PROVE TypeOK'
    OBVIOUS
  <2>1. CASE UNCHANGED vars
    BY <2>1 DEF vars, procVars, TypeOK
  <2> QED
    BY <2>1, SleepType, DaemonType DEF Next
<1> QED
  BY <1>1, <1>2, PTL DEF Spec

-----------------------------------------------------------------------------
(***************************************************************************)
(* The life of a node.                                                     *)
(***************************************************************************)

\* NodeLifetime, strengthened by what the daemon has read when it unlinks.
LifetimeInv ==
    /\ NodeLifetime
    /\ dpc = "store" => sleep_list # <<>> /\ pid = Head(sleep_list)

\* What Sleep does to the list.
LEMMA SleepLinks ==
    ASSUME TypeOK, NodeLifetime, NEW p \in Procs, Sleep(p)
    PROVE  /\ p \notin Asleep
           /\ Asleep' = Asleep \cup {p}
           /\ NoRepeat(sleep_list')
           /\ Members(sleep_list') = Members(sleep_list) \cup {p}
           /\ sleep_list # <<>> =>
                 /\ sleep_list' # <<>>
                 /\ Head(sleep_list') = Head(sleep_list)
<1>1. PICK t : /\ pc[p] = "user"
               /\ pc' = [pc EXCEPT ![p] = "asleep"]
               /\ Link(p, t)
  BY DEF Sleep
<1>2. p \notin Asleep /\ Asleep' = Asleep \cup {p}
  BY <1>1 DEF Asleep, TypeOK
<1>3. p \notin Members(sleep_list)
  BY <1>2 DEF NodeLifetime
<1>4. CASE sleep_list = <<>>
  <2>1. sleep_list' = <<p>>
    BY <1>1, <1>4 DEF Link
  <2> QED
    BY <1>2, <1>4, <2>1 DEF NoRepeat, Members
<1>5. CASE sleep_list # <<>>
  <2>1. PICK k \in DOMAIN sleep_list : sleep_list' = InsertAfter(sleep_list, k, p)
    BY <1>1, <1>5 DEF Link
  <2>2. sleep_list \in Seq(Procs) /\ k \in 1 .. Len(sleep_list)
    BY LenProperties DEF TypeOK
  <2>3. NoRepeat(sleep_list)
    BY DEF NodeLifetime
  <2>4. /\ NoRepeat(sleep_list')
        /\ Members(sleep_list') = Members(sleep_list) \cup {p}
    BY <1>3, <2>1, <2>2, <2>3, InsertMembers
  <2>5. sleep_list' # <<>> /\ Head(sleep_list') = Head(sleep_list)
    BY <2>1, <2>2, InsertAfterProperties
  <2> QED
    BY <1>2, <2>4, <2>5
<1> QED
  BY <1>4, <1>5

LEMMA LifetimeSleep ==
    ASSUME TypeOK, LifetimeInv, NEW p \in Procs, Sleep(p)
    PROVE  LifetimeInv'
<1>1. UNCHANGED <<dpc, pid>>
  BY DEF Sleep
<1>2. NodeLifetime
  BY DEF LifetimeInv
<1>3. Waking' = Waking
  BY <1>1 DEF Waking
<1>4. NodeLifetime'
  BY <1>2, <1>3, SleepLinks DEF NodeLifetime
<1> QED
  BY <1>1, <1>2, <1>4, SleepLinks DEF LifetimeInv

LEMMA LifetimeDaemon ==
    ASSUME TypeOK, LifetimeInv, Daemon \/ Tick
    PROVE  LifetimeInv'
<1>1. CASE DaemonLoad
  <2>1. /\ dpc = "scan" /\ dpc' = "store" /\ sleep_list # <<>>
        /\ pid' = Head(sleep_list) /\ UNCHANGED <<pc, sleep_list>>
    BY <1>1 DEF DaemonLoad, HeadExpired, procVars
  <2>2. Waking = {} /\ Waking' = {} /\ Asleep' = Asleep
    BY <2>1 DEF Waking, Asleep
  <2> QED
    BY <2>1, <2>2 DEF LifetimeInv, NodeLifetime
<1>2. CASE DaemonStore
  <2>1. /\ dpc = "store" /\ dpc' = "unblock" /\ UNCHANGED <<pc, pid>>
        /\ \E i \in 2 .. Len(sleep_list) + 1 :
              sleep_list' = SubSeq(sleep_list, i, Len(sleep_list))
    BY <1>2 DEF DaemonStore, procVars
  <2>2. /\ sleep_list # <<>> /\ pid = Head(sleep_list)
        /\ NoRepeat(sleep_list) /\ Members(sleep_list) \subseteq Asleep
    BY <2>1 DEF LifetimeInv, NodeLifetime
  <2>3. sleep_list \in Seq(Procs)
    BY DEF TypeOK
  <2>4. NoRepeat(sleep_list') /\ Members(sleep_list') \subseteq Members(sleep_list) \ {pid}
    BY <2>1, <2>2, <2>3, SuffixMembers
  <2>5. pid \in Members(sleep_list)
    BY <2>2, <2>3, TailMembers
  <2>6. Waking' = {pid} /\ Asleep' = Asleep
    BY <2>1 DEF Waking, Asleep
  <2> QED
    BY <2>1, <2>2, <2>4, <2>5, <2>6 DEF LifetimeInv, NodeLifetime
<1>3. CASE DaemonUnblock
  <2>1. /\ dpc = "unblock" /\ dpc' = "scan" /\ UNCHANGED sleep_list
        /\ pc' = [pc EXCEPT ![pid] = "user"]
    BY <1>3 DEF DaemonUnblock
  <2>2. Waking = {pid} /\ Waking' = {} /\ Asleep' = Asleep \ {pid}
    BY <2>1 DEF Waking, Asleep, TypeOK
  <2> QED
    BY <2>1, <2>2 DEF LifetimeInv, NodeLifetime
<1>4. CASE Tick \/ DaemonWake \/ DaemonSleep
  <2>1. /\ UNCHANGED <<pc, sleep_list, pid>>
        /\ dpc \in {"wait", "scan"} \/ dpc' = dpc
        /\ dpc' \in {"wait", "scan"} \/ dpc' = dpc
    BY <1>4 DEF Tick, DaemonWake, DaemonSleep, procVars
  <2>2. Asleep' = Asleep /\ Waking' = Waking
    <3>1. dpc = "unblock" <=> dpc' = "unblock"
      BY <1>4 DEF Tick, DaemonWake, DaemonSleep
    <3> QED
      BY <2>1, <3>1 DEF Asleep, Waking
  <2>3. dpc' = "store" => dpc = "store"
    BY <1>4 DEF Tick, DaemonWake, DaemonSleep
  <2> QED
    BY <2>1, <2>2, <2>3 DEF LifetimeInv, NodeLifetime
<1> QED
  BY <1>1, <1>2, <1>3, <1>4 DEF Daemon

LEMMA LifetimeInvCorrect == Spec => []LifetimeInv
<1>1. Init => LifetimeInv
  BY DEF Init, LifetimeInv, NodeLifetime, NoRepeat, Members, Waking, Asleep
<1>2. TypeOK /\ LifetimeInv /\ [Next]_vars => LifetimeInv'
  <2> SUFFICES ASSUME TypeOK, LifetimeInv, [Next]_vars PROVE LifetimeInv'
    OBVIOUS
  <2>1. CASE UNCHANGED vars
    BY <2>1 DEF vars, procVars, LifetimeInv, NodeLifetime, Waking, Asleep
  <2> QED
    BY <2>1, LifetimeSleep, LifetimeDaemon DEF Next
<1> QED
  BY <1>1, <1>2, TypeCorrect, PTL DEF Spec

\* The list never holds a node whose stack frame is gone, nor one twice, with
\* callers of any priority running between the daemon's steps.
THEOREM NodeLifetimeCorrect == Spec => []NodeLifetime
<1>1. LifetimeInv => NodeLifetime
  BY DEF LifetimeInv
<1> QED
  BY <1>1, LifetimeInvCorrect, PTL

-----------------------------------------------------------------------------
(***************************************************************************)
(* The order of the list.                                                  *)
(***************************************************************************)
LEMMA SortedSleep ==
    ASSUME TypeOK, NodeLifetime, TailSorted, NEW p \in Procs, Sleep(p)
    PROVE  TailSorted'
<1>1. PICK seconds \in Seconds :
        LET t == time_counter + seconds * TicksPerSecond IN
        /\ pc[p] = "user"
        /\ wake_up_time' = [wake_up_time EXCEPT ![p] = t]
        /\ Link(p, t)
  BY DEF Sleep
<1> DEFINE t == time_counter + seconds * TicksPerSecond
<1>2. t \in Int
  BY SleepAssumption DEF TypeOK
<1>3. p \notin Members(sleep_list)
  BY <1>1 DEF NodeLifetime, Asleep
<1>4. CASE sleep_list = <<>>
  <2>1. sleep_list' = <<p>>
    BY <1>1, <1>4 DEF Link
  <2> QED
    BY <2>1 DEF TailSorted
<1>5. CASE sleep_list # <<>>
  <2>1. PICK k \in DOMAIN sleep_list :
           /\ InsertAt(WakeTimes(sleep_list), t, k)
           /\ sleep_list' = InsertAfter(sleep_list, k, p)
    BY <1>1, <1>5 DEF Link
  <2>2. /\ sleep_list \in Seq(Procs)
        /\ DOMAIN sleep_list = 1 .. Len(sleep_list)
        /\ Len(sleep_list) \in Nat
        /\ \A i \in 1 .. Len(sleep_list) : sleep_list[i] \in Procs
    BY LenProperties, ElementOfSeq DEF TypeOK
  <2>3. /\ sleep_list' \in Seq(Procs)
        /\ Len(sleep_list') = Len(sleep_list) + 1
        /\ \A i \in 1 .. Len(sleep_list) + 1 :
              sleep_list'[i] = IF i <= k THEN sleep_list[i]
                               ELSE IF i = k + 1 THEN p ELSE sleep_list[i - 1]
    BY <2>1, <2>2, InsertAfterProperties DEF InsertAfter
  <2> DEFINE w == [i \in 1 .. Len(sleep_list) |-> wake_up_time[sleep_list[i]]]
             w1 == [i \in 1 .. Len(sleep_list) + 1 |-> wake_up_time'[sleep_list'[i]]]
  <2>4. w = WakeTimes(sleep_list)
    BY <2>2 DEF WakeTimes
  <2>5. \A i \in 1 .. Len(sleep_list) : w[i] \in Int
    BY <2>2 DEF TypeOK
  <2>6. \A i \in 1 .. Len(sleep_list) : wake_up_time'[sleep_list[i]] = w[i]
    BY <1>1, <1>3, <2>2 DEF Members, TypeOK
  <2>7. wake_up_time'[p] = t
    BY <1>1 DEF TypeOK
  <2>8. \A i \in 1 .. Len(sleep_list) + 1 :
           w1[i] = IF i <= k THEN w[i] ELSE IF i = k + 1 THEN t ELSE w[i - 1]
    <3> TAKE i \in 1 .. Len(sleep_list) + 1
    <3>1. w1[i] = wake_up_time'[sleep_list'[i]]
      OBVIOUS
    <3> HIDE DEF w, w1, t
    <3>2. CASE i <= k
      BY <2>2, <2>3, <2>6, <3>1, <3>2
    <3>3. CASE i = k + 1
      BY <2>2, <2>3, <2>7, <3>1, <3>3
    <3>4. CASE i > k + 1
      <4>1. i - 1 \in 1 .. Len(sleep_list) /\ sleep_list'[i] = sleep_list[i - 1]
        BY <2>2, <2>3, <3>4
      <4> QED
        BY <2>2, <2>6, <3>1, <3>4, <4>1
    <3> QED
      BY <2>2, <3>2, <3>3, <3>4
  <2>9. /\ k \in 1 .. Len(sleep_list)
        /\ \A j \in 1 .. k - 1 : w[j + 1] < t
        /\ k < Len(sleep_list) => w[k + 1] >= t
    <3> HIDE DEF w
    <3>1. Len(w) = Len(sleep_list) /\ DOMAIN w = 1 .. Len(sleep_list)
      BY <2>2 DEF w
    <3> QED
      BY <2>1, <2>2, <2>4, <3>1 DEF InsertAt
  <2>10. \A i, j \in 1 .. Len(sleep_list) : 1 < i /\ i < j => w[i] <= w[j]
    BY <2>2 DEF TailSorted
  <2>11. \A i, j \in 1 .. Len(sleep_list) + 1 : 1 < i /\ i < j => w1[i] <= w1[j]
    <3> HIDE DEF w, w1, t
    <3> SUFFICES ASSUME NEW i \in 1 .. Len(sleep_list) + 1,
                        NEW j \in 1 .. Len(sleep_list) + 1, 1 < i, i < j
                 PROVE  w1[i] <= w1[j]
      OBVIOUS
    <3>1. CASE j <= k
      BY <2>2, <2>8, <2>9, <2>10, <3>1
    <3>2. CASE i <= k /\ j = k + 1
      <4>1. i - 1 \in 1 .. k - 1 /\ (i - 1) + 1 = i
        BY <2>2, <2>9, <3>2
      <4>2. w[i] < t
        BY <2>9, <4>1
      <4> QED
        BY <1>2, <2>2, <2>5, <2>8, <2>9, <3>2, <4>2
    <3>3. CASE i <= k /\ j > k + 1
      BY <2>2, <2>8, <2>9, <2>10, <3>3
    <3>4. CASE i = k + 1
      <4>1. /\ k + 1 \in 1 .. Len(sleep_list) /\ j - 1 \in 1 .. Len(sleep_list)
            /\ 1 < k + 1 /\ k < Len(sleep_list)
            /\ k + 1 = j - 1 \/ k + 1 < j - 1
        BY <2>2, <2>9, <3>4
      <4>2. t <= w[k + 1] /\ w[k + 1] <= w[j - 1]
        BY <1>2, <2>5, <2>9, <2>10, <4>1
      <4>3. w1[i] = t /\ w1[j] = w[j - 1]
        BY <2>2, <2>8, <2>9, <3>4
      <4> QED
        BY <1>2, <2>5, <4>1, <4>2, <4>3
    <3>5. CASE i > k + 1
      BY <2>2, <2>8, <2>9, <2>10, <3>5
    <3> QED
      BY <2>2, <2>9, <3>1, <3>2, <3>3, <3>4, <3>5
  <2>12. DOMAIN sleep_list' = 1 .. Len(sleep_list) + 1
    BY <2>2, <2>3, LenProperties
  <2> QED
    BY <2>11, <2>12 DEF TailSorted
<1> QED
  BY <1>4, <1>5

\* Whatever calls Sleep between the daemon's steps, the sleepers behind the head
\* stay in the order of their times.
THEOREM TailSortedCorrect == Spec => []TailSorted
<1>1. Init => TailSorted
  BY DEF Init, TailSorted
<1>2. TypeOK /\ NodeLifetime /\ TailSorted /\ [Next]_vars => TailSorted'
  <2> SUFFICES ASSUME TypeOK, NodeLifetime, TailSorted, [Next]_vars
               PROVE  TailSorted'
    OBVIOUS
  <2>1. CASE \E p \in Procs : Sleep(p)
    BY <2>1, SortedSleep
  <2>2. CASE DaemonStore
    <3>1. PICK i \in 2 .. Len(sleep_list) + 1 :
             sleep_list' = SubSeq(sleep_list, i, Len(sleep_list))
      BY <2>2 DEF DaemonStore
    <3>2. sleep_list \in Seq(Procs) /\ Len(sleep_list) \in Nat
      BY LenProperties DEF TypeOK
    <3>3. /\ Len(sleep_list') = Len(sleep_list) - i + 1
          /\ \A j \in 1 .. Len(sleep_list') : sleep_list'[j] = sleep_list[i + j - 1]
          /\ DOMAIN sleep_list' = 1 .. Len(sleep_list')
      <4>1. \A j \in i .. Len(sleep_list) : sleep_list[j] \in Procs
        BY <3>2, ElementOfSeq
      <4> QED
        BY <3>1, <3>2, <4>1, SubSeqProperties, LenProperties
    <3>4. UNCHANGED wake_up_time
      BY <2>2 DEF DaemonStore, procVars
    <3>5. DOMAIN sleep_list = 1 .. Len(sleep_list)
      BY <3>2, LenProperties
    <3>6. ASSUME NEW j \in DOMAIN sleep_list', NEW m \in DOMAIN sleep_list',
                 1 < j, j < m
          PROVE  wake_up_time'[sleep_list'[j]] <= wake_up_time'[sleep_list'[m]]
      <4>1. /\ i + j - 1 \in DOMAIN sleep_list /\ i + m - 1 \in DOMAIN sleep_list
            /\ 1 < i + j - 1 /\ i + j - 1 < i + m - 1
        BY <3>2, <3>3, <3>5, <3>6
      <4>2. /\ sleep_list'[j] = sleep_list[i + j - 1]
            /\ sleep_list'[m] = sleep_list[i + m - 1]
        BY <3>3
      <4> QED
        BY <3>4, <4>1, <4>2 DEF TailSorted
    <3> QED
      BY <3>6 DEF TailSorted
  <2>3. CASE UNCHANGED <<sleep_list, wake_up_time>>
    BY <2>3 DEF TailSorted
  <2> QED
    BY <2>1, <2>2, <2>3
    DEF Next, Daemon, Tick, DaemonWake, DaemonSleep, DaemonLoad, DaemonUnblock,
        vars, procVars
<1> QED
  BY <1>1, <1>2, TypeCorrect, NodeLifetimeCorrect, PTL DEF Spec

-----------------------------------------------------------------------------
(***************************************************************************)
(* Nobody is lost who does not call in the gap.                            *)
(***************************************************************************)

\* The pointer the daemon has loaded leads to the i-th node, or past the end, and
\* the nodes between the head and that one have been linked since.
LoadedAt(i) ==
    /\ next = IF i <= Len(sleep_list) THEN sleep_list[i] ELSE Nobody
    /\ \A j \in 2 .. i - 1 : sleep_list[j] \in between

\* NoneLost, strengthened by what the daemon has loaded, and by who can link a node
\* between the load and the store.
NoneLostInv ==
    /\ NoneLost
    /\ between \subseteq HighPrio
    /\ dpc = "store" => \E i \in 2 .. Len(sleep_list) + 1 : LoadedAt(i)

\* A sleeper that is linked meanwhile leaves the node the pointer leads to on the list.
LEMMA LoadedSleep ==
    ASSUME TypeOK, LifetimeInv, NoneLostInv, NEW p \in Procs, Sleep(p),
           dpc = "store"
    PROVE  \E i \in 2 .. Len(sleep_list') + 1 : LoadedAt(i)'
<1>1. between' = between \cup {p} /\ next' = next
  BY DEF Sleep
<1>2. /\ sleep_list \in Seq(Procs) /\ sleep_list # <<>>
      /\ Len(sleep_list) \in Nat /\ DOMAIN sleep_list = 1 .. Len(sleep_list)
  BY LenProperties DEF TypeOK, LifetimeInv
<1>3. PICK k \in 1 .. Len(sleep_list) : sleep_list' = InsertAfter(sleep_list, k, p)
  BY <1>2 DEF Sleep, Link
<1>4. /\ Len(sleep_list') = Len(sleep_list) + 1
      /\ \A i \in 1 .. Len(sleep_list) + 1 :
            sleep_list'[i] = IF i <= k THEN sleep_list[i]
                             ELSE IF i = k + 1 THEN p ELSE sleep_list[i - 1]
  BY <1>2, <1>3, InsertAfterProperties DEF InsertAfter
<1>5. PICK i \in 2 .. Len(sleep_list) + 1 : LoadedAt(i)
  BY DEF NoneLostInv
<1>6. CASE i <= k
  <2>1. next' = IF i <= Len(sleep_list') THEN sleep_list'[i] ELSE Nobody
    BY <1>1, <1>2, <1>4, <1>5, <1>6 DEF LoadedAt
  <2>2. \A j \in 2 .. i - 1 : sleep_list'[j] \in between'
    BY <1>1, <1>2, <1>4, <1>5, <1>6 DEF LoadedAt
  <2> QED
    BY <1>2, <1>4, <2>1, <2>2 DEF LoadedAt
<1>7. CASE i > k
  <2>1. next' = IF i + 1 <= Len(sleep_list') THEN sleep_list'[i + 1] ELSE Nobody
    BY <1>1, <1>2, <1>4, <1>5, <1>7 DEF LoadedAt
  <2>2. \A j \in 2 .. (i + 1) - 1 : sleep_list'[j] \in between'
    BY <1>1, <1>2, <1>4, <1>5, <1>7 DEF LoadedAt
  <2>3. i + 1 \in 2 .. Len(sleep_list') + 1
    BY <1>2, <1>4
  <2> QED
    BY <2>1, <2>2, <2>3 DEF LoadedAt
<1> QED
  BY <1>2, <1>6, <1>7

\* The store unlinks the head, and with it at most nodes linked since the load.
LEMMA StoreUnlinks ==
    ASSUME TypeOK, LifetimeInv, NoneLostInv, DaemonStore
    PROVE  Members(sleep_list) \subseteq Members(sleep_list') \cup {pid} \cup between
<1>1. /\ sleep_list \in Seq(Procs) /\ Len(sleep_list) \in Nat
      /\ DOMAIN sleep_list = 1 .. Len(sleep_list)
  BY LenProperties DEF TypeOK
<1>2. /\ sleep_list # <<>> /\ pid = Head(sleep_list) /\ NoRepeat(sleep_list)
  BY DEF DaemonStore, LifetimeInv, NodeLifetime
<1>3. PICK i \in 2 .. Len(sleep_list) + 1 :
        /\ next = IF i <= Len(sleep_list) THEN sleep_list[i] ELSE Nobody
        /\ sleep_list' = SubSeq(sleep_list, i, Len(sleep_list))
  BY DEF DaemonStore
<1>4. PICK m \in 2 .. Len(sleep_list) + 1 : LoadedAt(m)
  BY DEF DaemonStore, NoneLostInv
<1>5. \A j \in 1 .. Len(sleep_list) : sleep_list[j] \in Procs /\ sleep_list[j] # Nobody
  BY <1>1, ElementOfSeq, SleepAssumption
<1>6. i = m
  <2>1. CASE i <= Len(sleep_list)
    BY <1>1, <1>2, <1>3, <1>4, <1>5, <2>1 DEF LoadedAt, NoRepeat
  <2>2. CASE i = Len(sleep_list) + 1
    BY <1>1, <1>3, <1>4, <1>5, <2>2 DEF LoadedAt
  <2> QED
    BY <1>1, <2>1, <2>2
<1>7. /\ DOMAIN sleep_list' = 1 .. Len(sleep_list) - i + 1
      /\ \A j \in 1 .. Len(sleep_list) - i + 1 : sleep_list'[j] = sleep_list[i + j - 1]
  BY <1>1, <1>2, <1>3, SuffixMembers
<1>8. ASSUME NEW j \in 1 .. Len(sleep_list)
      PROVE  sleep_list[j] \in Members(sleep_list') \cup {pid} \cup between
  <2>1. CASE j = 1
    BY <1>1, <1>2, <2>1
  <2>2. CASE j \in 2 .. i - 1
    BY <1>4, <1>6, <2>2 DEF LoadedAt
  <2>3. CASE j >= i
    <3>1. /\ j - i + 1 \in DOMAIN sleep_list'
          /\ sleep_list'[j - i + 1] = sleep_list[j]
      BY <1>1, <1>7, <2>3
    <3> QED
      BY <3>1 DEF Members
  <2> QED
    BY <1>1, <2>1, <2>2, <2>3
<1> QED
  BY <1>1, <1>8 DEF Members

\* NoneLost and the strengthening hold at every moment, for callers of any priority.
LEMMA NoneLostInvCorrect == Spec => []NoneLostInv
<1>1. Init => NoneLostInv
  BY DEF Init, NoneLostInv, NoneLost, Asleep
<1>2. TypeOK /\ LifetimeInv /\ NoneLostInv /\ [Next]_vars => NoneLostInv'
  <2> SUFFICES ASSUME TypeOK, LifetimeInv, NoneLostInv, [Next]_vars
               PROVE  NoneLostInv'
    OBVIOUS
  <2>1. Asleep \ between \subseteq Members(sleep_list) \cup Waking
    BY DEF NoneLostInv, NoneLost
  <2>2. CASE \E p \in Procs : Sleep(p)
    <3>1. PICK p \in Procs : Sleep(p)
      BY <2>2
    <3>2. /\ dpc' = dpc /\ pid' = pid
          /\ between' = IF dpc = "store" THEN between \cup {p} ELSE between \ {p}
          /\ dpc = "store" => p \in HighPrio
      BY <3>1 DEF Sleep, CanRun
    <3>3. /\ Asleep' = Asleep \cup {p}
          /\ Members(sleep_list') = Members(sleep_list) \cup {p}
      BY <3>1, SleepLinks DEF LifetimeInv
    <3>4. NoneLost'
      BY <2>1, <3>2, <3>3 DEF NoneLost, Waking
    <3>5. dpc' = "store" => (\E i \in 2 .. Len(sleep_list) + 1 : LoadedAt(i))'
      BY <3>1, <3>2, LoadedSleep
    <3>6. between' \subseteq HighPrio
      BY <3>2 DEF NoneLostInv
    <3> QED
      BY <3>4, <3>5, <3>6 DEF NoneLostInv
  <2>3. CASE DaemonLoad
    <3>1. /\ dpc = "scan" /\ dpc' = "store" /\ UNCHANGED <<pc, sleep_list, between>>
          /\ sleep_list # <<>>
          /\ next' = IF Len(sleep_list) > 1 THEN sleep_list[2] ELSE Nobody
      BY <2>3 DEF DaemonLoad, HeadExpired, procVars
    <3>2. NoneLost'
      BY <2>1, <3>1 DEF NoneLost, Waking, Asleep
    <3>3. Len(sleep_list) \in Nat \ {0}
      BY <3>1, TailProperties DEF TypeOK
    <3>4. 2 \in 2 .. Len(sleep_list') + 1 /\ LoadedAt(2)'
      BY <3>1, <3>3 DEF LoadedAt
    <3> QED
      BY <3>1, <3>2, <3>4 DEF NoneLostInv
  <2>4. CASE DaemonStore
    <3>1. Members(sleep_list) \subseteq Members(sleep_list') \cup {pid} \cup between
      BY <2>4, StoreUnlinks
    <3>2. dpc = "store" /\ dpc' = "unblock" /\ Asleep' = Asleep /\ pid' = pid
          /\ between' = between
      BY <2>4 DEF DaemonStore, procVars, Asleep
    <3> QED
      BY <2>1, <3>1, <3>2 DEF NoneLostInv, NoneLost, Waking
  <2>5. CASE DaemonUnblock
    <3>1. /\ dpc = "unblock" /\ dpc' = "scan" /\ UNCHANGED <<sleep_list, between>>
          /\ Asleep' = Asleep \ {pid}
      BY <2>5 DEF DaemonUnblock, Asleep, TypeOK
    <3> QED
      BY <2>1, <3>1 DEF NoneLostInv, NoneLost, Waking
  <2>6. CASE Tick \/ DaemonWake \/ DaemonSleep \/ UNCHANGED vars
    <3>1. UNCHANGED <<sleep_list, pc, pid, next, between>>
      BY <2>6 DEF Tick, DaemonWake, DaemonSleep, vars, procVars
    <3>2. /\ dpc' = "unblock" <=> dpc = "unblock"
          /\ dpc' = "store" => dpc = "store"
      BY <2>6 DEF Tick, DaemonWake, DaemonSleep, vars
    <3>3. NoneLost'
      BY <2>1, <3>1, <3>2 DEF NoneLost, Waking, Asleep
    <3>4. dpc' = "store" => (\E i \in 2 .. Len(sleep_list) + 1 : LoadedAt(i))'
      BY <3>1, <3>2 DEF NoneLostInv, LoadedAt
    <3> QED
      BY <3>1, <3>3, <3>4 DEF NoneLostInv
  <2> QED
    BY <2>2, <2>3, <2>4, <2>5, <2>6 DEF Next, Daemon
<1> QED
  BY <1>1, <1>2, TypeCorrect, LifetimeInvCorrect, PTL DEF Spec

\* A process that sleeps is on the list, or is being woken, unless it has called between
\* the daemon's load and its store (390, 494): no other is forgotten, whoever else sleeps.
THEOREM NoneLostCorrect == Spec => []NoneLost
<1>1. NoneLostInv => NoneLost
  BY DEF NoneLostInv
<1> QED
  BY <1>1, NoneLostInvCorrect, PTL

\* So a process below the daemon's priority is never lost: it cannot call there.
THEOREM NoneBelowLost ==
    Spec => [](Asleep \ HighPrio \subseteq Members(sleep_list) \cup Waking)
<1>1. NoneLostInv => Asleep \ HighPrio \subseteq Members(sleep_list) \cup Waking
  BY DEF NoneLostInv, NoneLost
<1> QED
  BY <1>1, NoneLostInvCorrect, PTL

-----------------------------------------------------------------------------
(***************************************************************************)
(* Nobody is woken early.                                                  *)
(***************************************************************************)

\* The process whose pid the daemon has read is asleep and its time has come, until
\* the daemon wakes it.
DueInv ==
    dpc \in {"store", "unblock"} => pid \in Asleep /\ wake_up_time[pid] <= time_counter

LEMMA NextDue ==
    ASSUME TypeOK, LifetimeInv, DueInv, [Next]_vars
    PROVE  DueInv'
<1>1. CASE \E p \in Procs : Sleep(p)
  <2>1. PICK p \in Procs : Sleep(p)
    BY <1>1
  <2>2. /\ UNCHANGED <<dpc, pid, time_counter>> /\ p \notin Asleep
        /\ Asleep' = Asleep \cup {p}
        /\ \A q \in Asleep : wake_up_time'[q] = wake_up_time[q]
    BY <2>1 DEF Sleep, Asleep, TypeOK
  <2> QED
    BY <2>2 DEF DueInv
<1>2. CASE DaemonLoad
  <2>1. /\ sleep_list # <<>> /\ pid' = Head(sleep_list)
        /\ wake_up_time[Head(sleep_list)] <= time_counter
        /\ UNCHANGED <<pc, wake_up_time, time_counter>>
    BY <1>2 DEF DaemonLoad, HeadExpired, procVars
  <2>2. Head(sleep_list) \in Members(sleep_list)
    BY <2>1, TailMembers DEF TypeOK, LifetimeInv, NodeLifetime
  <2>3. Head(sleep_list) \in Asleep /\ Asleep' = Asleep
    BY <2>1, <2>2 DEF LifetimeInv, NodeLifetime, Asleep
  <2> QED
    BY <2>1, <2>3 DEF DueInv
<1>3. CASE DaemonStore
  <2>1. /\ dpc = "store" /\ UNCHANGED <<pc, wake_up_time, time_counter, pid>>
    BY <1>3 DEF DaemonStore, procVars
  <2> QED
    BY <2>1 DEF DueInv, Asleep
<1>4. CASE DaemonWake \/ DaemonSleep \/ DaemonUnblock
  BY <1>4 DEF DaemonWake, DaemonSleep, DaemonUnblock, DueInv
<1>5. CASE Tick \/ UNCHANGED vars
  BY <1>5 DEF Tick, vars, procVars, DueInv, Asleep
<1> QED
  BY <1>1, <1>2, <1>3, <1>4, <1>5 DEF Next, Daemon

\* A process is woken only when the daemon has counted as many ticks as it asked for
\* (492), whoever has called Sleep since the daemon looked at the head.
THEOREM NeverEarlyCorrect == Spec => NeverEarly
<1>1. Init => DueInv
  BY DEF Init, DueInv
<1>2. DueInv /\ [Next]_vars =>
        [\A p \in Procs : pc[p] = "asleep" /\ pc'[p] = "user"
            => wake_up_time[p] <= time_counter]_vars
  <2> SUFFICES ASSUME DueInv, Next, NEW p \in Procs, pc[p] = "asleep", pc'[p] = "user"
               PROVE  wake_up_time[p] <= time_counter
    OBVIOUS
  <2>1. CASE DaemonUnblock
    <3>1. dpc = "unblock" /\ pc' = [pc EXCEPT ![pid] = "user"]
      BY <2>1 DEF DaemonUnblock
    <3>2. p = pid
      BY <3>1
    <3> QED
      BY <3>1, <3>2 DEF DueInv
  <2>2. CASE \E q \in Procs : Sleep(q)
    BY <2>2 DEF Sleep
  <2>3. CASE Tick \/ DaemonWake \/ DaemonSleep \/ DaemonLoad \/ DaemonStore
    BY <2>3 DEF Tick, DaemonWake, DaemonSleep, DaemonLoad, DaemonStore, procVars
  <2> QED
    BY <2>1, <2>2, <2>3 DEF Next, Daemon
<1> QED
  BY <1>1, <1>2, NextDue, TypeCorrect, LifetimeInvCorrect, PTL DEF Spec, NeverEarly
-----------------------------------------------------------------------------
(***************************************************************************)
(* Nobody is put off.                                                      *)
(***************************************************************************)

\* A later sleeper leaves the head, and the times of those on the list, as they are.
LEMMA DueSleep ==
    ASSUME TypeOK, LifetimeInv, NEW q \in Procs, Sleep(q),
           NEW p \in Members(sleep_list)
    PROVE  Due(p)' = Due(p)
<1>1. NodeLifetime
  BY DEF LifetimeInv
<1>2. sleep_list \in Seq(Procs) /\ sleep_list # <<>>
  BY DEF TypeOK, Members
<1>3. Head(sleep_list) \in Members(sleep_list)
  BY <1>1, <1>2, TailMembers DEF NodeLifetime
<1>4. q \notin Members(sleep_list) /\ Head(sleep_list') = Head(sleep_list)
  BY <1>1, <1>2, SleepLinks DEF NodeLifetime
<1>5. \A r \in Members(sleep_list) : wake_up_time'[r] = wake_up_time[r]
  BY <1>1, <1>4 DEF Sleep, TypeOK, NodeLifetime, Asleep
<1> QED
  BY <1>3, <1>4, <1>5 DEF Due

\* The store makes a node of the sorted tail the head, so that those still behind it
\* wait for nobody later than themselves.
LEMMA DueStore ==
    ASSUME TypeOK, LifetimeInv, TailSorted, DaemonStore,
           NEW p \in Members(sleep_list) \cap Members(sleep_list')
    PROVE  Due(p)' <= Due(p)
<1>1. /\ sleep_list \in Seq(Procs) /\ sleep_list # <<>> /\ NoRepeat(sleep_list)
      /\ UNCHANGED wake_up_time
  BY DEF TypeOK, DaemonStore, procVars, LifetimeInv, NodeLifetime
<1>2. PICK i \in 2 .. Len(sleep_list) + 1 :
        sleep_list' = SubSeq(sleep_list, i, Len(sleep_list))
  BY DEF DaemonStore
<1>3. /\ sleep_list' \in Seq(Procs)
      /\ DOMAIN sleep_list' = 1 .. Len(sleep_list) - i + 1
      /\ \A j \in 1 .. Len(sleep_list) - i + 1 :
            /\ i + j - 1 \in DOMAIN sleep_list
            /\ sleep_list'[j] = sleep_list[i + j - 1]
  BY <1>1, <1>2, SuffixMembers
<1>4. PICK j \in DOMAIN sleep_list' : p = sleep_list'[j]
  BY DEF Members
<1>5. /\ Len(sleep_list) \in Nat /\ i \in Int /\ i > 1 /\ j \in Int /\ j >= 1
      /\ Len(sleep_list) - i + 1 >= 1
  BY <1>1, <1>3, <1>4, LenProperties
<1>6. Head(sleep_list') = sleep_list[i] /\ i \in DOMAIN sleep_list
  <2>1. sleep_list' # <<>>
    BY <1>4
  <2>2. Head(sleep_list') = sleep_list'[1]
    BY <1>3, <2>1, TailProperties
  <2> QED
    BY <1>3, <1>5, <2>2
<1>7. p = sleep_list[i + j - 1] /\ i + j - 1 \in DOMAIN sleep_list
  BY <1>3, <1>4
<1>8. wake_up_time[sleep_list[i]] <= wake_up_time[p]
  <2>1. CASE j = 1
    <3>1. p = sleep_list[i] /\ p \in Procs /\ wake_up_time[p] \in Int
      BY <1>1, <1>5, <1>6, <1>7, <2>1, ElementOfSeq, LenProperties DEF TypeOK
    <3> QED
      BY <3>1
  <2>2. CASE j > 1
    <3>1. 1 < i /\ i < i + j - 1
      BY <1>5, <2>2
    <3> QED
      BY <1>6, <1>7, <3>1 DEF TailSorted
  <2> QED
    BY <1>5, <2>1, <2>2
<1>9. /\ wake_up_time[p] \in Int /\ wake_up_time[sleep_list[i]] \in Int
      /\ wake_up_time[Head(sleep_list)] \in Int
  BY <1>1, <1>6, <1>7, ElementOfSeq, LenProperties, TailProperties DEF TypeOK
<1>10. Due(p)' = wake_up_time[p]
  BY <1>1, <1>6, <1>8, <1>9 DEF Due
<1> QED
  BY <1>9, <1>10 DEF Due

\* Once the daemon has handled a slot, nobody but who called in the gap sleeps past the
\* tick that bound it.
LEMMA DueRound ==
    ASSUME TypeOK, NoneLost, DaemonSleep, NEW p \in Asleep \ between
    PROVE  time_counter < Due(p)
<1>1. p \in Members(sleep_list)
  BY DEF DaemonSleep, NoneLost, Waking
<1>2. sleep_list \in Seq(Procs) /\ sleep_list # <<>>
  BY <1>1 DEF TypeOK, Members
<1>3. wake_up_time[Head(sleep_list)] \in Int /\ wake_up_time[p] \in Int
  BY <1>2, TailProperties DEF TypeOK, Asleep
<1>4. time_counter < wake_up_time[Head(sleep_list)]
  BY <1>2, <1>3 DEF DaemonSleep, HeadExpired, TypeOK
<1> QED
  BY <1>3, <1>4 DEF Due, TypeOK

\* What the code keeps of "a specified number of seconds": whatever calls Sleep between
\* the daemon's steps, the tick that bounds a sleeper never moves back, and the daemon
\* never goes back to waiting past it.
THEOREM NeverPutOffCorrect == Spec => NeverPutOff
<1>1. TypeOK /\ LifetimeInv /\ TailSorted /\ NoneLost /\ [Next]_vars =>
        [/\ \A p \in Members(sleep_list) \cap Members(sleep_list') : Due(p)' <= Due(p)
         /\ dpc = "scan" /\ dpc' = "wait" =>
               \A p \in Asleep \ between : time_counter < Due(p)]_vars
  <2> SUFFICES ASSUME TypeOK, LifetimeInv, TailSorted, NoneLost, Next
               PROVE  /\ \A p \in Members(sleep_list) \cap Members(sleep_list') :
                            Due(p)' <= Due(p)
                      /\ dpc = "scan" /\ dpc' = "wait" =>
                            \A p \in Asleep \ between : time_counter < Due(p)
    OBVIOUS
  <2>1. ASSUME NEW p \in Members(sleep_list)
        PROVE  Due(p) \in Int
    <3>1. sleep_list \in Seq(Procs) /\ sleep_list # <<>>
      BY DEF TypeOK, Members
    <3>2. p \in Procs /\ Head(sleep_list) \in Procs
      BY <3>1, TailProperties DEF LifetimeInv, NodeLifetime, Asleep
    <3> QED
      BY <3>2 DEF Due, TypeOK
  <2>2. CASE \E q \in Procs : Sleep(q)
    <3>1. dpc' = dpc
      BY <2>2 DEF Sleep
    <3>2. ASSUME NEW p \in Members(sleep_list) PROVE Due(p)' <= Due(p)
      BY <2>1, <2>2, <3>2, DueSleep
    <3> QED
      BY <3>1, <3>2
  <2>3. CASE DaemonStore
    <3>1. dpc' = "unblock"
      BY <2>3 DEF DaemonStore
    <3> QED
      BY <2>3, <3>1, DueStore
  <2>4. CASE Tick \/ DaemonWake \/ DaemonSleep \/ DaemonLoad \/ DaemonUnblock
    <3>1. UNCHANGED <<sleep_list, wake_up_time>>
      BY <2>4 DEF Tick, DaemonWake, DaemonSleep, DaemonLoad, DaemonUnblock, procVars
    <3>2. \A p \in Members(sleep_list) : Due(p)' = Due(p)
      BY <3>1 DEF Due
    <3>3. dpc = "scan" /\ dpc' = "wait" => DaemonSleep
      BY <2>4 DEF Tick, DaemonWake, DaemonLoad, DaemonUnblock
    <3> QED
      BY <2>1, <3>2, <3>3, DueRound
  <2> QED
    BY <2>2, <2>3, <2>4 DEF Next, Daemon
<1> QED
  BY <1>1, TypeCorrect, LifetimeInvCorrect, TailSortedCorrect, NoneLostCorrect, PTL
  DEF Spec, NeverPutOff
=============================================================================
