-------------------------- MODULE DiskOrderProofs --------------------------
(***************************************************************************)
(* The order of the queue: OrderKept, for any callers of any priority and  *)
(* any tracks.                                                             *)
(***************************************************************************)
EXTENDS DiskQueueProofs, WellFoundedInduction

\* A set of naturals has a least element.
LEMMA LeastNatural ==
    ASSUME NEW T \in SUBSET Nat, T # {}
    PROVE  \E n \in T : \A m \in T : n <= m
<1> DEFINE R == {ss \in Nat \X Nat : ss[1] < ss[2]}
<1>1. IsWellFoundedOn(R, Nat)
  BY NatLessThanWellFounded DEF OpToRel
<1> HIDE DEF R
<1>2. PICK n \in T : \A m \in T : <<m, n>> \notin R
  BY <1>1, WFMin
<1>3. \A m \in T : ~(m < n)
  BY <1>2 DEF R
<1> QED
  BY <1>2, <1>3

-----------------------------------------------------------------------------
(***************************************************************************)
(* Two ascending parts.                                                    *)
(***************************************************************************)

\* Track x comes before track y on the way up from track h, to the last track and
\* then from the first one on.
Before(h, x, y) ==
    \/ h <= x /\ x <= y
    \/ h <= x /\ y < h
    \/ x <= y /\ y < h

\* The first n tracks of tr are in the order of the way up from tr[1].
Ring(tr, n) == \A i, j \in 1 .. n : i < j => Before(tr[1], tr[i], tr[j])

LEMMA BeforeTransitive ==
    ASSUME NEW h \in Int, NEW x \in Int, NEW y \in Int, NEW z \in Int,
           Before(h, x, y), Before(h, y, z)
    PROVE  Before(h, x, z)
BY DEF Before

\* Unlinking the head: the way up from the next node's track is the rest of it.
LEMMA RingTail ==
    ASSUME NEW n \in Nat \ {0}, NEW tr \in [1 .. n -> Int], Ring(tr, n),
           NEW new, \A i \in 1 .. n - 1 : new[i] = tr[i + 1]
    PROVE  Ring(new, n - 1)
<1> SUFFICES ASSUME NEW i \in 1 .. n - 1, NEW j \in 1 .. n - 1, i < j
             PROVE  Before(new[1], new[i], new[j])
  BY DEF Ring
<1>1. /\ 1 \in 1 .. n /\ 2 \in 1 .. n /\ i + 1 \in 1 .. n /\ j + 1 \in 1 .. n
      /\ 1 < 2 /\ i + 1 < j + 1 /\ 2 < j + 1 /\ (i = 1 \/ 2 < i + 1)
      /\ 1 \in 1 .. n - 1 /\ 1 + 1 = 2
  OBVIOUS
<1>2. PICK h \in Int, x \in Int, y \in Int, z \in Int :
         h = tr[1] /\ x = tr[2] /\ y = tr[i + 1] /\ z = tr[j + 1]
  BY <1>1
<1>3. Before(h, y, z) /\ Before(h, x, z) /\ (x = y \/ Before(h, x, y))
  BY <1>1, <1>2 DEF Ring
<1>4. Before(x, y, z)
  BY <1>3 DEF Before
<1>5. new[1] = x /\ new[i] = y /\ new[j] = z
  BY <1>1, <1>2
<1> QED
  BY <1>4, <1>5

\* The daemon takes the head to the next track, where no other node is.
LEMMA RingCross ==
    ASSUME NEW n \in Nat, NEW tr \in [1 .. n -> Int], Ring(tr, n),
           \A i \in 2 .. n : tr[i] # tr[1],
           NEW new, new[1] = tr[1] + 1, \A i \in 2 .. n : new[i] = tr[i]
    PROVE  Ring(new, n)
<1> SUFFICES ASSUME NEW i \in 1 .. n, NEW j \in 1 .. n, i < j
             PROVE  Before(new[1], new[i], new[j])
  BY DEF Ring
<1>1. j \in 2 .. n /\ 1 \in 1 .. n
  OBVIOUS
<1>2. PICK h \in Int, x \in Int, y \in Int : h = tr[1] /\ x = tr[i] /\ y = tr[j]
  BY <1>1
<1>3. Before(h, x, y)
  BY <1>2 DEF Ring
<1>4. CASE i = 1
  BY <1>1, <1>2, <1>4 DEF Before
<1>5. CASE i # 1
  <2>1. i \in 2 .. n /\ x # h
    BY <1>2, <1>5
  <2>2. Before(h + 1, x, y)
    BY <1>3, <2>1 DEF Before
  <2> QED
    BY <1>1, <1>2, <2>1, <2>2
<1> QED
  BY <1>4, <1>5

\* Where tracks ascend from the head on, they are not below it.
LEMMA AscentStays ==
    ASSUME NEW n \in Nat, NEW tr \in [1 .. n -> Int], NEW m \in 1 .. n,
           \A j \in 1 .. m - 1 : tr[j] <= tr[j + 1]
    PROVE  tr[1] <= tr[m]
<1> DEFINE Below == {i \in 1 .. m : tr[i] < tr[1]}
<1> SUFFICES ASSUME Below # {} PROVE FALSE
  BY DEF Below
<1>1. Below \in SUBSET Nat
  OBVIOUS
<1>2. PICK i \in Below : \A j \in Below : i <= j
  BY <1>1, LeastNatural
<1>3. i # 1 /\ i \in 1 .. m
  OBVIOUS
<1>4. i - 1 \in 1 .. m - 1 /\ i - 1 \notin Below /\ (i - 1) + 1 = i
  BY <1>2, <1>3
<1>5. tr[i - 1] <= tr[i] /\ ~(tr[i - 1] < tr[1]) /\ tr[i] < tr[1]
  BY <1>4
<1>6. tr[i - 1] \in Int /\ tr[i] \in Int /\ tr[1] \in Int
  BY <1>3, <1>4
<1> QED
  BY <1>5, <1>6

\* The place disk_helper finds for a track no other node is on is between the nodes
\* before and behind it on the way up.
LEMMA InsertBetween ==
    ASSUME NEW n \in Nat \ {0}, NEW tr \in [1 .. n -> Int], Ring(tr, n),
           Len(tr) = n, \A i, j \in 1 .. n : i # j => tr[i] # tr[j],
           NEW t \in Int, \A i \in 1 .. n : tr[i] # t,
           NEW k \in 1 .. n, InsertAt(tr, t, k)
    PROVE  /\ Before(tr[1], tr[k], t)
           /\ k < n => Before(tr[1], t, tr[k + 1])
<1> USE DEF Before
<1>1. \A i \in 1 .. n : tr[i] \in Int
  OBVIOUS
<1>2. CASE t < tr[1]
  <2>1. PICK m \in 1 .. n :
           /\ FrontEnd(tr, m)
           /\ k \in m .. n
           /\ \A j \in m .. k - 1 : tr[j + 1] < t
           /\ k < n => tr[k + 1] >= t
    BY <1>2 DEF InsertAt, BehindFront
  <2>2. tr[1] <= tr[m] /\ (m < n => tr[m] > tr[m + 1])
    BY <2>1, AscentStays DEF FrontEnd
  <2>3. CASE k = m
    <3>1. Before(tr[1], tr[k], t)
      BY <1>1, <1>2, <2>2, <2>3
    <3>2. ASSUME k < n PROVE Before(tr[1], t, tr[k + 1])
      <4>1. k + 1 \in 1 .. n /\ k < k + 1
        BY <3>2
      <4>2. Before(tr[1], tr[k], tr[k + 1])
        BY <4>1 DEF Ring
      <4> QED
        BY <1>1, <1>2, <2>1, <2>2, <2>3, <3>2, <4>1, <4>2
    <3> QED
      BY <3>1, <3>2
  <2>4. CASE k # m
    <3>1. k - 1 \in m .. k - 1 /\ (k - 1) + 1 = k
      BY <2>1, <2>4
    <3>2. tr[k] < t
      BY <2>1, <3>1
    <3>3. ASSUME k < n PROVE Before(tr[1], t, tr[k + 1])
      <4>1. k + 1 \in 1 .. n /\ k < k + 1
        BY <3>3
      <4>2. Before(tr[1], tr[k], tr[k + 1])
        BY <4>1 DEF Ring
      <4> QED
        BY <1>1, <1>2, <2>1, <3>2, <3>3, <4>1, <4>2
    <3> QED
      BY <1>1, <1>2, <3>2, <3>3
  <2> QED
    BY <2>3, <2>4
<1>3. CASE ~(t < tr[1])
  <2>1. /\ \A j \in 1 .. k - 1 : tr[j + 1] < t /\ tr[j] < tr[j + 1]
        /\ k < n => ~(tr[k + 1] < t /\ tr[k] < tr[k + 1])
    BY <1>3 DEF InsertAt, InFront
  <2>2. 1 \in 1 .. n /\ tr[1] < t
    BY <1>1, <1>3
  <2>3. tr[1] <= tr[k]
    <3>1. \A j \in 1 .. k - 1 : j \in 1 .. n /\ j + 1 \in 1 .. n
      OBVIOUS
    <3>2. \A j \in 1 .. k - 1 : tr[j] <= tr[j + 1]
      BY <1>1, <2>1, <3>1
    <3> QED
      BY <3>2, AscentStays
  <2>4. tr[k] < t
    <3>1. CASE k = 1
      BY <2>2, <3>1
    <3>2. CASE k # 1
      <4>1. k - 1 \in 1 .. k - 1 /\ (k - 1) + 1 = k
        BY <3>2
      <4> QED
        BY <2>1, <4>1
    <3> QED
      BY <3>1, <3>2
  <2>5. ASSUME k < n PROVE Before(tr[1], t, tr[k + 1])
    <3>1. k + 1 \in 1 .. n /\ k < k + 1
      BY <2>5
    <3>2. Before(tr[1], tr[k], tr[k + 1])
      BY <3>1 DEF Ring
    <3>3. tr[k + 1] # t /\ tr[k + 1] # tr[k]
      BY <3>1
    <3> QED
      BY <1>1, <2>1, <2>2, <2>3, <2>5, <3>1, <3>2, <3>3
  <2> QED
    BY <1>1, <2>2, <2>3, <2>4, <2>5
<1> QED
  BY <1>2, <1>3

\* Linking a node at that place keeps the order.
LEMMA RingInsert ==
    ASSUME NEW n \in Nat \ {0}, NEW tr \in [1 .. n -> Int], Ring(tr, n),
           Len(tr) = n, \A i, j \in 1 .. n : i # j => tr[i] # tr[j],
           NEW t \in Int, \A i \in 1 .. n : tr[i] # t,
           NEW k \in 1 .. n, InsertAt(tr, t, k),
           NEW new,
           \A i \in 1 .. n + 1 :
              new[i] = IF i <= k THEN tr[i] ELSE IF i = k + 1 THEN t ELSE tr[i - 1]
    PROVE  Ring(new, n + 1)
<1>1. PICK h \in Int : h = tr[1] /\ h = new[1]
  OBVIOUS
<1>2. Before(h, tr[k], t) /\ (k < n => Before(h, t, tr[k + 1]))
  <2>1. /\ Before(tr[1], tr[k], t)
        /\ k < n => Before(tr[1], t, tr[k + 1])
    BY InsertBetween
  <2> QED
    BY <1>1, <2>1
<1>3. \A i \in 1 .. k : Before(h, tr[i], t)
  <2> SUFFICES ASSUME NEW i \in 1 .. k PROVE Before(h, tr[i], t)
    OBVIOUS
  <2>1. CASE i = k
    BY <1>2, <2>1
  <2>2. CASE i # k
    <3>1. i \in 1 .. n /\ i < k
      BY <2>2
    <3>2. Before(h, tr[i], tr[k])
      BY <1>1, <3>1 DEF Ring
    <3>3. tr[i] \in Int /\ tr[k] \in Int
      BY <3>1
    <3> QED
      BY <1>2, <3>2, <3>3, BeforeTransitive
  <2> QED
    BY <2>1, <2>2
<1>4. \A j \in k + 1 .. n : Before(h, t, tr[j])
  <2> SUFFICES ASSUME NEW j \in k + 1 .. n PROVE Before(h, t, tr[j])
    OBVIOUS
  <2>1. k < n /\ k + 1 \in 1 .. n /\ j \in 1 .. n
    OBVIOUS
  <2>2. CASE j = k + 1
    BY <1>2, <2>1, <2>2
  <2>3. CASE j # k + 1
    <3>1. k + 1 < j
      BY <2>3
    <3>2. Before(h, tr[k + 1], tr[j])
      BY <1>1, <2>1, <3>1 DEF Ring
    <3>3. tr[k + 1] \in Int /\ tr[j] \in Int
      BY <2>1
    <3> QED
      BY <1>2, <2>1, <3>2, <3>3, BeforeTransitive
  <2> QED
    BY <2>2, <2>3
<1> SUFFICES ASSUME NEW i \in 1 .. n + 1, NEW j \in 1 .. n + 1, i < j
             PROVE  Before(h, new[i], new[j])
  BY <1>1 DEF Ring
<1>5. CASE i <= k /\ j <= k
  <2>1. i \in 1 .. n /\ j \in 1 .. n /\ new[i] = tr[i] /\ new[j] = tr[j]
    BY <1>5
  <2> QED
    BY <1>1, <2>1 DEF Ring
<1>6. CASE i <= k /\ j = k + 1
  <2>1. i \in 1 .. k /\ new[i] = tr[i] /\ new[j] = t
    BY <1>6
  <2> QED
    BY <1>3, <2>1
<1>7. CASE i <= k /\ j > k + 1
  <2>1. i \in 1 .. n /\ j - 1 \in 1 .. n /\ i < j - 1 /\ new[i] = tr[i] /\ new[j] = tr[j - 1]
    BY <1>7
  <2> QED
    BY <1>1, <2>1 DEF Ring
<1>8. CASE i = k + 1
  <2>1. j - 1 \in k + 1 .. n /\ new[i] = t /\ new[j] = tr[j - 1]
    BY <1>8
  <2> QED
    BY <1>4, <2>1
<1>9. CASE i > k + 1
  <2>1. /\ i - 1 \in 1 .. n /\ j - 1 \in 1 .. n /\ i - 1 < j - 1
        /\ new[i] = tr[i - 1] /\ new[j] = tr[j - 1]
    BY <1>9
  <2> QED
    BY <1>1, <2>1 DEF Ring
<1> QED
  BY <1>5, <1>6, <1>7, <1>8, <1>9

-----------------------------------------------------------------------------
(***************************************************************************)
(* The steps.                                                              *)
(***************************************************************************)

\* The list seen as n tracks, and its order as that of a ring.
ListView ==
    \E n \in Nat : \E tr \in [1 .. n -> Int] :
       /\ Len(disk_list) = n
       /\ Tracks(disk_list) = tr
       /\ Len(tr) = n
       /\ \A i \in 1 .. n : disk_list[i] \in Procs /\ tr[i] = node[disk_list[i]].track
       /\ Elevator <=> Ring(tr, n)
       /\ Distinct <=> \A i, j \in 1 .. n : i # j => tr[i] # tr[j]

LEMMA ListSeen == TypeOK => ListView
<1> SUFFICES ASSUME TypeOK PROVE ListView
  OBVIOUS
<1>1. PICK n \in Nat : n = Len(disk_list)
  BY DEF TypeOK
<1>2. DOMAIN disk_list = 1 .. n /\ \A i \in 1 .. n : disk_list[i] \in Procs
  BY <1>1, LenProperties DEF TypeOK
<1>3. PICK tr : tr = Tracks(disk_list)
  OBVIOUS
<1>4. /\ tr \in [1 .. n -> Int]
      /\ \A i \in 1 .. n : tr[i] = node[disk_list[i]].track
  BY <1>2, <1>3 DEF Tracks, TypeOK, DiskNode
<1>5. tr \in Seq(Int)
  BY <1>4, SeqDef
<1>6. Len(tr) = n
  BY <1>4, <1>5, LenProperties
<1>7. Elevator <=> Ring(tr, n)
  BY <1>3, <1>4 DEF Elevator, Ring, Before
<1>8. Distinct <=> \A i, j \in 1 .. n : i # j => tr[i] # tr[j]
  BY <1>2, <1>4 DEF Distinct
<1> QED
  BY <1>1, <1>2, <1>3, <1>4, <1>6, <1>7, <1>8 DEF ListView

LEMMA ListSeenNext == (TypeOK => ListView)'
BY ListSeen, PTL

\* A step that moves no node of the list.
LEMMA OrderStays ==
    ASSUME TypeOK, TypeOK', Elevator, UNCHANGED disk_list,
           \A p \in Owners : node'[p].track = node[p].track
    PROVE  Elevator'
<1>1. ListView /\ ListView'
  BY ListSeen, ListSeenNext
<1>2. PICK n, tr :
         /\ n \in Nat /\ tr \in [1 .. n -> Int]
         /\ Len(disk_list) = n
         /\ \A i \in 1 .. n : disk_list[i] \in Procs /\ tr[i] = node[disk_list[i]].track
         /\ Elevator <=> Ring(tr, n)
  BY <1>1 DEF ListView
<1>3. PICK m, new :
         /\ m \in Nat /\ new \in [1 .. m -> Int]
         /\ Len(disk_list') = m
         /\ \A i \in 1 .. m : new[i] = node'[disk_list'[i]].track
         /\ Elevator' <=> Ring(new, m)
  BY <1>1 DEF ListView
<1>4. m = n
  BY <1>2, <1>3
<1>5. \A i \in 1 .. n : disk_list[i] \in Owners
  BY <1>2, LenProperties DEF Owners, Members, TypeOK
<1>6. \A i \in 1 .. n : new[i] = tr[i]
  BY <1>2, <1>3, <1>4, <1>5
<1>7. Ring(new, n)
  BY <1>2, <1>6 DEF Ring
<1> QED
  BY <1>3, <1>4, <1>7

\* The daemon unlinks the head.
LEMMA OrderPop ==
    ASSUME TypeOK, TypeOK', Elevator, disk_list # <<>>, PopHead
    PROVE  Elevator'
<1>1. ListView /\ ListView'
  BY ListSeen, ListSeenNext
<1>2. PICK n, tr :
         /\ n \in Nat /\ tr \in [1 .. n -> Int]
         /\ Len(disk_list) = n
         /\ \A i \in 1 .. n : disk_list[i] \in Procs /\ tr[i] = node[disk_list[i]].track
         /\ Elevator <=> Ring(tr, n)
  BY <1>1 DEF ListView
<1>3. PICK m, new :
         /\ m \in Nat /\ new \in [1 .. m -> Int]
         /\ Len(disk_list') = m
         /\ \A i \in 1 .. m : new[i] = node'[disk_list'[i]].track
         /\ Elevator' <=> Ring(new, m)
  BY <1>1 DEF ListView
<1>4. /\ n \in Nat \ {0} /\ m = n - 1
      /\ \A i \in 1 .. n - 1 : disk_list'[i] = disk_list[i + 1]
  BY <1>2, <1>3, TailProperties DEF PopHead, TypeOK
<1>5. \A p \in Procs : node'[p].track = node[p].track
  <2>1. PICK h \in Procs : node' = [node EXCEPT ![h].response = status]
    BY TailProperties DEF PopHead, TypeOK
  <2>2. node'[h] = [node[h] EXCEPT !.response = status]
    BY <2>1 DEF TypeOK
  <2>3. node'[h].track = node[h].track
    BY <2>2 DEF TypeOK, DiskNode
  <2>4. \A p \in Procs \ {h} : node'[p] = node[p]
    BY <2>1 DEF TypeOK
  <2> QED
    BY <2>3, <2>4
<1>6. \A i \in 1 .. n - 1 : new[i] = tr[i + 1]
  <2> SUFFICES ASSUME NEW i \in 1 .. n - 1 PROVE new[i] = tr[i + 1]
    OBVIOUS
  <2>1. i + 1 \in 1 .. n /\ i \in 1 .. m
    BY <1>2, <1>4
  <2>2. new[i] = node'[disk_list[i + 1]].track
    BY <1>3, <1>4, <2>1
  <2>3. disk_list[i + 1] \in Procs /\ tr[i + 1] = node[disk_list[i + 1]].track
    BY <1>2, <2>1
  <2> QED
    BY <1>5, <2>2, <2>3
<1>7. Ring(new, n - 1)
  BY <1>2, <1>4, <1>6, RingTail
<1> QED
  BY <1>3, <1>4, <1>7

\* The daemon takes the head to the next track.
LEMMA OrderCross ==
    ASSUME TypeOK, TypeOK', NodeLifetime, Elevator, Distinct, DaemonCross
    PROVE  Elevator'
<1>1. ListView /\ ListView'
  BY ListSeen, ListSeenNext
<1>2. PICK n, tr :
         /\ n \in Nat /\ tr \in [1 .. n -> Int]
         /\ Len(disk_list) = n
         /\ Tracks(disk_list) = tr
         /\ Len(tr) = n
         /\ \A i \in 1 .. n : disk_list[i] \in Procs /\ tr[i] = node[disk_list[i]].track
         /\ Elevator <=> Ring(tr, n)
         /\ Distinct <=> \A i, j \in 1 .. n : i # j => tr[i] # tr[j]
  BY <1>1 DEF ListView
<1>3. PICK m, new :
         /\ m \in Nat /\ new \in [1 .. m -> Int]
         /\ Len(disk_list') = m
         /\ \A i \in 1 .. m : new[i] = node'[disk_list'[i]].track
         /\ Elevator' <=> Ring(new, m)
  BY <1>1 DEF ListView
<1>4. PICK h \in Procs :
         /\ h = disk_list[1] /\ disk_list' = disk_list
         /\ node' = [node EXCEPT ![h] = Crossed(@)]
  BY TailProperties DEF DaemonCross, Continuing, Serving, TypeOK
<1>5. n \in Nat \ {0} /\ m = n
  BY <1>2, <1>3, <1>4, TailProperties DEF DaemonCross, Continuing, Serving, TypeOK
<1>6. \A i \in 2 .. n : disk_list[i] # h
  <2>1. DOMAIN disk_list = 1 .. n
    BY <1>2, LenProperties DEF TypeOK
  <2>2. \A i \in 1 .. n : disk_list[i] = disk_list[1] => i = 1
    BY <1>5, <2>1 DEF NodeLifetime, NoRepeat
  <2> QED
    BY <1>4, <1>5, <2>2
<1>7. /\ node'[h].track = node[h].track + 1
      /\ \A p \in Procs \ {h} : node'[p].track = node[p].track
  BY <1>4 DEF Crossed, TypeOK, DiskNode
<1>8. new[1] = tr[1] + 1 /\ \A i \in 2 .. n : new[i] = tr[i]
  BY <1>2, <1>3, <1>4, <1>5, <1>6, <1>7
<1>9. \A i \in 2 .. n : tr[i] # tr[1]
  BY <1>2, <1>5
<1>10. Ring(tr, n)
  BY <1>2
<1>11. Ring(new, n)
  BY <1>2, <1>8, <1>9, <1>10, RingCross
<1> QED
  BY <1>3, <1>5, <1>11

\* disk_helper links a node into a list that has a head.
LEMMA OrderInsert ==
    ASSUME TypeOK, TypeOK', NodeLifetime, Elevator, Distinct, Distinct',
           NEW p \in Procs, SubmitBusy(p)
    PROVE  Elevator'
<1>1. ListView /\ ListView'
  BY ListSeen, ListSeenNext
<1>2. PICK n, tr :
         /\ n \in Nat /\ tr \in [1 .. n -> Int]
         /\ Len(disk_list) = n
         /\ Tracks(disk_list) = tr
         /\ Len(tr) = n
         /\ \A i \in 1 .. n : disk_list[i] \in Procs /\ tr[i] = node[disk_list[i]].track
         /\ Elevator <=> Ring(tr, n)
         /\ Distinct <=> \A i, j \in 1 .. n : i # j => tr[i] # tr[j]
  BY <1>1 DEF ListView
<1>3. PICK m, new :
         /\ m \in Nat /\ new \in [1 .. m -> Int]
         /\ Len(disk_list') = m
         /\ \A i \in 1 .. m : new[i] = node'[disk_list'[i]].track
         /\ Elevator' <=> Ring(new, m)
         /\ Distinct' <=> \A i, j \in 1 .. m : i # j => new[i] # new[j]
  BY <1>1 DEF ListView
<1>4. PICK r \in Requests, k \in DOMAIN disk_list :
         /\ Enqueue(p, r)
         /\ disk_list # <<>>
         /\ InsertAt(tr, r.track, k)
         /\ disk_list' = InsertAfter(disk_list, k, p)
  BY <1>2 DEF SubmitBusy
<1>5. /\ n \in Nat \ {0} /\ k \in 1 .. n
      /\ m = n + 1
      /\ \A i \in 1 .. n + 1 :
            disk_list'[i] = IF i <= k THEN disk_list[i]
                            ELSE IF i = k + 1 THEN p ELSE disk_list[i - 1]
  <2>1. k \in 1 .. n /\ n \in Nat \ {0}
    BY <1>2, <1>4, LenProperties DEF TypeOK
  <2>2. disk_list \in Seq(Procs) /\ k \in 1 .. Len(disk_list)
    BY <1>2, <2>1 DEF TypeOK
  <2>3. /\ Len(disk_list') = Len(disk_list) + 1
        /\ \A i \in 1 .. Len(disk_list) + 1 :
              disk_list'[i] = IF i <= k THEN disk_list[i]
                              ELSE IF i = k + 1 THEN p ELSE disk_list[i - 1]
    <3>1. PICK list : list = InsertAfter(disk_list, k, p)
      OBVIOUS
    <3>2. /\ Len(list) = Len(disk_list) + 1
          /\ \A i \in 1 .. Len(disk_list) + 1 :
                list[i] = IF i <= k THEN disk_list[i]
                          ELSE IF i = k + 1 THEN p ELSE disk_list[i - 1]
      BY <2>2, <3>1, InsertAfterProperties
    <3> QED
      BY <1>4, <3>1, <3>2
  <2> QED
    BY <1>2, <1>3, <2>1, <2>3
<1>6. p \notin Owners
  BY <1>4, CallerIsFree
<1>7. \A i \in 1 .. n : disk_list[i] # p
  BY <1>2, <1>6, LenProperties DEF Owners, Members, TypeOK
<1>8. /\ node'[p].track = r.track
      /\ \A q \in Procs \ {p} : node'[q].track = node[q].track
  BY <1>4 DEF Enqueue, NewNode, TypeOK
<1>9. r.track \in Int
  BY <1>4, RequestsAssumption DEF Arguments
<1>10. \A i \in 1 .. n + 1 :
          new[i] = IF i <= k THEN tr[i] ELSE IF i = k + 1 THEN r.track ELSE tr[i - 1]
  <2> SUFFICES ASSUME NEW i \in 1 .. n + 1
               PROVE  new[i] = IF i <= k THEN tr[i]
                               ELSE IF i = k + 1 THEN r.track ELSE tr[i - 1]
    OBVIOUS
  <2>1. CASE i <= k
    <3>1. i \in 1 .. n /\ i \in 1 .. m /\ disk_list'[i] = disk_list[i]
      BY <1>5, <2>1
    <3>2. disk_list[i] \in Procs \ {p} /\ tr[i] = node[disk_list[i]].track
      BY <1>2, <1>7, <3>1
    <3>3. new[i] = node'[disk_list[i]].track
      BY <1>3, <3>1
    <3> QED
      BY <1>8, <2>1, <3>2, <3>3
  <2>2. CASE i = k + 1
    BY <1>3, <1>5, <1>8, <2>2
  <2>3. CASE i > k + 1
    <3>1. i - 1 \in 1 .. n /\ i \in 1 .. m /\ disk_list'[i] = disk_list[i - 1]
      BY <1>5, <2>3
    <3>2. disk_list[i - 1] \in Procs \ {p} /\ tr[i - 1] = node[disk_list[i - 1]].track
      BY <1>2, <1>7, <3>1
    <3>3. new[i] = node'[disk_list[i - 1]].track
      BY <1>3, <3>1
    <3>4. new[i] = tr[i - 1]
      BY <1>8, <3>2, <3>3
    <3>5. ~(i <= k) /\ i # k + 1
      BY <1>5, <2>3
    <3> QED
      BY <3>4, <3>5
  <2> QED
    BY <1>5, <2>1, <2>2, <2>3
<1>11. \A i \in 1 .. n : tr[i] # r.track
  <2> SUFFICES ASSUME NEW i \in 1 .. n PROVE tr[i] # r.track
    OBVIOUS
  <2>1. k + 1 \in 1 .. m /\ new[k + 1] = r.track
    BY <1>5, <1>10
  <2>2. \E j \in 1 .. m : j # k + 1 /\ new[j] = tr[i]
    <3>1. CASE i <= k
      BY <1>5, <1>10, <3>1
    <3>2. CASE i > k
      <4>1. i + 1 \in 1 .. n + 1 /\ i + 1 > k + 1 /\ (i + 1) - 1 = i
        BY <1>5, <3>2
      <4> QED
        BY <1>5, <1>10, <4>1
    <3> QED
      BY <1>5, <3>1, <3>2
  <2> QED
    BY <1>3, <2>1, <2>2
<1>12. Ring(tr, n) /\ \A i, j \in 1 .. n : i # j => tr[i] # tr[j]
  BY <1>2
<1>13. Ring(new, n + 1)
  BY <1>2, <1>4, <1>5, <1>9, <1>10, <1>11, <1>12, RingInsert
<1> QED
  BY <1>3, <1>5, <1>13

\* While no two queued operations are on one track, the queue keeps its two ascending
\* parts, wherever it is inserted into and unlinked from (553-575, 842-847).
THEOREM OrderKeptCorrect == Spec => OrderKept
<1>1. TypeOK /\ TypeOK' /\ NodeLifetime /\ [Next]_vars
         => (Elevator /\ Distinct /\ Distinct' => Elevator')
  <2> SUFFICES ASSUME TypeOK, TypeOK', NodeLifetime, [Next]_vars,
                      Elevator, Distinct, Distinct'
               PROVE  Elevator'
    OBVIOUS
  <2>1. CASE UNCHANGED <<disk_list, node>>
    BY <2>1, OrderStays
  <2>2. ASSUME NEW p \in Procs, Helper(p)
        PROVE  Elevator'
    <3>1. CASE SubmitBusy(p)
      BY <3>1, OrderInsert
    <3>2. CASE SubmitIdle(p) \/ SubmitEarly(p)
      <4>1. disk_list' = <<p>>
        BY <3>2 DEF SubmitIdle, SubmitEarly
      <4>2. Tracks(disk_list)' = [i \in DOMAIN <<p>> |-> node'[<<p>>[i]].track]
        BY <4>1 DEF Tracks
      <4>3. DOMAIN Tracks(disk_list)' = {1}
        BY <4>2
      <4> QED
        BY <4>3 DEF Elevator
    <3>3. CASE Reject(p) \/ Kick(p) \/ Return(p)
      BY <2>1, <3>3 DEF Reject, Kick, Return
    <3> QED
      BY <2>2, <3>1, <3>2, <3>3 DEF Helper
  <2>3. CASE DaemonError \/ DaemonFinish
    BY <2>3, OrderPop DEF DaemonError, DaemonFinish, Serving
  <2>4. CASE DaemonStart \/ DaemonTransfer
    <3>1. PICK h \in Procs : /\ disk_list' = disk_list
                             /\ node' \in {[node EXCEPT ![h] = Started(@)],
                                            [node EXCEPT ![h] = Advanced(@)]}
      BY <2>4, TailProperties DEF DaemonStart, DaemonTransfer, Continuing, Serving, TypeOK
    <3>2. \A p \in Procs : node'[p].track = node[p].track
      <4>1. node'[h] \in {Started(node[h]), Advanced(node[h])}
        BY <3>1 DEF TypeOK
      <4>2. node'[h].track = node[h].track
        BY <4>1 DEF Started, Advanced, TypeOK, DiskNode
      <4>3. \A p \in Procs \ {h} : node'[p] = node[p]
        BY <3>1 DEF TypeOK
      <4> QED
        BY <4>2, <4>3
    <3>3. Owners \subseteq Procs
      BY LenProperties DEF Owners, Members, TypeOK
    <3> QED
      BY <3>1, <3>2, <3>3, OrderStays
  <2>5. CASE DaemonCross
    BY <2>5, OrderCross
  <2>6. CASE DaemonBoot \/ DaemonWake \/ DaemonIdle \/ DaemonSend
    BY <2>1, <2>6 DEF DaemonBoot, DaemonWake, DaemonIdle, DaemonSend
  <2>7. CASE GetTracks \/ DeviceDone \/ UNCHANGED vars
    BY <2>1, <2>7 DEF GetTracks, AskTracks, PublishTracks, DeviceDone, vars
  <2> QED
    BY <2>2, <2>3, <2>4, <2>5, <2>6, <2>7 DEF Next, Daemon
<1> QED
  BY <1>1, TypeCorrect, NodeLifetimeCorrect, PTL DEF Spec, OrderKept
=============================================================================
