-------------------------- MODULE TrackCountProofs --------------------------
(***************************************************************************)
(* Theorems about TrackCount, for any callers of any priority, any calls   *)
(* and any ends of time slices; RightCountCorrect limits the calls of      *)
(* priority 1 (OneCall).                                                   *)
(***************************************************************************)
EXTENDS TrackCount, SequenceTheorems, TLAPS

-----------------------------------------------------------------------------
(***************************************************************************)
(* Type correctness.                                                       *)
(***************************************************************************)

\* TypeOK, strengthened: a process inside a call has one to do, and
\* get_track_count has a node when it has just notified one.
TypeInv ==
    /\ TypeOK
    /\ \A p \in Users : pc[p] \in {"count", "list", "link", "recv"} => todo[p] # <<>>
    /\ pc[Getter] = "sent" => curr # Nobody

LEMMA UnitType == \A p : Unit(p) \in Units
BY DEF Unit, UnitOf, Units

LEMMA Distinctness == Getter \in Users /\ Nobody \notin Users
BY TrackAssumption DEF Users

LEMMA AnsweredType ==
    ASSUME TypeOK, NEW p \in Users, todo[p] # <<>>, NEW count \in Int,
           Answered(p, count)
    PROVE  /\ todo' \in [Users -> Seq(CallArgs)]
           /\ \A q \in Users \ {p} : todo'[q] = todo[q]
           /\ answer' \in [Users -> [Units -> Int]]
<1>1. Tail(todo[p]) \in Seq(CallArgs)
  BY HeadTailProperties DEF TypeOK
<1>2. /\ todo' \in [Users -> Seq(CallArgs)]
      /\ \A q \in Users \ {p} : todo'[q] = todo[q]
  BY <1>1 DEF Answered, TypeOK
<1>3. [answer EXCEPT ![p][Unit(p)] = count] \in [Users -> [Units -> Int]]
  BY UnitType DEF TypeOK
<1>4. answer' \in [Users -> [Units -> Int]]
  BY <1>3 DEF Answered, TypeOK
<1> QED
  BY <1>2, <1>4

LEMMA TypeCaller ==
    ASSUME TypeInv, NEW p \in Users, Enter(p) \/ Proceed(p)
    PROVE  TypeInv'
<1> USE UnitType, Distinctness DEF Goes, Stops, Lock, Unlock, callVars, countVars,
        listVars, getVars
<1>1. CASE Enter(p)
  BY <1>1 DEF Enter, TypeInv, TypeOK
<1>2. CASE KnownCount(p)
  <2>1. todo[p] # <<>> /\ track_count[Unit(p)] \in Int
    BY <1>2 DEF KnownCount, TypeInv, TypeOK
  <2>2. /\ todo' \in [Users -> Seq(CallArgs)]
        /\ \A q \in Users \ {p} : todo'[q] = todo[q]
        /\ answer' \in [Users -> [Units -> Int]]
    BY <1>2, <2>1, AnsweredType DEF KnownCount, TypeInv
  <2> QED
    BY <1>2, <2>2 DEF KnownCount, TypeInv, TypeOK
<1>3. CASE UnknownCount(p)
  BY <1>3 DEF UnknownCount, TypeInv, TypeOK
<1>4. CASE LockList(p)
  BY <1>4 DEF LockList, TypeInv, TypeOK
<1>5. CASE Link(p)
  <2>1. track_list' \in [Units -> Users \cup {Nobody}]
    BY <1>5 DEF Link, TypeInv, TypeOK
  <2>2. next' \in [Users -> Users \cup {Nobody}]
    <3>1. next \in [Users -> Users \cup {Nobody}] /\ track_list[Unit(p)] \in Users \cup {Nobody}
      BY <1>5 DEF TypeInv, TypeOK
    <3>2. CASE next' = [next EXCEPT ![p] = Nobody]
      BY <3>1, <3>2
    <3>3. CASE track_list[Unit(p)] # Nobody /\ next' = Inserted(track_list[Unit(p)], p)
      BY <3>1, <3>3 DEF Inserted
    <3> QED
      BY <1>5, <3>2, <3>3 DEF Link
  <2> QED
    BY <1>5, <2>1, <2>2 DEF Link, TypeInv, TypeOK
<1>6. CASE Recv(p)
  <2>1. todo[p] # <<>> /\ response[p] \in Int
    BY <1>6 DEF Recv, TypeInv, TypeOK
  <2>2. /\ todo' \in [Users -> Seq(CallArgs)]
        /\ \A q \in Users \ {p} : todo'[q] = todo[q]
        /\ answer' \in [Users -> [Units -> Int]]
    BY <1>6, <2>1, AnsweredType DEF Recv, TypeInv
  <2> QED
    BY <1>6, <2>2 DEF Recv, TypeInv, TypeOK
<1> QED
  BY <1>1, <1>2, <1>3, <1>4, <1>5, <1>6 DEF Proceed

LEMMA TypeGetter ==
    ASSUME TypeInv, GetTrackCount \/ \E u \in Units : DeviceDone(u)
    PROVE  TypeInv'
<1> USE UnitType, Distinctness, TrackAssumption
    DEF Goes, Stops, Lock, Unlock, callVars, countVars, listVars, getVars
<1>1. CASE Ask
  BY <1>1 DEF Ask, TypeInv, TypeOK
<1>2. CASE GotCount
  BY <1>2 DEF GotCount, TypeInv, TypeOK
<1>9. CASE LockCount
  BY <1>9 DEF LockCount, TypeInv, TypeOK
<1>3. CASE StoreCount
  BY <1>3 DEF StoreCount, TypeInv, TypeOK
<1>4. CASE StartWalk
  BY <1>4 DEF StartWalk, TypeInv, TypeOK
<1>5. CASE Notify
  BY <1>5 DEF Notify, TypeInv, TypeOK
<1>6. CASE Advance
  <2>1. curr \in Users
    BY <1>6 DEF Advance, TypeInv, TypeOK
  <2> QED
    BY <1>6, <2>1 DEF Advance, TypeInv, TypeOK
<1>7. CASE EndWalk
  BY <1>7 DEF EndWalk, TypeInv, TypeOK, Units
<1>8. CASE \E u \in Units : DeviceDone(u)
  BY SMTT(30), <1>8 DEF DeviceDone, TypeInv, TypeOK
<1> QED
  BY <1>1, <1>2, <1>3, <1>4, <1>5, <1>6, <1>7, <1>8, <1>9 DEF GetTrackCount

LEMMA TypeInit == Init => TypeInv
<1> SUFFICES ASSUME Init PROVE TypeInv
  OBVIOUS
<1>1. PICK f : /\ \A p \in Procs : f[p] \in CallLists[p]
               /\ todo = [p \in Users |-> IF p = Getter THEN GetterCalls ELSE f[p]]
  BY DEF Init
<1>2. \A p \in Procs : f[p] \in Seq(CallArgs)
  BY <1>1, TrackAssumption
<1>3. [kind |-> "size", unit |-> 0] \in CallArgs /\ [kind |-> "size", unit |-> 1] \in CallArgs
  BY DEF CallArgs
<1>4. GetterCalls \in Seq(CallArgs)
  BY <1>3 DEF GetterCalls
<1>5. todo \in [Users -> Seq(CallArgs)]
  BY <1>1, <1>2, <1>4 DEF Users
<1>6. -1 \in Int
  OBVIOUS
<1> QED
  BY <1>5, <1>6, Distinctness DEF Init, TypeInv, TypeOK, Units

LEMMA TypeInvCorrect == Spec => []TypeInv
<1>1. TypeInv /\ [Next]_vars => TypeInv'
  <2> SUFFICES ASSUME TypeInv, [Next]_vars PROVE TypeInv'
    OBVIOUS
  <2>1. CASE UNCHANGED vars
    BY <2>1 DEF vars, callVars, countVars, listVars, getVars, TypeInv, TypeOK
  <2> QED
    BY <2>1, TypeCaller, TypeGetter DEF Next
<1> QED
  BY <1>1, TypeInit, PTL DEF Spec

\* Every variable keeps its type.
THEOREM TypeCorrect == Spec => []TypeOK
<1>1. TypeInv => TypeOK
  BY DEF TypeInv
<1> QED
  BY <1>1, TypeInvCorrect, PTL

-----------------------------------------------------------------------------
(***************************************************************************)
(* Mutual exclusion.                                                       *)
(***************************************************************************)

\* MutualExclusion, strengthened: a lock is taken while somebody is inside.
LockInv ==
    /\ MutualExclusion
    /\ \A u \in Units :
          /\ InCount(u) # {} <=> count_mutex[u]
          /\ InList(u) # {} <=> list_mutex[u]

\* A step of p keeps LockInv when, of each unit's count and list, p stays in or out
\* and leaves the lock, or comes in and takes it, or goes out and releases it.
LEMMA LockStep ==
    ASSUME LockInv, NEW p,
           \A u, q : q # p => /\ q \in InCount(u)' <=> q \in InCount(u)
                              /\ q \in InList(u)' <=> q \in InList(u),
           \A u \in Units :
              \/ (p \in InCount(u)' <=> p \in InCount(u)) /\ count_mutex'[u] = count_mutex[u]
              \/ p \in InCount(u)' /\ ~count_mutex[u] /\ count_mutex'[u]
              \/ p \in InCount(u) /\ p \notin InCount(u)' /\ ~count_mutex'[u],
           \A u \in Units :
              \/ (p \in InList(u)' <=> p \in InList(u)) /\ list_mutex'[u] = list_mutex[u]
              \/ p \in InList(u)' /\ ~list_mutex[u] /\ list_mutex'[u]
              \/ p \in InList(u) /\ p \notin InList(u)' /\ ~list_mutex'[u]
    PROVE  LockInv'
<1>1. ASSUME NEW u \in Units
      PROVE  /\ \A x, y \in InCount(u)' : x = y
             /\ InCount(u)' # {} <=> count_mutex'[u]
  BY DEF LockInv, MutualExclusion
<1>2. ASSUME NEW u \in Units
      PROVE  /\ \A x, y \in InList(u)' : x = y
             /\ InList(u)' # {} <=> list_mutex'[u]
  BY DEF LockInv, MutualExclusion
<1> QED
  BY <1>1, <1>2 DEF LockInv, MutualExclusion

\* A step of p leaves everybody else inside or outside.
LEMMA OthersStay ==
    ASSUME TypeInv, NEW p \in Users, NEW to,
           pc' = [pc EXCEPT ![p] = to],
           \A q \in Users \ {p} : todo'[q] = todo[q],
           p = Getter \/ unit' = unit
    PROVE  \A u, q : q # p => /\ q \in InCount(u)' <=> q \in InCount(u)
                              /\ q \in InList(u)' <=> q \in InList(u)
<1> SUFFICES ASSUME NEW u, NEW q, q # p
             PROVE  /\ q \in InCount(u)' <=> q \in InCount(u)
                    /\ q \in InList(u)' <=> q \in InList(u)
  OBVIOUS
<1>1. q \in Users => pc'[q] = pc[q] /\ Unit(q)' = Unit(q)
  BY DEF Unit, TypeInv, TypeOK
<1>2. q = Getter => unit' = unit
  OBVIOUS
<1> QED
  BY <1>1, <1>2, Distinctness DEF InCount, InList

LEMMA LockCaller ==
    ASSUME TypeInv, LockInv, NEW p \in Users, Enter(p) \/ Proceed(p)
    PROVE  LockInv'
<1> USE DEF Goes, Stops
<1>1. /\ \A to : [pc EXCEPT ![p] = to][p] = to
      /\ count_mutex \in [Units -> BOOLEAN] /\ list_mutex \in [Units -> BOOLEAN]
  BY DEF TypeInv, TypeOK
<1>2. \A u : /\ p \in InCount(u) <=> \/ pc[p] = "count" /\ u = Unit(p)
                                     \/ p = Getter /\ pc[p] = "store" /\ u = unit
             /\ p \in InList(u) <=> \/ pc[p] = "link" /\ u = Unit(p)
                                    \/ p = Getter /\ pc[p] \in {"walk", "sent"} /\ u = unit
             /\ p \in InCount(u)' <=> \/ pc'[p] = "count" /\ u = Unit(p)'
                                      \/ p = Getter /\ pc'[p] = "store" /\ u = unit'
             /\ p \in InList(u)' <=> \/ pc'[p] = "link" /\ u = Unit(p)'
                                     \/ p = Getter /\ pc'[p] \in {"walk", "sent"} /\ u = unit'
  BY DEF InCount, InList
<1>3. CASE Enter(p)
  <2>1. /\ pc[p] = "out" /\ pc' = [pc EXCEPT ![p] = "count"] /\ pc'[p] = "count"
        /\ UNCHANGED <<todo, unit, list_mutex>>
        /\ ~count_mutex[Unit(p)] /\ count_mutex' = [count_mutex EXCEPT ![Unit(p)] = TRUE]
    BY <1>1, <1>3 DEF Enter, Lock, callVars, listVars, getVars
  <2>2. \A u, q : q # p => /\ q \in InCount(u)' <=> q \in InCount(u)
                           /\ q \in InList(u)' <=> q \in InList(u)
    BY <1>1, <2>1, OthersStay
  <2>3. /\ Unit(p)' = Unit(p)
        /\ \A u \in Units : count_mutex'[u] = IF u = Unit(p) THEN TRUE ELSE count_mutex[u]
    BY <1>1, <2>1 DEF Unit
  <2>4. \A u : /\ p \notin InCount(u) /\ p \notin InList(u) /\ p \notin InList(u)'
               /\ p \in InCount(u)' <=> u = Unit(p)
    BY <1>2, <2>1, <2>3
  <2>5. \A u \in Units :
           \/ (p \in InCount(u)' <=> p \in InCount(u)) /\ count_mutex'[u] = count_mutex[u]
           \/ p \in InCount(u)' /\ ~count_mutex[u] /\ count_mutex'[u]
    BY <2>1, <2>3, <2>4
  <2> QED
    BY <2>1, <2>2, <2>3, <2>4, <2>5, LockStep
<1>4. CASE KnownCount(p) \/ UnknownCount(p)
  <2>1. /\ pc[p] = "count" /\ pc'[p] \in {"out", "list"}
        /\ \E to : pc' = [pc EXCEPT ![p] = to]
        /\ UNCHANGED <<unit, list_mutex>>
        /\ count_mutex' = [count_mutex EXCEPT ![Unit(p)] = FALSE]
    BY <1>1, <1>4 DEF KnownCount, UnknownCount, Unlock, listVars, getVars
  <2>2. \A q \in Users \ {p} : todo'[q] = todo[q]
    BY <1>4 DEF KnownCount, UnknownCount, Answered, callVars, TypeInv, TypeOK
  <2>3. \A u, q : q # p => /\ q \in InCount(u)' <=> q \in InCount(u)
                           /\ q \in InList(u)' <=> q \in InList(u)
    BY <1>1, <2>1, <2>2, OthersStay
  <2>4. \A u \in Units : count_mutex'[u] = IF u = Unit(p) THEN FALSE ELSE count_mutex[u]
    BY <1>1, <2>1
  <2>5. \A u : /\ p \notin InCount(u)' /\ p \notin InList(u) /\ p \notin InList(u)'
               /\ p \in InCount(u) <=> u = Unit(p)
    BY <1>2, <2>1
  <2>6. \A u \in Units :
           \/ (p \in InCount(u)' <=> p \in InCount(u)) /\ count_mutex'[u] = count_mutex[u]
           \/ p \in InCount(u) /\ p \notin InCount(u)' /\ ~count_mutex'[u]
    BY <2>1, <2>4, <2>5
  <2> QED
    BY <2>1, <2>3, <2>4, <2>5, <2>6, LockStep
<1>5. CASE LockList(p)
  <2>1. /\ pc[p] = "list" /\ pc' = [pc EXCEPT ![p] = "link"] /\ pc'[p] = "link"
        /\ UNCHANGED <<todo, unit, count_mutex>>
        /\ ~list_mutex[Unit(p)] /\ list_mutex' = [list_mutex EXCEPT ![Unit(p)] = TRUE]
    BY <1>1, <1>5 DEF LockList, Lock, callVars, countVars, getVars
  <2>2. \A u, q : q # p => /\ q \in InCount(u)' <=> q \in InCount(u)
                           /\ q \in InList(u)' <=> q \in InList(u)
    BY <1>1, <2>1, OthersStay
  <2>3. /\ Unit(p)' = Unit(p)
        /\ \A u \in Units : list_mutex'[u] = IF u = Unit(p) THEN TRUE ELSE list_mutex[u]
    BY <1>1, <2>1 DEF Unit
  <2>4. \A u : /\ p \notin InList(u) /\ p \notin InCount(u) /\ p \notin InCount(u)'
               /\ p \in InList(u)' <=> u = Unit(p)
    BY <1>2, <2>1, <2>3
  <2>5. \A u \in Units :
           \/ (p \in InList(u)' <=> p \in InList(u)) /\ list_mutex'[u] = list_mutex[u]
           \/ p \in InList(u)' /\ ~list_mutex[u] /\ list_mutex'[u]
    BY <2>1, <2>3, <2>4
  <2> QED
    BY <2>1, <2>2, <2>3, <2>4, <2>5, LockStep
<1>6. CASE Link(p)
  <2>1. /\ pc[p] = "link" /\ pc'[p] \in {"recv"}
        /\ \E to : pc' = [pc EXCEPT ![p] = to]
        /\ UNCHANGED <<unit, count_mutex>>
        /\ list_mutex' = [list_mutex EXCEPT ![Unit(p)] = FALSE]
    BY <1>1, <1>6 DEF Link, Unlock, countVars, getVars
  <2>2. \A q \in Users \ {p} : todo'[q] = todo[q]
    BY <1>6 DEF Link, callVars, TypeInv, TypeOK
  <2>3. \A u, q : q # p => /\ q \in InCount(u)' <=> q \in InCount(u)
                           /\ q \in InList(u)' <=> q \in InList(u)
    BY <1>1, <2>1, <2>2, OthersStay
  <2>4. \A u \in Units : list_mutex'[u] = IF u = Unit(p) THEN FALSE ELSE list_mutex[u]
    BY <1>1, <2>1
  <2>5. \A u : /\ p \notin InList(u)' /\ p \notin InCount(u) /\ p \notin InCount(u)'
               /\ p \in InList(u) <=> u = Unit(p)
    BY <1>2, <2>1
  <2>6. \A u \in Units :
           \/ (p \in InList(u)' <=> p \in InList(u)) /\ list_mutex'[u] = list_mutex[u]
           \/ p \in InList(u) /\ p \notin InList(u)' /\ ~list_mutex'[u]
    BY <2>1, <2>4, <2>5
  <2> QED
    BY <2>1, <2>3, <2>4, <2>5, <2>6, LockStep
<1>7. CASE Recv(p)
  <2>1. /\ pc[p] = "recv" /\ pc' = [pc EXCEPT ![p] = "out"] /\ pc'[p] = "out"
        /\ UNCHANGED <<unit, count_mutex, list_mutex>>
    BY <1>1, <1>7 DEF Recv, countVars, getVars
  <2>2. \A q \in Users \ {p} : todo'[q] = todo[q]
    BY <1>7 DEF Recv, Answered, TypeInv, TypeOK
  <2>3. \A u, q : q # p => /\ q \in InCount(u)' <=> q \in InCount(u)
                           /\ q \in InList(u)' <=> q \in InList(u)
    BY <1>1, <2>1, <2>2, OthersStay
  <2>4. \A u : /\ p \notin InCount(u) /\ p \notin InCount(u)'
               /\ p \notin InList(u) /\ p \notin InList(u)'
    BY <1>2, <2>1
  <2> QED
    BY <2>1, <2>3, <2>4, LockStep
<1> QED
  BY <1>3, <1>4, <1>5, <1>6, <1>7 DEF Proceed

LEMMA LockGetter ==
    ASSUME TypeInv, LockInv, GetTrackCount
    PROVE  LockInv'
<1> USE DEF Goes, Stops
<1> DEFINE p == Getter
<1>1. /\ \A to : [pc EXCEPT ![p] = to][p] = to
      /\ p \in Users /\ unit \in Units
      /\ count_mutex \in [Units -> BOOLEAN] /\ list_mutex \in [Units -> BOOLEAN]
  BY Distinctness DEF TypeInv, TypeOK
<1>2. \A u : /\ p \in InCount(u) <=> \/ pc[p] = "count" /\ u = Unit(p)
                                     \/ pc[p] = "store" /\ u = unit
             /\ p \in InList(u) <=> \/ pc[p] = "link" /\ u = Unit(p)
                                    \/ pc[p] \in {"walk", "sent"} /\ u = unit
             /\ p \in InCount(u)' <=> \/ pc'[p] = "count" /\ u = Unit(p)'
                                      \/ pc'[p] = "store" /\ u = unit'
             /\ p \in InList(u)' <=> \/ pc'[p] = "link" /\ u = Unit(p)'
                                     \/ pc'[p] \in {"walk", "sent"} /\ u = unit'
  BY <1>1 DEF InCount, InList
<1>3. /\ UNCHANGED todo
      /\ \E to : pc' = [pc EXCEPT ![p] = to]
  BY DEF GetTrackCount, Ask, GotCount, LockCount, StoreCount, StartWalk, Notify, Advance,
         EndWalk, callVars
<1>4. \A u, q : q # p => /\ q \in InCount(u)' <=> q \in InCount(u)
                         /\ q \in InList(u)' <=> q \in InList(u)
  BY <1>1, <1>3, OthersStay
<1>5. CASE Ask \/ GotCount
  <2>1. /\ pc[p] \in {"ask", "dev"} /\ pc'[p] \in {"dev", "got"}
        /\ UNCHANGED <<count_mutex, list_mutex>>
    BY <1>1, <1>5 DEF Ask, GotCount, countVars, listVars
  <2>2. \A u : /\ p \notin InCount(u) /\ p \notin InCount(u)'
               /\ p \notin InList(u) /\ p \notin InList(u)'
    BY <1>2, <2>1
  <2> QED
    BY <1>4, <2>1, <2>2, LockStep
<1>6. CASE LockCount
  <2>1. /\ pc[p] = "got" /\ pc'[p] = "store" /\ UNCHANGED <<list_mutex, unit>>
        /\ ~count_mutex[unit] /\ count_mutex' = [count_mutex EXCEPT ![unit] = TRUE]
    BY <1>1, <1>6 DEF LockCount, Lock, listVars, getVars
  <2>2. \A u \in Units : count_mutex'[u] = IF u = unit THEN TRUE ELSE count_mutex[u]
    BY <1>1, <2>1
  <2>3. \A u : /\ p \notin InCount(u) /\ p \notin InList(u) /\ p \notin InList(u)'
               /\ p \in InCount(u)' <=> u = unit
    BY <1>2, <2>1
  <2>4. \A u \in Units :
           \/ (p \in InCount(u)' <=> p \in InCount(u)) /\ count_mutex'[u] = count_mutex[u]
           \/ p \in InCount(u)' /\ ~count_mutex[u] /\ count_mutex'[u]
    BY <2>1, <2>2, <2>3
  <2> QED
    BY <1>4, <2>1, <2>2, <2>3, <2>4, LockStep
<1>7. CASE StoreCount
  <2>1. /\ pc[p] = "store" /\ pc'[p] \in {"stored"} /\ UNCHANGED list_mutex
        /\ count_mutex' = [count_mutex EXCEPT ![unit] = FALSE]
    BY <1>1, <1>7 DEF StoreCount, Unlock, listVars, getVars
  <2>2. \A u \in Units : count_mutex'[u] = IF u = unit THEN FALSE ELSE count_mutex[u]
    BY <1>1, <2>1
  <2>3. \A u : /\ p \notin InCount(u)' /\ p \notin InList(u) /\ p \notin InList(u)'
               /\ p \in InCount(u) <=> u = unit
    BY <1>2, <2>1
  <2>4. \A u \in Units :
           \/ (p \in InCount(u)' <=> p \in InCount(u)) /\ count_mutex'[u] = count_mutex[u]
           \/ p \in InCount(u) /\ p \notin InCount(u)' /\ ~count_mutex'[u]
    BY <2>1, <2>2, <2>3
  <2> QED
    BY <1>4, <2>1, <2>2, <2>3, <2>4, LockStep
<1>8. CASE StartWalk
  <2>1. /\ pc[p] = "stored" /\ pc'[p] = "walk" /\ UNCHANGED <<count_mutex, unit>>
        /\ ~list_mutex[unit] /\ list_mutex' = [list_mutex EXCEPT ![unit] = TRUE]
    BY <1>1, <1>8 DEF StartWalk, Lock, countVars
  <2>2. \A u \in Units : list_mutex'[u] = IF u = unit THEN TRUE ELSE list_mutex[u]
    BY <1>1, <2>1
  <2>3. \A u : /\ p \notin InList(u) /\ p \notin InCount(u) /\ p \notin InCount(u)'
               /\ p \in InList(u)' <=> u = unit
    BY <1>2, <2>1
  <2>4. \A u \in Units :
           \/ (p \in InList(u)' <=> p \in InList(u)) /\ list_mutex'[u] = list_mutex[u]
           \/ p \in InList(u)' /\ ~list_mutex[u] /\ list_mutex'[u]
    BY <2>1, <2>2, <2>3
  <2> QED
    BY <1>4, <2>1, <2>2, <2>3, <2>4, LockStep
<1>9. CASE Notify \/ Advance
  <2>1. /\ pc[p] \in {"walk", "sent"} /\ pc'[p] \in {"walk", "sent"}
        /\ UNCHANGED <<count_mutex, list_mutex, unit>>
    BY <1>1, <1>9 DEF Notify, Advance, countVars, listVars, getVars
  <2>2. \A u : /\ p \notin InCount(u) /\ p \notin InCount(u)'
               /\ p \in InList(u)' <=> p \in InList(u)
    BY <1>2, <2>1
  <2> QED
    BY <1>4, <2>1, <2>2, LockStep
<1>10. CASE EndWalk
  <2>1. /\ pc[p] = "walk" /\ pc'[p] \in {"ask", "out"} /\ UNCHANGED count_mutex
        /\ list_mutex' = [list_mutex EXCEPT ![unit] = FALSE]
    BY <1>1, <1>10 DEF EndWalk, Unlock, countVars
  <2>2. \A u \in Units : list_mutex'[u] = IF u = unit THEN FALSE ELSE list_mutex[u]
    BY <1>1, <2>1
  <2>3. \A u : /\ p \notin InList(u)' /\ p \notin InCount(u) /\ p \notin InCount(u)'
               /\ p \in InList(u) <=> u = unit
    BY <1>2, <2>1
  <2>4. \A u \in Units :
           \/ (p \in InList(u)' <=> p \in InList(u)) /\ list_mutex'[u] = list_mutex[u]
           \/ p \in InList(u) /\ p \notin InList(u)' /\ ~list_mutex'[u]
    BY <2>1, <2>2, <2>3
  <2> QED
    BY <1>4, <2>1, <2>2, <2>3, <2>4, LockStep
<1> QED
  BY <1>5, <1>6, <1>7, <1>8, <1>9, <1>10 DEF GetTrackCount

LEMMA LockInvCorrect == Spec => []LockInv
<1>1. Init => LockInv
  BY Distinctness DEF Init, LockInv, MutualExclusion, InCount, InList
<1>2. TypeInv /\ LockInv /\ [Next]_vars => LockInv'
  <2> SUFFICES ASSUME TypeInv, LockInv, [Next]_vars PROVE LockInv'
    OBVIOUS
  <2>1. CASE UNCHANGED <<pc, todo, unit, count_mutex, list_mutex>>
    BY <2>1 DEF LockInv, MutualExclusion, InCount, InList, Unit
  <2>2. CASE (\E u \in Units : DeviceDone(u)) \/ UNCHANGED vars
    BY <2>1, <2>2
    DEF DeviceDone, vars, callVars, countVars, listVars, getVars
  <2> QED
    BY <2>2, LockCaller, LockGetter DEF Next
<1> QED
  BY <1>1, <1>2, TypeInvCorrect, PTL DEF Spec

\* The one-slot mailboxes keep every critical section of the counts and the lists
\* to one process, wherever time slices end.
THEOREM MutualExclusionCorrect == Spec => []MutualExclusion
<1>1. LockInv => MutualExclusion
  BY DEF LockInv
<1> QED
  BY <1>1, LockInvCorrect, PTL

-----------------------------------------------------------------------------
(***************************************************************************)
(* The counts.                                                             *)
(***************************************************************************)

\* The device's answer for unit u has still to be stored.
Unstored(u) ==
    \/ unit < u
    \/ unit = u /\ pc[Getter] \in {"ask", "dev", "got", "store"}

\* A count is -1 until it is stored and right from then on; get_tracks makes its
\* own calls when it has stored both.
CountInv ==
    /\ \A u \in Units : track_count[u] = IF Unstored(u) THEN -1 ELSE Size[u]
    /\ pc[Getter] \in {"out", "count", "list", "link", "recv"} => unit = 1

LEMMA CountCaller ==
    ASSUME TypeInv, CountInv, NEW p \in Users, Enter(p) \/ Proceed(p)
    PROVE  CountInv'
<1>1. /\ UNCHANGED <<track_count, unit>>
      /\ \E from, to \in {"out", "count", "list", "link", "recv"} :
            pc[p] = from /\ pc' = [pc EXCEPT ![p] = to]
  BY DEF Enter, Proceed, KnownCount, UnknownCount, LockList, Link, Recv, Goes, Stops,
         listVars, getVars, countVars
<1>2. \/ pc'[Getter] = pc[Getter]
      \/ {pc'[Getter], pc[Getter]} \subseteq {"out", "count", "list", "link", "recv"}
  BY <1>1, Distinctness DEF TypeInv, TypeOK
<1>3. \A u : Unstored(u)' <=> Unstored(u)
  BY <1>1, <1>2 DEF Unstored
<1> QED
  BY <1>1, <1>2, <1>3 DEF CountInv

LEMMA CountGetter ==
    ASSUME TypeInv, CountInv, GetTrackCount
    PROVE  CountInv'
<1> USE DEF Goes, Stops
<1>1. /\ \A to : [pc EXCEPT ![Getter] = to][Getter] = to
      /\ unit \in {0, 1}
      /\ track_count \in [Units -> Int]
  BY Distinctness DEF TypeInv, TypeOK, Units
<1>2. CASE Ask \/ GotCount \/ LockCount
  <2>1. /\ UNCHANGED <<track_count, unit>>
        /\ {pc[Getter], pc'[Getter]} \subseteq {"ask", "dev", "got", "store"}
    BY <1>1, <1>2 DEF Ask, GotCount, LockCount, countVars, getVars
  <2>2. \A u : Unstored(u)' <=> Unstored(u)
    BY <2>1 DEF Unstored
  <2> QED
    BY <2>1, <2>2 DEF CountInv
<1>3. CASE StoreCount
  <2>1. /\ UNCHANGED unit
        /\ pc[Getter] = "store" /\ pc'[Getter] = "stored"
        /\ track_count' = [track_count EXCEPT ![unit] = Size[unit]]
    BY <1>1, <1>3 DEF StoreCount, getVars
  <2>2. ASSUME NEW u \in Units
        PROVE  track_count'[u] = IF Unstored(u)' THEN -1 ELSE Size[u]
    <3>1. CASE u = unit
      BY <1>1, <2>1, <3>1 DEF Unstored, Units
    <3>2. CASE u # unit
      <4>1. track_count'[u] = track_count[u] /\ (Unstored(u)' <=> Unstored(u))
        BY <1>1, <2>1, <3>2 DEF Unstored
      <4> QED
        BY <4>1 DEF CountInv
    <3> QED
      BY <3>1, <3>2
  <2> QED
    BY <2>1, <2>2 DEF CountInv
<1>4. CASE StartWalk \/ Notify \/ Advance
  <2>1. /\ UNCHANGED <<track_count, unit>>
        /\ {pc[Getter], pc'[Getter]} \subseteq {"stored", "walk", "sent"}
    BY <1>1, <1>4 DEF StartWalk, Notify, Advance, countVars, getVars
  <2>2. \A u : Unstored(u)' <=> Unstored(u)
    BY <2>1 DEF Unstored
  <2> QED
    BY <2>1, <2>2 DEF CountInv
<1>5. CASE EndWalk
  <2>1. /\ UNCHANGED track_count
        /\ pc[Getter] = "walk" /\ unit' = 1
        /\ \/ unit = 0 /\ pc'[Getter] = "ask"
           \/ unit = 1 /\ pc'[Getter] = "out"
    BY <1>1, <1>5 DEF EndWalk, countVars
  <2>2. \A u \in {0, 1} : Unstored(u)' <=> Unstored(u)
    BY <2>1 DEF Unstored
  <2> QED
    BY <2>1, <2>2 DEF CountInv, Units
<1> QED
  BY <1>2, <1>3, <1>4, <1>5 DEF GetTrackCount

LEMMA CountInvCorrect == Spec => []CountInv
<1>1. Init => CountInv
  BY Distinctness DEF Init, CountInv, Unstored, Units
<1>2. TypeInv /\ CountInv /\ [Next]_vars => CountInv'
  <2> SUFFICES ASSUME TypeInv, CountInv, [Next]_vars PROVE CountInv'
    OBVIOUS
  <2>1. CASE UNCHANGED <<pc, track_count, unit>>
    BY <2>1 DEF CountInv, Unstored
  <2>2. CASE (\E u \in Units : DeviceDone(u)) \/ UNCHANGED vars
    BY <2>1, <2>2 DEF DeviceDone, vars, countVars, getVars
  <2> QED
    BY <2>2, CountCaller, CountGetter DEF Next
<1> QED
  BY <1>1, <1>2, TypeInvCorrect, PTL DEF Spec

-----------------------------------------------------------------------------
(***************************************************************************)
(* Who may run.                                                            *)
(***************************************************************************)
Calling == {"count", "list", "link"}

\* get_tracks is under way and waits for nothing.
Busy == {"got", "store", "stored", "walk", "sent", "count"}

\* Who has the processor is not blocked; a caller in the middle of its call has it,
\* or lost it to another process of priority 1 when its time slice ended; while
\* get_tracks is busy no process below priority 1 runs; get_tracks itself never
\* has to wait for a count.
SchedInv ==
    /\ running # Nobody => pc[running] \notin {"recv", "dev"}
    /\ \A p \in Procs :
          /\ pc[p] \in {"out", "recv"} \cup Calling
          /\ pc[p] \in Calling =>
                \/ running = p
                \/ sliced /\ p \in HighPrio /\ running \in High \cup {Nobody}
    /\ pc[Getter] \notin {"list", "link", "recv"}
    /\ pc[Getter] \in Busy => /\ running \in High \cup {Nobody}
                              /\ sliced \/ running = Getter

\* Beside a busy get_tracks only a process of priority 1 runs, after the end
\* of a time slice.
LEMMA BusyRivals ==
    ASSUME SchedInv, pc[Getter] \in Busy, NEW p \in Users \ {Getter}, CanRun(p)
    PROVE  sliced /\ p \in HighPrio
<1>1. ~Blocked(Getter) /\ Getter \in High
  BY DEF Blocked, Busy, High
<1>2. running \in High \cup {Nobody} /\ (sliced \/ running = Getter)
  BY DEF SchedInv
<1>3. p \in High
  BY <1>1, <1>2, Distinctness DEF CanRun
<1> QED
  BY <1>2, <1>3, Distinctness DEF CanRun, High

\* Beside a caller in the middle of its call likewise.
LEMMA CallingRivals ==
    ASSUME SchedInv, NEW q \in Procs, pc[q] \in Calling, NEW p \in Users \ {q}, CanRun(p)
    PROVE  sliced /\ p \in High
<1>1. ~Blocked(q)
  BY DEF Blocked, Calling
<1>2. CASE running = q
  BY <1>2, Distinctness DEF CanRun, Users
<1>3. CASE sliced /\ q \in HighPrio /\ running \in High \cup {Nobody}
  BY <1>1, <1>3, Distinctness DEF CanRun, High
<1> QED
  BY <1>2, <1>3 DEF SchedInv

\* A step of p that leaves the others where they are keeps SchedInv if it is right
\* about p itself.
LEMMA SchedStep ==
    ASSUME TypeInv, SchedInv, NEW p \in Users, NEW from, NEW to,
           \/ Goes(p, from, to) /\ to \notin {"recv", "dev"}
           \/ Stops(p, from, to) /\ to \notin Calling \cup Busy,
           p \in Procs => to \in {"out", "recv"} \cup Calling,
           p = Getter => to \notin {"list", "link", "recv"}
    PROVE  SchedInv'
<1> USE DEF Goes, Stops
<1>1. pc'[p] = to /\ \A q \in Users \ {p} : pc'[q] = pc[q]
  BY DEF TypeInv, TypeOK
<1>2. running' # Nobody => pc'[running'] \notin {"recv", "dev"}
  BY <1>1
<1>3. ASSUME NEW q \in Procs
      PROVE  /\ pc'[q] \in {"out", "recv"} \cup Calling
             /\ pc'[q] \in Calling =>
                   \/ running' = q
                   \/ sliced' /\ q \in HighPrio /\ running' \in High \cup {Nobody}
  <2>1. CASE q = p
    BY <1>1, <2>1
  <2>2. CASE q # p
    <3>1. pc'[q] = pc[q]
      BY <1>1, <2>2 DEF Users
    <3>2. ASSUME pc[q] \in Calling
          PROVE  sliced /\ q \in HighPrio /\ running' \in High \cup {Nobody}
      <4>1. sliced /\ p \in High
        BY <2>2, <3>2, CallingRivals
      <4>2. running # q \/ q \in High
        BY <2>2, <4>1, Distinctness DEF CanRun, Users
      <4>3. running = q => q \in HighPrio
        BY <4>2, TrackAssumption DEF High
      <4> QED
        BY <3>2, <4>1, <4>3 DEF SchedInv
    <3> QED
      BY <3>1, <3>2 DEF SchedInv
  <2> QED
    BY <2>1, <2>2
<1>4. pc'[Getter] \notin {"list", "link", "recv"}
  BY <1>1, Distinctness DEF SchedInv
<1>5. ASSUME pc'[Getter] \in Busy
      PROVE  running' \in High \cup {Nobody} /\ (sliced' \/ running' = Getter)
  <2>1. CASE p = Getter
    BY <1>1, <1>5, <2>1 DEF High
  <2>2. CASE p # Getter
    <3>1. pc[Getter] \in Busy
      BY <1>1, <1>5, <2>2, Distinctness
    <3>2. sliced /\ p \in HighPrio
      BY <2>2, <3>1, BusyRivals
    <3> QED
      BY <3>2 DEF High
  <2> QED
    BY <2>1, <2>2
<1> QED
  BY <1>2, <1>3, <1>4, <1>5 DEF SchedInv

LEMMA SchedCaller ==
    ASSUME TypeInv, CountInv, SchedInv, NEW p \in Users, Enter(p) \/ Proceed(p)
    PROVE  SchedInv'
<1> USE DEF Calling, Busy
<1>1. CASE Enter(p)
  BY <1>1, SchedStep DEF Enter
<1>2. CASE KnownCount(p)
  BY <1>2, SchedStep DEF KnownCount
<1>3. CASE UnknownCount(p)
  <2>1. p # Getter
    <3>1. SUFFICES ASSUME p = Getter PROVE FALSE
      OBVIOUS
    <3>2. ~Unstored(Unit(p))
      BY <1>3, <3>1, UnitType DEF UnknownCount, Goes, CountInv, Unstored, Units
    <3>3. Size[Unit(p)] \in Nat /\ track_count[Unit(p)] = Size[Unit(p)]
      BY <3>2, UnitType, TrackAssumption DEF CountInv
    <3> QED
      BY <1>3, <3>3 DEF UnknownCount
  <2> QED
    BY <1>3, <2>1, SchedStep DEF UnknownCount
<1>4. CASE LockList(p)
  <2>1. p # Getter
    BY <1>4 DEF LockList, Goes, SchedInv
  <2> QED
    BY <1>4, <2>1, SchedStep DEF LockList
<1>5. CASE Link(p)
  <2>1. p # Getter
    BY <1>5 DEF Link, Stops, SchedInv
  <2> QED
    BY <1>5, <2>1, SchedStep DEF Link
<1>6. CASE Recv(p)
  BY <1>6, SchedStep DEF Recv
<1> QED
  BY <1>1, <1>2, <1>3, <1>4, <1>5, <1>6 DEF Proceed

LEMMA SchedGetter ==
    ASSUME TypeInv, SchedInv, GetTrackCount
    PROVE  SchedInv'
<1> USE DEF Calling, Busy
<1>0. Getter \in Users /\ Getter \notin Procs
  BY TrackAssumption DEF Users
<1>1. CASE Ask
  BY <1>0, <1>1, SchedStep DEF Ask
<1>2. CASE GotCount
  BY <1>0, <1>2, SchedStep DEF GotCount
<1>3. CASE LockCount
  BY <1>0, <1>3, SchedStep DEF LockCount
<1>4. CASE StoreCount
  BY <1>0, <1>4, SchedStep DEF StoreCount
<1>5. CASE StartWalk
  BY <1>0, <1>5, SchedStep DEF StartWalk
<1>6. CASE Notify
  BY <1>0, <1>6, SchedStep DEF Notify
<1>7. CASE Advance
  BY <1>0, <1>7, SchedStep DEF Advance
<1>8. CASE EndWalk
  BY <1>0, <1>8, SchedStep DEF EndWalk
<1> QED
  BY <1>1, <1>2, <1>3, <1>4, <1>5, <1>6, <1>7, <1>8 DEF GetTrackCount

LEMMA SchedInvCorrect == Spec => []SchedInv
<1>1. Init => SchedInv
  BY Distinctness, TrackAssumption DEF Init, SchedInv, Users, Calling, Busy
<1>2. TypeInv /\ CountInv /\ SchedInv /\ [Next]_vars => SchedInv'
  <2> SUFFICES ASSUME TypeInv, CountInv, SchedInv, [Next]_vars PROVE SchedInv'
    OBVIOUS
  <2>1. CASE UNCHANGED <<pc, running, sliced>>
    BY <2>1 DEF SchedInv
  <2>2. CASE (\E u \in Units : DeviceDone(u)) \/ UNCHANGED vars
    BY <2>1, <2>2 DEF DeviceDone, vars
  <2> QED
    BY <2>2, SchedCaller, SchedGetter DEF Next
<1> QED
  BY <1>1, <1>2, TypeInvCorrect, CountInvCorrect, PTL DEF Spec

\* A lock that is taken is held by a process that can run: nobody waits at a mutex
\* for one that is itself held up, and none is left taken (275-292, 302-330, 656-685).
THEOREM LockHolderRunsCorrect == Spec => []LockHolderRuns
<1>1. LockInv /\ SchedInv => LockHolderRuns
  <2> SUFFICES ASSUME LockInv, SchedInv PROVE LockHolderRuns
    OBVIOUS
  <2>1. ASSUME NEW p \in Procs, pc[p] \in Calling
        PROVE  CanRun(p)
    <3>1. CASE running = p
      BY <3>1 DEF CanRun
    <3>2. CASE sliced /\ p \in HighPrio /\ running \in High \cup {Nobody}
      BY <3>2 DEF CanRun, High
    <3> QED
      BY <2>1, <3>1, <3>2 DEF SchedInv
  <2>2. pc[Getter] \in Busy => CanRun(Getter)
    BY DEF SchedInv, CanRun, High
  <2>3. \A u : \A p \in InCount(u) : CanRun(p)
    BY <2>1, <2>2 DEF InCount, Calling, Busy, Users
  <2>4. \A u : \A p \in InList(u) : CanRun(p)
    BY <2>1, <2>2 DEF InList, Calling, Busy, Users, SchedInv
  <2> QED
    BY <2>3, <2>4 DEF LockInv, LockHolderRuns
<1> QED
  BY <1>1, LockInvCorrect, SchedInvCorrect, PTL

-----------------------------------------------------------------------------
(***************************************************************************)
(* The lists and the walk over them.                                       *)
(***************************************************************************)

\* When processes of priority 1 make one call each, they never have two to do.
SingleInv == OneCall => \A p \in HighPrio : Len(todo[p]) <= 1

LEMMA SingleTail ==
    ASSUME NEW s \in Seq(CallArgs), s # <<>>, Len(s) <= 1
    PROVE  Tail(s) = <<>>
<1>1. Tail(s) \in Seq(CallArgs) /\ Len(Tail(s)) = Len(s) - 1 /\ Len(s) \in Nat
  BY HeadTailProperties, LenProperties
<1>2. Len(s) # 0
  BY EmptySeq
<1>3. Len(Tail(s)) = 0
  BY <1>1, <1>2
<1> QED
  BY <1>1, <1>3, EmptySeq

\* What a step does to the calls: nothing, or one of them is over.
LEMMA CallsStep ==
    ASSUME TypeInv, [Next]_vars, NEW q \in Users
    PROVE  todo'[q] = todo[q] \/ (todo[q] # <<>> /\ todo'[q] = Tail(todo[q]))
<1> USE DEF callVars, TypeInv, TypeOK
<1>1. CASE UNCHANGED todo
  BY <1>1
<1>2. ASSUME NEW p \in Users, KnownCount(p)
      PROVE  todo'[q] = todo[q] \/ (todo[q] # <<>> /\ todo'[q] = Tail(todo[q]))
  BY <1>2 DEF KnownCount, Stops, Answered
<1>3. ASSUME NEW p \in Users, Recv(p)
      PROVE  todo'[q] = todo[q] \/ (todo[q] # <<>> /\ todo'[q] = Tail(todo[q]))
  BY <1>3 DEF Recv, Stops, Answered
<1>4. ASSUME NEW p \in Users, Enter(p) \/ UnknownCount(p) \/ LockList(p) \/ Link(p)
      PROVE  UNCHANGED todo
  BY <1>4 DEF Enter, UnknownCount, LockList, Link
<1>5. ASSUME GetTrackCount PROVE UNCHANGED todo
  BY <1>5 DEF GetTrackCount, Ask, GotCount, LockCount, StoreCount, StartWalk, Notify,
              Advance, EndWalk
<1>6. ASSUME NEW u \in Units, DeviceDone(u) PROVE UNCHANGED todo
  BY <1>6 DEF DeviceDone
<1> QED
  BY <1>1, <1>2, <1>3, <1>4, <1>5, <1>6 DEF Next, Proceed, vars

LEMMA SingleInvCorrect == Spec => []SingleInv
<1>1. ASSUME Init PROVE SingleInv
  <2>1. PICK f : /\ \A p \in Procs : f[p] \in CallLists[p]
                 /\ todo = [p \in Users |-> IF p = Getter THEN GetterCalls ELSE f[p]]
    BY <1>1 DEF Init
  <2>2. \A p \in HighPrio : p \in Procs /\ p \in Users /\ p # Getter
    BY TrackAssumption DEF Users
  <2>3. \A p \in HighPrio : todo[p] \in CallLists[p]
    BY <2>1, <2>2
  <2> QED
    BY <2>3 DEF SingleInv, OneCall
<1>2. TypeInv /\ SingleInv /\ [Next]_vars => SingleInv'
  <2> SUFFICES ASSUME TypeInv, SingleInv, [Next]_vars, OneCall, NEW p \in HighPrio
               PROVE  Len(todo'[p]) <= 1
    BY DEF SingleInv
  <2>1. p \in Users /\ todo[p] \in Seq(CallArgs) /\ Len(todo[p]) <= 1
    BY TrackAssumption DEF Users, TypeInv, TypeOK, SingleInv
  <2>2. CASE todo'[p] = todo[p]
    BY <2>1, <2>2
  <2>3. CASE todo[p] # <<>> /\ todo'[p] = Tail(todo[p])
    BY <2>1, <2>3, SingleTail
  <2> QED
    BY <2>1, <2>2, <2>3, CallsStep
<1> QED
  BY <1>1, <1>2, TypeInvCorrect, PTL DEF Spec

\* Those who wait in a node for the count of unit u, and those who make no call any
\* more.
Waiting(u) == {p \in Users : pc[p] = "recv" /\ Unit(p) = u}

Over == {p \in Users : pc[p] = "out" /\ todo[p] = <<>>}

\* Somebody is about to put a node on unit u's list.
Linking(u) == \E p \in Procs : pc[p] \in {"list", "link"} /\ Unit(p) = u

\* Up to the walk, a list holds nodes of processes that wait for it.
Fresh(u) ==
    /\ track_list[u] \in Waiting(u) \cup {Nobody}
    /\ \A p \in Waiting(u) : ~mbox[p] /\ next[p] \in Waiting(u) \cup {Nobody}

\* Where somebody links a node, the node at the head has not come to another list.
HeadStays(u) == track_list[u] \in Waiting(u) \cup Over \cup {Nobody}

\* The walk stays in a set S of nodes, whose owners wait for the unit or, when time
\* slices end, have returned for good, and which nobody links a node behind.
WalkIn(S) ==
    /\ curr \in S \cup {Nobody}
    /\ \A p \in S : /\ next[p] \in S \cup {Nobody}
                    /\ p \in Waiting(unit) \/ (sliced /\ p \in Over)
    /\ \A u \in Units \ {unit} : Linking(u) => track_list[u] \notin S

ListInv ==
    /\ \A u \in Units : /\ Unwalked(u) => Fresh(u)
                        /\ Linking(u) => HeadStays(u)
    /\ pc[Getter] \in {"walk", "sent"} => \E S \in SUBSET Users : WalkIn(S)
    /\ \A p \in Users : pc[p] = "recv" /\ mbox[p] => response[p] = Size[Unit(p)]

Orderly == ~sliced \/ OneCall

\* A step of p leaves everybody else waiting or over.
LEMMA OthersWait ==
    ASSUME TypeInv, NEW p \in Users, NEW to,
           pc' = [pc EXCEPT ![p] = to],
           \A q \in Users \ {p} : todo'[q] = todo[q]
    PROVE  \A q \in Users \ {p} : /\ \A u : q \in Waiting(u)' <=> q \in Waiting(u)
                                  /\ q \in Over' <=> q \in Over
                                  /\ pc'[q] = pc[q] /\ Unit(q)' = Unit(q)
<1> SUFFICES ASSUME NEW q \in Users \ {p}
             PROVE  /\ \A u : q \in Waiting(u)' <=> q \in Waiting(u)
                    /\ q \in Over' <=> q \in Over
                    /\ pc'[q] = pc[q] /\ Unit(q)' = Unit(q)
  OBVIOUS
<1>1. pc'[q] = pc[q] /\ todo'[q] = todo[q] /\ Unit(q)' = Unit(q)
  BY DEF Unit, TypeInv, TypeOK
<1> QED
  BY <1>1 DEF Waiting, Over

\* A caller that neither links its node nor waits in it.
LEMMA ListMoves ==
    ASSUME TypeInv, CountInv, SchedInv, ListInv, NEW p \in Users,
           Enter(p) \/ KnownCount(p) \/ UnknownCount(p) \/ LockList(p)
    PROVE  ListInv'
<1> DEFINE Outside == {"out", "count", "list", "link"}
<1>1. /\ UNCHANGED <<track_list, next, response, mbox, unit, curr, track_count, sliced>>
      /\ \E to : pc' = [pc EXCEPT ![p] = to]
      /\ pc[p] \in Outside /\ pc'[p] \in Outside
      /\ pc[p] = "out" => todo[p] # <<>>
  BY DEF Enter, KnownCount, UnknownCount, LockList, Goes, Stops, countVars, listVars,
         getVars, TypeInv, TypeOK
<1>2. \A q \in Users \ {p} : todo'[q] = todo[q]
  BY DEF Enter, KnownCount, UnknownCount, LockList, Answered, callVars, TypeInv, TypeOK
<1>3. \A q \in Users \ {p} : /\ \A u : q \in Waiting(u)' <=> q \in Waiting(u)
                             /\ q \in Over' <=> q \in Over
                             /\ pc'[q] = pc[q] /\ Unit(q)' = Unit(q)
  BY <1>1, <1>2, OthersWait
<1>4. /\ \A u : p \notin Waiting(u) /\ p \notin Waiting(u)'
      /\ p \notin Over
  BY <1>1 DEF Waiting, Over
<1>5. \A u : Waiting(u)' = Waiting(u)
  BY <1>3, <1>4 DEF Waiting
<1>6. Over \subseteq Over'
  BY <1>3, <1>4 DEF Over
<1>7. \A u : Unwalked(u)' => Unwalked(u)
  <2>1. pc'[Getter] = pc[Getter] \/ pc'[Getter] \in Outside
    BY <1>1, <1>3, Distinctness
  <2> QED
    BY <1>1, <2>1 DEF Unwalked
<1>8. \A u : Linking(u)' => Linking(u) \/ (UnknownCount(p) /\ u = Unit(p))
  <2> SUFFICES ASSUME NEW u, NEW q \in Procs, pc'[q] \in {"list", "link"}, Unit(q)' = u
               PROVE  Linking(u) \/ (UnknownCount(p) /\ u = Unit(p))
    BY DEF Linking
  <2>1. CASE q # p
    BY <1>3, <2>1 DEF Linking, Users
  <2>2. CASE q = p
    <3>1. UnknownCount(p) \/ LockList(p)
      BY <1>1, <2>2 DEF Enter, KnownCount, Goes, Stops, TypeInv, TypeOK
    <3>2. Unit(p)' = Unit(p)
      BY <3>1 DEF UnknownCount, LockList, callVars, Unit
    <3> QED
      BY <2>2, <3>1, <3>2 DEF LockList, Goes, Linking
  <2> QED
    BY <2>1, <2>2
<1>9. UnknownCount(p) => Fresh(Unit(p)) /\ (pc[Getter] \in {"walk", "sent"} => unit # Unit(p))
  <2> SUFFICES ASSUME UnknownCount(p)
               PROVE  Fresh(Unit(p)) /\ (pc[Getter] \in {"walk", "sent"} => unit # Unit(p))
    OBVIOUS
  <2>1. Unstored(Unit(p))
    <3>1. track_count[Unit(p)] < 0 /\ Size[Unit(p)] \in Nat
      BY UnitType, TrackAssumption DEF UnknownCount
    <3> QED
      BY <3>1, UnitType DEF CountInv
  <2>2. unit \in {0, 1} /\ Unit(p) \in {0, 1}
    BY UnitType DEF TypeInv, TypeOK, Units
  <2>3. Unwalked(Unit(p)) /\ (pc[Getter] \in {"walk", "sent"} => unit # Unit(p))
    BY <2>1, <2>2 DEF Unstored, Unwalked
  <2> QED
    BY <2>3, UnitType DEF ListInv
<1>10. ASSUME NEW u \in Units
       PROVE  (Unwalked(u)' => Fresh(u)') /\ (Linking(u)' => HeadStays(u)')
  <2>1. ASSUME Unwalked(u)' PROVE Fresh(u)'
    <3>1. Fresh(u)
      BY <1>7, <2>1 DEF ListInv
    <3> QED
      BY <1>1, <1>5, <3>1 DEF Fresh
  <2>2. ASSUME Linking(u)' PROVE HeadStays(u)'
    <3>1. HeadStays(u) \/ Fresh(u)
      BY <1>8, <1>9, <2>2 DEF ListInv
    <3>2. track_list[u] \in Waiting(u) \cup Over \cup {Nobody}
      BY <3>1 DEF HeadStays, Fresh
    <3> QED
      BY <1>1, <1>5, <1>6, <3>2 DEF HeadStays
  <2> QED
    BY <2>1, <2>2
<1>11. ASSUME pc'[Getter] \in {"walk", "sent"}
       PROVE  \E S \in SUBSET Users : WalkIn(S)'
  <2>1. pc[Getter] \in {"walk", "sent"}
    BY <1>1, <1>3, <1>11, Distinctness
  <2>2. PICK S \in SUBSET Users : WalkIn(S)
    BY <2>1 DEF ListInv
  <2>3. \A q \in S : q \in Waiting(unit) \/ (sliced /\ q \in Over')
    BY <1>6, <2>2 DEF WalkIn
  <2>4. ASSUME NEW u \in Units \ {unit}, Linking(u)'
        PROVE  track_list[u] \notin S
    <3>1. CASE Linking(u)
      BY <2>2, <3>1 DEF WalkIn
    <3>2. CASE UnknownCount(p) /\ u = Unit(p)
      <4>1. track_list[u] \in Waiting(u) \cup {Nobody}
        BY <1>9, <3>2 DEF Fresh
      <4>2. \A q \in S : q \notin Waiting(u) /\ q # Nobody
        BY <2>2, Distinctness DEF WalkIn, Waiting, Over
      <4> QED
        BY <4>1, <4>2
    <3> QED
      BY <1>8, <2>4, <3>1, <3>2
  <2>5. WalkIn(S)'
    BY <1>1, <1>5, <2>2, <2>3, <2>4 DEF WalkIn
  <2> QED
    BY <2>5
<1>12. ASSUME NEW q \in Users, pc'[q] = "recv", mbox'[q]
       PROVE  response'[q] = Size[Unit(q)']
  BY <1>1, <1>3, <1>12 DEF ListInv
<1> QED
  BY <1>10, <1>11, <1>12 DEF ListInv

\* A process that links its node.
LEMMA ListLink ==
    ASSUME TypeInv, LockInv, SchedInv, ListInv, NEW p \in Users, Link(p)
    PROVE  ListInv'
<1>0. PICK v \in Units : v = Unit(p)
  BY UnitType
<1> DEFINE head == track_list[v]
<1>1. /\ UNCHANGED <<response, unit, curr, sliced, todo>>
      /\ pc[p] = "link" /\ pc' = [pc EXCEPT ![p] = "recv"] /\ pc'[p] = "recv"
      /\ mbox' = [mbox EXCEPT ![p] = FALSE]
      /\ p # Getter /\ p \in Procs /\ p # Nobody
  BY Distinctness
  DEF Link, Stops, callVars, getVars, SchedInv, Users, TypeInv, TypeOK
<1>2. \A q \in Users \ {p} : /\ \A u : q \in Waiting(u)' <=> q \in Waiting(u)
                             /\ q \in Over' <=> q \in Over
                             /\ pc'[q] = pc[q] /\ Unit(q)' = Unit(q)
  BY <1>1, OthersWait
<1>3. /\ Unit(p)' = v
      /\ \A u : p \notin Waiting(u) /\ (p \in Waiting(u)' <=> u = v)
      /\ p \notin Over
  BY <1>0, <1>1 DEF Unit, Waiting, Over
<1>4. /\ \A u : u # v => Waiting(u)' = Waiting(u)
      /\ Waiting(v)' = Waiting(v) \cup {p}
      /\ Over \subseteq Over'
  BY <1>2, <1>3 DEF Waiting, Over
<1>5. /\ pc'[Getter] = pc[Getter]
      /\ \A u : Unwalked(u)' <=> Unwalked(u)
  BY <1>1, <1>2, Distinctness DEF Unwalked
<1>6. /\ Linking(v)
      /\ \A u : Linking(u)' => Linking(u)
  BY <1>0, <1>1, <1>2, <1>3 DEF Linking, Users
<1>7. head \in Waiting(v) \cup Over \cup {Nobody} /\ head # p
  BY <1>1, <1>3, <1>6 DEF ListInv, HeadStays
<1>8. /\ track_list'[v] \in {head, p} /\ track_list'[v] # Nobody
      /\ \A u \in Units \ {v} : track_list'[u] = track_list[u]
      /\ next'[p] = IF head = Nobody THEN Nobody ELSE next[head]
      /\ head # Nobody => next'[head] = p
      /\ \A q \in Users \ {p, head} : next'[q] = next[q]
  BY <1>0, <1>1, <1>7 DEF Link, Inserted, TypeInv, TypeOK
<1>9. \A q \in Users \ {p} : mbox'[q] = mbox[q]
  BY <1>1 DEF TypeInv, TypeOK
<1>10. ~mbox'[p]
  BY <1>1 DEF TypeInv, TypeOK
<1>11. ASSUME NEW u \in Units, Unwalked(u)'
       PROVE  Fresh(u)'
  <2>1. Fresh(u)
    BY <1>5, <1>11 DEF ListInv
  <2>2. CASE u = v
    <3>1. track_list'[u] \in Waiting(u)'
      BY <1>4, <1>8, <2>1, <2>2 DEF Fresh
    <3>2. ASSUME NEW q \in Waiting(u)'
          PROVE  ~mbox'[q] /\ next'[q] \in Waiting(u)' \cup {Nobody}
      <4>1. CASE q = p
        BY <1>4, <1>8, <1>10, <2>1, <2>2, <4>1 DEF Fresh
      <4>2. CASE q # p
        <5>1. q \in Waiting(u) /\ q \in Users
          BY <1>4, <2>2, <3>2, <4>2 DEF Waiting
        <5> QED
          BY <1>4, <1>8, <1>9, <2>1, <2>2, <4>2, <5>1, Distinctness DEF Fresh
      <4> QED
        BY <4>1, <4>2
    <3> QED
      BY <3>1, <3>2 DEF Fresh
  <2>3. CASE u # v
    <3>1. ASSUME NEW q \in Waiting(u)
          PROVE  mbox'[q] = mbox[q] /\ next'[q] = next[q]
      <4>1. q \in Users \ {p}
        BY <1>3 DEF Waiting
      <4>2. q # head
        BY <1>7, <2>3, <4>1, Distinctness DEF Waiting, Over
      <4> QED
        BY <1>8, <1>9, <4>1, <4>2
    <3> QED
      BY <1>4, <1>8, <2>1, <2>3, <3>1 DEF Fresh
  <2> QED
    BY <2>2, <2>3
<1>12. ASSUME NEW u \in Units, Linking(u)'
       PROVE  HeadStays(u)'
  <2>1. track_list[u] \in Waiting(u) \cup Over \cup {Nobody}
    BY <1>6, <1>12 DEF ListInv, HeadStays
  <2> QED
    BY <1>4, <1>8, <2>1 DEF HeadStays
<1>13. ASSUME pc'[Getter] \in {"walk", "sent"}
       PROVE  \E S \in SUBSET Users : WalkIn(S)'
  <2>1. PICK S \in SUBSET Users : WalkIn(S)
    BY <1>5, <1>13 DEF ListInv
  <2>2. unit # v
    <3>1. SUFFICES ASSUME unit = v PROVE FALSE
      OBVIOUS
    <3>2. p \in InList(v) /\ Getter \in InList(v)
      BY <1>0, <1>1, <1>5, <1>13, <3>1 DEF InList
    <3> QED
      BY <1>1, <3>2 DEF LockInv, MutualExclusion
  <2>3. p \notin S /\ head \notin S
    BY <1>1, <1>3, <1>6, <2>1, <2>2 DEF WalkIn
  <2>4. PICK w \in Units : w = unit
    BY DEF TypeInv, TypeOK
  <2>7. ASSUME NEW q \in S
        PROVE  /\ next'[q] \in S \cup {Nobody}
               /\ q \in Waiting(w)' \/ (sliced /\ q \in Over')
    BY <1>4, <1>8, <2>1, <2>2, <2>3, <2>4 DEF WalkIn
  <2>5. ASSUME NEW u \in Units \ {unit}, Linking(u)'
        PROVE  track_list'[u] \notin S
    BY <1>6, <1>8, <2>1, <2>3, <2>5 DEF WalkIn
  <2>6. WalkIn(S)'
    BY <1>1, <2>1, <2>4, <2>5, <2>7 DEF WalkIn
  <2> QED
    BY <2>6
<1>14. ASSUME NEW q \in Users, pc'[q] = "recv", mbox'[q]
       PROVE  response'[q] = Size[Unit(q)']
  BY <1>1, <1>2, <1>9, <1>10, <1>14 DEF ListInv
<1> QED
  BY <1>11, <1>12, <1>13, <1>14 DEF ListInv

\* A process that has its message.
LEMMA ListRecv ==
    ASSUME TypeInv, SchedInv, SingleInv, Orderly, ListInv, NEW p \in Users, Recv(p)
    PROVE  ListInv'
<1>1. /\ UNCHANGED <<response, unit, curr, sliced, next, track_list>>
      /\ pc[p] = "recv" /\ mbox[p] /\ pc' = [pc EXCEPT ![p] = "out"] /\ pc'[p] = "out"
      /\ mbox' = [mbox EXCEPT ![p] = FALSE]
      /\ p # Getter /\ p \in Procs /\ CanRun(p) /\ running # p
  BY Distinctness
  DEF Recv, Stops, getVars, SchedInv, Users, TypeInv, TypeOK
<1>2. \A q \in Users \ {p} : todo'[q] = todo[q]
  BY DEF Recv, Answered, TypeInv, TypeOK
<1>3. \A q \in Users \ {p} : /\ \A u : q \in Waiting(u)' <=> q \in Waiting(u)
                             /\ q \in Over' <=> q \in Over
                             /\ pc'[q] = pc[q] /\ Unit(q)' = Unit(q)
  BY <1>1, <1>2, OthersWait
<1>4. /\ \A u : Waiting(u)' = Waiting(u) \ {p}
      /\ Over \subseteq Over'
  BY <1>1, <1>3 DEF Waiting, Over
<1>5. /\ pc'[Getter] = pc[Getter]
      /\ \A u : Unwalked(u)' <=> Unwalked(u)
      /\ \A u : Linking(u)' => Linking(u)
  BY <1>1, <1>3, Distinctness DEF Unwalked, Linking, Users
<1>6. sliced /\ p \in HighPrio => p \in Over'
  <2> SUFFICES ASSUME sliced, p \in HighPrio PROVE p \in Over'
    OBVIOUS
  <2>1. todo[p] # <<>> /\ todo[p] \in Seq(CallArgs) /\ Len(todo[p]) <= 1
    BY <1>1 DEF Orderly, SingleInv, TypeInv, TypeOK
  <2>2. todo'[p] = Tail(todo[p])
    BY DEF Recv, Answered, TypeInv, TypeOK
  <2> QED
    BY <1>1, <2>1, <2>2, SingleTail DEF Over
<1>7. ASSUME NEW u \in Units, Unwalked(u)'
      PROVE  Fresh(u)'
  <2>1. Fresh(u)
    BY <1>5, <1>7 DEF ListInv
  <2>2. p \notin Waiting(u)
    BY <1>1, <2>1 DEF Fresh
  <2>3. \A q \in Waiting(u) : mbox'[q] = mbox[q]
    BY <1>1, <2>2 DEF Waiting, TypeInv, TypeOK
  <2> QED
    BY <1>1, <1>4, <2>1, <2>2, <2>3 DEF Fresh
<1>8. ASSUME NEW u \in Units, Linking(u)'
      PROVE  HeadStays(u)'
  <2>1. track_list[u] \in Waiting(u) \cup Over \cup {Nobody}
    BY <1>5, <1>8 DEF ListInv, HeadStays
  <2>2. PICK q \in Procs : pc[q] \in {"list", "link"}
    BY <1>5, <1>8 DEF Linking
  <2>3. sliced /\ p \in High
    BY <1>1, <2>2, CallingRivals DEF Calling
  <2>4. p \in Over'
    BY <1>1, <1>6, <2>3 DEF High
  <2> QED
    BY <1>1, <1>4, <2>1, <2>4 DEF HeadStays
<1>9. ASSUME pc'[Getter] \in {"walk", "sent"}
      PROVE  \E S \in SUBSET Users : WalkIn(S)'
  <2>1. PICK S \in SUBSET Users : WalkIn(S)
    BY <1>5, <1>9 DEF ListInv
  <2>2. sliced /\ p \in HighPrio
    BY <1>1, <1>5, <1>9, BusyRivals DEF Busy
  <2>3. PICK w \in Units : w = unit
    BY DEF TypeInv, TypeOK
  <2>4. \A q \in S : q \in Waiting(w)' \/ (sliced /\ q \in Over')
    BY <1>4, <1>6, <2>1, <2>2, <2>3 DEF WalkIn
  <2>5. WalkIn(S)'
    BY <1>1, <1>5, <2>1, <2>3, <2>4 DEF WalkIn
  <2> QED
    BY <2>5
<1>10. ASSUME NEW q \in Users, pc'[q] = "recv", mbox'[q]
       PROVE  response'[q] = Size[Unit(q)']
  <2>1. q # p
    BY <1>1, <1>10
  <2>2. mbox'[q] = mbox[q]
    BY <1>1, <2>1 DEF TypeInv, TypeOK
  <2> QED
    BY <1>1, <1>3, <1>10, <2>1, <2>2 DEF ListInv
<1> QED
  BY <1>7, <1>8, <1>9, <1>10 DEF ListInv

\* A step of get_track_count leaves the callers where they are.
LEMMA GetterFrame ==
    ASSUME TypeInv, SchedInv, GetTrackCount
    PROVE  /\ UNCHANGED <<todo, track_list, next, sliced>>
           /\ pc[Getter] \notin {"out", "list", "link", "recv"}
           /\ \A q \in Users \ {Getter} : pc'[q] = pc[q]
           /\ pc'[Getter] # "recv"
           /\ \A q : Unit(q)' = Unit(q)
           /\ \A u : Waiting(u)' = Waiting(u)
           /\ Over \subseteq Over'
           /\ \A u : Linking(u)' <=> Linking(u)
<1> USE DEF Goes, Stops
<1>1. /\ UNCHANGED <<todo, track_list, next, sliced>>
      /\ pc[Getter] \notin {"out", "list", "link", "recv"}
      /\ pc'[Getter] # "recv"
      /\ \A q \in Users \ {Getter} : pc'[q] = pc[q]
  BY Distinctness DEF GetTrackCount, Ask, GotCount, LockCount, StoreCount, StartWalk, Notify,
              Advance, EndWalk, callVars, countVars, listVars, TypeInv, TypeOK
<1>2. \A q : Unit(q)' = Unit(q)
  BY <1>1 DEF Unit
<1>3. \A u : Waiting(u)' = Waiting(u)
  BY <1>1, <1>2 DEF Waiting
<1>4. Over \subseteq Over'
  BY <1>1 DEF Over
<1>5. \A u : Linking(u)' <=> Linking(u)
  BY <1>1, <1>2, TrackAssumption DEF Linking, Users
<1> QED
  BY <1>1, <1>2, <1>3, <1>4, <1>5

LEMMA ListGetter ==
    ASSUME TypeInv, CountInv, SchedInv, ListInv, GetTrackCount
    PROVE  ListInv'
<1> USE DEF Goes, Stops
<1> DEFINE Walk == {"walk", "sent"}
<1>0. PICK w \in Units : w = unit
  BY DEF TypeInv, TypeOK
<1>1. /\ UNCHANGED <<todo, track_list, next, sliced>>
      /\ pc[Getter] \notin {"out", "list", "link", "recv"}
      /\ \A q \in Users \ {Getter} : pc'[q] = pc[q]
      /\ pc'[Getter] # "recv"
      /\ \A q : Unit(q)' = Unit(q)
      /\ \A u : Waiting(u)' = Waiting(u)
      /\ Over \subseteq Over'
      /\ \A u : Linking(u)' <=> Linking(u)
  BY GetterFrame
<1>2. \A to : [pc EXCEPT ![Getter] = to][Getter] = to
  BY Distinctness DEF TypeInv, TypeOK
<1>3. \A u \in Units : Linking(u)' => HeadStays(u)'
  BY <1>1 DEF ListInv, HeadStays
<1>4. ASSUME ~Notify
      PROVE  UNCHANGED <<mbox, response>>
  BY <1>4 DEF GetTrackCount, Ask, GotCount, LockCount, StoreCount, StartWalk, Advance, EndWalk,
              listVars
<1>5. \A u \in Units : Unwalked(u)' => Unwalked(u)
  <2>1. CASE Ask \/ GotCount \/ LockCount \/ StoreCount
    <3>1. /\ UNCHANGED unit
          /\ pc[Getter] \in {"ask", "dev", "got", "store", "stored"}
      BY <2>1 DEF Ask, GotCount, LockCount, StoreCount, getVars
    <3> QED
      BY <3>1 DEF Unwalked
  <2>2. CASE StartWalk \/ Notify \/ Advance
    <3>1. UNCHANGED unit /\ pc'[Getter] \in Walk
      BY <1>2, <2>2 DEF StartWalk, Notify, Advance, getVars
    <3> QED
      BY <3>1 DEF Unwalked
  <2>3. CASE EndWalk
    <3>1. /\ unit' = 1
          /\ unit = 0 \/ (unit = 1 /\ pc'[Getter] = "out")
      BY <1>2, <2>3 DEF EndWalk
    <3> QED
      BY <3>1 DEF Unwalked, Units
  <2> QED
    BY <2>1, <2>2, <2>3 DEF GetTrackCount
<1>6. CASE Notify
  <2>1. /\ curr # Nobody /\ curr \in Users /\ UNCHANGED <<unit, curr>>
        /\ pc[Getter] = "walk" /\ pc'[Getter] = "sent"
        /\ response' = [response EXCEPT ![curr] = track_count[unit]]
        /\ mbox' = [mbox EXCEPT ![curr] = TRUE]
    BY <1>2, <1>6 DEF Notify, getVars, TypeInv, TypeOK
  <2>2. PICK S \in SUBSET Users : WalkIn(S)
    BY <2>1 DEF ListInv
  <2>3. curr \in Waiting(w) \/ (sliced /\ curr \in Over)
    BY <1>0, <2>1, <2>2 DEF WalkIn
  <2>4. ASSUME NEW u \in Units, Unwalked(u)'
        PROVE  Fresh(u)'
    <3>1. Fresh(u)
      BY <1>5, <2>4 DEF ListInv
    <3>2. u # w
      BY <1>0, <2>1, <2>4 DEF Unwalked, Units
    <3>3. \A q \in Waiting(u) : mbox'[q] = mbox[q]
      BY <2>1, <2>3, <3>2 DEF Waiting, Over, TypeInv, TypeOK
    <3> QED
      BY <1>1, <3>1, <3>3 DEF Fresh
  <2>5. WalkIn(S)'
    BY <1>0, <1>1, <2>1, <2>2 DEF WalkIn
  <2>6. ASSUME NEW q \in Users, pc'[q] = "recv", mbox'[q]
        PROVE  response'[q] = Size[Unit(q)']
    <3>1. pc[q] = "recv"
      BY <1>1, <2>6
    <3>2. CASE q = curr
      <4>1. Unit(q) = w
        BY <2>3, <3>1, <3>2 DEF Waiting, Over
      <4>2. track_count[w] = Size[w]
        <5>1. ~Unstored(w)
          BY <1>0, <2>1 DEF Unstored, Units
        <5> QED
          BY <5>1 DEF CountInv
      <4> QED
        BY <1>0, <1>1, <2>1, <3>2, <4>1, <4>2 DEF TypeInv, TypeOK
    <3>3. CASE q # curr
      <4>1. mbox'[q] = mbox[q] /\ response'[q] = response[q]
        BY <2>1, <3>3 DEF TypeInv, TypeOK
      <4> QED
        BY <1>1, <2>6, <3>1, <4>1 DEF ListInv
    <3> QED
      BY <3>2, <3>3
  <2> QED
    BY <1>3, <2>4, <2>5, <2>6 DEF ListInv
<1>7. CASE ~Notify
  <2>1. ASSUME NEW u \in Units, Unwalked(u)'
        PROVE  Fresh(u)'
    <3>1. Fresh(u)
      BY <1>5, <2>1 DEF ListInv
    <3> QED
      BY <1>1, <1>4, <1>7, <3>1 DEF Fresh
  <2>2. ASSUME NEW q \in Users, pc'[q] = "recv", mbox'[q]
        PROVE  response'[q] = Size[Unit(q)']
    BY <1>1, <1>4, <1>7, <2>2 DEF ListInv
  <2>3. ASSUME pc'[Getter] \in Walk
        PROVE  \E S \in SUBSET Users : WalkIn(S)'
    <3>1. CASE StartWalk
      <4>1. /\ UNCHANGED unit /\ curr' = track_list[w] /\ pc[Getter] = "stored"
        BY <1>0, <3>1 DEF StartWalk
      <4>2. Fresh(w)
        BY <1>0, <4>1 DEF Unwalked, ListInv
      <4>3. ASSUME NEW u \in Units \ {w}, Linking(u)
            PROVE  track_list[u] \notin Waiting(w)
        BY <4>3, Distinctness DEF ListInv, HeadStays, Waiting, Over
      <4>4. Waiting(w) \in SUBSET Users
        BY DEF Waiting
      <4>5. PICK S \in SUBSET Users : S = Waiting(w)
        BY <4>4
      <4>6. WalkIn(S)'
        BY <1>0, <1>1, <4>1, <4>2, <4>3, <4>5 DEF WalkIn, Fresh
      <4> QED
        BY <4>6
    <3>2. CASE Advance
      <4>1. /\ UNCHANGED unit /\ curr' \in {next[curr], Nobody} /\ pc[Getter] = "sent"
            /\ curr # Nobody
        BY <3>2 DEF Advance, TypeInv
      <4>2. PICK S \in SUBSET Users : WalkIn(S)
        BY <4>1 DEF ListInv
      <4>3. curr' \in S \cup {Nobody}
        BY <4>1, <4>2 DEF WalkIn
      <4>4. WalkIn(S)'
        BY <1>0, <1>1, <4>1, <4>2, <4>3 DEF WalkIn
      <4> QED
        BY <4>4
    <3> QED
      BY <1>2, <1>7, <2>3, <3>1, <3>2 DEF GetTrackCount, Ask, GotCount, LockCount, StoreCount,
         EndWalk
  <2> QED
    BY <1>3, <2>1, <2>2, <2>3 DEF ListInv
<1> QED
  BY <1>6, <1>7

LEMMA ListInit == Init => ListInv
<1> SUFFICES ASSUME Init PROVE ListInv
  OBVIOUS
<1>1. /\ \A p \in Users : pc[p] \in {"ask", "out"}
      /\ \A u \in Units : track_list[u] = Nobody
  BY DEF Init
<1>2. \A u : Waiting(u) = {} /\ ~Linking(u)
  BY <1>1 DEF Waiting, Linking, Users
<1>3. \A u \in Units : Fresh(u)
  BY <1>1, <1>2 DEF Fresh
<1> QED
  BY <1>1, <1>2, <1>3, Distinctness DEF ListInv

LEMMA ListInvCorrect == Spec => [](Orderly => ListInv)
<1>1. Init => (Orderly => ListInv)
  BY ListInit
<1>2. TypeInv /\ LockInv /\ CountInv /\ SchedInv /\ SingleInv /\ (Orderly => ListInv)
        /\ [Next]_vars => (Orderly => ListInv)'
  <2> SUFFICES ASSUME TypeInv, LockInv, CountInv, SchedInv, SingleInv, Orderly => ListInv,
                      [Next]_vars, Orderly'
               PROVE  ListInv'
    OBVIOUS
  <2>1. UNCHANGED sliced
    BY DEF Next, Proceed, GetTrackCount, Enter, KnownCount, UnknownCount, LockList, Link, Recv,
           Ask, GotCount, LockCount, StoreCount, StartWalk, Notify, Advance, EndWalk,
           DeviceDone, Goes, Stops, vars
  <2>2. Orderly /\ ListInv
    BY <2>1 DEF Orderly
  <2>3. CASE UNCHANGED <<pc, todo, track_list, next, response, mbox, unit, curr, sliced>>
    BY <2>2, <2>3 DEF ListInv, Fresh, HeadStays, WalkIn, Waiting, Over, Linking, Unwalked, Unit
  <2>4. CASE (\E u \in Units : DeviceDone(u)) \/ UNCHANGED vars
    BY <2>3, <2>4 DEF DeviceDone, vars, callVars, countVars, listVars, getVars
  <2> QED
    BY <2>2, <2>4, ListMoves, ListLink, ListRecv, ListGetter DEF Next, Proceed
<1> QED
  BY <1>1, <1>2, TypeInvCorrect, LockInvCorrect, CountInvCorrect, SchedInvCorrect,
     SingleInvCorrect, PTL DEF Spec

\* As long as no time slice ends in between, get_track_count walks over nodes whose
\* owners still wait in the frame the node lives in (662-668).
THEOREM NodesLiveCorrect == Spec => []NodesLive
<1>1. (Orderly => ListInv) => NodesLive
  BY DEF Orderly, ListInv, WalkIn, Waiting, NodesLive
<1> QED
  BY <1>1, ListInvCorrect, PTL

\* DiskSize reports the number of tracks of the disk it was asked about, wherever time
\* slices end, when processes of priority 1 make one call each (278-281, 343-344, 663).
THEOREM RightCountCorrect == ASSUME OneCall PROVE Spec => RightCount
<1> DEFINE Right(p) == todo'[p] # todo[p] /\ Head(todo[p]).kind = "size"
                          => answer'[p][Unit(p)] = Size[Unit(p)]
<1>1. TypeInv /\ CountInv /\ (Orderly => ListInv) /\ [Next]_vars => \A p \in Users : Right(p)
  <2> SUFFICES ASSUME TypeInv, CountInv, ListInv, [Next]_vars, NEW p \in Users,
                      todo'[p] # todo[p], Head(todo[p]).kind = "size"
               PROVE  answer'[p][Unit(p)] = Size[Unit(p)]
    BY DEF Orderly
  <2>1. Unit(p) \in Units
    BY UnitType
  <2>2. ASSUME NEW count, NEW q \in Users, Answered(q, count)
        PROVE  q = p /\ answer'[p][Unit(p)] = count
    BY <2>1, <2>2 DEF Answered, TypeInv, TypeOK
  <2>3. ASSUME NEW q \in Users, KnownCount(q)
        PROVE  answer'[p][Unit(p)] = Size[Unit(p)]
    <3>1. Answered(q, track_count[Unit(q)]) /\ track_count[Unit(q)] > -1
      BY <2>3 DEF KnownCount
    <3>2. q = p /\ answer'[p][Unit(p)] = track_count[Unit(q)]
      BY <2>2, <3>1
    <3> QED
      BY <2>1, <3>1, <3>2 DEF CountInv
  <2>4. ASSUME NEW q \in Users, Recv(q)
        PROVE  answer'[p][Unit(p)] = Size[Unit(p)]
    <3>1. Answered(q, response[q]) /\ mbox[q] /\ pc[q] = "recv"
      BY <2>4 DEF Recv, Stops
    <3>2. q = p /\ answer'[p][Unit(p)] = response[q]
      BY <2>2, <3>1
    <3> QED
      BY <3>1, <3>2 DEF ListInv
  <2>5. ASSUME NEW q \in Users, Enter(q) \/ UnknownCount(q) \/ LockList(q) \/ Link(q)
        PROVE  FALSE
    BY <2>5 DEF Enter, UnknownCount, LockList, Link, callVars
  <2>6. ~GetTrackCount
    BY GetterFrame DEF GetTrackCount, Ask, GotCount, LockCount, StoreCount, StartWalk, Notify,
       Advance, EndWalk, callVars
  <2>7. ~(\E u \in Units : DeviceDone(u)) /\ ~UNCHANGED vars
    BY DEF DeviceDone, callVars, vars
  <2> QED
    BY <2>3, <2>4, <2>5, <2>6, <2>7 DEF Next, Proceed
<1> QED
  BY <1>1, TypeInvCorrect, CountInvCorrect, ListInvCorrect, PTL DEF Spec, RightCount
-----------------------------------------------------------------------------
(***************************************************************************)
(* Nobody is forgotten.                                                    *)
(***************************************************************************)

\* NoneForgotten, strengthened: who is about to link its node comes in time, for the
\* count of its unit has still to be stored.
WayInv ==
    ~sliced =>
       /\ NoneForgotten
       /\ \A p \in Procs : pc[p] \in {"list", "link"} => Unstored(Unit(p))

\* A caller that neither links its node nor waits in it.
LEMMA WayMoves ==
    ASSUME TypeInv, CountInv, SchedInv, WayInv, NEW p \in Users,
           Enter(p) \/ KnownCount(p) \/ UnknownCount(p) \/ LockList(p)
    PROVE  WayInv'
<1> SUFFICES ASSUME ~sliced' PROVE WayInv'
  BY DEF WayInv
<1> DEFINE Outside == {"out", "count", "list", "link"}
<1>1. /\ UNCHANGED <<track_list, next, mbox, unit, curr, track_count, sliced>>
      /\ \E to : pc' = [pc EXCEPT ![p] = to]
      /\ pc[p] \in Outside /\ pc'[p] \in Outside
  BY DEF Enter, KnownCount, UnknownCount, LockList, Goes, Stops, countVars, listVars,
         getVars, TypeInv, TypeOK
<1>2. \A q \in Users \ {p} : todo'[q] = todo[q]
  BY DEF Enter, KnownCount, UnknownCount, LockList, Answered, callVars, TypeInv, TypeOK
<1>3. \A q \in Users \ {p} : pc'[q] = pc[q] /\ Unit(q)' = Unit(q)
  BY <1>1, <1>2, OthersWait
<1>4. \/ pc'[Getter] = pc[Getter]
      \/ pc[Getter] \in Outside /\ pc'[Getter] \in Outside
  BY <1>1, <1>3, Distinctness
<1>5. \A u : Ahead(u)' = Ahead(u) /\ Unstored(u)' = Unstored(u)
  BY <1>1, <1>4 DEF Ahead, Unwalked, Unstored
<1>6. ASSUME NEW q \in Users, pc'[q] = "recv", ~mbox'[q]
      PROVE  Leads(Ahead(Unit(q)), q)'
  <2>1. q # p /\ pc[q] = "recv" /\ ~mbox[q] /\ Unit(q)' = Unit(q)
    BY <1>1, <1>3, <1>6
  <2>2. Leads(Ahead(Unit(q)), q)
    BY <1>1, <2>1 DEF WayInv, NoneForgotten
  <2>3. Ahead(Unit(q))' = Ahead(Unit(q))
    BY <1>5, <2>1
  <2> QED
    BY <1>1, <2>2, <2>3 DEF Leads
<1>7. ASSUME NEW q \in Procs, pc'[q] \in {"list", "link"}
      PROVE  Unstored(Unit(q))'
  <2>1. CASE q # p
    <3>1. pc[q] \in {"list", "link"} /\ Unit(q)' = Unit(q)
      BY <1>3, <1>7, <2>1 DEF Users
    <3> QED
      BY <1>1, <1>5, <3>1 DEF WayInv
  <2>2. CASE q = p
    <3>1. UnknownCount(p) \/ LockList(p)
      BY <1>1, <1>7, <2>2 DEF Enter, KnownCount, Goes, Stops, TypeInv, TypeOK
    <3>2. Unit(p)' = Unit(p)
      BY <3>1 DEF UnknownCount, LockList, callVars, Unit
    <3>3. CASE UnknownCount(p)
      <4>1. track_count[Unit(p)] < 0 /\ Size[Unit(p)] \in Nat
        BY <3>3, UnitType, TrackAssumption DEF UnknownCount
      <4>2. Unstored(Unit(p))
        BY <4>1, UnitType DEF CountInv
      <4> QED
        BY <1>5, <2>2, <3>2, <4>2
    <3>4. CASE LockList(p)
      <4>1. Unstored(Unit(p))
        BY <1>1, <2>2, <3>4 DEF LockList, Goes, WayInv
      <4> QED
        BY <1>5, <2>2, <3>2, <4>1
    <3> QED
      BY <3>1, <3>3, <3>4
  <2> QED
    BY <2>1, <2>2
<1> QED
  BY <1>6, <1>7 DEF WayInv, NoneForgotten

\* Beside a caller in the middle of its call get_tracks is not busy.
LEMMA NotBusy ==
    ASSUME SchedInv, ~sliced, NEW p \in Procs, CanRun(p)
    PROVE  pc[Getter] \notin Busy
<1>1. p \in Users \ {Getter}
  BY TrackAssumption DEF Users
<1> QED
  BY <1>1, BusyRivals

\* A process that links its node: from the head get_track_count comes to it and, over
\* it, to all that were there.
LEMMA WayLink ==
    ASSUME TypeInv, SchedInv, ListInv, WayInv, NEW p \in Users, Link(p)
    PROVE  WayInv'
<1> SUFFICES ASSUME ~sliced' PROVE WayInv'
  BY DEF WayInv
<1>0. PICK v \in Units : v = Unit(p)
  BY UnitType
<1> DEFINE head == track_list[v]
<1>1. /\ UNCHANGED <<unit, curr, sliced, todo>>
      /\ pc[p] = "link" /\ pc' = [pc EXCEPT ![p] = "recv"] /\ pc'[p] = "recv"
      /\ mbox' = [mbox EXCEPT ![p] = FALSE]
      /\ p # Getter /\ p \in Procs /\ p # Nobody /\ CanRun(p) /\ ~sliced
  BY Distinctness
  DEF Link, Stops, callVars, getVars, SchedInv, Users, TypeInv, TypeOK
<1>2. \A q \in Users \ {p} : /\ \A u : q \in Waiting(u)' <=> q \in Waiting(u)
                             /\ pc'[q] = pc[q] /\ Unit(q)' = Unit(q)
  BY <1>1, OthersWait
<1>3. pc'[Getter] = pc[Getter] /\ pc[Getter] \notin Busy
  BY <1>1, <1>2, NotBusy, Distinctness
<1>4. \A u : /\ Unwalked(u)' <=> Unwalked(u)
             /\ Unstored(u)' <=> Unstored(u)
             /\ Ahead(u) = IF Unwalked(u) THEN track_list[u] ELSE Nobody
             /\ Ahead(u)' = IF Unwalked(u) THEN track_list'[u] ELSE Nobody
  BY <1>1, <1>3 DEF Unwalked, Unstored, Ahead, Busy
<1>5. Unwalked(v)
  <2>1. Unstored(v)
    BY <1>0, <1>1 DEF WayInv
  <2> QED
    BY <2>1 DEF Unstored, Unwalked
<1>6. /\ head \in Waiting(v) \cup {Nobody}
      /\ p \notin Waiting(v) /\ head # p
      /\ Unit(p)' = v
  BY <1>0, <1>1, <1>5 DEF ListInv, Fresh, Waiting, Unit
<1>7. /\ track_list'[v] = IF head = Nobody THEN p ELSE head
      /\ \A u \in Units \ {v} : track_list'[u] = track_list[u]
      /\ head # Nobody => next'[p] = next[head] /\ next'[head] = p
      /\ \A q \in Users \ {p, head} : next'[q] = next[q]
  BY <1>0, <1>1, <1>6 DEF Link, Inserted, TypeInv, TypeOK
<1>8. ASSUME NEW q \in Users, pc'[q] = "recv", ~mbox'[q]
      PROVE  Leads(Ahead(Unit(q)), q)'
  <2>0. PICK u \in Units : u = Unit(q)' /\ Ahead(Unit(q))' = Ahead(u)'
    <3>1. Unit(q)' \in Units
      BY UnitType DEF Unit, UnitOf, Units
    <3> QED
      BY <3>1
  <2>1. SUFFICES ASSUME NEW S \in SUBSET Users,
                        Ahead(u)' \in S \cup {Nobody},
                        \A r \in S : next'[r] \in S \cup {Nobody}
                 PROVE  q \in S
    BY <2>0 DEF Leads
  <2>2. q # p => pc[q] = "recv" /\ ~mbox[q] /\ q \in Waiting(u)
    BY <1>1, <1>2, <1>8, <2>0 DEF TypeInv, TypeOK, Waiting
  <2>3. q # p => Leads(Ahead(u), q)
    BY <1>1, <1>2, <2>0, <2>2 DEF WayInv, NoneForgotten
  <2>4. CASE u # v
    <3>1. q # p
      BY <1>6, <2>0, <2>4
    <3>2. Unwalked(u)
      <4>1. SUFFICES ASSUME ~Unwalked(u) PROVE FALSE
        OBVIOUS
      <4>2. Leads(Nobody, q)
        BY <1>4, <2>3, <3>1, <4>1
      <4>3. q \in {}
        BY <4>2 DEF Leads
      <4> QED
        BY <4>3
    <3>3. Fresh(u)
      BY <3>2 DEF ListInv
    <3> DEFINE T == S \cap Waiting(u)
    <3>4. track_list[u] \in T \cup {Nobody}
      BY <1>4, <1>7, <2>1, <2>4, <3>2, <3>3 DEF Fresh
    <3>5. ASSUME NEW r \in T PROVE next[r] \in T \cup {Nobody}
      <4>1. r # p /\ r # head
        BY <1>6, <2>4, <3>5, <1>1, Distinctness DEF Waiting
      <4> QED
        BY <1>7, <2>1, <3>3, <3>5, <4>1 DEF Fresh
    <3>6. T \in SUBSET Users
      OBVIOUS
    <3> QED
      BY <1>4, <2>3, <3>1, <3>2, <3>4, <3>5, <3>6 DEF Leads
  <2>5. CASE u = v /\ head = Nobody
    <3>1. p \in S
      BY <1>1, <1>4, <1>5, <1>7, <2>1, <2>5
    <3>2. ASSUME q # p PROVE FALSE
      <4>1. Leads(Nobody, q)
        BY <1>4, <1>5, <2>3, <2>5, <3>2
      <4>2. q \in {}
        BY <4>1 DEF Leads
      <4> QED
        BY <4>2
    <3> QED
      BY <3>1, <3>2
  <2>6. CASE u = v /\ head # Nobody
    <3>1. head \in S /\ p \in S
      BY <1>1, <1>4, <1>5, <1>7, <2>1, <2>6
    <3>2. CASE q # p
      <4>1. Fresh(v)
        BY <1>5 DEF ListInv
      <4> DEFINE T == S \cap Waiting(v)
      <4>2. track_list[v] \in T
        BY <1>6, <2>6, <3>1
      <4>3. ASSUME NEW r \in T PROVE next[r] \in T \cup {Nobody}
        <5>1. r # p /\ next[r] \in Waiting(v) \cup {Nobody}
          BY <1>6, <4>1, <4>3 DEF Fresh
        <5>2. CASE r = head
          BY <1>7, <2>1, <2>6, <3>1, <5>1, <5>2
        <5>3. CASE r # head
          BY <1>7, <2>1, <4>3, <5>1, <5>3
        <5> QED
          BY <5>2, <5>3
      <4>4. T \in SUBSET Users
        OBVIOUS
      <4> QED
        BY <1>4, <1>5, <2>3, <2>6, <3>2, <4>2, <4>3, <4>4 DEF Leads
    <3> QED
      BY <3>1, <3>2
  <2> QED
    BY <2>4, <2>5, <2>6
<1>9. ASSUME NEW q \in Procs, pc'[q] \in {"list", "link"}
      PROVE  Unstored(Unit(q))'
  <2>1. q # p /\ pc[q] \in {"list", "link"} /\ Unit(q)' = Unit(q)
    BY <1>1, <1>2, <1>9 DEF Users
  <2> QED
    BY <1>1, <1>4, <2>1 DEF WayInv
<1> QED
  BY <1>8, <1>9 DEF WayInv, NoneForgotten

\* A process that has its message: its node stays linked, so no way is cut.
LEMMA WayRecv ==
    ASSUME TypeInv, SchedInv, WayInv, NEW p \in Users, Recv(p)
    PROVE  WayInv'
<1> SUFFICES ASSUME ~sliced' PROVE WayInv'
  BY DEF WayInv
<1>1. /\ UNCHANGED <<unit, curr, sliced, next, track_list>>
      /\ pc[p] = "recv" /\ mbox[p] /\ pc' = [pc EXCEPT ![p] = "out"] /\ pc'[p] = "out"
      /\ mbox' = [mbox EXCEPT ![p] = FALSE]
      /\ p # Getter /\ ~sliced
  BY DEF Recv, Stops, getVars, SchedInv, TypeInv, TypeOK
<1>2. \A q \in Users \ {p} : todo'[q] = todo[q]
  BY DEF Recv, Answered, TypeInv, TypeOK
<1>3. \A q \in Users \ {p} : pc'[q] = pc[q] /\ Unit(q)' = Unit(q)
  BY <1>1, <1>2, OthersWait
<1>4. \A u : Ahead(u)' = Ahead(u) /\ Unstored(u)' = Unstored(u)
  BY <1>1, <1>3, Distinctness DEF Ahead, Unwalked, Unstored
<1>5. ASSUME NEW q \in Users, pc'[q] = "recv", ~mbox'[q]
      PROVE  Leads(Ahead(Unit(q)), q)'
  <2>1. q # p /\ pc[q] = "recv" /\ ~mbox[q] /\ Unit(q)' = Unit(q)
    BY <1>1, <1>3, <1>5 DEF TypeInv, TypeOK
  <2>2. Leads(Ahead(Unit(q)), q)
    BY <1>1, <2>1 DEF WayInv, NoneForgotten
  <2>3. Ahead(Unit(q))' = Ahead(Unit(q))
    BY <1>4, <2>1
  <2> QED
    BY <1>1, <2>2, <2>3 DEF Leads
<1>6. ASSUME NEW q \in Procs, pc'[q] \in {"list", "link"}
      PROVE  Unstored(Unit(q))'
  <2>1. q # p /\ pc[q] \in {"list", "link"} /\ Unit(q)' = Unit(q)
    BY <1>1, <1>3, <1>6 DEF Users
  <2> QED
    BY <1>1, <1>4, <2>1 DEF WayInv
<1> QED
  BY <1>5, <1>6 DEF WayInv, NoneForgotten

\* What lies ahead of get_track_count: the same, or less by the node it notifies.
LEMMA AheadGetter ==
    ASSUME TypeInv, SchedInv, ListInv, ~sliced, GetTrackCount, NEW u \in Units
    PROVE  \/ Ahead(u)' = Ahead(u)
           \/ Notify /\ Ahead(u) = curr /\ Ahead(u)' = next[curr]
<1> USE DEF Goes, Stops
<1>1. UNCHANGED <<track_list, next>>
  BY GetterFrame
<1>2. \A to : [pc EXCEPT ![Getter] = to][Getter] = to
  BY Distinctness DEF TypeInv, TypeOK
<1>3. CASE Ask \/ GotCount \/ LockCount \/ StoreCount
  <2>1. /\ UNCHANGED unit
        /\ pc[Getter] \in {"ask", "dev", "got", "store", "stored"}
        /\ pc'[Getter] \in {"ask", "dev", "got", "store", "stored"}
    BY <1>2, <1>3 DEF Ask, GotCount, LockCount, StoreCount, getVars
  <2> QED
    BY <1>1, <2>1 DEF Ahead, Unwalked
<1>4. CASE StartWalk
  <2>1. /\ UNCHANGED unit /\ curr' = track_list[unit]
        /\ pc[Getter] = "stored" /\ pc'[Getter] = "walk"
    BY <1>2, <1>4 DEF StartWalk
  <2> QED
    BY <1>1, <2>1 DEF Ahead, Unwalked
<1>5. CASE Notify
  <2>1. UNCHANGED <<unit, curr>> /\ pc[Getter] = "walk" /\ pc'[Getter] = "sent"
    BY <1>2, <1>5 DEF Notify, getVars
  <2> QED
    BY <1>1, <1>5, <2>1 DEF Ahead, Unwalked
<1>6. CASE Advance
  <2>1. /\ UNCHANGED unit /\ pc[Getter] = "sent" /\ pc'[Getter] = "walk"
        /\ curr' = next[curr] \/ pc[curr] # "recv"
    BY <1>2, <1>6 DEF Advance
  <2>2. pc[curr] = "recv"
    BY <2>1 DEF ListInv, WalkIn, Waiting, TypeInv
  <2> QED
    BY <1>1, <2>1, <2>2 DEF Ahead, Unwalked
<1>7. CASE EndWalk
  <2>1. /\ curr = Nobody /\ pc[Getter] = "walk" /\ unit' = 1
        /\ \/ unit = 0 /\ pc'[Getter] = "ask"
           \/ unit = 1 /\ pc'[Getter] = "out"
    BY <1>2, <1>7 DEF EndWalk
  <2> QED
    BY <1>1, <2>1 DEF Ahead, Unwalked, Units
<1> QED
  BY <1>3, <1>4, <1>5, <1>6, <1>7 DEF GetTrackCount

LEMMA WayGetter ==
    ASSUME TypeInv, SchedInv, ListInv, WayInv, GetTrackCount
    PROVE  WayInv'
<1> USE DEF Goes, Stops
<1> SUFFICES ASSUME ~sliced' PROVE WayInv'
  BY DEF WayInv
<1>1. /\ UNCHANGED <<todo, track_list, next, sliced>>
      /\ \A q \in Users \ {Getter} : pc'[q] = pc[q]
      /\ pc'[Getter] # "recv"
      /\ \A q : Unit(q)' = Unit(q)
  BY GetterFrame
<1>2. ASSUME NEW q \in Users, pc'[q] = "recv", ~mbox'[q]
      PROVE  Leads(Ahead(Unit(q)), q)'
  <2>0. PICK u \in Units : u = Unit(q) /\ Ahead(Unit(q))' = Ahead(u)'
    BY <1>1, UnitType
  <2>1. pc[q] = "recv" /\ ~mbox[q] /\ (Notify => q # curr)
    <3>1. pc[q] = "recv"
      BY <1>1, <1>2
    <3>2. CASE Notify
      BY <1>2, <3>1, <3>2 DEF Notify, TypeInv, TypeOK
    <3>3. CASE ~Notify
      BY <1>2, <3>1, <3>3 DEF GetTrackCount, Ask, GotCount, LockCount, StoreCount, StartWalk,
         Advance, EndWalk, listVars
    <3> QED
      BY <3>2, <3>3
  <2>2. Leads(Ahead(u), q)
    BY <1>1, <2>0, <2>1 DEF WayInv, NoneForgotten
  <2>3. SUFFICES ASSUME NEW S \in SUBSET Users,
                        Ahead(u)' \in S \cup {Nobody},
                        \A r \in S : next[r] \in S \cup {Nobody}
                 PROVE  q \in S
    BY <1>1, <2>0 DEF Leads
  <2>4. CASE Ahead(u)' = Ahead(u)
    BY <2>2, <2>3, <2>4 DEF Leads
  <2>5. CASE Notify /\ Ahead(u) = curr /\ Ahead(u)' = next[curr]
    <3>1. S \cup {curr} \in SUBSET Users
      BY <2>5 DEF Notify, TypeInv, TypeOK
    <3>2. \A r \in S \cup {curr} : next[r] \in S \cup {curr} \cup {Nobody}
      BY <2>3, <2>5
    <3>3. q \in S \cup {curr}
      BY <2>2, <2>5, <3>1, <3>2 DEF Leads
    <3> QED
      BY <2>1, <2>5, <3>3
  <2> QED
    BY <1>1, <2>4, <2>5, AheadGetter
<1>3. ASSUME NEW q \in Procs, pc'[q] \in {"list", "link"}
      PROVE  Unstored(Unit(q))'
  <2>1. q \in Users \ {Getter} /\ pc[q] \in {"list", "link"}
    BY <1>1, <1>3, TrackAssumption DEF Users
  <2>2. CanRun(Getter)
    BY DEF GetTrackCount, Ask, GotCount, LockCount, StoreCount, StartWalk, Notify, Advance,
       EndWalk
  <2>3. sliced
    BY <2>1, <2>2, CallingRivals, Distinctness DEF Calling
  <2> QED
    BY <1>1, <2>3
<1> QED
  BY <1>2, <1>3 DEF WayInv, NoneForgotten

\* As long as no time slice ends in between, whoever waits for a count without a
\* message is on the way of get_track_count, and nobody is once it is over (662-668,
\* 692-717).
THEOREM NoneForgottenCorrect == Spec => []NoneForgotten
<1>1. Init => WayInv
  <2> SUFFICES ASSUME Init PROVE WayInv
    OBVIOUS
  <2>1. \A p \in Users : pc[p] \in {"ask", "out"}
    BY DEF Init
  <2> QED
    BY <2>1 DEF WayInv, NoneForgotten, Users
<1>2. TypeInv /\ CountInv /\ SchedInv /\ (Orderly => ListInv) /\ WayInv /\ [Next]_vars
        => WayInv'
  <2> SUFFICES ASSUME TypeInv, CountInv, SchedInv, Orderly => ListInv, WayInv, [Next]_vars,
                      ~sliced'
               PROVE  WayInv'
    BY DEF WayInv
  <2>1. UNCHANGED sliced
    BY DEF Next, Proceed, GetTrackCount, Enter, KnownCount, UnknownCount, LockList, Link, Recv,
           Ask, GotCount, LockCount, StoreCount, StartWalk, Notify, Advance, EndWalk,
           DeviceDone, Goes, Stops, vars
  <2>2. ListInv
    BY <2>1 DEF Orderly
  <2>3. CASE UNCHANGED <<pc, todo, track_list, next, mbox, unit, curr, sliced>>
    BY <2>3 DEF WayInv, NoneForgotten, Leads, Ahead, Unwalked, Unstored, Unit
  <2>4. CASE (\E u \in Units : DeviceDone(u)) \/ UNCHANGED vars
    BY <2>3, <2>4 DEF DeviceDone, vars, callVars, countVars, listVars, getVars
  <2> QED
    BY <2>2, <2>4, WayMoves, WayLink, WayRecv, WayGetter DEF Next, Proceed
<1>3. WayInv => NoneForgotten
  BY DEF WayInv, NoneForgotten
<1> QED
  BY <1>1, <1>2, <1>3, TypeInvCorrect, CountInvCorrect, SchedInvCorrect, ListInvCorrect, PTL
  DEF Spec
=============================================================================
