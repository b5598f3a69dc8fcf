------------------------- MODULE SystemCallsProofs -------------------------
(***************************************************************************)
(* The mailboxes of the pool and the types of the arguments and buffers,   *)
(* for any programs, any number of processes and any size of the pool.     *)
(***************************************************************************)
EXTENDS SystemCalls, FiniteSetTheorems, SequenceTheorems, TLAPS

States == {"unborn", "user", "call"}

InDisk(p) == In(p, DiskCalls)

\* A node has been left only when the mailboxes that are free or in use are fewer than
\* the processes.
Drained == dangling => free + Cardinality(holding) < Cardinality(Clients)

\* A process has a mailbox only while it is in a disk call, and whoever is in one
\* without a mailbox found the pool empty.
PoolInv ==
    /\ test \in Tests
    /\ at \in [Clients -> States]
    /\ pos \in [Clients -> Nat]
    /\ holding \subseteq {p \in Clients : InDisk(p)}
    /\ free \in Nat /\ leaked \in Nat
    /\ \A p \in Clients \ holding :
          InDisk(p) => free + Cardinality(holding) < Cardinality(Clients)
    /\ Drained

\* The processes of a program, and those that have a mailbox, can be counted.
LEMMA Finite ==
    ASSUME PoolInv
    PROVE  /\ IsFiniteSet(Clients) /\ IsFiniteSet(holding)
           /\ Cardinality(holding) \in Nat /\ Cardinality(Clients) \in Nat
<1>1. IsFiniteSet(Clients)
      BY SystemCallsAssumption DEF PoolInv, Clients
<1>2. holding \subseteq Clients
      BY DEF PoolInv
<1> QED BY <1>1, <1>2, FS_Subset, FS_CardinalityType

\* At the start every mailbox that is not fixed is free.
LEMMA InitPool == Init => PoolInv
<1> SUFFICES ASSUME Init PROVE PoolInv
    OBVIOUS
<1>1. test \in Tests /\ at \in [Clients -> States] /\ pos \in [Clients -> Nat]
      BY DEF Init, States, Clients
<1>2. \A p \in Clients : ~InDisk(p)
      BY DEF Init, InDisk, In
<1>3. free \in Nat /\ leaked \in Nat
      BY SystemCallsAssumption DEF Init, Fixed
<1> QED BY <1>1, <1>2, <1>3 DEF Init, PoolInv, Drained

\* A step that moves no mailbox, and nobody into a disk call or out of one, keeps
\* the invariant.
LEMMA Quiet ==
    ASSUME PoolInv, UNCHANGED <<test, holding, free, leaked, dangling>>,
           at' \in [Clients -> States], pos' \in [Clients -> Nat],
           \A q \in Clients : InDisk(q)' <=> InDisk(q)
    PROVE  PoolInv' /\ Balance' = Balance
BY DEF PoolInv, Drained, Balance, Clients

\* The steps of a program and the calls of the terminals, the clock and DiskSize.
LEMMA OwnStep ==
    ASSUME PoolInv, NEW p \in Clients, Own(p) \/ DiskSize(p)
    PROVE  PoolInv' /\ Balance' = Balance
<1>1. UNCHANGED <<test, holding, free, leaked, dangling>>
      BY DEF Own, DiskSize, Spawn, Wait, Fill, Expect
<1>2. at[p] = "user" /\ pos' = [pos EXCEPT ![p] = @ + 1]
      BY DEF Own, DiskSize, Spawn, Wait, Fill, Expect, Does, Done
<1>3. at' = at \/ at' = [q \in Clients |-> IF at[q] = "unborn" THEN "user" ELSE at[q]]
      BY DEF Own, DiskSize, Spawn, Wait, Fill, Expect
<1>4. at' \in [Clients -> States] /\ pos' \in [Clients -> Nat]
      BY <1>2, <1>3 DEF PoolInv, States
<1>5. \A q \in Clients : at'[q] = "call" <=> at[q] = "call"
      BY <1>3 DEF PoolInv
<1>6. \A q \in Clients : at[q] = "call" => pos'[q] = pos[q]
      BY <1>2 DEF PoolInv
<1>7. \A q \in Clients : InDisk(q)' <=> InDisk(q)
      BY <1>1, <1>5, <1>6 DEF InDisk, In, Step
<1> QED BY <1>1, <1>4, <1>7, Quiet

LEMMA OtherCall ==
    ASSUME PoolInv, NEW p \in Clients, CallTerm(p) \/ CallSleep(p)
    PROVE  PoolInv' /\ Balance' = Balance
<1>1. UNCHANGED <<test, pos, holding, free, leaked, dangling>>
      BY DEF CallTerm, CallSleep
<1>2. at[p] = "user" /\ at' = [at EXCEPT ![p] = "call"]
      BY DEF CallTerm, CallSleep, Does, Trap
<1>3. Step(p).call \notin DiskCalls
      BY DEF CallTerm, CallSleep, Does, DiskCalls
<1>4. at' \in [Clients -> States] /\ pos' \in [Clients -> Nat]
      BY <1>1, <1>2 DEF PoolInv, States
<1>5. \A q \in Clients \ {p} : at'[q] = at[q]
      BY <1>2 DEF PoolInv
<1>6. \A q \in Clients : Step(q)' = Step(q)
      BY <1>1 DEF Step
<1>7. ~InDisk(p)' /\ ~InDisk(p)
      BY <1>2, <1>3, <1>6 DEF InDisk, In
<1>8. \A q \in Clients : InDisk(q)' <=> InDisk(q)
      BY <1>5, <1>6, <1>7 DEF InDisk, In
<1> QED BY <1>1, <1>4, <1>8, Quiet

\* What a return does to the process that returns and to the others.
LEMMA Returned ==
    ASSUME PoolInv, NEW p \in Clients, NEW ok, Return(p, ok), test' = test
    PROVE  /\ at' \in [Clients -> States] /\ pos' \in [Clients -> Nat]
           /\ ~InDisk(p)'
           /\ \A q \in Clients \ {p} : InDisk(q)' <=> InDisk(q)
<1>1. at' = [at EXCEPT ![p] = "user"] /\ pos' = [pos EXCEPT ![p] = @ + 1]
      BY DEF Return, Done
<1>2. at' \in [Clients -> States] /\ pos' \in [Clients -> Nat] /\ at'[p] = "user"
      BY <1>1 DEF PoolInv, States
<1>3. \A q \in Clients \ {p} : at'[q] = at[q] /\ pos'[q] = pos[q]
      BY <1>1 DEF PoolInv
<1> QED BY <1>2, <1>3 DEF InDisk, In, Step

LEMMA OtherAnswer ==
    ASSUME PoolInv, NEW p \in Clients,
           RefuseTerm(p) \/ ReadTerm(p) \/ WriteTerm(p) \/ WakeUp(p)
    PROVE  PoolInv' /\ Balance' = Balance
<1>1. UNCHANGED <<test, holding, free, leaked, dangling>>
      BY DEF RefuseTerm, ReadTerm, WriteTerm, WakeUp
<1>2. \E ok : Return(p, ok)
      BY DEF RefuseTerm, ReadTerm, WriteTerm, WakeUp
<1>3. ~InDisk(p)
      BY DEF RefuseTerm, ReadTerm, WriteTerm, WakeUp, InDisk, In, DiskCalls
<1>4. /\ at' \in [Clients -> States] /\ pos' \in [Clients -> Nat]
      /\ \A q \in Clients : InDisk(q)' <=> InDisk(q)
      BY <1>1, <1>2, <1>3, Returned
<1> QED BY <1>1, <1>4, Quiet

\* A disk call takes a mailbox, or there is none.
LEMMA CallDiskStep ==
    ASSUME PoolInv, NEW p \in Clients, CallDisk(p)
    PROVE  PoolInv' /\ Balance' = Balance
<1>1. /\ UNCHANGED <<test, pos, leaked, dangling>>
      /\ at[p] = "user" /\ at' = [at EXCEPT ![p] = "call"]
      /\ Step(p).call \in DiskCalls
      BY DEF CallDisk, Does, Trap
<1>2. /\ at' \in [Clients -> States] /\ at'[p] = "call"
      /\ \A q \in Clients \ {p} : at'[q] = at[q]
      BY <1>1 DEF PoolInv, States
<1>3. p \notin holding
      BY <1>1 DEF PoolInv, InDisk, In
<1>4. InDisk(p)' /\ \A q \in Clients \ {p} : InDisk(q)' <=> InDisk(q)
      BY <1>1, <1>2 DEF InDisk, In, Step
<1>5. Clients' = Clients
      BY <1>1 DEF Clients
<1>6. /\ IsFiniteSet(Clients) /\ IsFiniteSet(holding)
      /\ Cardinality(holding) \in Nat /\ Cardinality(Clients) \in Nat
      BY Finite
<1>7. CASE free > 0
    <2>1. free' = free - 1 /\ holding' = holding \cup {p}
          BY <1>7 DEF CallDisk
    <2>2. Cardinality(holding') = Cardinality(holding) + 1
          BY <2>1, <1>3, <1>6, FS_AddElement
    <2>3. free' \in Nat /\ free' + Cardinality(holding') = free + Cardinality(holding)
          BY <2>1, <2>2, <1>6, <1>7 DEF PoolInv
    <2>4. holding' \subseteq {q \in Clients : InDisk(q)'}
          BY <2>1, <1>4 DEF PoolInv
    <2>5. \A q \in Clients \ holding' : InDisk(q)' => InDisk(q) /\ q \notin holding
          BY <2>1, <1>4
    <2>6. Balance' = Balance
          BY <2>3, <1>1 DEF Balance
    <2> QED BY <2>3, <2>4, <2>5, <2>6, <1>1, <1>2, <1>5 DEF PoolInv, Drained
<1>8. CASE ~(free > 0)
    <2>1. free' = free /\ holding' = holding /\ free = 0
          BY <1>8 DEF CallDisk, PoolInv
    <2>2. Cardinality(Clients \ {p}) = Cardinality(Clients) - 1 /\ IsFiniteSet(Clients \ {p})
          BY <1>6, FS_RemoveElement
    <2>3. holding \subseteq Clients \ {p}
          BY <1>3 DEF PoolInv
    <2>4. Cardinality(holding) <= Cardinality(Clients \ {p})
          BY <2>2, <2>3, FS_Subset
    <2>5. free + Cardinality(holding) < Cardinality(Clients)
          BY <2>1, <2>2, <2>4, <1>6
    <2>6. holding' \subseteq {q \in Clients : InDisk(q)'}
          BY <2>1, <1>4, <1>3 DEF PoolInv
    <2>7. Balance' = Balance
          BY <2>1, <1>1 DEF Balance
    <2> QED BY <2>1, <2>5, <2>6, <2>7, <1>1, <1>2, <1>5 DEF PoolInv, Drained
<1> QED BY <1>7, <1>8

\* A refusal loses the mailbox, and the balance with it does not change.
LEMMA RefuseDiskStep ==
    ASSUME PoolInv, ~dangling, NEW p \in Clients, RefuseDisk(p)
    PROVE  PoolInv' /\ Balance' = Balance
<1>1. /\ UNCHANGED <<test, free, dangling>>
      /\ holding' = holding \ {p}
      /\ leaked' = IF p \in holding THEN leaked + 1 ELSE leaked
      BY DEF RefuseDisk
<1>2. \E ok : Return(p, ok)
      BY DEF RefuseDisk
<1>3. /\ at' \in [Clients -> States] /\ pos' \in [Clients -> Nat]
      /\ ~InDisk(p)' /\ \A q \in Clients \ {p} : InDisk(q)' <=> InDisk(q)
      BY <1>1, <1>2, Returned
<1>4. Clients' = Clients
      BY <1>1 DEF Clients
<1>5. /\ IsFiniteSet(Clients) /\ IsFiniteSet(holding)
      /\ Cardinality(holding) \in Nat /\ Cardinality(Clients) \in Nat
      BY Finite
<1>6. /\ Cardinality(holding') = IF p \in holding THEN Cardinality(holding) - 1
                                                  ELSE Cardinality(holding)
      /\ Cardinality(holding') \in Nat
      BY <1>1, <1>5, FS_RemoveElement, FS_CardinalityType
<1>7. leaked' \in Nat /\ Balance' = Balance
      BY <1>1, <1>5, <1>6 DEF PoolInv, Balance
<1>8. free' + Cardinality(holding') <= free + Cardinality(holding)
      BY <1>1, <1>5, <1>6 DEF PoolInv
<1>9. holding' \subseteq {q \in Clients : InDisk(q)'}
      BY <1>1, <1>3 DEF PoolInv
<1>10. \A q \in Clients' \ holding' :
           InDisk(q)' => free' + Cardinality(holding') < Cardinality(Clients')
    <2> TAKE q \in Clients' \ holding'
    <2> HAVE InDisk(q)'
    <2>1. q \in Clients \ holding /\ InDisk(q)
          BY <1>1, <1>3, <1>4
    <2>2. free + Cardinality(holding) < Cardinality(Clients)
          BY <2>1 DEF PoolInv
    <2> QED BY <2>2, <1>1, <1>4, <1>5, <1>6, <1>8 DEF PoolInv
<1> QED BY <1>1, <1>3, <1>4, <1>7, <1>9, <1>10 DEF PoolInv, Drained

\* An answer gives the mailbox back.
LEMMA ServeDiskStep ==
    ASSUME PoolInv, ~dangling, NEW p \in Clients, ServeDisk(p)
    PROVE  PoolInv' /\ Balance' = Balance
<1>1. /\ UNCHANGED <<test, leaked, dangling>>
      /\ p \in holding /\ holding' = holding \ {p} /\ free' = free + 1
      BY DEF ServeDisk, Release
<1>2. \E ok : Return(p, ok)
      BY DEF ServeDisk
<1>3. /\ at' \in [Clients -> States] /\ pos' \in [Clients -> Nat]
      /\ ~InDisk(p)' /\ \A q \in Clients \ {p} : InDisk(q)' <=> InDisk(q)
      BY <1>1, <1>2, Returned
<1>4. Clients' = Clients
      BY <1>1 DEF Clients
<1>5. /\ IsFiniteSet(holding) /\ Cardinality(holding) \in Nat
      /\ Cardinality(Clients) \in Nat
      BY Finite
<1>6. Cardinality(holding') = Cardinality(holding) - 1
      BY <1>1, <1>5, FS_RemoveElement
<1>7. /\ free' \in Nat
      /\ free' + Cardinality(holding') = free + Cardinality(holding)
      BY <1>1, <1>5, <1>6 DEF PoolInv
<1>8. Balance' = Balance
      BY <1>1, <1>7 DEF Balance
<1>9. holding' \subseteq {q \in Clients : InDisk(q)'}
      BY <1>1, <1>3 DEF PoolInv
<1>10. \A q \in Clients \ holding' : InDisk(q)' => q \notin holding /\ InDisk(q)
      BY <1>1, <1>3
<1> QED BY <1>1, <1>3, <1>4, <1>7, <1>8, <1>9, <1>10 DEF PoolInv, Drained

\* A call that does not wait found the pool empty.
LEMMA PassDiskStep ==
    ASSUME PoolInv, NEW p \in Clients, PassDisk(p)
    PROVE  PoolInv' /\ Balance' = Balance
<1>1. /\ UNCHANGED <<test, free, holding, leaked>>
      /\ p \notin holding /\ InDisk(p)
      BY DEF PassDisk, InDisk
<1>2. \E ok : Return(p, ok)
      BY DEF PassDisk
<1>3. /\ at' \in [Clients -> States] /\ pos' \in [Clients -> Nat]
      /\ ~InDisk(p)' /\ \A q \in Clients \ {p} : InDisk(q)' <=> InDisk(q)
      BY <1>1, <1>2, Returned
<1>4. free + Cardinality(holding) < Cardinality(Clients)
      BY <1>1 DEF PoolInv
<1>5. Clients' = Clients /\ Balance' = Balance
      BY <1>1 DEF Clients, Balance
<1>6. holding' \subseteq {q \in Clients : InDisk(q)'}
      BY <1>1, <1>3 DEF PoolInv
<1> QED BY <1>1, <1>3, <1>4, <1>5, <1>6 DEF PoolInv, Drained

LEMMA NextPool ==
    ASSUME PoolInv, [Next]_vars
    PROVE  PoolInv' /\ Balance' = Balance
<1>1. CASE Next
    <2>1. ~dangling
          BY <1>1 DEF Next
    <2>2. PICK p \in Clients : Run(p)
          BY <1>1 DEF Next
    <2>3. CASE Own(p) \/ DiskSize(p)
          BY <2>3, OwnStep
    <2>4. CASE CallTerm(p) \/ CallSleep(p)
          BY <2>4, OtherCall
    <2>5. CASE CallDisk(p)
          BY <2>5, CallDiskStep
    <2>6. CASE RefuseDisk(p)
          BY <2>1, <2>6, RefuseDiskStep
    <2>7. CASE ServeDisk(p)
          BY <2>1, <2>7, ServeDiskStep
    <2>8. CASE PassDisk(p)
          BY <2>8, PassDiskStep
    <2>9. CASE RefuseTerm(p) \/ ReadTerm(p) \/ WriteTerm(p) \/ WakeUp(p)
          BY <2>9, OtherAnswer
    <2> QED BY <2>2, <2>3, <2>4, <2>5, <2>6, <2>7, <2>8, <2>9 DEF Run, Call, Answer
<1>2. CASE UNCHANGED vars
    <2>1. UNCHANGED <<test, at, pos, holding, free, leaked, dangling>>
          BY <1>2 DEF vars
    <2> QED BY <2>1 DEF PoolInv, Drained, Balance, Clients, InDisk, In, Step
<1> QED BY <1>1, <1>2

\* Whatever the programs call and whatever phase 2 has left, the invariant holds.
THEOREM PoolCorrect == Spec => []PoolInv
<1>1. PoolInv /\ [Next]_vars => PoolInv'
      BY NextPool
<1> QED BY <1>1, InitPool, PTL DEF Spec

\* What is free, in use or lost is what phase4_init has left of a pool.
StockInv == Balance = stock /\ \E n \in Pools : stock = n - Fixed

LEMMA InitStock == Init => StockInv
<1> SUFFICES ASSUME Init PROVE StockInv
    OBVIOUS
<1>1. PICK n \in Pools : stock = n - Fixed
      BY DEF Init
<1>2. free = stock /\ Cardinality(holding) = 0 /\ leaked = 0
      BY FS_EmptySet DEF Init
<1>3. n - Fixed \in Int
      BY SystemCallsAssumption DEF Fixed
<1> QED BY <1>1, <1>2, <1>3 DEF StockInv, Balance

LEMMA StockCorrect == Spec => []StockInv
<1>1. PoolInv /\ StockInv /\ [Next]_vars => StockInv'
    <2>1. [Next]_vars => stock' = stock
          BY DEF Next, vars
    <2> QED BY <2>1, NextPool DEF StockInv
<1> QED BY <1>1, InitStock, PoolCorrect, PTL DEF Spec

\* A call returns without waiting for its operation and leaves its node on the queue
\* only when the mailboxes phase4_init has left, less those that refused calls (507-514)
\* have lost, are fewer than the processes, for any number of them and any pool.
THEOREM NeverDanglingCorrect == Spec => []NeverDangling
<1>1. PoolInv /\ StockInv => NeverDangling
    <2> SUFFICES ASSUME PoolInv, StockInv, dangling
                 PROVE  stock - leaked < Cardinality(Clients)
        BY DEF NeverDangling
    <2>1. free + Cardinality(holding) < Cardinality(Clients)
          BY DEF PoolInv, Drained
    <2>2. /\ free \in Nat /\ leaked \in Nat
          /\ Cardinality(holding) \in Nat /\ Cardinality(Clients) \in Nat
          BY Finite DEF PoolInv
    <2>3. stock = free + Cardinality(holding) + leaked
          BY DEF StockInv, Balance
    <2> QED BY <2>1, <2>2, <2>3
<1> QED BY <1>1, PoolCorrect, StockCorrect, PTL

\* Every step gives back the mailbox its call has taken, or loses it with a refusal
\* (507-514, 626).
THEOREM PoolKeptCorrect == Spec => PoolKept
<1>1. PoolInv /\ [Next]_vars => [Balance' = Balance]_vars
      BY NextPool
<1> QED BY <1>1, PoolCorrect, PTL DEF Spec, PoolKept

-----------------------------------------------------------------------------
(***************************************************************************)
(* Type correctness.                                                       *)
(***************************************************************************)
Contents == Texts \cup {"blank"}

\* TypeOK, strengthened: a process is in a call only while it has a step to do, and
\* the Sysargs of a disk call are those the stub packed.
TypeInv ==
    /\ TypeOK
    /\ DOMAIN at = Clients /\ DOMAIN pos = Clients /\ DOMAIN args = Clients
    /\ DOMAIN taken = Terminals
    /\ \A p \in Clients : at[p] = "call" =>
          /\ ~Over(p)
          /\ Step(p).call \in DiskCalls => args[p] = DiskArgs(Step(p))

\* A step that is still to do has arguments of the C types.
LEMMA StepTyped ==
    ASSUME TypeInv, NEW p \in Clients, ~Over(p)
    PROVE  TypedStep(Step(p)) /\ pos[p] + 1 \in 0 .. Len(test[p])
<1>1. pos[p] \in 0 .. Len(test[p]) /\ pos[p] # Len(test[p]) /\ Len(test[p]) \in Nat
      BY SystemCallsAssumption DEF TypeInv, TypeOK, Over, Clients
<1>2. pos[p] + 1 \in 1 .. Len(test[p])
      BY <1>1
<1> QED BY <1>1, <1>2, SystemCallsAssumption DEF TypeInv, TypeOK, Clients, Step

LEMMA StoredOne ==
    ASSUME NEW S, NEW f, \A x \in DOMAIN f : f[x] \in S, NEW b, NEW v \in S
    PROVE  \A x \in DOMAIN Stored(f, [y \in {b} |-> v]) : Stored(f, [y \in {b} |-> v])[x] \in S
BY DEF Stored

LEMMA OverwrittenType ==
    ASSUME NEW S, NEW old \in Seq(S), NEW new \in Seq(S)
    PROVE  Overwritten(old, new) \in Seq(S)
<1>1. Len(old) \in Nat /\ Len(new) \in Nat /\ \A i \in 1 .. Len(old) : old[i] \in S
      BY LenProperties
<1>2. \A i \in Len(new) + 1 .. Len(old) : old[i] \in S
      BY <1>1
<1>3. SubSeq(old, Len(new) + 1, Len(old)) \in Seq(S)
      BY <1>1, <1>2, SubSeqProperties
<1> QED BY <1>3, ConcatProperties DEF Overwritten

LEMMA ContentType ==
    ASSUME TypeInv, NEW b
    PROVE  Content(b) \in Seq(Contents)
BY DEF TypeInv, TypeOK, Content, Contents

\* What a step does to the position and the calls of the processes.
Control(p) ==
    /\ UNCHANGED test
    /\ \/ /\ at[p] = "user" /\ ~Over(p)
          /\ \/ at' = at
             \/ at' = [q \in Clients |-> IF at[q] = "unborn" THEN "user" ELSE at[q]]
          /\ pos' = [pos EXCEPT ![p] = @ + 1]
          /\ UNCHANGED args
       \/ /\ at[p] = "user" /\ ~Over(p)
          /\ at' = [at EXCEPT ![p] = "call"]
          /\ args' = [args EXCEPT ![p] = args'[p]]
          /\ Step(p).call \in DiskCalls => args'[p] = DiskArgs(Step(p))
          /\ UNCHANGED pos
       \/ /\ at[p] = "call"
          /\ at' = [at EXCEPT ![p] = "user"]
          /\ pos' = [pos EXCEPT ![p] = @ + 1]
          /\ UNCHANGED args

LEMMA RunControl ==
    ASSUME TypeInv, NEW p \in Clients, Run(p)
    PROVE  Control(p) /\ wrong' \subseteq wrong \cup {p} /\ dangling' \in {dangling, TRUE}
<1>1. CASE Own(p) \/ DiskSize(p)
      BY <1>1 DEF Own, DiskSize, Spawn, Wait, Fill, Expect, Does, Done, Control
<1>2. CASE CallDisk(p)
      BY <1>2 DEF CallDisk, Does, Trap, Control, TypeInv
<1>3. CASE CallTerm(p) \/ CallSleep(p)
      BY <1>3 DEF CallTerm, CallSleep, Does, Trap, Control, DiskCalls, TypeInv
<1>4. CASE Answer(p)
      BY <1>4 DEF Answer, RefuseDisk, ServeDisk, PassDisk, RefuseTerm, ReadTerm, WriteTerm,
                  WakeUp, In, Return, Done, Control
<1> QED BY <1>1, <1>2, <1>3, <1>4 DEF Run, Call

LEMMA ControlTypes ==
    ASSUME TypeInv, NEW p \in Clients, Control(p)
    PROVE  /\ test' \in Tests /\ Clients' = Clients
           /\ at' \in [Clients -> States]
           /\ DOMAIN at' = Clients /\ DOMAIN pos' = Clients /\ DOMAIN args' = Clients
           /\ \A q \in Clients : pos'[q] \in 0 .. Len(test[q])
           /\ \A q \in Clients : at'[q] = "call" =>
                 /\ ~Over(q)'
                 /\ Step(q)'.call \in DiskCalls => args'[q] = DiskArgs(Step(q)')
<1>1. test' = test /\ Clients' = Clients
      BY DEF Control, Clients
<1>2. at' \in [Clients -> States]
      BY DEF Control, TypeInv, TypeOK, States
<1>3. DOMAIN at' = Clients /\ DOMAIN pos' = Clients /\ DOMAIN args' = Clients
      BY <1>2 DEF Control, TypeInv
<1>4. ~Over(p)
      BY DEF Control, TypeInv
<1>5. \A q \in Clients : pos'[q] = pos[q] \/ (q = p /\ pos'[q] = pos[q] + 1)
      BY DEF Control, TypeInv
<1>6. \A q \in Clients : pos'[q] \in 0 .. Len(test[q])
      BY <1>4, <1>5, StepTyped DEF TypeInv, TypeOK
<1>7. ASSUME NEW q \in Clients, at'[q] = "call"
      PROVE  /\ ~Over(q)'
             /\ Step(q)'.call \in DiskCalls => args'[q] = DiskArgs(Step(q)')
    <2>1. pos'[q] = pos[q]
          BY <1>7 DEF Control, TypeInv
    <2>2. Over(q)' = Over(q) /\ Step(q)' = Step(q)
          BY <1>1, <2>1 DEF Over, Step
    <2>3. CASE at[q] = "call" /\ args'[q] = args[q]
          BY <2>2, <2>3 DEF TypeInv
    <2>4. CASE q = p /\ (Step(p).call \in DiskCalls => args'[p] = DiskArgs(Step(p)))
          BY <1>4, <2>2, <2>4
    <2>5. \/ at[q] = "call" /\ args'[q] = args[q]
          \/ q = p /\ (Step(p).call \in DiskCalls => args'[p] = DiskArgs(Step(p)))
          BY <1>7 DEF Control, TypeInv
    <2> QED BY <2>3, <2>4, <2>5
<1> QED BY <1>1, <1>2, <1>3, <1>6, <1>7 DEF TypeInv, TypeOK

\* The buffer a step fills holds characters or blocks again.
MemoryTyped == \A b \in DOMAIN memory : memory[b] \in Seq(Contents)

LEMMA StoredMemory ==
    ASSUME TypeInv, NEW b, NEW text \in Seq(Contents),
           memory' = Stored(memory, [y \in {b} |-> text])
    PROVE  MemoryTyped'
<1>1. \A x \in DOMAIN memory : memory[x] \in Seq(Contents)
      BY DEF TypeInv, TypeOK, Contents
<1>2. /\ DOMAIN memory' = DOMAIN memory \cup {b}
      /\ \A x \in DOMAIN memory' : memory'[x] = text \/ (x \in DOMAIN memory /\ memory'[x] = memory[x])
      BY DEF Stored
<1> QED BY <1>1, <1>2 DEF MemoryTyped

\* The arguments of a call that is not refused.
LEMMA DiskArgsTyped ==
    ASSUME TypeInv, NEW p \in Clients, In(p, DiskCalls), ~DiskRefused(args[p])
    PROVE  LET a == args[p] IN
           /\ a.arg5 \in Units /\ a.arg4 \in 0 .. NBlocks /\ a.arg3 \in Int
           /\ a.arg2 \in Int /\ a.arg1[2] \in Nat
           /\ NTracks[a.arg5] \in Nat /\ NBlocks \in Nat
<1>1. ~Over(p) /\ Step(p).call \in DiskCalls /\ args[p] = DiskArgs(Step(p))
      BY DEF TypeInv, In
<1>2. TypedStep(Step(p))
      BY <1>1, StepTyped
<1>3. /\ Step(p).unit \in Int /\ Step(p).track \in Int /\ Step(p).first \in Int
      /\ Step(p).sectors \in Int /\ Step(p).offset \in Nat
      BY <1>1, <1>2 DEF TypedStep, DiskCalls
<1>4. args[p].arg5 \in Units /\ args[p].arg4 \in 0 .. NBlocks
      BY <1>1, <1>3, SystemCallsAssumption DEF DiskRefused, DiskArgs, Asked, Disk!Valid
<1> QED BY <1>1, <1>3, <1>4, SystemCallsAssumption DEF DiskArgs

\* The blocks that are moved are on the disk.
LEMMA CountOnDisk ==
    ASSUME NEW a, a.arg4 \in 0 .. NBlocks, a.arg3 \in Int, a.arg2 \in Int,
           NTracks[a.arg5] \in Nat, NBlocks \in Nat
    PROVE  /\ Count(a) \in Nat
           /\ \A i \in 0 .. Count(a) - 1 :
                 /\ i \in Nat /\ Number(a, i) \in Nat
                 /\ Number(a, i) < NTracks[a.arg5] * NBlocks
                 /\ Number(a, i) - Number(a, 0) = i
<1> DEFINE end == NTracks[a.arg5] * NBlocks
           room == end - Number(a, 0)
<1>1. \A i \in Int : Number(a, i) = a.arg3 * NBlocks + a.arg4 + i
      BY DEF Number, Asked, Disk!Place
<1>2. Count(a) = IF a.arg3 \notin 0 .. NTracks[a.arg5] - 1 THEN 0
                 ELSE IF a.arg2 \in 0 .. room THEN a.arg2 ELSE room
      BY DEF Count, Number, Asked, Disk!Extent, Disk!OnTracks
<1>3. CASE a.arg3 \notin 0 .. NTracks[a.arg5] - 1
      BY <1>2, <1>3
<1>4. CASE a.arg3 \in 0 .. NTracks[a.arg5] - 1
    <2>1. a.arg3 \in Nat /\ NTracks[a.arg5] - 1 - a.arg3 \in Nat
          BY <1>4
    <2>2. PICK x \in Nat, e \in Nat : x = a.arg3 * NBlocks /\ e = end
          BY <2>1
    <2>3. e - x - NBlocks >= 0
        <3>1. (NTracks[a.arg5] - 1 - a.arg3) * NBlocks >= 0
              BY <2>1
        <3>2. (NTracks[a.arg5] - 1 - a.arg3) * NBlocks = e - NBlocks - x
            <4>1. \A t \in Int, u \in Int, n \in Int : (t - 1 - u) * n = t * n - n - u * n
                  OBVIOUS
            <4> QED BY <2>2, <4>1
        <3> QED BY <2>2, <3>1, <3>2
    <2>4. /\ room = e - x - a.arg4
          /\ \A i \in Int : Number(a, i) = x + a.arg4 + i
          BY <1>1, <2>2
    <2>5. room \in Nat
          BY <2>2, <2>3, <2>4
    <2>6. Count(a) \in 0 .. room
          BY <1>2, <1>4, <2>5
    <2>7. Count(a) \in Nat
          BY <2>5, <2>6
    <2>8. ASSUME NEW i \in 0 .. Count(a) - 1
          PROVE  /\ i \in Nat /\ Number(a, i) \in Nat
                 /\ Number(a, i) < NTracks[a.arg5] * NBlocks
                 /\ Number(a, i) - Number(a, 0) = i
        <3>1. i \in Nat /\ i < e - x - a.arg4
              BY <2>2, <2>4, <2>5, <2>6, <2>8
        <3>2. Number(a, i) = x + a.arg4 + i /\ Number(a, 0) = x + a.arg4 + 0
              BY <2>4, <3>1
        <3> QED BY <2>2, <3>1, <3>2
    <2> QED BY <2>7, <2>8
<1> QED BY <1>3, <1>4

LEMMA ReadTyped ==
    ASSUME TypeInv, NEW p \in Clients, In(p, DiskCalls), ~DiskRefused(args[p]),
           Read(args[p])
    PROVE  MemoryTyped' /\ disk' = disk
<1> DEFINE a == args[p]
           blocks == [i \in 1 .. Count(a) |->
                         OnDisk(a.arg5, Number(a, i - 1))]
<1>1. Count(a) \in Nat
      BY DiskArgsTyped, CountOnDisk
<1>2. \A n : OnDisk(a.arg5, n) \in Contents
      BY DEF TypeInv, TypeOK, OnDisk, Contents
<1>3. blocks \in Seq(Contents)
      BY <1>1, <1>2, IsASeq
<1>4. Overwritten(Content(a.arg1[1]), blocks) \in Seq(Contents)
      BY <1>3, ContentType, OverwrittenType
<1>5. memory' = Stored(memory, [b \in {a.arg1[1]} |-> Overwritten(Content(a.arg1[1]), blocks)])
      BY DEF Read
<1>6. MemoryTyped'
      BY <1>4, <1>5, StoredMemory
<1> QED BY <1>6 DEF Read

DiskTyped ==
    \A b \in DOMAIN disk : /\ b \in Units \X Nat
                           /\ b[2] < NTracks[b[1]] * NBlocks
                           /\ disk[b] \in Contents

LEMMA WriteTyped ==
    ASSUME TypeInv, NEW p \in Clients, In(p, DiskCalls), ~DiskRefused(args[p]),
           Write(args[p])
    PROVE  DiskTyped' /\ memory' = memory
<1> DEFINE a == args[p]
           new == [b \in {<<a.arg5, Number(a, i)>> : i \in 0 .. Count(a) - 1} |->
                      InMemory(a.arg1, b[2] - Number(a, 0))]
<1>1. /\ a.arg5 \in Units /\ a.arg1[2] \in Nat
      /\ \A i \in 0 .. Count(a) - 1 :
            /\ i \in Nat /\ Number(a, i) \in Nat
            /\ Number(a, i) < NTracks[a.arg5] * NBlocks
            /\ Number(a, i) - Number(a, 0) = i
      BY DiskArgsTyped, CountOnDisk
<1>2. \A i \in Nat : InMemory(a.arg1, i) \in Contents
    <2> TAKE i \in Nat
    <2> DEFINE b == Content(a.arg1[1])
    <2>1. b \in Seq(Contents)
          BY ContentType
    <2>2. CASE a.arg1[2] + i < Len(b)
        <3>1. a.arg1[2] + i + 1 \in 1 .. Len(b)
              BY <1>1, <2>1, <2>2, LenProperties
        <3>2. b[a.arg1[2] + i + 1] \in Contents
              BY <2>1, <3>1, ElementOfSeq
        <3> QED BY <2>2, <3>2 DEF InMemory
    <2>3. CASE ~(a.arg1[2] + i < Len(b))
          BY <2>3 DEF InMemory, Contents
    <2> QED BY <2>2, <2>3
<1>3. ASSUME NEW b \in DOMAIN new
      PROVE  /\ b \in Units \X Nat
             /\ b[2] < NTracks[b[1]] * NBlocks
             /\ new[b] \in Contents
    <2>1. PICK i \in 0 .. Count(a) - 1 : b = <<a.arg5, Number(a, i)>>
          BY <1>3
    <2>2. b[1] = a.arg5 /\ b[2] = Number(a, i)
          BY <2>1
    <2>3. new[b] = InMemory(a.arg1, i)
          BY <1>1, <1>3, <2>2
    <2> QED BY <1>1, <1>2, <2>1, <2>2, <2>3
<1>4. \A b \in DOMAIN disk : /\ b \in Units \X Nat
                             /\ b[2] < NTracks[b[1]] * NBlocks
                             /\ disk[b] \in Contents
      BY DEF TypeInv, TypeOK, Contents
<1>5. disk' = Stored(disk, new) /\ memory' = memory
      BY DEF Write
<1> HIDE DEF new
<1>6. /\ DOMAIN disk' = DOMAIN disk \cup DOMAIN new
      /\ \A b \in DOMAIN disk' : \/ b \in DOMAIN new /\ disk'[b] = new[b]
                                 \/ b \in DOMAIN disk /\ disk'[b] = disk[b]
      BY <1>5 DEF Stored
<1> QED BY <1>3, <1>4, <1>5, <1>6 DEF DiskTyped

TakenTyped ==
    /\ DOMAIN taken = Terminals
    /\ \A t \in Terminals : taken[t] \in 0 .. Len(Input[t])

LEMMA ReadTermTyped ==
    ASSUME TypeInv, NEW p \in Clients, ReadTerm(p)
    PROVE  MemoryTyped' /\ disk' = disk /\ TakenTyped'
<1> DEFINE a == args[p]
           unit == a.arg3
           line == Input[unit][taken[unit] + 1]
           text == IF Len(line) > a.arg2 THEN Content(a.arg1)
                                         ELSE Overwritten(Content(a.arg1), line)
<1>1. /\ unit \in Terminals /\ taken[unit] < Len(Input[unit])
      /\ taken' = [taken EXCEPT ![unit] = @ + 1]
      /\ memory' = Stored(memory, [b \in {a.arg1} |-> text])
      /\ disk' = disk
      BY DEF ReadTerm
<1>2. Input[unit] \in Seq(Seq(Texts)) /\ Len(Input[unit]) \in Nat
      BY <1>1, SystemCallsAssumption, LenProperties
<1>3. taken[unit] + 1 \in 1 .. Len(Input[unit])
      BY <1>1, <1>2 DEF TypeInv, TypeOK
<1>4. TakenTyped'
      BY <1>1, <1>3 DEF TypeInv, TypeOK, TakenTyped
<1>5. line \in Seq(Texts)
      BY <1>2, <1>3, ElementOfSeq
<1>6. line \in Seq(Contents)
      BY <1>5 DEF Contents
<1>7. text \in Seq(Contents)
      BY <1>6, ContentType, OverwrittenType
<1> HIDE DEF text
<1>8. MemoryTyped'
      BY <1>1, <1>7, StoredMemory
<1> QED BY <1>1, <1>4, <1>8

\* What a step stores has its type.
LEMMA RunData ==
    ASSUME TypeInv, NEW p \in Clients, Run(p)
    PROVE  MemoryTyped' /\ DiskTyped' /\ TakenTyped'
<1>1. MemoryTyped /\ DiskTyped /\ TakenTyped
      BY DEF TypeInv, TypeOK, MemoryTyped, DiskTyped, TakenTyped, Contents
<1>2. (memory' = memory => MemoryTyped') /\ (disk' = disk => DiskTyped')
      /\ (taken' = taken => TakenTyped')
      BY <1>1 DEF MemoryTyped, DiskTyped, TakenTyped
<1>3. CASE Fill(p)
    <2>1. ~Over(p) /\ Step(p).call = "Fill"
          BY <1>3 DEF Fill, Does
    <2>2. Step(p).text \in Seq(Texts)
          BY <2>1, StepTyped DEF TypedStep
    <2>3. Step(p).text \in Seq(Contents)
          BY <2>2 DEF Contents
    <2>4. /\ memory' = Stored(memory, [b \in {Step(p).buffer} |-> Step(p).text])
          /\ disk' = disk /\ taken' = taken
          BY <1>3 DEF Fill
    <2>5. MemoryTyped'
          BY <2>3, <2>4, StoredMemory
    <2> QED BY <1>2, <2>4, <2>5
<1>4. CASE ServeDisk(p)
    <2>1. In(p, DiskCalls) /\ ~DiskRefused(args[p]) /\ taken' = taken
          BY <1>4 DEF ServeDisk
    <2>2. Read(args[p]) \/ Write(args[p])
          BY <1>4 DEF ServeDisk
    <2> QED BY <1>2, <2>1, <2>2, ReadTyped, WriteTyped
<1>5. CASE ReadTerm(p)
      BY <1>2, <1>5, ReadTermTyped
<1>6. CASE ~Fill(p) /\ ~ServeDisk(p) /\ ~ReadTerm(p)
    <2>1. UNCHANGED <<memory, disk, taken>>
          BY <1>6 DEF Run, Own, Call, Answer, Spawn, Wait, Expect, CallDisk, DiskSize, CallTerm,
                      CallSleep, RefuseDisk, PassDisk, RefuseTerm, WriteTerm, WakeUp
    <2> QED BY <1>2, <2>1
<1> QED BY <1>3, <1>4, <1>5, <1>6

LEMMA InitTypes == Init => TypeInv
<1> SUFFICES ASSUME Init PROVE TypeInv
    OBVIOUS
<1>1. \A p \in Clients : Len(test[p]) \in Nat
      BY SystemCallsAssumption DEF Init, Clients
<1>2. \A t \in Terminals : Len(Input[t]) \in Nat
      BY SystemCallsAssumption, LenProperties
<1>3. PoolInv
      BY InitPool
<1>4. DOMAIN memory = {} /\ DOMAIN disk = {}
      BY DEF Init
<1>5. \A p \in Clients : pos[p] \in 0 .. Len(test[p])
      BY <1>1 DEF Init
<1>6. \A t \in Terminals : taken[t] \in 0 .. Len(Input[t])
      BY <1>2 DEF Init
<1>7. at \in [Clients -> {"unborn", "user", "call"}]
      BY <1>3 DEF PoolInv, States
<1>8. stock \in Nat
      BY <1>3 DEF Init, PoolInv
<1>9. TypeOK
      BY <1>3, <1>4, <1>5, <1>6, <1>7, <1>8 DEF Init, TypeOK, PoolInv
<1> QED BY <1>9 DEF Init, TypeInv

LEMMA NextTypes ==
    ASSUME TypeInv, PoolInv, [Next]_vars
    PROVE  TypeInv'
<1>1. CASE Next
    <2>1. PICK p \in Clients : Run(p)
          BY <1>1 DEF Next
    <2>2. Control(p) /\ wrong' \subseteq wrong \cup {p} /\ dangling' \in {dangling, TRUE}
          BY <2>1, RunControl
    <2>3. /\ test' \in Tests /\ Clients' = Clients /\ test' = test
          /\ at' \in [Clients -> States]
          /\ DOMAIN at' = Clients /\ DOMAIN pos' = Clients /\ DOMAIN args' = Clients
          /\ \A q \in Clients : pos'[q] \in 0 .. Len(test[q])
          /\ \A q \in Clients : at'[q] = "call" =>
                /\ ~Over(q)'
                /\ Step(q)'.call \in DiskCalls => args'[q] = DiskArgs(Step(q)')
          BY <2>2, ControlTypes DEF Control
    <2>4. MemoryTyped' /\ DiskTyped' /\ TakenTyped'
          BY <2>1, RunData
    <2>5. PoolInv'
          BY NextPool
    <2>6. holding' \subseteq {q \in Clients' : at'[q] = "call"} /\ free' \in Nat /\ leaked' \in Nat
          BY <2>5 DEF PoolInv, InDisk, In
    <2>7. dangling' \in BOOLEAN /\ wrong' \subseteq Clients' /\ stock' \in Nat
          BY <1>1, <2>2, <2>3 DEF Next, TypeInv, TypeOK
    <2>8. TypeOK'
          BY <2>3, <2>4, <2>6, <2>7 DEF TypeOK, States, MemoryTyped, DiskTyped, TakenTyped,
                                        Contents
    <2> QED BY <2>3, <2>4, <2>8 DEF TypeInv, TakenTyped, DiskArgs
<1>2. CASE UNCHANGED vars
      BY <1>2 DEF vars, TypeInv, TypeOK, Clients, Over, Step, DiskArgs
<1> QED BY <1>1, <1>2

LEMMA TypeInvCorrect == Spec => []TypeInv
<1>1. PoolInv /\ TypeInv /\ [Next]_vars => TypeInv'
      BY NextTypes
<1> QED BY <1>1, InitTypes, PoolCorrect, PTL DEF Spec

\* Every variable has its type in every program whose steps have arguments of the C
\* types: no operation leaves the disk, and no terminal gives more lines than it has.
THEOREM TypeCorrect == Spec => []TypeOK
<1>1. TypeInv => TypeOK
      BY DEF TypeInv
<1> QED BY <1>1, TypeInvCorrect, PTL

-----------------------------------------------------------------------------
(***************************************************************************)
(* Programs that are never refused.                                        *)
(***************************************************************************)
\* The programs whose disk calls are legal, and the pools with a mailbox for each
\* process.
LegalCalls ==
    \A t \in Tests : \A p \in DOMAIN t : \A i \in 1 .. Len(t[p]) :
        t[p][i].call \in DiskCalls => t[p][i].unit \in Units /\ t[p][i].first \in 0 .. NBlocks

AmplePools == \A t \in Tests : \A n \in Pools : n >= Fixed + Cardinality(DOMAIN t)

AllInStock == leaked = 0

NothingLost == AllInStock /\ ~dangling

\* A refused call is one of the program's own, with the arguments it was written with.
LEMMA NoRefusal ==
    ASSUME TypeInv, LegalCalls, NEW p \in Clients
    PROVE  ~RefuseDisk(p)
<1>1. SUFFICES ASSUME In(p, DiskCalls), DiskRefused(args[p]) PROVE FALSE
      BY DEF RefuseDisk
<1>2. ~Over(p) /\ Step(p).call \in DiskCalls /\ args[p] = DiskArgs(Step(p))
      BY <1>1 DEF TypeInv, In
<1>3. pos[p] \in 0 .. Len(test[p]) /\ pos[p] # Len(test[p]) /\ Len(test[p]) \in Nat
      BY <1>2, SystemCallsAssumption DEF TypeInv, TypeOK, Over, Clients
<1>4. pos[p] + 1 \in 1 .. Len(test[p])
      BY <1>3
<1>5. Step(p).unit \in Units /\ Step(p).first \in 0 .. NBlocks
      BY <1>2, <1>4 DEF LegalCalls, TypeInv, TypeOK, Clients, Step
<1> QED BY <1>1, <1>2, <1>5, SystemCallsAssumption DEF DiskRefused, DiskArgs, Asked, Disk!Valid

\* In programs whose disk calls are legal no mailbox is lost, and with one for each
\* process no call returns without waiting for its operation (507-514, 620-626).
THEOREM LegalCallsWait ==
    ASSUME LegalCalls, AmplePools
    PROVE  Spec => []NothingLost
<1>1. Init => AllInStock
      BY DEF Init, AllInStock
<1>2. TypeInv /\ AllInStock /\ [Next]_vars => AllInStock'
    <2> SUFFICES ASSUME TypeInv, leaked = 0, [Next]_vars PROVE leaked' = 0
        BY DEF AllInStock
    <2>1. CASE Next
        <3>1. PICK p \in Clients : Run(p)
              BY <2>1 DEF Next
        <3>2. ~RefuseDisk(p)
              BY NoRefusal
        <3> QED BY <3>1, <3>2 DEF Run, Own, Call, Answer, Spawn, Wait, Fill, Expect, CallDisk,
                   DiskSize, CallTerm, CallSleep, ServeDisk, PassDisk, RefuseTerm, ReadTerm,
                   WriteTerm, WakeUp
    <2>2. CASE UNCHANGED vars
          BY <2>2 DEF vars
    <2> QED BY <2>1, <2>2
<1>3. PoolInv /\ StockInv /\ NeverDangling /\ AllInStock => NothingLost
    <2> SUFFICES ASSUME PoolInv, StockInv, NeverDangling, leaked = 0, dangling PROVE FALSE
        BY DEF NothingLost, AllInStock
    <2>1. PICK n \in Pools : stock = n - Fixed
          BY DEF StockInv
    <2>2. n >= Fixed + Cardinality(Clients)
          BY DEF AmplePools, PoolInv, Clients
    <2>3. n \in Nat /\ Fixed \in Int /\ Cardinality(Clients) \in Nat
          BY Finite, SystemCallsAssumption DEF Fixed
    <2>4. n - Fixed - leaked < Cardinality(Clients)
          BY <2>1 DEF NeverDangling
    <2> QED BY <2>2, <2>3, <2>4
<1> QED BY <1>1, <1>2, <1>3, PoolCorrect, StockCorrect, NeverDanglingCorrect, TypeInvCorrect,
           PTL DEF Spec

-----------------------------------------------------------------------------
(***************************************************************************)
(* Results that depend on nothing but the arguments.                       *)
(***************************************************************************)
AllSettled == \A t \in Tests : Settled(t)

TermCalls == {"TermRead", "TermWrite"}

\* Is the text that process p writes at some step taken from buffer b?
WritesFrom(p, b) ==
    \E i \in 1 .. Len(test[p]) : test[p][i].call = "TermWrite" /\ test[p][i].buffer = b

\* ChecksHold, strengthened: the buffers lines are written from hold no more than a
\* line, and the Sysargs of a terminal's call are still what the stub would pack.
ResultInv ==
    /\ ChecksHold
    /\ \A p \in Clients : \A b : WritesFrom(p, b) => Len(Content(b)) <= MaxLine
    /\ \A p \in Clients :
          at[p] = "call" /\ Step(p).call \in TermCalls => args[p] = TermArgs(Step(p))

LEMMA StepSettled ==
    ASSUME AllSettled, TypeInv, NEW p \in Clients, ~Over(p)
    PROVE  /\ Fits(Step(p))
           /\ Step(p).call = "TermWrite" => WritesFrom(p, Step(p).buffer)
           /\ pos[p] + 1 \in 1 .. Len(test[p]) /\ Step(p) = test[p][pos[p] + 1]
<1>1. pos[p] \in 0 .. Len(test[p]) /\ pos[p] # Len(test[p]) /\ Len(test[p]) \in Nat
      BY SystemCallsAssumption DEF TypeInv, TypeOK, Over, Clients
<1>2. pos[p] + 1 \in 1 .. Len(test[p])
      BY <1>1
<1> QED BY <1>2 DEF AllSettled, Settled, TypeInv, TypeOK, Clients, Step, WritesFrom

\* A process that fills a buffer fills no line of another, and none beyond its end.
LEMMA FillsOwn ==
    ASSUME AllSettled, TypeInv, NEW p \in Clients, ~Over(p),
           Step(p).call \in {"Fill", "TermRead", "DiskRead"},
           NEW q \in Clients, WritesFrom(q, Step(p).buffer)
    PROVE  /\ q = p /\ Step(p).call # "DiskRead"
           /\ Step(p).call = "Fill" => Len(Step(p).text) <= MaxLine
<1>1. PICK i \in 1 .. Len(test[q]) :
        test[q][i].call = "TermWrite" /\ test[q][i].buffer = Step(p).buffer
      BY DEF WritesFrom
<1>2. OwnLine(test, q, Step(p).buffer)
      BY <1>1 DEF AllSettled, Settled, TypeInv, TypeOK, Clients
<1>3. pos[p] + 1 \in 1 .. Len(test[p]) /\ Step(p) = test[p][pos[p] + 1]
      BY StepSettled
<1> QED BY <1>2, <1>3 DEF OwnLine, Clients

LEMMA ContentStored ==
    ASSUME NEW b, NEW text, memory' = Stored(memory, [y \in {b} |-> text])
    PROVE  /\ Content(b)' = text
           /\ \A c : c # b => Content(c)' = Content(c)
BY DEF Content, Stored

LEMMA OverwrittenLen ==
    ASSUME NEW S, NEW old \in Seq(S), NEW new \in Seq(S)
    PROVE  Len(Overwritten(old, new)) = IF Len(new) < Len(old) THEN Len(old) ELSE Len(new)
<1>1. Len(old) \in Nat /\ Len(new) \in Nat /\ \A i \in 1 .. Len(old) : old[i] \in S
      BY LenProperties
<1>2. \A i \in Len(new) + 1 .. Len(old) : old[i] \in S
      BY <1>1
<1>3. /\ SubSeq(old, Len(new) + 1, Len(old)) \in Seq(S)
      /\ Len(SubSeq(old, Len(new) + 1, Len(old))) =
            IF Len(new) + 1 <= Len(old) THEN Len(old) - (Len(new) + 1) + 1 ELSE 0
      BY <1>1, <1>2, SubSeqProperties
<1>4. Len(Overwritten(old, new)) = Len(new) + Len(SubSeq(old, Len(new) + 1, Len(old)))
      BY <1>3, ConcatProperties DEF Overwritten
<1> QED BY <1>1, <1>3, <1>4

\* A line that is received fits into a line.
LEMMA ReadTermFills ==
    ASSUME TypeInv, ResultInv, NEW p \in Clients, ReadTerm(p)
    PROVE  \E text : /\ memory' = Stored(memory, [y \in {Step(p).buffer} |-> text])
                     /\ \/ Len(text) <= MaxLine
                        \/ Len(text) = Len(Content(Step(p).buffer))
<1> DEFINE a == args[p]
           line == Input[a.arg3][taken[a.arg3] + 1]
           text == IF Len(line) > a.arg2 THEN Content(a.arg1)
                                         ELSE Overwritten(Content(a.arg1), line)
<1>1. /\ In(p, {"TermRead"}) /\ ~TermRefused(p)
      /\ a.arg3 \in Terminals /\ taken[a.arg3] < Len(Input[a.arg3])
      /\ memory' = Stored(memory, [b \in {a.arg1} |-> text])
      BY DEF ReadTerm
<1>2. a.arg1 = Step(p).buffer /\ a.arg2 \in Int
    <2>1. at[p] = "call" /\ Step(p).call = "TermRead"
          BY <1>1 DEF In
    <2>2. a = TermArgs(Step(p))
          BY <2>1 DEF ResultInv, TermCalls
    <2>3. a.arg1 = Step(p).buffer /\ a.arg2 = Step(p).size
          BY <2>1, <2>2 DEF TermArgs
    <2>4. TypedStep(Step(p))
          BY <2>1, StepTyped DEF TypeInv
    <2> QED BY <2>1, <2>3, <2>4 DEF TypedStep
<1>3. ~ReadRefused(a)
      BY <1>1 DEF TermRefused, In
<1>4. Input[a.arg3] \in Seq(Seq(Texts)) /\ Len(Input[a.arg3]) \in Nat
      BY <1>1, SystemCallsAssumption, LenProperties
<1>5. taken[a.arg3] + 1 \in 1 .. Len(Input[a.arg3])
      BY <1>1, <1>4 DEF TypeInv, TypeOK
<1>6. line \in Seq(Texts)
      BY <1>4, <1>5, ElementOfSeq
<1>7. line \in Seq(Contents)
      BY <1>6 DEF Contents
<1>8. Content(a.arg1) \in Seq(Contents)
      BY ContentType
<1>9. Len(text) <= MaxLine \/ Len(text) = Len(Content(a.arg1))
    <2>1. CASE Len(line) > a.arg2
          BY <2>1
    <2>2. CASE ~(Len(line) > a.arg2)
        <3> /\ Len(line) \in Nat /\ MaxLine \in Nat
            BY <1>6, LenProperties, SystemCallsAssumption
        <3>1. Len(text) = IF Len(line) < Len(Content(a.arg1)) THEN Len(Content(a.arg1))
                                                              ELSE Len(line)
              BY <1>7, <1>8, <2>2, OverwrittenLen
        <3>2. ~(a.arg2 > MaxLine)
              BY <1>3 DEF ReadRefused
        <3> QED BY <1>2, <2>2, <3>1, <3>2
    <2> QED BY <2>1, <2>2
<1> HIDE DEF text
<1> QED BY <1>1, <1>2, <1>9
\* What a step does to the buffers.
LEMMA RunFills ==
    ASSUME TypeInv, ResultInv, NEW p \in Clients, Run(p)
    PROVE  \/ memory' = memory
           \/ /\ ~Over(p) /\ Step(p).call \in {"Fill", "TermRead", "DiskRead"}
              /\ \E text :
                    /\ memory' = Stored(memory, [y \in {Step(p).buffer} |-> text])
                    /\ Step(p).call = "Fill" => text = Step(p).text
                    /\ Step(p).call = "TermRead" =>
                          \/ Len(text) <= MaxLine
                          \/ Len(text) = Len(Content(Step(p).buffer))
<1>1. CASE Fill(p)
      BY <1>1 DEF Fill, Does
<1>2. CASE ServeDisk(p)
    <2>1. In(p, DiskCalls)
          BY <1>2 DEF ServeDisk
    <2>2. ~Over(p) /\ args[p] = DiskArgs(Step(p))
          BY <2>1 DEF TypeInv, In
    <2>3. args[p].arg1[1] = Step(p).buffer
          BY <2>2 DEF DiskArgs
    <2>4. CASE Step(p).call = "DiskRead"
        <3>1. Read(args[p])
              BY <1>2, <2>4 DEF ServeDisk
        <3> QED BY <2>2, <2>3, <2>4, <3>1 DEF Read
    <2>5. CASE Step(p).call # "DiskRead"
          BY <1>2, <2>5 DEF ServeDisk, Write
    <2> QED BY <2>4, <2>5
<1>3. CASE ReadTerm(p)
    <2>1. ~Over(p) /\ Step(p).call = "TermRead"
          BY <1>3 DEF ReadTerm, In, TypeInv
    <2> QED BY <1>3, <2>1, ReadTermFills
<1>4. CASE ~Fill(p) /\ ~ServeDisk(p) /\ ~ReadTerm(p)
      BY <1>4 DEF Run, Own, Call, Answer, Spawn, Wait, Expect, CallDisk, DiskSize, CallTerm,
                  CallSleep, RefuseDisk, PassDisk, RefuseTerm, WriteTerm, WakeUp
<1> QED BY <1>1, <1>2, <1>3, <1>4

\* Nobody else changes the buffer a process writes a line from, and a line stays one.
LEMMA LinesKept ==
    ASSUME AllSettled, TypeInv, ResultInv, NEW p \in Clients, Run(p),
           NEW q \in Clients, NEW b, WritesFrom(q, b)
    PROVE  /\ Len(Content(b)') <= MaxLine
           /\ q # p => Content(b)' = Content(b)
<1>1. Len(Content(b)) <= MaxLine
      BY DEF ResultInv
<1>2. CASE memory' = memory
      BY <1>1, <1>2 DEF Content
<1>3. CASE /\ ~Over(p) /\ Step(p).call \in {"Fill", "TermRead", "DiskRead"}
           /\ \E text :
                 /\ memory' = Stored(memory, [y \in {Step(p).buffer} |-> text])
                 /\ Step(p).call = "Fill" => text = Step(p).text
                 /\ Step(p).call = "TermRead" =>
                       \/ Len(text) <= MaxLine
                       \/ Len(text) = Len(Content(Step(p).buffer))
    <2>1. PICK text :
             /\ memory' = Stored(memory, [y \in {Step(p).buffer} |-> text])
             /\ Step(p).call = "Fill" => text = Step(p).text
             /\ Step(p).call = "TermRead" =>
                   \/ Len(text) <= MaxLine
                   \/ Len(text) = Len(Content(Step(p).buffer))
          BY <1>3
    <2>2. CASE b # Step(p).buffer
          BY <1>1, <2>1, <2>2, ContentStored
    <2>3. CASE b = Step(p).buffer
        <3>1. /\ q = p /\ Step(p).call # "DiskRead"
              /\ Step(p).call = "Fill" => Len(Step(p).text) <= MaxLine
              BY <1>3, <2>3, FillsOwn
        <3>2. Content(b)' = text
              BY <2>1, <2>3, ContentStored
        <3>3. Len(text) <= MaxLine
              BY <1>1, <1>3, <2>1, <2>3, <3>1
        <3> QED BY <3>1, <3>2, <3>3
    <2> QED BY <2>2, <2>3
<1> QED BY <1>2, <1>3, RunFills

\* The Sysargs of a terminal's call stay what the stub packed.
LEMMA TermArgsKept ==
    ASSUME AllSettled, TypeInv, ResultInv, NEW p \in Clients, Run(p),
           NEW q \in Clients, at'[q] = "call", (Step(q)').call \in TermCalls
    PROVE  args'[q] = TermArgs(Step(q))'
<1>1. Control(p)
      BY RunControl
<1>2. pos'[q] = pos[q] /\ test' = test
      BY <1>1 DEF Control, TypeInv
<1>3. Step(q)' = Step(q)
      BY <1>2 DEF Step
<1>4. CASE at[q] = "call"
    <2>1. q # p /\ args'[q] = args[q]
          BY <1>1, <1>4 DEF Control, TypeInv
    <2>2. args[q] = TermArgs(Step(q)) /\ ~Over(q)
          BY <1>3, <1>4 DEF ResultInv, TypeInv
    <2>3. CASE Step(q).call = "TermRead"
          BY <1>3, <2>1, <2>2, <2>3 DEF TermArgs
    <2>4. CASE Step(q).call = "TermWrite"
        <3>1. WritesFrom(q, Step(q).buffer)
              BY <2>2, <2>4, StepSettled
        <3>2. \A b : WritesFrom(q, b) => Content(b)' = Content(b)
              BY <2>1, LinesKept
        <3>3. Content(Step(q).buffer)' = Content(Step(q).buffer)
              BY <1>3, <3>1, <3>2 DEF Content
        <3> QED BY <1>3, <2>1, <2>2, <3>3 DEF TermArgs
    <2> QED BY <1>3, <2>3, <2>4 DEF TermCalls
<1>5. CASE at[q] # "call"
    <2>1. q = p /\ at[p] = "user"
          BY <1>1, <1>5 DEF Control, TypeInv
    <2>2. CallDisk(p) \/ CallTerm(p) \/ CallSleep(p)
        <3>1. ~Answer(p)
              BY <1>5, <2>1 DEF Answer, RefuseDisk, ServeDisk, PassDisk, RefuseTerm, ReadTerm,
                                WriteTerm, WakeUp, In
        <3>2. ~Own(p) /\ ~DiskSize(p)
              BY <2>1 DEF Own, DiskSize, Spawn, Wait, Fill, Expect, TypeInv
        <3> QED BY <3>1, <3>2 DEF Run, Call
    <2>3. CallTerm(p)
          BY <1>3, <2>1, <2>2 DEF CallDisk, CallSleep, Does, DiskCalls, TermCalls
    <2>4. args'[p] = TermArgs(Step(p)) /\ memory' = memory
          BY <2>3 DEF CallTerm, Trap, TypeInv
    <2> QED BY <1>3, <2>1, <2>4 DEF TermArgs, Content
<1> QED BY <1>4, <1>5
\* Whoever comes back finds what the program takes, or leaves its node on a queue.
LEMMA ResultTaken ==
    ASSUME AllSettled, TypeInv, ResultInv, NEW p \in Clients, Run(p), ~dangling'
    PROVE  wrong' = wrong
<1>1. Control(p)
      BY RunControl
<1>2. ~Over(p)
      BY <1>1 DEF Control, TypeInv
<1>3. Fits(Step(p))
      BY <1>2, StepSettled
<1>4. CASE Own(p)
      BY <1>3, <1>4 DEF Own, Spawn, Wait, Fill, Expect, Does, Done, Fits
<1>5. CASE DiskSize(p)
      BY <1>3, <1>5 DEF DiskSize, Does, Done, Fits
<1>6. CASE CallDisk(p) \/ CallTerm(p) \/ CallSleep(p)
      BY <1>6 DEF CallDisk, CallTerm, CallSleep
<1>7. CASE RefuseDisk(p) \/ ServeDisk(p)
    <2>1. In(p, DiskCalls)
          BY <1>7 DEF RefuseDisk, ServeDisk
    <2>2. args[p] = DiskArgs(Step(p)) /\ Step(p).call \in DiskCalls
          BY <2>1 DEF TypeInv, In
    <2>3. IF DiskRefused(args[p]) THEN -1 \in Step(p).ret
          ELSE /\ 0 \in Step(p).ret
               /\ Disk(args[p].arg5)!Verdict(Asked(args[p])) \in Step(p).status
        <3> DEFINE s == Step(p)
                   r == [track |-> s.track, start |-> s.first, sectors |-> s.sectors]
        <3>1. args[p].arg5 = s.unit /\ Asked(args[p]) = r
              BY <2>2 DEF DiskArgs, Asked
        <3>2. DiskRefused(args[p]) <=> ~(s.unit \in Units /\ Disk(s.unit)!Valid(r))
              BY <3>1 DEF DiskRefused
        <3> HIDE DEF r
        <3>3. IF s.unit \in Units /\ Disk(s.unit)!Valid(r)
              THEN 0 \in s.ret /\ Disk(s.unit)!Verdict(r) \in s.status
              ELSE -1 \in s.ret
              BY <1>3, <2>2 DEF Fits, FitsDisk, r
        <3> QED BY <3>1, <3>2, <3>3
    <2>4. CASE RefuseDisk(p)
          BY <2>3, <2>4 DEF RefuseDisk, Return, Done
    <2>5. CASE ServeDisk(p)
          BY <2>3, <2>5 DEF ServeDisk, Return, Done
    <2> QED BY <1>7, <2>4, <2>5
<1>8. CASE PassDisk(p)
      BY <1>8 DEF PassDisk
<1>9. CASE (RefuseTerm(p) \/ ReadTerm(p)) /\ Step(p).call = "TermRead"
    <2>1. args[p] = TermArgs(Step(p))
          BY <1>9 DEF RefuseTerm, ReadTerm, In, ResultInv, TermCalls
    <2>2. ReadRefused(args[p]) <=>
             ReadRefused([arg1 |-> Step(p).buffer, arg2 |-> Step(p).size, arg3 |-> Step(p).unit])
          BY <1>9, <2>1 DEF ReadRefused, TermArgs
    <2>3. IF ReadRefused(args[p]) THEN -1 \in Step(p).ret
                                  ELSE 0 \in Step(p).ret /\ ~Step(p).counted
          BY <1>3, <1>9, <2>2 DEF Fits, FitsRead
    <2>4. CASE RefuseTerm(p)
          BY <1>9, <2>3, <2>4 DEF RefuseTerm, TermRefused, Return, Done
    <2>5. CASE ReadTerm(p)
          BY <1>9, <2>3, <2>5 DEF ReadTerm, TermRefused, Return, Done
    <2> QED BY <1>9, <2>4, <2>5
<1>10. CASE (RefuseTerm(p) \/ WriteTerm(p)) /\ Step(p).call = "TermWrite"
    <2>1. args[p] = TermArgs(Step(p))
          BY <1>10 DEF RefuseTerm, WriteTerm, In, ResultInv, TermCalls
    <2>2. args[p].arg2 = Len(Content(args[p].arg1)) /\ args[p].arg1 = Step(p).buffer
          BY <1>10, <2>1 DEF TermArgs
    <2>3. Len(Content(Step(p).buffer)) <= MaxLine
          BY <1>2, <1>10, StepSettled DEF ResultInv
    <2>4. Len(Content(Step(p).buffer)) \in Nat /\ MaxLine \in Nat
          BY ContentType, LenProperties, SystemCallsAssumption
    <2>5. ~WriteRefused(args[p])
          BY <2>2, <2>3, <2>4 DEF WriteRefused
    <2>6. ~RefuseTerm(p)
          BY <1>10, <2>5 DEF RefuseTerm, TermRefused
    <2> QED BY <1>3, <1>10, <2>2, <2>6 DEF WriteTerm, Return, Done, Fits
<1>11. CASE WakeUp(p)
      BY <1>11 DEF WakeUp, Return, Done
<1>12. /\ RefuseTerm(p) => Step(p).call \in {"TermRead", "TermWrite"}
       /\ ReadTerm(p) => Step(p).call = "TermRead"
       /\ WriteTerm(p) => Step(p).call = "TermWrite"
      BY DEF RefuseTerm, ReadTerm, WriteTerm, In
<1> QED BY <1>4, <1>5, <1>6, <1>7, <1>8, <1>9, <1>10, <1>11, <1>12 DEF Run, Call, Answer

LEMMA NextResult ==
    ASSUME AllSettled, TypeInv, ResultInv, [Next]_vars
    PROVE  ResultInv'
<1>1. CASE Next
    <2>1. ~dangling
          BY <1>1 DEF Next
    <2>2. PICK p \in Clients : Run(p)
          BY <1>1 DEF Next
    <2>3. test' = test /\ Clients' = Clients
          BY <2>2, RunControl DEF Control, Clients
    <2>4. ChecksHold'
          BY <2>1, <2>2, ResultTaken DEF ResultInv, ChecksHold
    <2>5. \A q \in Clients : \A b : WritesFrom(q, b)' => Len(Content(b)') <= MaxLine
          BY <2>2, <2>3, LinesKept DEF WritesFrom
    <2>6. \A q \in Clients :
             at'[q] = "call" /\ (Step(q)').call \in TermCalls => args'[q] = TermArgs(Step(q))'
          BY <2>2, TermArgsKept
    <2> QED BY <2>3, <2>4, <2>5, <2>6 DEF ResultInv
<1>2. CASE UNCHANGED vars
    <2>1. UNCHANGED <<test, at, pos, args, memory, dangling, wrong>>
          BY <1>2 DEF vars
    <2> QED BY <2>1 DEF ResultInv, ChecksHold, Clients, WritesFrom, Content, Step, TermArgs
<1> QED BY <1>1, <1>2

LEMMA InitResult == Init => ResultInv
<1> SUFFICES ASSUME Init PROVE ResultInv
    OBVIOUS
<1>1. \A b : Len(Content(b)) = 0
      BY DEF Init, Content
<1>2. \A p \in Clients : at[p] # "call"
      BY DEF Init
<1> QED BY <1>1, <1>2, SystemCallsAssumption DEF Init, ResultInv, ChecksHold

\* In programs that compare no contents and write lines from buffers of their own, each
\* check holds in every order of the daemons' answers: a result depends on nothing but
\* the arguments, as the stub packs and the handler tests them (phase4_usermode.c, and
\* 200-209, 243-247, 507-514).
THEOREM ChecksHoldWhenSettled ==
    ASSUME AllSettled
    PROVE  Spec => []ChecksHold
<1>1. TypeInv /\ ResultInv /\ [Next]_vars => ResultInv'
      BY NextResult
<1>2. ResultInv => ChecksHold
      BY DEF ResultInv
<1> QED BY <1>1, <1>2, InitResult, TypeInvCorrect, PTL DEF Spec
=============================================================================
