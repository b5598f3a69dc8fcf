-------------------------- MODULE LinkedListProofs --------------------------
(***************************************************************************)
(* What linking a node behind another, and unlinking the head, do to a     *)
(* list.                                                                   *)
(***************************************************************************)
EXTENDS LinkedLists, SequenceTheorems, TLAPS

\* Linking p behind the k-th node gives a list one longer, with the same head
\* (553-575).
LEMMA InsertAfterProperties ==
    ASSUME NEW S, NEW list \in Seq(S), NEW k \in 1 .. Len(list), NEW p \in S
    PROVE  LET new == InsertAfter(list, k, p) IN
           /\ new \in Seq(S)
           /\ Len(new) = Len(list) + 1
           /\ new # <<>>
           /\ Head(new) = Head(list)
           /\ \A i \in 1 .. Len(list) + 1 :
                 new[i] = IF i <= k THEN list[i]
                          ELSE IF i = k + 1 THEN p ELSE list[i - 1]
<1> DEFINE new == InsertAfter(list, k, p)
           n == Len(list) + 1
<1>1. Len(list) \in Nat /\ list \in [1 .. Len(list) -> S]
  BY LenProperties
<1>2. \A i \in 1 .. n :
         new[i] = IF i <= k THEN list[i] ELSE IF i = k + 1 THEN p ELSE list[i - 1]
  BY DEF InsertAfter
<1>3. new \in [1 .. n -> S]
  BY <1>1, <1>2 DEF InsertAfter
<1>4. new \in Seq(S)
  BY <1>1, <1>3, SeqDef
<1>5. Len(new) = n
  BY <1>1, <1>3, <1>4, LenProperties
<1>6. new # <<>>
  BY <1>1, <1>4, <1>5, EmptySeq
<1>7. Head(new) = new[1] /\ Head(list) = list[1]
  BY <1>1, <1>4, <1>6
<1> QED
  BY <1>1, <1>2, <1>4, <1>5, <1>6, <1>7

\* Unlinking the head of a list (794, 823).
LEMMA TailProperties ==
    ASSUME NEW S, NEW list \in Seq(S), list # <<>>
    PROVE  /\ Len(list) \in Nat \ {0}
           /\ Head(list) = list[1]
           /\ Head(list) \in S
           /\ Tail(list) \in Seq(S)
           /\ Len(Tail(list)) = Len(list) - 1
           /\ \A i \in 1 .. Len(list) - 1 : Tail(list)[i] = list[i + 1]
<1>1. Len(list) \in Nat \ {0}
  BY EmptySeq
<1>2. Head(list) = list[1]
  OBVIOUS
<1> QED
  BY <1>1, <1>2, HeadTailProperties

\* Linking a new node adds its owner to a list without repetitions.
LEMMA InsertMembers ==
    ASSUME NEW S, NEW list \in Seq(S), NEW k \in 1 .. Len(list), NEW p \in S,
           NoRepeat(list), p \notin Members(list)
    PROVE  /\ NoRepeat(InsertAfter(list, k, p))
           /\ Members(InsertAfter(list, k, p)) = Members(list) \cup {p}
<1> DEFINE new == InsertAfter(list, k, p)
<1>1. /\ Len(list) \in Nat
      /\ DOMAIN list = 1 .. Len(list)
  BY LenProperties
<1>2. /\ new \in Seq(S)
      /\ Len(new) = Len(list) + 1
      /\ \A i \in 1 .. Len(list) + 1 :
            new[i] = IF i <= k THEN list[i]
                     ELSE IF i = k + 1 THEN p ELSE list[i - 1]
  BY InsertAfterProperties
<1>3. DOMAIN new = 1 .. Len(list) + 1
  BY <1>2, LenProperties
<1>4. \A i \in DOMAIN list : list[i] # p
  BY DEF Members
<1>5. NoRepeat(new)
  <2> SUFFICES ASSUME NEW i \in DOMAIN new, NEW j \in DOMAIN new, new[i] = new[j]
               PROVE  i = j
    BY DEF NoRepeat
  <2> DEFINE old(m) == IF m <= k THEN m ELSE m - 1
  <2>1. \A m \in DOMAIN new : m # k + 1 => old(m) \in DOMAIN list /\ new[m] = list[old(m)]
    BY <1>1, <1>2, <1>3
  <2>2. new[k + 1] = p
    BY <1>1, <1>2
  <2>3. i = k + 1 <=> j = k + 1
    BY <1>4, <2>1, <2>2
  <2>4. i # k + 1 /\ j # k + 1 => old(i) = old(j)
    BY <2>1 DEF NoRepeat
  <2> QED
    BY <1>1, <1>3, <2>3, <2>4
<1>6. ASSUME NEW i \in DOMAIN new
      PROVE  new[i] \in Members(list) \cup {p}
  <2>1. i <= k => i \in DOMAIN list /\ new[i] = list[i]
    BY <1>1, <1>2, <1>3
  <2>2. i > k + 1 => i - 1 \in DOMAIN list /\ new[i] = list[i - 1]
    BY <1>1, <1>2, <1>3
  <2>3. i = k + 1 => new[i] = p
    BY <1>1, <1>2, <1>3
  <2>4. i <= k \/ i = k + 1 \/ i > k + 1
    BY <1>1, <1>3
  <2> QED
    BY <2>1, <2>2, <2>3, <2>4 DEF Members
<1>7. ASSUME NEW i \in DOMAIN list PROVE list[i] \in Members(new)
  <2>1. i <= k => i \in DOMAIN new /\ new[i] = list[i]
    BY <1>1, <1>2, <1>3
  <2>2. i > k => i + 1 \in DOMAIN new /\ new[i + 1] = list[i]
    BY <1>1, <1>2, <1>3
  <2> QED
    BY <1>1, <2>1, <2>2 DEF Members
<1>8. p \in Members(new)
  <2>1. k + 1 \in DOMAIN new /\ new[k + 1] = p
    BY <1>1, <1>2, <1>3
  <2> QED
    BY <2>1 DEF Members
<1> QED
  BY <1>5, <1>6, <1>7, <1>8 DEF Members

\* Unlinking the head takes its owner, and only its owner, off the list.
LEMMA TailMembers ==
    ASSUME NEW S, NEW list \in Seq(S), list # <<>>, NoRepeat(list)
    PROVE  /\ NoRepeat(Tail(list))
           /\ Members(Tail(list)) = Members(list) \ {Head(list)}
           /\ Head(list) \in Members(list)
<1>1. /\ Len(list) \in Nat \ {0}
      /\ DOMAIN list = 1 .. Len(list)
      /\ DOMAIN Tail(list) = 1 .. Len(list) - 1
      /\ \A i \in 1 .. Len(list) - 1 : Tail(list)[i] = list[i + 1]
      /\ Head(list) = list[1]
  BY TailProperties, LenProperties
<1>2. \A i \in DOMAIN Tail(list) :
         i + 1 \in DOMAIN list /\ i + 1 # 1 /\ Tail(list)[i] = list[i + 1]
  BY <1>1
<1>3. NoRepeat(Tail(list))
  <2> SUFFICES ASSUME NEW i \in DOMAIN Tail(list), NEW j \in DOMAIN Tail(list),
                      Tail(list)[i] = Tail(list)[j]
               PROVE  i = j
    BY DEF NoRepeat
  <2>1. i + 1 = j + 1
    BY <1>2 DEF NoRepeat
  <2> QED
    BY <1>1, <2>1
<1>4. 1 \in DOMAIN list
  BY <1>1
<1>5. ASSUME NEW i \in DOMAIN Tail(list)
      PROVE  Tail(list)[i] \in Members(list) \ {Head(list)}
  BY <1>1, <1>2, <1>4 DEF NoRepeat, Members
<1>6. ASSUME NEW i \in DOMAIN list, i # 1
      PROVE  list[i] \in Members(Tail(list))
  <2>1. i - 1 \in DOMAIN Tail(list) /\ Tail(list)[i - 1] = list[i]
    BY <1>1, <1>6
  <2> QED
    BY <2>1 DEF Members
<1>7. Head(list) \in Members(list)
  BY <1>1, <1>4 DEF Members
<1>8. \A x \in Members(Tail(list)) : x \in Members(list) \ {Head(list)}
  BY <1>5 DEF Members
<1>9. \A x \in Members(list) \ {Head(list)} : x \in Members(Tail(list))
  <2> SUFFICES ASSUME NEW i \in DOMAIN list, list[i] # Head(list)
               PROVE  list[i] \in Members(Tail(list))
    BY DEF Members
  <2> QED
    BY <1>1, <1>6
<1> QED
  BY <1>3, <1>7, <1>8, <1>9

\* Making a list start at a later node drops its head and invents nothing (494).
LEMMA SuffixMembers ==
    ASSUME NEW S, NEW list \in Seq(S), list # <<>>, NoRepeat(list),
           NEW i \in 2 .. Len(list) + 1
    PROVE  LET new == SubSeq(list, i, Len(list)) IN
           /\ new \in Seq(S)
           /\ DOMAIN new = 1 .. Len(list) - i + 1
           /\ \A j \in 1 .. Len(list) - i + 1 :
                 /\ i + j - 1 \in DOMAIN list
                 /\ new[j] = list[i + j - 1]
           /\ NoRepeat(new)
           /\ Members(new) \subseteq Members(list) \ {Head(list)}
<1> DEFINE new == SubSeq(list, i, Len(list))
           n == Len(list) - i + 1
<1>1. /\ Len(list) \in Nat \ {0}
      /\ DOMAIN list = 1 .. Len(list)
      /\ Head(list) = list[1]
  BY TailProperties, LenProperties
<1>2. \A j \in i .. Len(list) : list[j] \in S
  BY <1>1, ElementOfSeq
<1>3. i \in Int /\ Len(list) \in Int
  BY <1>1
<1>4. /\ new \in Seq(S)
      /\ Len(new) = IF i <= Len(list) THEN n ELSE 0
      /\ \A j \in 1 .. n : new[j] = list[i + j - 1]
  BY <1>2, <1>3, SubSeqProperties
<1>5. Len(new) = n
  BY <1>1, <1>4
<1>6. DOMAIN new = 1 .. n
  BY <1>4, <1>5, LenProperties
<1>7. \A j \in 1 .. n : /\ i + j - 1 \in DOMAIN list
                        /\ i + j - 1 # 1
                        /\ new[j] = list[i + j - 1]
  BY <1>1, <1>4
<1>8. NoRepeat(new)
  <2> SUFFICES ASSUME NEW j \in 1 .. n, NEW m \in 1 .. n, new[j] = new[m]
               PROVE  j = m
    BY <1>6 DEF NoRepeat
  <2>1. i + j - 1 = i + m - 1
    BY <1>7 DEF NoRepeat
  <2> QED
    BY <1>1, <2>1
<1>9. ASSUME NEW j \in DOMAIN new
      PROVE  new[j] \in Members(list) \ {Head(list)}
  <2>1. 1 \in DOMAIN list
    BY <1>1
  <2>2. list[i + j - 1] # list[1]
    BY <1>6, <1>7, <2>1 DEF NoRepeat
  <2> QED
    BY <1>1, <1>6, <1>7, <2>2 DEF Members
<1>10. Members(new) \subseteq Members(list) \ {Head(list)}
  BY <1>9 DEF Members
<1> QED
  BY <1>4, <1>6, <1>7, <1>8, <1>10
=============================================================================
