--------------------------- MODULE TerminalProofs ---------------------------
(***************************************************************************)
(* The types of a terminal, the shape of its lines, the readiness of its   *)
(* transmitter, the characters that are read and the lines that are        *)
(* written, for any line length, any number of processes and any texts.    *)
(***************************************************************************)
EXTENDS TerminalLines, SequenceTheorems, WellFoundedInduction, TLAPS

\* TypeOK, with one status at most in the interrupt mailbox, w at the beginning of
\* to_write outside termWriting, and at a character while that is transmitted.
Typing ==
    /\ TypeOK
    /\ slot = <<>> \/ \E st \in Status : slot = <<st>>
    /\ dpc = "wait" => w = 0
    /\ dpc = "sent" => w < Len(to_write)

\* A NUL on its way to the line buffer has been typed.
NulTyped ==
    (received = NUL \/ (slot # <<>> /\ Head(slot).recv = NUL))
        => \E i \in DOMAIN input : input[i] = NUL

\* While no interrupt is late, the status in the mailbox is the transmitter's.
StatusCurrent ==
    ~late => /\ slot # <<>> => Head(slot).xmit = xmit
             /\ dpc = "send" => slot = <<>>

IInv == Typing /\ NulTyped /\ LineShape /\ StatusCurrent /\ OutputReady

-----------------------------------------------------------------------------
(***************************************************************************)
(* Concatenating any number of lines.  FlattenSeq is defined by recursion  *)
(* over the lines; what it computes is shown by way of the first index at  *)
(* which two solutions of its equation would differ.                       *)
(***************************************************************************)
LEMMA LeastNatural ==
    ASSUME NEW T \in SUBSET Nat, T # {}
    PROVE  \E n \in T : \A m \in T : n <= m
<1> DEFINE R == {ss \in Nat \X Nat : ss[1] < ss[2]}
<1>1. IsWellFoundedOn(R, Nat)
      BY NatLessThanWellFounded DEF OpToRel
<1> HIDE DEF R
<1>2. PICK n \in T : \A m \in T : <<m, n>> \notin R
      BY <1>1, WFMin
<1>3. \A m \in T : ~(m < n)
      BY <1>2 DEF R
<1> QED BY <1>2, <1>3

\* g[i] is the concatenation of the first i of ss, for i up to n.
Solves(ss, n, g) ==
    \A i \in 1 .. n : g[i] = IF i = 1 THEN ss[i] ELSE g[i - 1] \o ss[i]

LEMMA SolutionExists ==
    ASSUME NEW ss, NEW N \in Nat
    PROVE  \E g : g = [i \in 1 .. N |-> IF i = 1 THEN ss[i] ELSE g[i - 1] \o ss[i]]
<1> DEFINE Solved(n) ==
               \E g : g = [i \in 1 .. n |-> IF i = 1 THEN ss[i] ELSE g[i - 1] \o ss[i]]
           Bad == {n \in Nat : ~Solved(n)}
<1> SUFFICES ASSUME Bad # {} PROVE FALSE
    OBVIOUS
<1>1. PICK n \in Bad : \A m \in Bad : n <= m
      BY LeastNatural
<1>2. n \in Nat /\ ~Solved(n)
      OBVIOUS
<1>3. n # 0
    <2>1. Solved(0)
        <3> DEFINE g0 == [i \in 1 .. 0 |-> ss[i]]
        <3>1. g0 = [i \in 1 .. 0 |-> IF i = 1 THEN ss[i] ELSE g0[i - 1] \o ss[i]]
              OBVIOUS
        <3> QED BY <3>1
    <2> QED BY <1>2, <2>1
<1>4. n - 1 \in Nat /\ n - 1 \notin Bad
    <2> HIDE DEF Bad
    <2> QED BY <1>1, <1>2, <1>3
<1>5. PICK g : g = [i \in 1 .. n - 1 |-> IF i = 1 THEN ss[i] ELSE g[i - 1] \o ss[i]]
      BY <1>4
<1> DEFINE h == [i \in 1 .. n |-> IF i < n THEN g[i]
                                  ELSE IF n = 1 THEN ss[n] ELSE g[n - 1] \o ss[n]]
<1>6. \A i \in 1 .. n : h[i] = IF i = 1 THEN ss[i] ELSE h[i - 1] \o ss[i]
    <2> TAKE i \in 1 .. n
    <2>1. CASE i = n
          BY <1>2, <2>1
    <2>2. CASE i < n
        <3>1. i \in 1 .. n - 1 /\ h[i] = g[i] /\ (i # 1 => h[i - 1] = g[i - 1])
              BY <1>2, <2>2
        <3> HIDE DEF h
        <3>2. g[i] = IF i = 1 THEN ss[i] ELSE g[i - 1] \o ss[i]
              BY <1>5, <3>1
        <3> QED BY <3>1, <3>2
    <2> QED BY <1>2, <2>1, <2>2
<1>7. h = [i \in 1 .. n |-> IF i = 1 THEN ss[i] ELSE h[i - 1] \o ss[i]]
      BY <1>6
<1>8. Solved(n)
      BY <1>7
<1> QED BY <1>2, <1>8

LEMMA SolutionUnique ==
    ASSUME NEW ss, NEW n \in Nat, NEW g, NEW h, Solves(ss, n, g), Solves(ss, n, h)
    PROVE  \A i \in 1 .. n : g[i] = h[i]
<1> DEFINE Bad == {i \in 1 .. n : g[i] # h[i]}
<1> SUFFICES ASSUME Bad # {} PROVE FALSE
    OBVIOUS
<1>1. PICK i \in Bad : \A j \in Bad : i <= j
    <2>1. Bad \in SUBSET Nat
          OBVIOUS
    <2> HIDE DEF Bad
    <2> QED BY <2>1, LeastNatural
<1>2. i \in 1 .. n /\ g[i] # h[i]
      OBVIOUS
<1>3. CASE i = 1
      BY <1>2, <1>3 DEF Solves
<1>4. CASE i # 1
    <2>1. i - 1 \in 1 .. n /\ i - 1 \notin Bad
          BY <1>1, <1>2, <1>4
    <2>2. g[i - 1] = h[i - 1]
          BY <2>1
    <2> QED BY <1>2, <1>4, <2>2 DEF Solves
<1> QED BY <1>3, <1>4

LEMMA FlattenSolves ==
    ASSUME NEW S, NEW ss \in Seq(S), ss # <<>>
    PROVE  \E g : Solves(ss, Len(ss), g) /\ FlattenSeq(ss) = g[Len(ss)]
<1> DEFINE F == CHOOSE g : g = [i \in 1 .. Len(ss) |->
                                   IF i = 1 THEN ss[i] ELSE g[i - 1] \o ss[i]]
<1>1. Len(ss) \in Nat \ {0}
      BY EmptySeq
<1>2. F = [i \in 1 .. Len(ss) |-> IF i = 1 THEN ss[i] ELSE F[i - 1] \o ss[i]]
      BY <1>1, SolutionExists
<1>3. FlattenSeq(ss) = F[Len(ss)]
      BY <1>1 DEF FlattenSeq
<1> HIDE DEF F
<1>4. Solves(ss, Len(ss), F)
      BY <1>2 DEF Solves
<1> QED BY <1>3, <1>4

LEMMA FlattenType ==
    ASSUME NEW S, NEW ss \in Seq(Seq(S))
    PROVE  FlattenSeq(ss) \in Seq(S)
<1>1. CASE ss = <<>>
      BY <1>1, EmptySeq DEF FlattenSeq
<1>2. CASE ss # <<>>
    <2>1. PICK g : Solves(ss, Len(ss), g) /\ FlattenSeq(ss) = g[Len(ss)]
          BY <1>2, FlattenSolves
    <2>2. Len(ss) \in Nat \ {0}
          BY <1>2, EmptySeq
    <2>3. \A i \in 1 .. Len(ss) : ss[i] \in Seq(S)
          BY ElementOfSeq
    <2> DEFINE Bad == {i \in 1 .. Len(ss) : g[i] \notin Seq(S)}
    <2>4. ASSUME Bad # {} PROVE FALSE
        <3>1. PICK i \in Bad : \A j \in Bad : i <= j
            <4>1. Bad \in SUBSET Nat
                  OBVIOUS
            <4> HIDE DEF Bad
            <4> QED BY <2>4, <4>1, LeastNatural
        <3>2. i \in 1 .. Len(ss) /\ g[i] \notin Seq(S)
              OBVIOUS
        <3>3. i # 1
              BY <2>1, <2>3, <3>2 DEF Solves
        <3>4. i - 1 \in 1 .. Len(ss) /\ i - 1 \notin Bad
              BY <2>2, <3>1, <3>2, <3>3
        <3>5. g[i - 1] \in Seq(S) /\ g[i] = g[i - 1] \o ss[i]
              BY <2>1, <3>2, <3>3, <3>4 DEF Solves
        <3> QED BY <2>3, <3>2, <3>5, ConcatProperties
    <2> QED BY <2>1, <2>2, <2>4
<1> QED BY <1>1, <1>2

LEMMA FlattenAppend ==
    ASSUME NEW S, NEW ss \in Seq(Seq(S)), NEW l \in Seq(S)
    PROVE  FlattenSeq(Append(ss, l)) = FlattenSeq(ss) \o l
<1> DEFINE n == Len(ss)
           new == Append(ss, l)
<1>1. /\ n \in Nat /\ new \in Seq(Seq(S)) /\ new # <<>> /\ Len(new) = n + 1
      /\ new[n + 1] = l /\ \A i \in 1 .. n : new[i] = ss[i]
      BY LenProperties, AppendProperties
<1> HIDE DEF new
<1>2. PICK g : Solves(new, n + 1, g) /\ FlattenSeq(new) = g[n + 1]
      BY <1>1, FlattenSolves
<1>3. CASE ss = <<>>
    <2>1. n = 0 /\ FlattenSeq(ss) = <<>>
          BY <1>3 DEF FlattenSeq
    <2>2. g[1] = l
          BY <1>1, <1>2, <2>1 DEF Solves
    <2> QED BY <1>2, <2>1, <2>2, ConcatEmptySeq DEF new
<1>4. CASE ss # <<>>
    <2>1. PICK h : Solves(ss, n, h) /\ FlattenSeq(ss) = h[n]
          BY <1>4, FlattenSolves
    <2>2. n # 0
          BY <1>4
    <2>3. Solves(ss, n, g)
          BY <1>1, <1>2 DEF Solves
    <2>4. g[n] = h[n]
          BY <1>1, <2>1, <2>2, <2>3, SolutionUnique
    <2>5. g[n + 1] = g[n] \o l
        <3>1. n + 1 \in 1 .. n + 1 /\ n + 1 # 1 /\ (n + 1) - 1 = n
              BY <1>1, <2>2
        <3>2. g[n + 1] = g[(n + 1) - 1] \o new[n + 1]
              BY <1>2, <3>1 DEF Solves
        <3> HIDE DEF n
        <3> QED BY <1>1, <3>1, <3>2
    <2> QED BY <1>2, <2>1, <2>4, <2>5 DEF new
<1> QED BY <1>3, <1>4

-----------------------------------------------------------------------------
(***************************************************************************)
(* The characters of an input that can be in a line.                       *)
(***************************************************************************)
\* A character as the part of a line.
Seen(c) == IF c \in {Nothing, NUL} THEN <<>> ELSE <<c>>

Received == Char \cup {NUL, Nothing}

LEMMA SeenType ==
    ASSUME NEW c \in Received
    PROVE  Seen(c) \in Seq(Char)
BY DEF Seen, Received

LEMMA VisibleType ==
    ASSUME NEW s \in Seq(Received)
    PROVE  Visible(s) \in Seq(Char)
<1> DEFINE ss == [i \in DOMAIN s |-> Seen(s[i])]
<1>1. \A i \in 1 .. Len(s) : Seen(s[i]) \in Seq(Char)
      BY SeenType, ElementOfSeq
<1>2. ss \in Seq(Seq(Char))
      BY <1>1, LenProperties, IsASeq
<1> QED BY <1>2, FlattenType DEF Visible, Seen

LEMMA VisibleAppend ==
    ASSUME NEW s \in Seq(Received), NEW c \in Received
    PROVE  Visible(Append(s, c)) = Visible(s) \o Seen(c)
<1> DEFINE ss == [i \in DOMAIN s |-> Seen(s[i])]
           new == [i \in DOMAIN Append(s, c) |-> Seen(Append(s, c)[i])]
<1>1. \A i \in 1 .. Len(s) : Seen(s[i]) \in Seq(Char)
      BY SeenType, ElementOfSeq
<1>2. DOMAIN s = 1 .. Len(s) /\ Len(s) \in Nat
      BY LenProperties
<1>3. ss \in Seq(Seq(Char)) /\ Len(ss) = Len(s)
      BY <1>1, <1>2, LenProperties, IsASeq
<1>4. Seen(c) \in Seq(Char)
      BY SeenType
<1>5. /\ DOMAIN Append(s, c) = 1 .. Len(s) + 1
      /\ \A i \in 1 .. Len(s) : Append(s, c)[i] = s[i]
      /\ Append(s, c)[Len(s) + 1] = c
      BY LenProperties, AppendProperties
<1>6. new = Append(ss, Seen(c))
    <2>1. Append(ss, Seen(c)) \in Seq(Seq(Char))
          BY <1>3, <1>4, AppendProperties
    <2>2. \A i \in 1 .. Len(s) + 1 : Seen(Append(s, c)[i]) \in Seq(Char)
          BY <1>1, <1>2, <1>4, <1>5
    <2>3. new \in Seq(Seq(Char)) /\ Len(new) = Len(s) + 1
          BY <1>2, <1>5, <2>2, LenProperties, IsASeq
    <2>4. Len(Append(ss, Seen(c))) = Len(s) + 1
          BY <1>3, <1>4, AppendProperties
    <2>5. ASSUME NEW i \in 1 .. Len(s) + 1
          PROVE  new[i] = Append(ss, Seen(c))[i]
        <3>1. new[i] = Seen(Append(s, c)[i])
              BY <1>5
        <3>2. CASE i = Len(s) + 1
              BY <1>3, <1>4, <1>5, <3>1, <3>2, AppendProperties
        <3>3. CASE i \in 1 .. Len(s)
            <4>1. Append(ss, Seen(c))[i] = ss[i]
                  BY <1>3, <1>4, <3>3, AppendProperties
            <4> QED BY <1>2, <1>5, <3>1, <3>3, <4>1
        <3> QED BY <1>2, <3>2, <3>3
    <2> HIDE DEF new, ss
    <2> QED BY <2>1, <2>3, <2>4, <2>5, SeqEqual
<1>7. FlattenSeq(new) = FlattenSeq(ss) \o Seen(c)
      BY <1>3, <1>4, <1>6, FlattenAppend
<1> QED BY <1>7 DEF Visible, Seen

LEMMA VisibleEmpty == Visible(<<>>) = <<>>
BY DEF Visible, FlattenSeq

\* A status shows its character.
LEMMA VisibleOne ==
    ASSUME NEW c \in Received
    PROVE  Visible(<<c>>) = Seen(c)
<1>1. <<c>> = Append(<<>>, c)
      OBVIOUS
<1>2. Visible(Append(<<>>, c)) = Visible(<<>>) \o Seen(c)
      BY EmptySeq, VisibleAppend
<1> QED BY <1>1, <1>2, SeenType, VisibleEmpty, ConcatEmptySeq

-----------------------------------------------------------------------------
(***************************************************************************)
(* The history of what was typed, without what is lost.                    *)
(***************************************************************************)
LEMMA WithoutType ==
    ASSUME kept \in Seq(Char), NEW n, NEW k \in Nat
    PROVE  Without(n, k) \in Seq(Char)
<1>1. Len(kept) \in Nat /\ \A i \in 1 .. Len(kept) : kept[i] \in Char
      BY LenProperties, ElementOfSeq
<1>2. ASSUME NEW i \in 1 .. Len(kept) - k
      PROVE  kept[IF i <= n THEN i ELSE i + k] \in Char
    <2>1. i \in 1 .. Len(kept) /\ i + k \in 1 .. Len(kept)
          BY <1>1
    <2> QED BY <1>1, <2>1
<1>3. CASE Len(kept) - k \in Nat
      BY <1>2, <1>3, IsASeq DEF Without
<1>4. CASE Len(kept) - k \notin Nat
    <2>1. 1 .. Len(kept) - k = 1 .. 0
          BY <1>1, <1>4
    <2>2. Without(n, k) = [i \in 1 .. 0 |-> kept[IF i <= n THEN i ELSE i + k]]
          BY <2>1 DEF Without
    <2>3. \A i \in 1 .. 0 : kept[IF i <= n THEN i ELSE i + k] \in Char
          OBVIOUS
    <2> QED BY <2>2, <2>3, IsASeq
<1> QED BY <1>3, <1>4

\* What is dropped from the middle leaves what is before it and what is behind.
LEMMA WithoutMiddle ==
    ASSUME NEW a \in Seq(Char), NEW b \in Seq(Char), NEW c \in Seq(Char),
           kept = (a \o b) \o c
    PROVE  Without(Len(a), Len(b)) = a \o c
<1> DEFINE s == Without(Len(a), Len(b))
           t == a \o c
<1>1. Len(a) \in Nat /\ Len(b) \in Nat /\ Len(c) \in Nat
      BY LenProperties
<1>2. /\ a \o b \in Seq(Char) /\ Len(a \o b) = Len(a) + Len(b)
      /\ \A i \in 1 .. Len(a) : (a \o b)[i] = a[i]
      BY <1>1, ConcatProperties
<1>3. /\ kept \in Seq(Char) /\ Len(kept) = (Len(a) + Len(b)) + Len(c)
      /\ \A i \in 1 .. Len(a) + Len(b) : kept[i] = (a \o b)[i]
      /\ \A i \in Len(a) + Len(b) + 1 .. Len(kept) : kept[i] = c[i - (Len(a) + Len(b))]
      BY <1>1, <1>2, ConcatProperties
<1>4. /\ t \in Seq(Char) /\ Len(t) = Len(a) + Len(c)
      /\ \A i \in 1 .. Len(a) : t[i] = a[i]
      /\ \A i \in Len(a) + 1 .. Len(t) : t[i] = c[i - Len(a)]
      BY <1>1, ConcatProperties
<1>5. s \in Seq(Char) /\ DOMAIN s = 1 .. Len(a) + Len(c)
    <2>1. Len(kept) - Len(b) = Len(a) + Len(c)
          BY <1>1, <1>3
    <2> QED BY <1>1, <1>3, <2>1, WithoutType DEF Without
<1>6. Len(s) = Len(a) + Len(c)
    <2>1. Len(s) \in Nat /\ DOMAIN s = 1 .. Len(s)
          BY <1>5, LenProperties
    <2> HIDE DEF s
    <2> QED BY <1>1, <1>5, <2>1
<1>7. ASSUME NEW i \in 1 .. Len(a) + Len(c)
      PROVE  s[i] = t[i]
    <2>1. s[i] = kept[IF i <= Len(a) THEN i ELSE i + Len(b)]
        <3>1. Len(kept) - Len(b) = Len(a) + Len(c)
              BY <1>1, <1>3
        <3> QED BY <3>1 DEF Without
    <2> HIDE DEF s, t
    <2>2. CASE i <= Len(a)
        <3>1. i \in 1 .. Len(a) /\ i \in 1 .. Len(a) + Len(b)
              BY <1>1, <2>2
        <3>2. s[i] = kept[i]
              BY <2>1, <2>2
        <3>3. kept[i] = (a \o b)[i] /\ (a \o b)[i] = a[i] /\ t[i] = a[i]
              BY <1>2, <1>3, <1>4, <3>1
        <3> QED BY <3>2, <3>3
    <2>3. CASE ~(i <= Len(a))
        <3>1. /\ i + Len(b) \in Len(a) + Len(b) + 1 .. Len(kept)
              /\ i \in Len(a) + 1 .. Len(t)
              /\ (i + Len(b)) - (Len(a) + Len(b)) = i - Len(a)
              BY <1>1, <1>3, <1>4, <2>3
        <3>2. s[i] = kept[i + Len(b)]
              BY <2>1, <2>3
        <3>3. kept[i + Len(b)] = c[(i + Len(b)) - (Len(a) + Len(b))]
              BY <1>3, <3>1
        <3>4. t[i] = c[i - Len(a)]
              BY <1>4, <3>1
        <3> QED BY <3>1, <3>2, <3>3, <3>4
    <2> QED BY <2>2, <2>3
<1> HIDE DEF s, t
<1> QED BY <1>4, <1>5, <1>6, <1>7, SeqEqual DEF s, t

LEMMA UnheardType ==
    ASSUME kept \in Seq(Char), NEW c \in Received
    PROVE  Unheard(c) \in Seq(Char)
<1>1. Len(Visible(<<c>>)) \in Nat
      BY VisibleOne, SeenType, LenProperties
<1> QED BY <1>1, WithoutType DEF Unheard

LEMMA UnheardIs ==
    ASSUME NEW a \in Seq(Char), NEW c \in Received, kept = a \o Seen(c)
    PROVE  Unheard(c) = a
<1>1. Visible(<<c>>) = Seen(c) /\ Seen(c) \in Seq(Char) /\ <<>> \in Seq(Char)
      BY VisibleOne, SeenType, EmptySeq
<1>2. /\ Len(kept) = Len(a) + Len(Seen(c)) /\ kept \in Seq(Char)
      /\ Len(a) \in Nat /\ Len(Seen(c)) \in Nat
      BY <1>1, LenProperties, ConcatProperties
<1>3. kept = (a \o Seen(c)) \o <<>>
      BY <1>2, ConcatEmptySeq
<1>4. Without(Len(a), Len(Seen(c))) = a \o <<>>
      BY <1>1, <1>3, WithoutMiddle
<1>5. Len(kept) - Len(Visible(<<c>>)) = Len(a)
      BY <1>1, <1>2
<1> QED BY <1>1, <1>4, <1>5, ConcatEmptySeq DEF Unheard

-----------------------------------------------------------------------------
\* Overwriting a text by a text gives a text.
LEMMA OverwrittenType ==
    ASSUME NEW S, NEW old \in Seq(S), NEW new \in Seq(S)
    PROVE  Overwritten(old, new) \in Seq(S)
<1>1. SubSeq(old, Len(new) + 1, Len(old)) \in Seq(S)
      OBVIOUS
<1> QED BY <1>1 DEF Overwritten

\* A sequence with one element more.
LEMMA Appended ==
    ASSUME NEW S, NEW s \in Seq(S), NEW e \in S, NEW n \in 0 .. Len(s)
    PROVE  /\ Append(s, e) \in Seq(S) /\ n \in 0 .. Len(Append(s, e))
           /\ \A k \in DOMAIN Append(s, e) :
                 Append(s, e)[k] = e \/ (k \in DOMAIN s /\ Append(s, e)[k] = s[k])
OBVIOUS

LEMMA TakenType == Typing => Taken \in Seq(Char)
<1> SUFFICES ASSUME Typing PROVE Taken \in Seq(Char)
    OBVIOUS
<1>1. to_write \in Seq(Char) /\ write_mb \in Seq(Seq(Char))
      BY DEF Typing, TypeOK
<1>2. write_mb # <<>> => Head(write_mb) \in Seq(Char)
      BY <1>1
<1> QED BY <1>1, <1>2, OverwrittenType DEF Taken

\* The status that waitDevice returns.
LEMMA HeadType == Typing /\ slot # <<>> => Head(slot) \in Status
<1> SUFFICES ASSUME Typing, slot # <<>> PROVE Head(slot) \in Status
    OBVIOUS
<1>1. PICK st \in Status : slot = <<st>>
      BY DEF Typing
<1> QED BY <1>1

\* A line that a character ends has the shape of a line, and what is left of it
\* in the buffer is shorter than a line.
LEMMA ReceiveShape ==
    ASSUME Typing, LineShape, NEW c \in Char \cup {NUL, Nothing}, Receive(c),
           c = NUL => \E i \in DOMAIN input : input[i] = NUL,
           UNCHANGED <<input, taken>>
    PROVE  /\ LineShape'
           /\ buffer' \in Seq(Char) /\ lines' \in Seq(Seq(Char))
           /\ taken' \in 0 .. Len(lines') /\ kept' \in Seq(Char)
<1>1. /\ buffer \in Seq(Char) /\ lines \in Seq(Seq(Char)) /\ MaxLine \in Nat \ {0}
      /\ taken \in 0 .. Len(lines) /\ kept \in Seq(Char)
      /\ NL \in Char /\ NL # NUL
      BY TerminalAssumption DEF Typing, TypeOK, Char
<1>2. CASE c = Nothing
      BY <1>1, <1>2, TerminalAssumption DEF Receive, LineShape
<1>3. CASE c # Nothing /\ ~EndsLine(c)
    <2>1. /\ buffer' = Append(buffer, c) /\ UNCHANGED <<lines, kept>>
          /\ c # NL /\ c \in Char /\ Len(buffer) + 1 < MaxLine
          BY <1>1, <1>3 DEF Receive, Typed, EndsLine
    <2>2. \A i \in DOMAIN buffer' : buffer'[i] # NL
          BY <1>1, <2>1 DEF LineShape
    <2> QED BY <1>1, <2>1, <2>2 DEF LineShape
<1>4. CASE c # Nothing /\ EndsLine(c)
    <2> DEFINE line == Typed(c)
    <2>1. buffer' = <<>> /\ (lines' = lines \/ lines' = Append(lines, line))
          BY <1>4 DEF Receive, Post
    <2>2. line \in Seq(Char) /\ Len(line) <= MaxLine
          BY <1>1, <1>4 DEF Typed, LineShape
    <2>3. kept' \in Seq(Char)
        <3>1. kept' = kept \/ kept' = Without(Len(FlattenSeq(lines)), Len(line))
              BY <1>4 DEF Receive, Post
        <3>2. Len(line) \in Nat
              BY <2>2, LenProperties
        <3> QED BY <1>1, <3>1, <3>2, WithoutType
    <2>4. \A i \in DOMAIN line : line[i] = NL => i = Len(line)
          BY <1>1, <1>4 DEF Typed, LineShape
    <2>5. \/ Len(line) = MaxLine
          \/ Len(line) > 0 /\ line[Len(line)] = NL
          \/ \E i \in DOMAIN input : input[i] = NUL
        <3>1. CASE c = NUL
              BY <3>1
        <3>2. CASE c # NUL
            <4>1. line = Append(buffer, c) /\ c \in Char
                  BY <3>2, <1>4 DEF Typed
            <4>2. c = NL \/ Len(buffer) + 1 >= MaxLine
                  BY <3>2, <1>4 DEF EndsLine
            <4> QED BY <4>1, <4>2, <2>2, <1>1
        <3> QED BY <3>1, <3>2
    <2> HIDE DEF line
    <2>6. \/ lines' = lines
          \/ /\ lines' \in Seq(Seq(Char)) /\ taken \in 0 .. Len(lines')
             /\ \A k \in DOMAIN lines' :
                   lines'[k] = line \/ (k \in DOMAIN lines /\ lines'[k] = lines[k])
        <3>1. CASE lines' = Append(lines, line)
              BY <3>1, <1>1, <2>2, Appended
        <3> QED BY <3>1, <2>1
    <2>7. /\ lines' \in Seq(Seq(Char)) /\ taken' \in 0 .. Len(lines')
          /\ \A k \in DOMAIN lines' :
                lines'[k] = line \/ (k \in DOMAIN lines /\ lines'[k] = lines[k])
        <3>1. CASE lines' = lines
              BY <3>1, <1>1
        <3>2. CASE lines' # lines
              BY <3>2, <2>6
        <3> QED BY <3>1, <3>2
    <2>8. \A k \in DOMAIN lines' :
              /\ Len(lines'[k]) <= MaxLine
              /\ \A i \in DOMAIN lines'[k] : lines'[k][i] = NL => i = Len(lines'[k])
              /\ \/ Len(lines'[k]) = MaxLine
                 \/ Len(lines'[k]) > 0 /\ lines'[k][Len(lines'[k])] = NL
                 \/ \E i \in DOMAIN input : input[i] = NUL
        <3> TAKE k \in DOMAIN lines'
        <3>1. CASE lines'[k] = line
              BY <3>1, <2>2, <2>4, <2>5
        <3>2. CASE k \in DOMAIN lines /\ lines'[k] = lines[k]
              BY <3>2 DEF LineShape
        <3> QED BY <2>7, <3>1, <3>2
    <2>9. buffer' \in Seq(Char) /\ Len(buffer') < MaxLine /\ DOMAIN buffer' = {}
          BY <2>1, <1>1
    <2>10. input' = input
          OBVIOUS
    <2> QED BY <2>3, <2>7, <2>8, <2>9, <2>10 DEF LineShape
<1> QED BY <1>2, <1>3, <1>4

\* Initially nothing is typed, written or under way.
LEMMA InitIInv == Init => IInv
<1> SUFFICES ASSUME Init PROVE IInv
    OBVIOUS
<1>1. TypeOK
      BY TerminalAssumption DEF Init, TypeOK, Status
<1>2. Typing
      BY <1>1 DEF Init, Typing
<1>3. NulTyped /\ StatusCurrent /\ OutputReady
      BY TerminalAssumption DEF Init, NulTyped, StatusCurrent, OutputReady, Char
<1>4. LineShape
      BY TerminalAssumption DEF Init, LineShape
<1> QED BY <1>2, <1>3, <1>4 DEF IInv

-----------------------------------------------------------------------------
\* An interrupt.
LEMMA TickStep ==
    ASSUME IInv, NEW c \in Keys \cup {Nothing}, NEW done \in BOOLEAN, Tick(c, done)
    PROVE  IInv'
<1> USE DEF IInv
<1>1. /\ UNCHANGED <<pc, calls, text, lines, taken, write_mb, dpc, received, to_write,
                     w, buffer, sending, late>>
      /\ c \in Char \cup {NUL, Nothing}
      BY TerminalAssumption DEF Tick, callVars, mailVars, daemonVars
<1>2. xmit' \in {"READY", "BUSY"} /\ kept' \in Seq(Char)
    <2>1. kept \in Seq(Char) /\ xmit \in {"READY", "BUSY"}
          BY DEF Typing, TypeOK
    <2>2. Visible(<<c>>) \in Seq(Char)
          BY <1>1, VisibleOne, SeenType DEF Received
    <2>3. kept \o Visible(<<c>>) \in Seq(Char)
          BY <2>1, <2>2, ConcatProperties
    <2> QED BY <2>1, <2>3 DEF Tick
<1>3. row' \in Seq(Char \cup {NUL})
    <2>1. row \in Seq(Char \cup {NUL}) /\ sending \in Char \cup {NUL}
          BY DEF Typing, TypeOK
    <2>2. Open(row) \in Seq(Char \cup {NUL})
          BY <2>1 DEF Open
    <2> QED BY <2>1, <2>2 DEF Tick
<1>4. /\ input \in Seq(Char \cup {NUL})
      /\ input' \in Seq(Char \cup {NUL})
      /\ \A i \in DOMAIN input : i \in DOMAIN input' /\ input'[i] = input[i]
      /\ c = NUL => \E i \in DOMAIN input' : input'[i] = NUL
    <2>1. input \in Seq(Char \cup {NUL}) /\ NUL # Nothing
          BY TerminalAssumption DEF Typing, TypeOK
    <2>2. CASE c = Nothing
          BY <2>1, <2>2 DEF Tick
    <2>3. CASE c # Nothing
        <3>1. input' = Append(input, c) /\ c \in Char \cup {NUL}
              BY <2>3, <1>1 DEF Tick
        <3>2. Len(input) + 1 \in DOMAIN input' /\ input'[Len(input) + 1] = c
              BY <3>1, <2>1
        <3> QED BY <3>1, <3>2, <2>1
    <2> QED BY <2>2, <2>3
<1>5. [xmit |-> xmit', recv |-> c] \in Status
      BY <1>1, <1>2 DEF Status
<1>6. \/ slot = <<>> /\ slot' = <<[xmit |-> xmit', recv |-> c]>>
      \/ slot # <<>> /\ slot' = slot
      BY DEF Tick
<1>7. slot' \in Seq(Status)
    <2>1. slot \in Seq(Status)
          BY DEF Typing, TypeOK
    <2> DEFINE st == [xmit |-> xmit', recv |-> c]
    <2>2. st \in Status
          BY <1>5
    <2> HIDE DEF st
    <2>3. <<st>> \in Seq(Status)
          BY <2>2
    <2> QED BY <2>1, <2>3, <1>6 DEF st
<1>8. Typing'
    <2>1. TypeOK'
          BY <1>1, <1>2, <1>3, <1>4, <1>7 DEF Typing, TypeOK
    <2>2. slot' = <<>> \/ \E st \in Status : slot' = <<st>>
          BY <1>5, <1>6 DEF Typing
    <2> QED BY <2>1, <2>2, <1>1 DEF Typing
<1>9. NulTyped'
    <2> SUFFICES ASSUME received' = NUL \/ (slot' # <<>> /\ Head(slot').recv = NUL)
                 PROVE  \E i \in DOMAIN input' : input'[i] = NUL
        BY DEF NulTyped
    <2>1. CASE slot = <<>> /\ slot' = <<[xmit |-> xmit', recv |-> c]>>
        <3>1. Head(slot').recv = c
              BY <2>1
        <3>2. received = NUL \/ c = NUL
              BY <3>1, <1>1
        <3> QED BY <3>2, <1>4 DEF NulTyped
    <2>2. CASE slot # <<>> /\ slot' = slot
          BY <2>2, <1>1, <1>4 DEF NulTyped
    <2> QED BY <2>1, <2>2, <1>6
<1>10. LineShape'
      BY <1>1, <1>4 DEF LineShape
<1>11. StatusCurrent' /\ OutputReady'
    <2> SUFFICES ASSUME ~late
                 PROVE  /\ slot' # <<>> => Head(slot').xmit = xmit'
                        /\ dpc' # "send"
        BY <1>1 DEF StatusCurrent, OutputReady
    <2>1. slot = <<>> /\ dpc \in {"wait", "sent"}
          BY DEF Tick, Waiting
    <2>2. slot' = <<[xmit |-> xmit', recv |-> c]>>
          BY <2>1, <1>6
    <2> QED BY <2>1, <2>2, <1>1
<1> QED BY <1>8, <1>9, <1>10, <1>11

\* The steps of the processes.
LEMMA ProcessStep ==
    ASSUME IInv, Read \/ \E p \in Procs : Write(p)
    PROVE  IInv'
<1> USE DEF IInv
<1>1. /\ UNCHANGED <<lines, dpc, received, to_write, w, buffer, slot, xmit, sending,
                     row, input, kept, late>>
      BY DEF Read, Write, CallWrite, EndWrite, callVars, mailVars, daemonVars, deviceVars
<1>2. /\ pc' \in [Procs -> {"user", "write"}] /\ calls' \in Nat
      /\ text' \in [Procs -> Seq(Char)] /\ write_mb' \in Seq(Seq(Char))
      /\ taken' \in 0 .. Len(lines)
    <2> HIDE DEF IInv
    <2>0. /\ pc \in [Procs -> {"user", "write"}] /\ calls \in Nat
          /\ text \in [Procs -> Seq(Char)] /\ write_mb \in Seq(Seq(Char))
          /\ taken \in 0 .. Len(lines) /\ lines \in Seq(Seq(Char))
          BY DEF IInv, Typing, TypeOK
    <2>1. CASE Read
        <3>1. UNCHANGED <<pc, calls, text, write_mb>> /\ taken' = taken + 1
              BY <2>1 DEF Read, callVars
        <3>2. Len(lines) \in Nat
              BY <2>0, LenProperties
        <3>3. taken < Len(lines)
            <4>1. CASE taken = Len(lines)
                <5>1. unread = <<>>
                      BY <4>1, <2>0, <3>2 DEF unread
                <5> QED BY <5>1, <2>1 DEF Read
            <4> QED BY <2>0, <3>2, <4>1
        <3> QED BY <2>0, <3>1, <3>2, <3>3
    <2>2. CASE \E p \in Procs : CallWrite(p)
        <3>1. PICK p \in Procs, t \in Texts :
                  /\ calls' = calls + 1
                  /\ text' = [text EXCEPT ![p] = t]
                  /\ pc' = [pc EXCEPT ![p] = "write"]
                  /\ UNCHANGED <<taken, write_mb>>
              BY <2>2 DEF CallWrite, mailVars
        <3>2. t \in Seq(Char)
              BY TerminalAssumption
        <3> QED BY <2>0, <3>1, <3>2
    <2>3. CASE \E p \in Procs : EndWrite(p)
        <3>1. PICK p \in Procs :
                  /\ write_mb' = <<text[p]>>
                  /\ text' = [text EXCEPT ![p] = <<>>]
                  /\ pc' = [pc EXCEPT ![p] = "user"]
                  /\ UNCHANGED <<taken, calls>>
              BY <2>3 DEF EndWrite
        <3>2. text[p] \in Seq(Char) /\ <<>> \in Seq(Char)
              BY <2>0, EmptySeq
        <3>3. write_mb' \in Seq(Seq(Char))
              BY <3>1, <3>2
        <3> QED BY <2>0, <3>1, <3>2, <3>3
    <2> QED BY <2>1, <2>2, <2>3 DEF Write
<1>3. Typing'
      BY <1>1, <1>2 DEF Typing, TypeOK
<1>4. NulTyped' /\ LineShape' /\ StatusCurrent' /\ OutputReady'
      BY <1>1 DEF NulTyped, LineShape, StatusCurrent, OutputReady
<1> QED BY <1>3, <1>4

-----------------------------------------------------------------------------
(***************************************************************************)
(* The daemon's steps.                                                     *)
(***************************************************************************)
LEMMA DaemonPassStep == ASSUME IInv, DaemonPass PROVE IInv'
<1> USE DEF IInv
<1>1. /\ UNCHANGED <<pc, calls, text, taken, dpc, received, w, xmit, sending, row,
                     input, late>>
      /\ dpc = "wait" /\ slot # <<>> /\ slot' = <<>>
      /\ to_write' = Taken /\ write_mb' = <<>> /\ Receive(Head(slot).recv)
      BY DEF DaemonPass, callVars
<1>2. Head(slot).recv \in Char \cup {NUL, Nothing}
      BY <1>1, HeadType DEF Status
<1>3. Head(slot).recv = NUL => \E i \in DOMAIN input : input[i] = NUL
      BY <1>1 DEF NulTyped
<1>4. /\ LineShape'
      /\ buffer' \in Seq(Char) /\ lines' \in Seq(Seq(Char))
      /\ taken' \in 0 .. Len(lines') /\ kept' \in Seq(Char)
      BY <1>1, <1>2, <1>3, ReceiveShape
<1>5. Taken \in Seq(Char)
      BY TakenType
<1>6. w' \in 0 .. Len(to_write')
      BY <1>1, <1>5 DEF Typing, TypeOK
<1> QED BY <1>1, <1>4, <1>5, <1>6
        DEF Typing, TypeOK, NulTyped, StatusCurrent, OutputReady

LEMMA StartWritingStep == ASSUME IInv, StartWriting PROVE IInv'
<1> USE DEF IInv
<1>1. /\ UNCHANGED <<pc, calls, text, lines, taken, buffer, xmit, sending, row,
                     input, kept, late>>
      /\ dpc = "wait" /\ dpc' = "send" /\ slot # <<>> /\ slot' = <<>> /\ w' = 0
      /\ to_write' = Taken /\ write_mb' = <<>> /\ received' = Head(slot).recv
      BY DEF StartWriting, callVars
<1>2. /\ received' \in Char \cup {NUL, Nothing}
      /\ received' = NUL => \E i \in DOMAIN input : input[i] = NUL
      BY <1>1, HeadType DEF Status, NulTyped
<1>3. to_write' \in Seq(Char) /\ w' \in 0 .. Len(to_write')
      BY <1>1, TakenType
<1>4. ~late => xmit = "READY"
      BY <1>1 DEF StartWriting, MayWrite, StatusCurrent
<1>5. Typing'
      BY <1>1, <1>2, <1>3 DEF Typing, TypeOK
<1>6. NulTyped' /\ StatusCurrent' /\ OutputReady'
      BY <1>1, <1>2, <1>4 DEF NulTyped, StatusCurrent, OutputReady
<1>7. LineShape'
      BY <1>1 DEF LineShape
<1> QED BY <1>5, <1>6, <1>7

LEMMA SendCharStep == ASSUME IInv, SendChar PROVE IInv'
<1> USE DEF IInv
<1>1. /\ UNCHANGED <<pc, calls, text, lines, taken, write_mb, received, to_write, w,
                     buffer, slot, row, input, kept, late>>
      /\ dpc = "send" /\ dpc' = "sent" /\ ~AtEnd /\ DeviceOutput(to_write[w + 1])
      BY DEF SendChar, callVars, mailVars
<1>2. to_write \in Seq(Char) /\ w \in 0 .. Len(to_write) /\ w # Len(to_write)
      BY <1>1 DEF AtEnd, Typing, TypeOK
<1>3. w < Len(to_write) /\ to_write[w + 1] \in Char
      BY <1>2
<1>4. xmit' = "BUSY" /\ sending' \in Char \cup {NUL}
      BY <1>1, <1>3 DEF DeviceOutput, Typing, TypeOK
<1>5. ~late => slot = <<>>
      BY <1>1 DEF StatusCurrent
<1>6. Typing'
      BY <1>1, <1>3, <1>4 DEF Typing, TypeOK
<1>7. NulTyped' /\ LineShape' /\ StatusCurrent' /\ OutputReady'
      BY <1>1, <1>5 DEF NulTyped, LineShape, StatusCurrent, OutputReady
<1> QED BY <1>6, <1>7

LEMMA AwaitSentStep == ASSUME IInv, AwaitSent PROVE IInv'
<1> USE DEF IInv
<1>1. /\ UNCHANGED <<pc, calls, text, lines, taken, write_mb, received, to_write,
                     buffer, xmit, sending, row, input, late>>
      /\ dpc = "sent" /\ slot # <<>> /\ slot' = <<>>
      BY DEF AwaitSent, callVars, mailVars
<1>2. kept' \in Seq(Char)
    <2>1. kept' = Unheard(Head(slot).recv) /\ kept \in Seq(Char)
          BY DEF AwaitSent, Typing, TypeOK
    <2>2. Head(slot).recv \in Received
          BY <1>1, HeadType DEF Status, Received
    <2> QED BY <2>1, <2>2, UnheardType
<1>3. \/ UNCHANGED <<dpc, w>>
      \/ Head(slot).xmit # "BUSY" /\ dpc' = "send" /\ w' = w + 1
      BY DEF AwaitSent
<1>4. w' \in 0 .. Len(to_write) /\ (dpc' = "sent" => w' < Len(to_write))
    <2>1. w \in 0 .. Len(to_write) /\ w < Len(to_write) /\ Len(to_write) \in Nat
          BY <1>1 DEF Typing, TypeOK
    <2> QED BY <2>1, <1>3
<1>5. Head(slot) \in Status
      BY <1>1, HeadType
<1>6. dpc' = "send" => Head(slot).xmit = "READY"
      BY <1>1, <1>3, <1>5 DEF Status
<1>7. Typing'
      BY <1>1, <1>2, <1>3, <1>4 DEF Typing, TypeOK
<1>8. NulTyped' /\ LineShape'
      BY <1>1 DEF NulTyped, LineShape
<1>9. StatusCurrent' /\ OutputReady'
      BY <1>1, <1>6 DEF StatusCurrent, OutputReady
<1> QED BY <1>7, <1>8, <1>9

LEMMA SendEndStep == ASSUME IInv, SendEnd PROVE IInv'
<1> USE DEF IInv
<1>1. /\ UNCHANGED <<pc, calls, text, taken, write_mb, slot, row, input, late>>
      /\ dpc = "send" /\ dpc' = "wait" /\ to_write' = <<>> /\ w' = 0
      /\ Receive(received) /\ received' = Nothing
      BY DEF SendEnd, callVars
<1>2. xmit' = "BUSY" /\ sending' \in Char \cup {NUL}
    <2>1. DeviceOutput(IF w = Len(to_write) THEN NUL ELSE NL)
          BY DEF SendEnd
    <2> QED BY <2>1 DEF DeviceOutput, Typing, TypeOK, Char
<1>3. /\ received \in Char \cup {NUL, Nothing}
      /\ received = NUL => \E i \in DOMAIN input : input[i] = NUL
      BY DEF Typing, TypeOK, NulTyped
<1>4. /\ LineShape'
      /\ buffer' \in Seq(Char) /\ lines' \in Seq(Seq(Char))
      /\ taken' \in 0 .. Len(lines') /\ kept' \in Seq(Char)
      BY <1>1, <1>3, ReceiveShape
<1>5. to_write' \in Seq(Char) /\ w' \in 0 .. Len(to_write')
      BY <1>1
<1>6. Typing'
      BY <1>1, <1>2, <1>4, <1>5 DEF Typing, TypeOK
<1>7. NulTyped' /\ StatusCurrent' /\ OutputReady'
      BY <1>1, TerminalAssumption DEF NulTyped, StatusCurrent, OutputReady
<1> QED BY <1>4, <1>6, <1>7

LEMMA NextIInv == IInv /\ [Next]_vars => IInv'
<1> SUFFICES ASSUME IInv, [Next]_vars PROVE IInv'
    OBVIOUS
<1>1. CASE Read \/ \E p \in Procs : Write(p)
      BY <1>1, ProcessStep
<1>2. CASE Type
    <2>1. PICK c \in Keys, done \in BOOLEAN : Tick(c, done)
          BY <1>2 DEF Type
    <2> QED BY <2>1, TickStep
<1>3. CASE Transmit
    <2>1. PICK done \in BOOLEAN : Tick(Nothing, done)
          BY <1>3 DEF Transmit
    <2> QED BY <2>1, TickStep
<1>4. CASE Daemon
      BY <1>4, DaemonPassStep, StartWritingStep, SendCharStep, AwaitSentStep, SendEndStep
         DEF Daemon
<1>5. CASE UNCHANGED vars
    <2>1. UNCHANGED <<pc, calls, text, lines, taken, write_mb, dpc, received, to_write,
                      w, buffer, slot, xmit, sending, row, input, kept, late>>
          BY <1>5 DEF vars, callVars, mailVars, daemonVars, deviceVars
    <2> QED BY <2>1
            DEF IInv, Typing, TypeOK, NulTyped, LineShape, StatusCurrent, OutputReady
<1> QED BY <1>1, <1>2, <1>3, <1>4, <1>5 DEF Next

LEMMA Inductive == Spec => []IInv
BY InitIInv, NextIInv, PTL DEF Spec

-----------------------------------------------------------------------------
\* Every variable keeps its type, the place in the text that is written included.
THEOREM TypeCorrect == Spec => []TypeOK
<1>1. IInv => TypeOK
      BY DEF IInv, Typing
<1> QED BY <1>1, Inductive, PTL

\* Every line that is sent to read_mb ends with a newline, is MAXLINE characters
\* long (180), or was ended by a NUL; the line buffer never overflows (443-446).
THEOREM LineShapeCorrect == Spec => []LineShape
<1>1. IInv => LineShape
      BY DEF IInv
<1> QED BY <1>1, Inductive, PTL

\* The daemon sends characters only to a transmitter that is ready, if no interrupt
\* comes before it is back in waitDevice (433, 463-468).
THEOREM OutputReadyCorrect == Spec => []OutputReady
<1>1. IInv => OutputReady
      BY DEF IInv
<1> QED BY <1>1, Inductive, PTL

-----------------------------------------------------------------------------
(***************************************************************************)
(* What is typed is what is read.                                          *)
(***************************************************************************)
\* The characters under way: one in the daemon's status, and one in the slot.
LEMMA InFlightIs ==
    ASSUME Typing
    PROVE  InFlight = Seen(received) \o (IF slot = <<>> THEN <<>> ELSE Seen(Head(slot).recv))
<1>1. received \in Received
      BY DEF Typing, TypeOK, Received
<1>2. Seen(received) \in Seq(Char)
      BY <1>1, SeenType
<1>3. Visible(<<received>>) = Seen(received)
      BY <1>1, VisibleOne
<1>4. CASE slot = <<>>
    <2>1. <<received>> \o [i \in DOMAIN slot |-> slot[i].recv] = <<received>>
          BY <1>4
    <2> QED BY <1>2, <1>3, <1>4, <2>1, ConcatEmptySeq DEF InFlight
<1>5. CASE slot # <<>>
    <2>1. PICK st \in Status : slot = <<st>>
          BY <1>5 DEF Typing
    <2>2. Head(slot).recv = st.recv /\ st.recv \in Received
          BY <2>1 DEF Status, Received
    <2>3. <<received>> \o [i \in DOMAIN slot |-> slot[i].recv] = Append(<<received>>, st.recv)
          BY <2>1
    <2>4. <<received>> \in Seq(Received)
          BY <1>1
    <2>5. Visible(Append(<<received>>, st.recv)) = Visible(<<received>>) \o Seen(st.recv)
          BY <2>2, <2>4, VisibleAppend
    <2> QED BY <1>3, <1>5, <2>2, <2>3, <2>5 DEF InFlight
<1> QED BY <1>4, <1>5

\* LinesAreInput, and the daemon holds no character while it waits.
InputInv ==
    /\ LinesAreInput
    /\ dpc = "wait" => received = Nothing

\* What the daemon does with a character it has received: it is the next one in the
\* lines and the line buffer, or it ends a line that is dropped; b is behind it.
LEMMA ReceiveKeeps ==
    ASSUME Typing, NEW c \in Received, Receive(c), NEW b \in Seq(Char),
           kept = ((FlattenSeq(lines) \o buffer) \o Seen(c)) \o b
    PROVE  (FlattenSeq(lines') \o buffer') \o b = kept'
<1>1. /\ buffer \in Seq(Char) /\ lines \in Seq(Seq(Char)) /\ NL # NUL /\ NL # Nothing
      /\ <<>> \in Seq(Char)
      BY TerminalAssumption, EmptySeq DEF Typing, TypeOK, Char
<1>2. FlattenSeq(lines) \in Seq(Char) /\ FlattenSeq(lines) \o buffer \in Seq(Char)
      BY <1>1, FlattenType, ConcatProperties
<1>3. Seen(c) \in Seq(Char)
      BY SeenType
<1>4. CASE c = Nothing
    <2>1. UNCHANGED <<buffer, lines, kept>>
          BY <1>4, TerminalAssumption DEF Receive
    <2>2. Seen(c) = <<>>
          BY <1>4 DEF Seen
    <2> QED BY <1>2, <2>1, <2>2, ConcatEmptySeq
<1>5. CASE c # Nothing
    <2>1. Typed(c) = buffer \o Seen(c)
        <3>1. CASE c = NUL
              BY <1>1, <3>1, ConcatEmptySeq DEF Typed, Seen
        <3>2. CASE c # NUL
            <4>1. c \in Char /\ Seen(c) = <<c>>
                  BY <1>5, <3>2 DEF Seen, Received
            <4> QED BY <1>1, <3>2, <4>1, AppendIsConcat DEF Typed
        <3> QED BY <3>1, <3>2
    <2>2. Typed(c) \in Seq(Char)
          BY <1>1, <1>3, <2>1, ConcatProperties
    <2>3. FlattenSeq(lines) \o Typed(c) = (FlattenSeq(lines) \o buffer) \o Seen(c)
          BY SMTT(30), <1>1, <1>2, <1>3, <2>1, ConcatAssociative
    <2>4. CASE ~EndsLine(c)
          BY <1>5, <2>3, <2>4 DEF Receive
    <2>5. CASE EndsLine(c) /\ Len(unread) < MaxBuffers
        <3>1. buffer' = <<>> /\ lines' = Append(lines, Typed(c)) /\ kept' = kept
              BY <1>5, <2>5 DEF Receive, Post
        <3>2. FlattenSeq(lines') = FlattenSeq(lines) \o Typed(c)
              BY <1>1, <2>2, <3>1, FlattenAppend
        <3>3. FlattenSeq(lines) \o Typed(c) \in Seq(Char)
              BY <1>2, <2>2, ConcatProperties
        <3> QED BY <2>3, <3>1, <3>2, <3>3, ConcatEmptySeq
    <2>6. CASE EndsLine(c) /\ ~(Len(unread) < MaxBuffers)
        <3>1. /\ buffer' = <<>> /\ lines' = lines
              /\ kept' = Without(Len(FlattenSeq(lines)), Len(Typed(c)))
              BY <1>5, <2>6 DEF Receive, Post
        <3>2. kept = (FlattenSeq(lines) \o Typed(c)) \o b
              BY <2>3
        <3>3. kept' = FlattenSeq(lines) \o b
              BY <1>2, <2>2, <3>1, <3>2, WithoutMiddle
        <3> QED BY <1>2, <3>1, <3>3, ConcatEmptySeq
    <2> QED BY <2>4, <2>5, <2>6
<1> QED BY <1>4, <1>5

\* The types of the parts of LinesAreInput.
LEMMA PartTypes ==
    ASSUME Typing
    PROVE  /\ FlattenSeq(lines) \o buffer \in Seq(Char)
           /\ received \in Received /\ Seen(received) \in Seq(Char)
           /\ slot # <<>> => /\ Head(slot).recv \in Received
                             /\ Seen(Head(slot).recv) \in Seq(Char)
           /\ Nothing \in Received /\ Seen(Nothing) = <<>>
<1>1. buffer \in Seq(Char) /\ lines \in Seq(Seq(Char)) /\ received \in Received
      BY DEF Typing, TypeOK, Received
<1>2. slot # <<>> => Head(slot).recv \in Received
      BY HeadType DEF Status, Received
<1> QED BY <1>1, <1>2, FlattenType, SeenType, ConcatProperties DEF Received, Seen

\* InFlight before and after a step.
LEMMA InFlightBoth ==
    ASSUME Typing, Typing'
    PROVE  /\ InFlight = Seen(received) \o (IF slot = <<>> THEN <<>> ELSE Seen(Head(slot).recv))
           /\ InFlight' = Seen(received') \o
                            (IF slot' = <<>> THEN <<>> ELSE Seen(Head(slot').recv))
<1>1. (InFlight = Seen(received) \o (IF slot = <<>> THEN <<>> ELSE Seen(Head(slot).recv)))'
      BY InFlightIs, PTL
<1> QED BY <1>1, InFlightIs DEF Seen

LEMMA TickInput ==
    ASSUME Typing, Typing', InputInv, NEW c \in Keys \cup {Nothing}, NEW done \in BOOLEAN,
           Tick(c, done)
    PROVE  InputInv'
<1> DEFINE A == FlattenSeq(lines) \o buffer
<1>1. UNCHANGED <<lines, buffer, dpc, received>>
      BY DEF Tick, mailVars, daemonVars
<1>2. A \o InFlight = kept
      BY DEF InputInv, LinesAreInput
<1>3. SUFFICES A \o InFlight' = kept'
      BY <1>1 DEF InputInv, LinesAreInput
<1>4. c \in Received
      BY TerminalAssumption DEF Received
<1>5. A \in Seq(Char) /\ Seen(received) \in Seq(Char) /\ Seen(c) \in Seq(Char)
      BY <1>4, PartTypes, SeenType
<1>6. /\ InFlight = Seen(received) \o (IF slot = <<>> THEN <<>> ELSE Seen(Head(slot).recv))
      /\ InFlight' = Seen(received) \o (IF slot' = <<>> THEN <<>> ELSE Seen(Head(slot').recv))
      BY <1>1, InFlightBoth
<1> HIDE DEF A
<1>7. CASE slot = <<>>
    <2>1. /\ slot' # <<>> /\ Head(slot').recv = c
          /\ kept' = kept \o Visible(<<c>>)
          BY <1>7 DEF Tick
    <2>2. InFlight = Seen(received) /\ InFlight' = Seen(received) \o Seen(c)
          BY <1>5, <1>6, <1>7, <2>1, ConcatEmptySeq
    <2>3. Visible(<<c>>) = Seen(c)
          BY <1>4, VisibleOne
    <2>4. (A \o Seen(received)) \o Seen(c) = A \o (Seen(received) \o Seen(c))
          BY <1>5, ConcatAssociative
    <2> QED BY <1>2, <2>1, <2>2, <2>3, <2>4
<1>8. CASE slot # <<>>
    <2>1. slot' = slot /\ kept' = kept
          BY <1>8 DEF Tick
    <2> QED BY <1>2, <1>6, <2>1
<1> QED BY <1>7, <1>8

LEMMA DaemonInput ==
    ASSUME Typing, Typing', InputInv, Daemon
    PROVE  InputInv'
<1> DEFINE A == FlattenSeq(lines) \o buffer
           B == IF slot = <<>> THEN <<>> ELSE Seen(Head(slot).recv)
<1>1. /\ A \in Seq(Char) /\ Seen(received) \in Seq(Char) /\ Seen(Nothing) = <<>>
      /\ received \in Received
      BY PartTypes
<1>2. B \in Seq(Char) /\ (slot # <<>> => Head(slot).recv \in Received)
      BY PartTypes, EmptySeq
<1>3. /\ InFlight = Seen(received) \o B
      /\ InFlight' = Seen(received') \o (IF slot' = <<>> THEN <<>> ELSE Seen(Head(slot').recv))
      BY InFlightBoth
<1>4. A \o InFlight = kept
      BY DEF InputInv, LinesAreInput
<1>5. kept = (A \o Seen(received)) \o B
    <2> HIDE DEF A, B
    <2>1. kept = A \o (Seen(received) \o B)
          BY <1>3, <1>4
    <2>2. A \o (Seen(received) \o B) = (A \o Seen(received)) \o B
          BY <1>1, <1>2, ConcatAssociative
    <2> QED BY <2>1, <2>2
<1>6. CASE DaemonPass
    <2>1. /\ dpc' = "wait" /\ received' = Nothing /\ received = Nothing
          /\ slot # <<>> /\ slot' = <<>> /\ Receive(Head(slot).recv)
          BY <1>6 DEF DaemonPass, InputInv
    <2>2. InFlight' = <<>>
          BY <1>1, <1>3, <2>1, ConcatEmptySeq, EmptySeq
    <2>3. B = Seen(Head(slot).recv)
          BY <2>1
    <2>4. kept = (A \o Seen(Head(slot).recv)) \o <<>>
        <3> HIDE DEF A, B
        <3>1. A \o B \in Seq(Char) /\ A \o <<>> = A
              BY <1>1, <1>2, ConcatProperties, ConcatEmptySeq
        <3> QED BY <1>1, <1>5, <2>1, <2>3, <3>1, ConcatEmptySeq
    <2>5. (FlattenSeq(lines') \o buffer') \o <<>> = kept'
          BY <1>2, <2>1, <2>4, ReceiveKeeps, EmptySeq
    <2> QED BY <2>1, <2>2, <2>5 DEF InputInv, LinesAreInput
<1>7. CASE StartWriting
    <2>1. /\ dpc' = "send" /\ UNCHANGED <<lines, buffer, kept>>
          /\ received' = Head(slot).recv /\ received = Nothing
          /\ slot # <<>> /\ slot' = <<>>
          BY <1>7 DEF StartWriting, InputInv
    <2>2. InFlight' = InFlight
          BY <1>1, <1>2, <1>3, <2>1, ConcatEmptySeq
    <2> QED BY <1>4, <2>1, <2>2 DEF InputInv, LinesAreInput
<1>8. CASE SendChar
    <2>1. dpc' = "sent" /\ UNCHANGED <<lines, buffer, kept, received, slot>>
          BY <1>8 DEF SendChar, mailVars
    <2>2. InFlight' = InFlight
          BY <2>1, <1>3
    <2> QED BY <1>4, <2>1, <2>2 DEF InputInv, LinesAreInput
<1>9. CASE AwaitSent
    <2>1. /\ dpc' # "wait" /\ UNCHANGED <<lines, buffer, received>>
          /\ slot # <<>> /\ slot' = <<>> /\ kept' = Unheard(Head(slot).recv)
          BY <1>9 DEF AwaitSent, mailVars
    <2>2. InFlight' = Seen(received)
          BY <1>1, <1>3, <2>1, ConcatEmptySeq
    <2>3. B = Seen(Head(slot).recv)
          BY <2>1
    <2> HIDE DEF A, B
    <2>4. A \o Seen(received) \in Seq(Char)
          BY <1>1, ConcatProperties
    <2>5. kept' = A \o Seen(received)
          BY <1>2, <1>5, <2>1, <2>3, <2>4, UnheardIs
    <2> QED BY <2>1, <2>2, <2>5 DEF InputInv, LinesAreInput, A
<1>10. CASE SendEnd
    <2>1. dpc' = "wait" /\ received' = Nothing /\ slot' = slot /\ Receive(received)
          BY <1>10 DEF SendEnd
    <2>2. (FlattenSeq(lines') \o buffer') \o B = kept'
        <3>1. kept = ((FlattenSeq(lines) \o buffer) \o Seen(received)) \o B
              BY <1>5
        <3> HIDE DEF B
        <3> QED BY <1>1, <1>2, <2>1, <3>1, ReceiveKeeps
    <2>3. InFlight' = <<>> \o B
          BY <1>1, <1>3, <2>1
    <2>4. InFlight' = B
        <3> HIDE DEF B
        <3> QED BY <1>2, <2>3, ConcatEmptySeq
    <2> HIDE DEF B
    <2> QED BY <2>1, <2>2, <2>4 DEF InputInv, LinesAreInput
<1> QED BY <1>6, <1>7, <1>8, <1>9, <1>10 DEF Daemon

LEMMA InitInput == Init => InputInv
<1> SUFFICES ASSUME Init PROVE InputInv
    OBVIOUS
<1>1. /\ lines = <<>> /\ buffer = <<>> /\ slot = <<>> /\ received = Nothing
      /\ kept = <<>> /\ Typing
      BY InitIInv DEF Init, IInv
<1>2. InFlight = <<>>
      BY <1>1, InFlightIs, PartTypes, EmptySeq, ConcatEmptySeq
<1>3. FlattenSeq(lines) = <<>>
      BY <1>1 DEF FlattenSeq
<1> QED BY <1>1, <1>2, <1>3, ConcatEmptySeq, EmptySeq DEF InputInv, LinesAreInput

\* Every character that is typed is in exactly one line, in its order, or still under
\* way, but for those lost while the slot was full or a line was being transmitted
\* (466-468) and for the lines dropped whole when read_mb was full (483).
THEOREM LinesAreInputCorrect == Spec => []LinesAreInput
<1>1. Typing /\ Typing' /\ InputInv /\ [Next]_vars => InputInv'
    <2> SUFFICES ASSUME Typing, Typing', InputInv, [Next]_vars PROVE InputInv'
        OBVIOUS
    <2>1. CASE Type
        <3>1. PICK c \in Keys, done \in BOOLEAN : Tick(c, done)
              BY <2>1 DEF Type
        <3> QED BY <3>1, TickInput
    <2>2. CASE Transmit
        <3>1. PICK done \in BOOLEAN : Tick(Nothing, done)
              BY <2>2 DEF Transmit
        <3> QED BY <3>1, TickInput
    <2>3. CASE Daemon
          BY <2>3, DaemonInput
    <2>4. CASE Read \/ (\E p \in Procs : Write(p)) \/ UNCHANGED vars
        <3>1. UNCHANGED <<lines, buffer, received, slot, kept, dpc>>
              BY <2>4 DEF Read, Write, CallWrite, EndWrite, vars, callVars, mailVars, daemonVars,
                          deviceVars
        <3> QED BY <3>1 DEF InputInv, LinesAreInput, InFlight
    <2> QED BY <2>1, <2>2, <2>3, <2>4 DEF Next
<1>2. IInv => Typing
      BY DEF IInv
<1>3. InputInv => LinesAreInput
      BY DEF InputInv
<1> QED BY <1>1, <1>2, <1>3, InitInput, Inductive, PTL DEF Spec

-----------------------------------------------------------------------------
(***************************************************************************)
(* The writing half implements LineOutput.                                 *)
(***************************************************************************)
\* The texts of the test programs end with a newline.
NewlineEnds == \A t \in Texts : t = <<>> \/ t[Len(t)] = NL

\* The first newline of a text, if it has one.
FirstNewline(t, k) == /\ k \in 1 .. Len(t) /\ t[k] = NL
                      /\ \A i \in 1 .. k - 1 : t[i] # NL

LEMMA CutAtNewline ==
    ASSUME NEW t \in Seq(Char), NEW k, FirstNewline(t, k)
    PROVE  Cut(t) = SubSeq(t, 1, k)
<1> DEFINE I == {i \in 1 .. Len(t) : t[i] = NL}
<1>1. k \in I /\ \A j \in I : k <= j
      BY LenProperties DEF FirstNewline
<1>2. \A x \in I : (\A j \in I : x <= j) => x = k
      BY <1>1
<1>3. SelectInSeq(t, LAMBDA c : c = NL) = CHOOSE x \in I : \A j \in I : x <= j
      BY <1>1 DEF SelectInSeq, Min
<1>4. SelectInSeq(t, LAMBDA c : c = NL) = k
      BY <1>1, <1>2, <1>3
<1>5. \E i \in DOMAIN t : t[i] = NL
      BY <1>1, LenProperties
<1> QED BY <1>4, <1>5 DEF Cut

LEMMA NewlineFound ==
    ASSUME NEW t \in Seq(Char), t # <<>>, t[Len(t)] = NL
    PROVE  \E k \in 1 .. Len(t) : FirstNewline(t, k)
<1> DEFINE I == {i \in 1 .. Len(t) : t[i] = NL}
<1>1. Len(t) \in Nat \ {0}
      BY EmptySeq
<1>2. I \in SUBSET Nat /\ Len(t) \in I
      BY <1>1
<1>3. PICK k \in I : \A j \in I : k <= j
    <2> HIDE DEF I
    <2> QED BY <1>2, LeastNatural
<1>4. \A i \in 1 .. k - 1 : i \notin I
      BY <1>1, <1>3
<1> QED BY <1>1, <1>3, <1>4 DEF FirstNewline

\* What was in the buffer behind a text is behind its newline, and not sent.
LEMMA CutOverwritten ==
    ASSUME NEW old \in Seq(Char), NEW t \in Seq(Char), t # <<>>, t[Len(t)] = NL
    PROVE  /\ Overwritten(old, t) \in Seq(Char) /\ Overwritten(old, t) # <<>>
           /\ Cut(Overwritten(old, t)) = Cut(t)
<1> DEFINE new == Overwritten(old, t)
           rest == SubSeq(old, Len(t) + 1, Len(old))
<1>1. new \in Seq(Char)
      BY OverwrittenType
<1>2. PICK k \in 1 .. Len(t) : FirstNewline(t, k)
      BY NewlineFound
<1>3. Len(t) \in Nat \ {0} /\ rest \in Seq(Char)
    <2>1. Len(t) \in Nat /\ Len(old) \in Nat /\ \A i \in 1 .. Len(old) : old[i] \in Char
          BY LenProperties
    <2>2. \A i \in Len(t) + 1 .. Len(old) : old[i] \in Char
          BY <2>1
    <2> QED BY <2>1, <2>2, SubSeqProperties, EmptySeq
<1>4. /\ Len(new) >= Len(t) /\ Len(new) \in Nat
      /\ \A i \in 1 .. Len(t) : new[i] = t[i]
    <2>1. /\ Len(t \o rest) = Len(t) + Len(rest) /\ Len(rest) \in Nat
          /\ \A i \in 1 .. Len(t) + Len(rest) :
                (t \o rest)[i] = IF i <= Len(t) THEN t[i] ELSE rest[i - Len(t)]
          BY <1>3, ConcatProperties, LenProperties
    <2>2. new = t \o rest
          BY DEF Overwritten
    <2> HIDE DEF new, rest
    <2> QED BY <1>3, <2>1, <2>2
<1> HIDE DEF new
<1>5. FirstNewline(new, k)
      BY <1>2, <1>3, <1>4 DEF FirstNewline
<1>6. SubSeq(new, 1, k) = SubSeq(t, 1, k)
    <2>1. /\ SubSeq(new, 1, k) \in Seq(Char) /\ Len(SubSeq(new, 1, k)) = k
          /\ \A i \in 1 .. k : SubSeq(new, 1, k)[i] = new[i]
          BY <1>1, <1>2, <1>3, <1>4
    <2>2. /\ SubSeq(t, 1, k) \in Seq(Char) /\ Len(SubSeq(t, 1, k)) = k
          /\ \A i \in 1 .. k : SubSeq(t, 1, k)[i] = t[i]
          BY <1>2, <1>3
    <2> QED BY <1>2, <1>3, <1>4, <2>1, <2>2, SeqEqual
<1>7. new # <<>>
      BY <1>1, <1>3, <1>4, EmptySeq
<1> QED BY <1>1, <1>2, <1>5, <1>6, <1>7, CutAtNewline DEF new

LEMMA NextIndex ==
    ASSUME NEW m \in Nat, NEW n \in 0 .. m, n # m
    PROVE  n + 1 \in 1 .. m /\ (n + 1) - 1 = n
OBVIOUS

LEMMA OfTwo ==
    ASSUME NEW x, NEW y
    PROVE  Len(<<x>> \o <<y>>) = 2 /\ Tail(<<x>> \o <<y>>) = <<y>>
<1> DEFINE S == {x, y}
           s == <<x>> \o <<y>>
<1>1. <<x>> \in Seq(S) /\ <<y>> \in Seq(S) /\ Len(<<x>>) = 1 /\ Len(<<y>>) = 1
      OBVIOUS
<1> HIDE DEF S
<1>2. s \in Seq(S) /\ Len(s) = 2 /\ s[2] = y
      BY <1>1, ConcatProperties
<1> HIDE DEF s
<1>3. s # <<>>
    <2>1. Len(<<>>) = 0
          BY EmptySeq
    <2> QED BY <1>2, <2>1
<1> DEFINE r == Tail(s)
<1>4. r \in Seq(S) /\ Len(r) = 1 /\ r[1] = y
      BY <1>2, <1>3, HeadTailProperties
<1> HIDE DEF r
<1>5. \A i \in 1 .. Len(r) : r[i] = <<y>>[i]
    <2> TAKE i \in 1 .. Len(r)
    <2>1. i = 1
          BY <1>4
    <2>2. <<y>>[1] = y
          OBVIOUS
    <2> QED BY <1>4, <2>1, <2>2
<1>6. r = <<y>>
      BY <1>1, <1>4, <1>5, SeqEqual
<1> QED BY <1>2, <1>6 DEF r, s

\* The end of a text as termWriting finds it, and the character it sends there.
LEMMA CutAtEnd ==
    ASSUME NEW t \in Seq(Char), NEW n \in 0 .. Len(t), \A i \in 1 .. n : t[i] # NL,
           n = Len(t) \/ t[n + 1] = NL
    PROVE  Cut(t) = Append(SubSeq(t, 1, n), IF n = Len(t) THEN NUL ELSE NL)
<1>1. Len(t) \in Nat /\ DOMAIN t = 1 .. Len(t)
      BY LenProperties
<1>2. CASE n = Len(t)
    <2>1. ~\E i \in DOMAIN t : t[i] = NL
          BY <1>1, <1>2
    <2>2. SubSeq(t, 1, Len(t)) = t
          BY SubSeqFull
    <2> QED BY <1>2, <2>1, <2>2 DEF Cut
<1>3. CASE n # Len(t)
    <2>1. n + 1 \in 1 .. Len(t)
          BY <1>1, <1>3, NextIndex
    <2>2. t[n + 1] = NL
          BY <1>3
    <2>3. FirstNewline(t, n + 1)
          BY <1>1, <2>1, <2>2 DEF FirstNewline
    <2>4. Cut(t) = SubSeq(t, 1, n + 1)
          BY <2>3, CutAtNewline
    <2>5. SubSeq(t, 1, n + 1) = Append(SubSeq(t, 1, n), NL)
          BY <1>1, <2>1, <2>2
    <2> QED BY <1>3, <2>4, <2>5
<1> QED BY <1>2, <1>3

-----------------------------------------------------------------------------
\* The row holds the first n characters of the text the daemon writes, and no newline
\* is among them.
Written(n) ==
    /\ Open(Given) = SubSeq(to_write, 1, n)
    /\ \A i \in 1 .. n : to_write[i] # NL

\* What the processes write is one of the texts; the row is complete while the daemon
\* waits, and holds the beginning of its text while it writes.
WriteInv ==
    /\ \A p \in Procs : pc[p] = "write" => text[p] \in Texts
    /\ write_mb = <<>> \/ \E t \in Texts : write_mb = <<t>>
    /\ ~late => /\ dpc = "wait" => Open(Given) = <<>>
                /\ dpc = "send" => to_write # <<>> /\ Written(w)
                /\ dpc = "sent" => Written(w + 1)

\* What the daemon holds once it has looked into write_mb.
LEMMA TakenQueue ==
    ASSUME NewlineEnds, Typing, WriteInv, ~late, to_write' = Taken, write_mb' = <<>>,
           late' = late
    PROVE  /\ \/ queuedBar' = queuedBar
              \/ Len(queuedBar) = 2 /\ queuedBar' = Tail(queuedBar)
<1>1. to_write \in Seq(Char)
      BY DEF Typing, TypeOK
<1>2. queuedBar' = Held(Taken)
    <2>1. queuedBar' = Held(Taken) \o <<>>
          BY DEF queuedBar, Held, Cut, SelectInSeq, Min
    <2> QED BY <2>1 DEF Held
<1>3. CASE write_mb = <<>>
    <2>1. Taken = to_write
          BY <1>3 DEF Taken
    <2>2. queuedBar = Held(to_write)
          BY <1>3 DEF queuedBar, Held
    <2> QED BY <1>2, <2>1, <2>2
<1>4. CASE write_mb # <<>>
    <2>1. PICK t \in Texts : write_mb = <<t>>
          BY <1>4 DEF WriteInv
    <2>2. /\ t \in Seq(Char) /\ Taken = Overwritten(to_write, t)
          /\ queuedBar = Held(to_write) \o Held(t)
          BY <2>1, TerminalAssumption DEF Taken, queuedBar
    <2>3. CASE t = <<>>
        <3>1. Overwritten(to_write, t) = to_write
            <4>1. Overwritten(to_write, t) = <<>> \o SubSeq(to_write, 1, Len(to_write))
                  BY <2>3 DEF Overwritten
            <4>2. SubSeq(to_write, 1, Len(to_write)) = to_write
                  BY <1>1, SubSeqFull
            <4> QED BY <1>1, <4>1, <4>2, ConcatEmptySeq
        <3>2. Held(t) = <<>>
              BY <2>3 DEF Held
        <3>3. queuedBar = Held(to_write)
              BY <2>2, <3>2 DEF Held
        <3> QED BY <1>2, <2>2, <3>1, <3>3
    <2>4. CASE t # <<>>
        <3>1. t[Len(t)] = NL
              BY <2>4 DEF NewlineEnds
        <3>2. Taken # <<>> /\ Cut(Taken) = Cut(t)
              BY <1>1, <2>2, <2>4, <3>1, CutOverwritten
        <3>3. Held(t) = <<Cut(t)>> /\ queuedBar' = <<Cut(t)>>
              BY <1>2, <2>4, <3>2 DEF Held
        <3>4. CASE to_write = <<>>
            <4>1. queuedBar = <<Cut(t)>>
                  BY <2>2, <3>3, <3>4 DEF Held
            <4> QED BY <3>3, <4>1
        <3>5. CASE to_write # <<>>
            <4>1. queuedBar = <<Cut(to_write)>> \o <<Cut(t)>>
                  BY <2>2, <3>3, <3>5 DEF Held
            <4> QED BY <3>3, <4>1, OfTwo
        <3> QED BY <3>4, <3>5
    <2> QED BY <2>3, <2>4
<1> QED BY <1>3, <1>4

\* An interrupt does not change the row as it has been given.
LEMMA TickGiven ==
    ASSUME Typing, NEW c, NEW done \in BOOLEAN, Tick(c, done)
    PROVE  Given' = Given
<1>1. /\ done => xmit = "BUSY"
      /\ xmit' = IF done THEN "READY" ELSE xmit
      /\ row' = IF done THEN Append(Open(row), sending) ELSE row
      /\ sending' = sending
      BY DEF Tick
<1>2. CASE done
      BY <1>1, <1>2 DEF Given
<1>3. CASE ~done
      BY <1>1, <1>3 DEF Given, Open
<1> QED BY <1>2, <1>3

\* Giving a character to an idle transmitter.
LEMMA GivenCharacter ==
    ASSUME Typing, NEW n \in 0 .. Len(to_write), NEW c \in Char \cup {NUL},
           Open(Given) = SubSeq(to_write, 1, n), xmit = "READY", DeviceOutput(c),
           row' = row
    PROVE  /\ Given' = Append(SubSeq(to_write, 1, n), c)
           /\ Open(Given)' = IF c \in {NL, NUL} THEN <<>> ELSE Given'
<1>1. Given = row
      BY DEF Given
<1>2. xmit' = "BUSY" /\ sending' = c
      BY DEF DeviceOutput
<1>3. Given' = Append(Open(row), c)
      BY <1>2 DEF Given, Open
<1>4. Given' = Append(SubSeq(to_write, 1, n), c)
      BY <1>1, <1>3
<1>5. SubSeq(to_write, 1, n) \in Seq(Char)
      BY DEF Typing, TypeOK
<1>6. Given' # <<>> /\ Given'[Len(Given')] = c
      BY <1>4, <1>5
<1> QED BY <1>4, <1>6 DEF Open

-----------------------------------------------------------------------------
(***************************************************************************)
(* Every step keeps WriteInv and is a step of LineOutput, or changes       *)
(* nothing it can see.                                                     *)
(***************************************************************************)
WriteStep == WriteInv' /\ [Output!Next]_<<queuedBar, shownBar>>

LEMMA TickWrites ==
    ASSUME IInv, WriteInv, NEW c \in Keys \cup {Nothing}, NEW done \in BOOLEAN, Tick(c, done)
    PROVE  WriteStep
<1>1. UNCHANGED <<pc, text, write_mb, dpc, to_write, w, late>>
      BY DEF Tick, callVars, mailVars, daemonVars
<1>2. Given' = Given
      BY TickGiven DEF IInv
<1>3. Open(Given)' = Open(Given)
      BY <1>2 DEF Open
<1>4. WriteInv'
      BY <1>1, <1>3 DEF WriteInv, Written
<1>5. UNCHANGED <<queuedBar, shownBar>>
    <2>1. Completed' = Completed
          BY <1>2, <1>3 DEF Completed
    <2>2. shownBar' = shownBar
          BY <1>1, <2>1 DEF shownBar
    <2>3. queuedBar' = queuedBar
          BY <1>1 DEF queuedBar, Held, Cut, SelectInSeq, Min
    <2> QED BY <2>2, <2>3
<1> QED BY <1>4, <1>5 DEF WriteStep

\* A step that touches neither the row nor the texts under way.
LEMMA WritesNothing ==
    ASSUME WriteInv, UNCHANGED <<write_mb, to_write, xmit, sending, row, late>>,
           \A p \in Procs : pc'[p] = "write" => text'[p] \in Texts,
           UNCHANGED <<dpc, w>>
           \/ (dpc = "sent" /\ dpc' = "send" /\ w' = w + 1 /\ (~late => to_write # <<>>))
    PROVE  WriteStep
<1>1. Given' = Given /\ Open(Given)' = Open(Given)
      BY DEF Given, Open
<1>2. WriteInv'
      BY <1>1 DEF WriteInv, Written
<1>3. queuedBar' = queuedBar
      BY DEF queuedBar, Held, Cut, SelectInSeq, Min
<1>4. shownBar' = shownBar
      BY <1>1 DEF shownBar, Completed
<1> QED BY <1>2, <1>3, <1>4 DEF WriteStep

LEMMA ProcessWrites ==
    ASSUME NewlineEnds, IInv, WriteInv, Read \/ \E p \in Procs : Write(p)
    PROVE  WriteStep
<1>1. CASE Read
    <2>1. UNCHANGED <<pc, text, write_mb, dpc, to_write, w, xmit, sending, row, late>>
          BY <1>1 DEF Read, callVars, daemonVars, deviceVars
    <2> QED BY <2>1, WritesNothing DEF WriteInv
<1>2. CASE \E p \in Procs : CallWrite(p)
    <2>1. PICK p \in Procs, t \in Texts :
              /\ text' = [text EXCEPT ![p] = t] /\ pc' = [pc EXCEPT ![p] = "write"]
              /\ UNCHANGED <<write_mb, dpc, to_write, w, xmit, sending, row, late>>
          BY <1>2 DEF CallWrite, mailVars, daemonVars, deviceVars
    <2>2. \A q \in Procs : pc'[q] = "write" => text'[q] \in Texts
          BY <2>1 DEF WriteInv, IInv, Typing, TypeOK
    <2> QED BY <2>1, <2>2, WritesNothing
<1>3. CASE \E p \in Procs : EndWrite(p)
    <2>1. PICK p \in Procs :
              /\ pc[p] = "write" /\ write_mb = <<>> /\ write_mb' = <<text[p]>>
              /\ text' = [text EXCEPT ![p] = <<>>] /\ pc' = [pc EXCEPT ![p] = "user"]
              /\ UNCHANGED <<dpc, to_write, w, xmit, sending, row, late>>
          BY <1>3 DEF EndWrite, daemonVars, deviceVars
    <2>2. PICK t \in Texts : t = text[p]
          BY <2>1 DEF WriteInv
    <2>3. \A q \in Procs : pc'[q] = "write" => text'[q] \in Texts
          BY <2>1 DEF WriteInv, IInv, Typing, TypeOK
    <2>4. Given' = Given /\ Open(Given)' = Open(Given)
          BY <2>1 DEF Given, Open
    <2>5. write_mb' = <<t>>
          BY <2>1, <2>2
    <2>6. WriteInv'
          BY <2>1, <2>3, <2>4, <2>5 DEF WriteInv, Written
    <2>7. shownBar' = shownBar
          BY <2>1, <2>4 DEF shownBar, Completed
    <2>8. CASE late
        <3>1. queuedBar' = queuedBar
              BY <2>1, <2>8 DEF queuedBar
        <3> QED BY <2>6, <2>7, <3>1 DEF WriteStep
    <2>9. CASE ~late
        <3>1. queuedBar = Held(to_write)
              BY <2>1, <2>9 DEF queuedBar, Held
        <3>2. queuedBar' = Held(to_write) \o Held(t)
            <4>1. write_mb' # <<>> /\ Head(write_mb') = t
                  BY <2>5
            <4>2. queuedBar' = Held(to_write) \o Held(Head(write_mb'))
                  BY <2>1, <2>9, <4>1 DEF queuedBar, Held, Cut, SelectInSeq, Min
            <4> QED BY <4>1, <4>2
        <3>3. CASE t = <<>>
            <4>1. queuedBar' = queuedBar
                  BY <3>1, <3>2, <3>3 DEF Held
            <4> QED BY <2>6, <2>7, <4>1 DEF WriteStep
        <3>4. CASE t # <<>>
            <4>1. /\ Len(queuedBar) < 2
                  /\ queuedBar' = Append(queuedBar, Cut(t))
                  BY <3>1, <3>2, <3>4 DEF Held
            <4>2. Output!Accept(Cut(t))
                  BY <2>7, <4>1 DEF Output!Accept
            <4>3. Output!Next
                  BY <3>4, <4>2 DEF Output!Next
            <4> QED BY <2>6, <4>3 DEF WriteStep
        <3> QED BY <3>3, <3>4
    <2> QED BY <2>8, <2>9
<1> QED BY <1>1, <1>2, <1>3 DEF Write

LEMMA StartWrites ==
    ASSUME NewlineEnds, IInv, WriteInv, DaemonPass \/ StartWriting
    PROVE  WriteStep
<1>1. /\ dpc = "wait" /\ slot # <<>> /\ to_write' = Taken /\ write_mb' = <<>>
      /\ UNCHANGED <<pc, text, xmit, sending, row, late>>
      BY DEF DaemonPass, StartWriting, callVars
<1>2. \/ dpc' = "wait"
      \/ dpc' = "send" /\ w' = 0 /\ Head(slot).xmit = "READY" /\ Len(Taken) > 0
      BY <1>1 DEF DaemonPass, StartWriting, MayWrite
<1>3. Given' = Given /\ Open(Given)' = Open(Given)
      BY <1>1 DEF Given, Open
<1>4. Taken \in Seq(Char)
      BY TakenType DEF IInv
<1>5. ASSUME ~late, dpc' = "send" PROVE to_write' # <<>> /\ Written(w)'
    <2>1. w' = 0 /\ Len(Taken) > 0
          BY <1>1, <1>2, <1>5
    <2>2. Open(Given)' = <<>>
          BY <1>1, <1>3, <1>5 DEF WriteInv
    <2>3. SubSeq(to_write', 1, 0) = <<>>
          BY SubSeqEmpty
    <2>4. Taken # <<>>
          BY <1>4, <2>1, EmptySeq
    <2> QED BY <1>1, <2>1, <2>2, <2>3, <2>4 DEF Written
<1>6. WriteInv'
      BY <1>1, <1>2, <1>3, <1>5 DEF WriteInv
<1>7. shownBar' = shownBar
      BY <1>1, <1>3 DEF shownBar, Completed
<1>8. CASE late
    <2>1. queuedBar' = queuedBar
          BY <1>1, <1>8 DEF queuedBar
    <2> QED BY <1>6, <1>7, <2>1 DEF WriteStep
<1>9. CASE ~late
    <2>1. \/ queuedBar' = queuedBar
          \/ Len(queuedBar) = 2 /\ queuedBar' = Tail(queuedBar)
          BY <1>1, <1>9, TakenQueue DEF IInv
    <2>2. CASE Len(queuedBar) = 2 /\ queuedBar' = Tail(queuedBar)
        <3>1. Output!Lose
              BY <1>7, <2>2 DEF Output!Lose
        <3> QED BY <1>6, <3>1 DEF WriteStep, Output!Next
    <2> QED BY <1>6, <1>7, <2>1, <2>2 DEF WriteStep
<1> QED BY <1>8, <1>9

\* A text on its way is at the head of the queue.
LEMMA HeadOfQueue ==
    ASSUME ~late, to_write # <<>>
    PROVE  /\ queuedBar # <<>> /\ Head(queuedBar) = Cut(to_write)
           /\ Tail(queuedBar) = IF write_mb = <<>> THEN <<>> ELSE Held(Head(write_mb))
<1> DEFINE rest == IF write_mb = <<>> THEN <<>> ELSE Held(Head(write_mb))
<1>1. queuedBar = <<Cut(to_write)>> \o rest
      BY DEF queuedBar, Held
<1>2. rest = <<>> \/ rest = <<Cut(Head(write_mb))>>
      BY DEF Held
<1> HIDE DEF rest
<1>3. CASE rest = <<>>
    <2>1. queuedBar = <<Cut(to_write)>>
          BY <1>1, <1>3
    <2>2. queuedBar # <<>> /\ Head(queuedBar) = Cut(to_write) /\ Tail(queuedBar) = rest
          BY <1>3, <2>1
    <2> QED BY <2>2 DEF rest
<1>4. CASE rest = <<Cut(Head(write_mb))>>
    <2>1. Tail(queuedBar) = rest
          BY <1>1, <1>4, OfTwo
    <2>2. queuedBar # <<>> /\ Head(queuedBar) = Cut(to_write)
          BY <1>1, <1>4
    <2> QED BY <2>1, <2>2 DEF rest
<1> QED BY <1>2, <1>3, <1>4

LEMMA SendCharWrites ==
    ASSUME IInv, WriteInv, SendChar
    PROVE  WriteStep
<1>1. /\ dpc = "send" /\ dpc' = "sent" /\ ~AtEnd /\ DeviceOutput(to_write[w + 1])
      /\ UNCHANGED <<pc, text, write_mb, to_write, w, row, late>>
      BY DEF SendChar, callVars, mailVars
<1>2. to_write \in Seq(Char) /\ w \in 0 .. Len(to_write) /\ Len(to_write) \in Nat
      BY LenProperties DEF IInv, Typing, TypeOK
<1>3. w # Len(to_write) /\ to_write[w + 1] # NL
      BY <1>1 DEF AtEnd
<1>4. w + 1 \in 1 .. Len(to_write)
      BY <1>2, <1>3, NextIndex
<1>5. to_write[w + 1] \in Char /\ to_write[w + 1] \notin {NL, NUL}
      BY <1>2, <1>3, <1>4, ElementOfSeq, TerminalAssumption
<1>6. queuedBar' = queuedBar
      BY <1>1 DEF queuedBar, Held, Cut, SelectInSeq, Min
<1>7. CASE late
    <2>1. WriteInv' /\ shownBar' = shownBar
          BY <1>1, <1>7 DEF WriteInv, shownBar
    <2> QED BY <1>6, <2>1 DEF WriteStep
<1>8. CASE ~late
    <2>1. xmit = "READY" /\ Written(w) /\ to_write # <<>>
          BY <1>1, <1>8 DEF IInv, OutputReady, WriteInv
    <2>2. /\ Given' = Append(SubSeq(to_write, 1, w), to_write[w + 1])
          /\ Open(Given)' = Given'
          BY <1>1, <1>2, <1>5, <2>1, GivenCharacter DEF IInv, Written
    <2>3. SubSeq(to_write, 1, w + 1) = Append(SubSeq(to_write, 1, w), to_write[w + 1])
          BY <1>2, <1>4
    <2>4. \A i \in 1 .. w + 1 : to_write[i] # NL
          BY <1>2, <1>3, <2>1 DEF Written
    <2>5. Written(w + 1)'
          BY <1>1, <2>2, <2>3, <2>4 DEF Written
    <2>6. WriteInv'
          BY <1>1, <2>5 DEF WriteInv
    <2>7. Given' # <<>>
        <3>1. SubSeq(to_write, 1, w) \in Seq(Char)
              BY <1>2
        <3> QED BY <1>5, <2>2, <3>1, AppendProperties
    <2>8. shownBar' = <<>>
          BY <1>1, <2>2, <2>7 DEF shownBar, Completed
    <2>9. Output!BeginRow
          BY <1>6, <1>8, <2>1, <2>8, HeadOfQueue DEF Output!BeginRow
    <2> QED BY <2>6, <2>9 DEF WriteStep, Output!Next
<1> QED BY <1>7, <1>8

LEMMA AwaitWrites ==
    ASSUME IInv, WriteInv, AwaitSent
    PROVE  WriteStep
<1>1. /\ dpc = "sent"
      /\ UNCHANGED <<pc, text, write_mb, to_write, xmit, sending, row, late>>
      /\ UNCHANGED <<dpc, w>> \/ (dpc' = "send" /\ w' = w + 1)
      BY DEF AwaitSent, callVars, mailVars
<1>2. to_write # <<>>
      BY <1>1, EmptySeq DEF IInv, Typing, TypeOK
<1> QED BY <1>1, <1>2, WritesNothing DEF WriteInv

LEMMA SendEndWrites ==
    ASSUME IInv, WriteInv, SendEnd
    PROVE  WriteStep
<1> DEFINE c == IF w = Len(to_write) THEN NUL ELSE NL
<1>1. /\ dpc = "send" /\ dpc' = "wait" /\ AtEnd /\ DeviceOutput(c) /\ to_write' = <<>>
      /\ UNCHANGED <<pc, text, write_mb, row, late>>
      BY DEF SendEnd, callVars
<1>2. to_write \in Seq(Char) /\ w \in 0 .. Len(to_write)
      BY DEF IInv, Typing, TypeOK
<1>3. CASE late
    <2>1. WriteInv' /\ shownBar' = shownBar /\ queuedBar' = queuedBar
          BY <1>1, <1>3 DEF WriteInv, shownBar, queuedBar
    <2> QED BY <2>1 DEF WriteStep
<1>4. CASE ~late
    <2>1. xmit = "READY" /\ Written(w) /\ to_write # <<>>
          BY <1>1, <1>4 DEF IInv, OutputReady, WriteInv
    <2>2. c \in Char \cup {NUL} /\ c \in {NL, NUL}
          BY DEF Char
    <2>3. /\ Given' = Append(SubSeq(to_write, 1, w), c)
          /\ Open(Given)' = <<>>
        <3> HIDE DEF c
        <3> QED BY <1>1, <1>2, <2>1, <2>2, GivenCharacter DEF IInv, Written
    <2>4. Cut(to_write) = Append(SubSeq(to_write, 1, w), c)
          BY <1>1, <1>2, <2>1, CutAtEnd DEF AtEnd, Written
    <2>5. WriteInv'
          BY <1>1, <2>3 DEF WriteInv
    <2>6. shownBar' = Cut(to_write)
          BY <1>1, <1>4, <2>3, <2>4 DEF shownBar, Completed
    <2> DEFINE rest == IF write_mb = <<>> THEN <<>> ELSE Held(Head(write_mb))
    <2>7. queuedBar' = rest
        <3>1. queuedBar' = <<>> \o rest
              BY <1>1, <1>4 DEF queuedBar, Held, Cut, SelectInSeq, Min
        <3> QED BY <3>1 DEF Held
    <2>8. Output!Show
          BY <1>4, <2>1, <2>6, <2>7, HeadOfQueue DEF Output!Show
    <2> QED BY <2>5, <2>8 DEF WriteStep, Output!Next
<1> QED BY <1>3, <1>4

LEMMA InitWrites == Init => WriteInv /\ Output!Init
BY DEF Init, WriteInv, Given, Open, Output!Init, queuedBar, Held, shownBar, Completed

LEMMA NextWrites ==
    ASSUME NewlineEnds, IInv, WriteInv, [Next]_vars
    PROVE  WriteStep
<1>1. CASE Type
    <2>1. PICK c \in Keys, done \in BOOLEAN : Tick(c, done)
          BY <1>1 DEF Type
    <2> QED BY <2>1, TickWrites
<1>2. CASE Transmit
    <2>1. PICK done \in BOOLEAN : Tick(Nothing, done)
          BY <1>2 DEF Transmit
    <2> QED BY <2>1, TickWrites
<1>3. CASE Daemon
      BY <1>3, StartWrites, SendCharWrites, AwaitWrites, SendEndWrites DEF Daemon
<1>4. CASE Read \/ \E p \in Procs : Write(p)
      BY <1>4, ProcessWrites
<1>5. CASE UNCHANGED vars
    <2>1. UNCHANGED <<pc, text, write_mb, dpc, to_write, w, xmit, sending, row, late>>
          BY <1>5 DEF vars, callVars, mailVars, daemonVars, deviceVars
    <2> QED BY <2>1, WritesNothing DEF WriteInv
<1> QED BY <1>1, <1>2, <1>3, <1>4, <1>5 DEF Next

\* Texts that end with a newline are transmitted whole, one after the other and in
\* the order in which they were accepted, and one is lost only to a later one
\* (431-439, 458-474): the safety part of ImplementsLineOutput.
THEOREM WritesLines ==
    ASSUME NewlineEnds
    PROVE  Spec => Output!Spec
<1>1. IInv /\ WriteInv /\ [Next]_vars => WriteInv' /\ [Output!Next]_<<queuedBar, shownBar>>
      BY NextWrites DEF WriteStep
<1> QED BY <1>1, InitWrites, Inductive, PTL DEF Spec, Output!Spec, Output!vars
=============================================================================
