---------------------------- MODULE TestPrograms ----------------------------
(***************************************************************************)
(* The test programs as sequences of steps, with what they check and what  *)
(* their .out files say.  A buffer is named by the variable or, when it is *)
(* local to a child, by the child.  Lines and blocks are what they are     *)
(* told apart by; the 13 and 14 bytes some tests ask for are Short.        *)
(* test21 is not here: it takes the strlen of a buffer without a NUL.      *)
(***************************************************************************)
EXTENDS SystemCalls, SequencesExt

CONSTANTS
    Short,      \* fewer characters than the first line has
    Rounds,     \* lines per child in test20 and test22, 5 in the code
    Few,        \* terminals they use, and test19 and test23, 4 in the code
    Turns,      \* blocks each child of test14 writes, 7 in the code
    Sleepers    \* children that sleep in test02 and test23, 10 and 5 in the code

Child(i) == <<"Child", i>>
XXbuf(i) == <<"XXbuf", i>>
sectors == <<"sectors", 0>>
copy == <<"copy", 0>>
bufA == <<"disk_buf_A", 0>>
bufB == <<"disk_buf_B", 0>>

\* The results a test accepts.
Good == [ret |-> {0}, status |-> {"READY"}]
BadStatus == [ret |-> {0}, status |-> {"ERROR"}]
NoError == [ret |-> {0}, status |-> {"READY", "ERROR"}]
Illegal == [ret |-> {-1}, status |-> {}]

DiskCall(call, b, offset, unit, track, first, n, want) ==
    <<[call |-> call, buffer |-> b, offset |-> offset, unit |-> unit, track |-> track,
       first |-> first, sectors |-> n, ret |-> want.ret, status |-> want.status]>>

DiskWrite(b, unit, track, first, n, want) ==
    DiskCall("DiskWrite", b, 0, unit, track, first, n, want)

DiskRead(b, unit, track, first, n, want) ==
    DiskCall("DiskRead", b, 0, unit, track, first, n, want)

SizeIs(unit, tracks) == <<[call |-> "DiskSize", unit |-> unit, tracks |-> tracks]>>

TermRead(b, size, unit, ret, counted) ==
    <<[call |-> "TermRead", buffer |-> b, size |-> size, unit |-> unit, ret |-> ret,
       counted |-> counted]>>

\* TermWrite(buffer, strlen(buffer), unit, &size), and a look at size.
TermWrite(b, unit) ==
    <<[call |-> "TermWrite", buffer |-> b, unit |-> unit, ret |-> {0}]>>

Sleep(s) == <<[call |-> "Sleep", seconds |-> s]>>
Filled(b, text) == <<[call |-> "Fill", buffer |-> b, text |-> text]>>
Expected(b, text) == <<[call |-> "Expect", buffer |-> b, text |-> text]>>
SpawnAll == <<[call |-> "Spawn"]>>
WaitAll == <<[call |-> "Wait"]>>

\* start4 with the steps given, and the children.
Program(main, children) ==
    [p \in {Main} \cup DOMAIN children |-> IF p = Main THEN main ELSE children[p]]

\* start4 spawns the children and waits for them.
Family(children) == Program(SpawnAll \o WaitAll, children)

Children(n) == {Child(i) : i \in 0 .. n - 1}

\* The steps n times, and for each of 0 .. n - 1.
Times(n, steps) == FlattenSeq([i \in 1 .. n |-> steps])
ForEach(n, steps(_)) == FlattenSeq([i \in 1 .. n |-> steps(i - 1)])

Line(text) == <<text, "NL">>

-----------------------------------------------------------------------------
(* Sleep *)
Test00 == Program(Sleep(5), <<>>)
Test01 == Family([c \in {Child(i) : i \in 1 .. 5} |-> Sleep(10)])
Test02 == Family([c \in Children(Sleepers) |-> Sleep((10 - c[2]) * 3)])

(* Terminals *)
Test03 ==
    Family([c \in Children(1) |->
        Filled(c, <<>>) \o TermRead(c, MaxLine, 2, {0}, TRUE) \o Expected(c, Input[2][1])])

Test04 ==
    Program(TermRead(bufA, -13, 1, {-1}, FALSE)
                \o Filled(bufB, <<"abcdefghijklm">>)
                \o TermRead(bufB, Short, 5, {-1}, FALSE)
                \o TermRead(bufB, 0, 0, {-1}, FALSE)
                \o Expected(bufB, <<"abcdefghijklm">>), <<>>)

Test05 ==
    Program(Filled(bufA, [i \in 1 .. MaxLine |-> "a"]) \o TermRead(bufA, Short, 1, {0}, FALSE),
            <<>>)

Test06 ==
    Family([c \in {Child(1), Child(2)} |->
        IF c = Child(1) THEN Filled(c, Line("interesting")) \o TermWrite(c, 1)
        ELSE Filled(c, <<>>) \o TermRead(c, MaxLine, 1, {0, -1}, TRUE)
                               \o Expected(c, Input[1][1])])

Test07 ==
    LET child(c) == Filled(c, Line("interesting")) \o ForEach(4, LAMBDA t : TermWrite(c, t))
    IN  Family([c \in Children(4) |-> child(c)])

\* A line into an empty buffer.
ReadFirst(c) == TermRead(c, MaxLine, c[2], {0}, TRUE) \o Expected(c, Input[c[2]][1])

Test08 == Family([c \in Children(4) |-> ReadFirst(c)])

\* The readers are children 0 to 3, the writers 4 to 7.
ReadersAndWriters == {Child(i) : i \in 0 .. Few - 1} \cup {Child(4 + i) : i \in 0 .. Few - 1}

Test19 ==
    Family([c \in ReadersAndWriters |->
        IF c[2] < 4 THEN ReadFirst(c)
        ELSE Filled(c, Line("interesting")) \o TermWrite(c, c[2] - 4)])

Test20Child1(c) == Times(Rounds, TermRead(c, MaxLine, c[2], {0}, FALSE))

Test20Child2(c) ==
    Times(Rounds, Filled(c, <<"interesting", "line", "NL">>) \o TermWrite(c, c[2] - 4))

Test20 ==
    Family([c \in ReadersAndWriters |->
        IF c[2] < 4 THEN Test20Child1(c) ELSE Test20Child2(c)])

Test22 ==
    LET child(c) == Times(Rounds, TermRead(c, MaxLine, c[2], {0}, FALSE) \o TermWrite(c, c[2]))
    IN  Family([c \in Children(Few) |-> child(c)])

-----------------------------------------------------------------------------
(* Disks *)
Test09 == Program(SizeIs(0, 16) \o SizeIs(1, 32), <<>>)

Test10 ==
    Program(SizeIs(0, 16) \o SizeIs(1, 32)
                \o Filled(bufA, <<"wonderful">>)
                \o DiskWrite(bufA, 0, 5, 0, 1, Good)
                \o DiskRead(bufB, 0, 5, 0, 1, Good)
                \o Expected(bufB, <<"wonderful">>), <<>>)

\* Three blocks there and back.
ThereAndBack(unit, text) ==
    Filled(sectors, text) \o DiskWrite(sectors, unit, 4, 2, 3, Good)
        \o DiskRead(copy, unit, 4, 2, 3, Good) \o Expected(copy, text)

Test11 ==
    LET text == <<"This is a test", "Does it work?", "One last chance">> IN
    Program(ThereAndBack(0, text) \o ThereAndBack(1, text), <<>>)

Test12 ==
    LET text == <<"first", "second", "third">> IN
    Program(ThereAndBack(0, text) \o DiskWrite(sectors, 1, 4, 2, 3, Good)
                \o DiskRead(copy, 1, 4, 2, 3, Good) \o Expected(copy, text), <<>>)

Test13 ==
    LET old == <<"This is a test", "Does it work?", "One last chance">>
        new == <<"something different", "another change", "one last change">>
        Part(i, track, first) == DiskCall("DiskWrite", sectors, i, 1, track, first, 1, Good)
    IN  Program(Filled(sectors, old) \o DiskWrite(sectors, 0, 4, 15, 3, Good)
                    \o Part(0, 4, 15) \o Part(1, 5, 0) \o Part(2, 5, 1)
                    \o DiskRead(copy, 0, 4, 15, 3, Good) \o Expected(copy, old)
                    \o Filled(sectors, new) \o DiskWrite(sectors, 1, 4, 15, 3, Good)
                    \o DiskRead(copy, 1, 4, 15, 3, Good) \o Expected(copy, new), <<>>)

\* XXbuf is filled before the children start.
Flights == <<"One flew East", "One flew West", "One flew over", "--did it work?">>

FillXXbuf(texts) == ForEach(4, LAMBDA i : Filled(XXbuf(i), <<texts[i + 1]>>))

\* ubiq of test14, whose parameters are named out of order.
Test14Ubiq(t) == DiskWrite(XXbuf(t % 4), 1, t % 4, t % 4, 1, Good)

Test14K == <<<<0, 3, 0, 5, 0, 5, 0>>, <<5, 4, 1, 6, 1, 6, 1>>,
             <<9, 9, 2, 7, 2, 7, 2>>, <<2, 9, 3, 8, 3, 8, 3>>>>

Test14 ==
    LET k(c) == ForEach(Turns, LAMBDA i : Test14Ubiq(Test14K[c[2] + 1][i + 1])) IN
    Program(FillXXbuf(Flights) \o SpawnAll \o WaitAll
                \o FillXXbuf(<<"xxx", "xxx", "xxx", "xxx">>)
                \o ForEach(4, LAMBDA j : DiskRead(XXbuf(j), 1, j, j, 1, NoError)
                                             \o Expected(XXbuf(j), <<Flights[j + 1]>>)),
            [c \in Children(4) |-> k(c)])

Test15 ==
    Program(DiskWrite(bufA, 3, 1, 1, 1, Illegal) \o DiskWrite(bufA, 0, 1, 17, 1, Illegal)
                \o DiskWrite(bufA, 0, 1776, 1, 1, BadStatus), <<>>)

\* ubiq of test16 and test18.
Ubiq(unit, t) == DiskWrite(XXbuf(t % 4), unit, t, 4, 1, Good)

Test16 ==
    Program(FillXXbuf(Flights) \o SpawnAll \o WaitAll,
            [c \in Children(8) |-> Ubiq(0, <<5, 3, 9, 0, 7, 2, 1, 6>>[c[2] + 1])])

Test18 ==
    Program(FillXXbuf(Flights) \o SpawnAll \o WaitAll,
            [c \in Children(6) |-> Ubiq(c[2] \div 3, <<5, 3, 9, 4, 2, 8>>[c[2] + 1])])

Test24 ==
    Program(SizeIs(1, 32) \o ForEach(32, LAMBDA t : Filled(bufA, <<"wonderful">>)
                                              \o DiskWrite(bufA, 1, t, 0, 1, Good)), <<>>)
-----------------------------------------------------------------------------
(* Everything at once *)
ChildS(i) == Sleep(5 - i)
ChildTR(c) == ForEach(Few, LAMBDA t : TermRead(c, MaxLine, t, {0}, FALSE))
ChildTW(c) == ForEach(Few, LAMBDA t : Filled(c, Line("interesting")) \o TermWrite(c, t))
ChildDW(c, unit) == Filled(c, <<"wonderful">>) \o DiskWrite(c, unit, 5, 0, 1, Good)
ChildDR(c, unit) == DiskRead(c, unit, 5, 0, 1, Good)

\* Children 0 to 4 sleep, 5 and 6 use the terminals, 7 to 10 the disks.
Test23 ==
    Family([c \in Children(Sleepers) \cup {Child(i) : i \in 5 .. 10} |->
        CASE c[2] \in 0 .. 4 -> ChildS(c[2])
          [] c[2] = 5 -> ChildTR(c)
          [] c[2] = 6 -> ChildTW(c)
          [] c[2] \in {7, 8} -> ChildDW(c, c[2] - 7)
          [] c[2] \in {9, 10} -> ChildDR(c, c[2] - 9)])

AllTests ==
    {Test00, Test01, Test02, Test03, Test04, Test05, Test06, Test07, Test08, Test09,
     Test10, Test11, Test12, Test13, Test14, Test15, Test16, Test18, Test19, Test20,
     Test22, Test23, Test24}

\* Those that only look at what their calls return.
SettledTests ==
    {Test00, Test01, Test02, Test05, Test07, Test09, Test15, Test16, Test18, Test20,
     Test22, Test23}

ASSUME SettledAssumption == \A t \in SettledTests : Settled(t)
=============================================================================
