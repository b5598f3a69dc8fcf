----------------------------- MODULE LineOutput -----------------------------
(***************************************************************************)
(* What the writing half of a terminal promises: lines appear whole, one   *)
(* after the other and in the order in which they were accepted, and a     *)
(* line can only be lost to a later one that was accepted behind it.       *)
(***************************************************************************)
EXTENDS Integers, Sequences

CONSTANT Lines      \* the lines that may be written, sequences of characters

VARIABLES
    queued,         \* the lines accepted and not shown, oldest first
    shown           \* the row that was completed last, until another is begun

vars == <<queued, shown>>

Init == queued = <<>> /\ shown = <<>>

\* A terminal accepts one line while it holds another.
Accept(l) ==
    /\ Len(queued) < 2
    /\ queued' = Append(queued, l)
    /\ UNCHANGED shown

Show ==
    /\ queued # <<>>
    /\ shown' = Head(queued)
    /\ queued' = Tail(queued)

BeginRow ==
    /\ queued # <<>>
    /\ shown' = <<>>
    /\ UNCHANGED queued

Lose ==
    /\ Len(queued) = 2
    /\ queued' = Tail(queued)
    /\ UNCHANGED shown

Next == (\E l \in Lines : Accept(l)) \/ Show \/ BeginRow \/ Lose

Spec == Init /\ [][Next]_vars

FairSpec == Spec /\ WF_vars(Show)
=============================================================================
