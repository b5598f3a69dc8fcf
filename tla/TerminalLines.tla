--------------------------- MODULE TerminalLines ---------------------------
(***************************************************************************)
(* Terminal implements LineOutput when no interrupt comes before the       *)
(* daemon is back in waitDevice and every text has its newline at the end, *)
(* as those of the test programs have.  A line is accepted when it enters  *)
(* write_mb and shown when its last character is given to the device.      *)
(***************************************************************************)
EXTENDS Terminal

\* What termWriting sends of a text: up to the first newline, or a NUL at its end.
Cut(t) ==
    IF \E i \in DOMAIN t : t[i] = NL
    THEN SubSeq(t, 1, SelectInSeq(t, LAMBDA c : c = NL))
    ELSE Append(t, NUL)

\* An empty text is not written.
Held(t) == IF t = <<>> THEN <<>> ELSE <<Cut(t)>>

\* The row as given to the device, when it is complete.
Given == IF xmit = "BUSY" THEN Append(Open(row), sending) ELSE row

Completed == IF Open(Given) = <<>> THEN Given ELSE <<>>

\* What LineOutput calls queued and shown.
queuedBar ==
    IF late THEN <<>>
    ELSE Held(to_write) \o (IF write_mb = <<>> THEN <<>> ELSE Held(Head(write_mb)))

shownBar == IF late THEN <<>> ELSE Completed

Output == INSTANCE LineOutput WITH
    Lines <- {Cut(t) : t \in Texts \ {<<>>}},
    queued <- queuedBar,
    shown <- shownBar

\* Lines are transmitted whole, one after the other, in the order accepted; the
\* newest is never lost and always appears (431-439, 458-474).
ImplementsLineOutput == Output!FairSpec
=============================================================================
