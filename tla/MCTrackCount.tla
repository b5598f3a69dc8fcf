---------------------------- MODULE MCTrackCount ----------------------------
(* An instance of TrackCount for TLC: the two disk daemons, which wait for   *)
(* their unit, and user processes that ask for sizes or use the disk.        *)
EXTENDS TrackCount

CONSTANTS d0, d1, u1, u2

Wait(u) == [kind |-> "wait", unit |-> u]
AskSize(u) == [kind |-> "size", unit |-> u]

Daemons == {d0, d1}

Processes == Daemons \cup {u1, u2}

\* What the user processes do: DiskRead on unit 0; DiskSize of both units, of one
\* that does not exist.
Calls ==
    [p \in Processes |->
        CASE p = d0 -> {<<Wait(0)>>}
          [] p = d1 -> {<<Wait(1)>>}
          [] p = u1 -> {<<Wait(0)>>, <<AskSize(0), AskSize(1)>>}
          [] p = u2 -> {<<Wait(0)>>, <<AskSize(7)>>}]

Sizes == [u \in {0, 1} |-> 16 * (u + 1)]
=============================================================================
