-------------------------- MODULE DiskQueueService --------------------------
(***************************************************************************)
(* DiskQueue implements DiskService when every caller is below the         *)
(* daemon's priority.  An operation is active while its node is started    *)
(* and on the list, and done once the daemon's message is in its mailbox;  *)
(* a block moves when the device has moved it.                             *)
(***************************************************************************)
EXTENDS DiskQueue

PhaseOf(p) ==
    IF pc[p] = "user" THEN "idle"
    ELSE IF p \in mbox THEN "done"
    ELSE IF node[p].started THEN "active"
    ELSE "queued"

phaseBar == [p \in Procs |-> PhaseOf(p)]

resultBar == [p \in Procs |-> node[p].response]

Service == INSTANCE DiskService WITH phase <- phaseBar, result <- resultBar

\* The unit carries out one operation at a time, block after block, and answers
\* each with what became of it (348-349, 786-882).
ImplementsService == Service!Spec

\* And it keeps serving while there is something to serve (767-882).
ServesForever == Service!FairSpec
=============================================================================
