---------------------------- MODULE MCDiskQueue ----------------------------
(* Instances of DiskQueue for TLC, and the argument lists each run passes to *)
(* disk_helper.                                                              *)
EXTENDS DiskQueueService, TLC

Ask(op, track, start, sectors) ==
    [op |-> op, track |-> track, start |-> start, sectors |-> sectors]

\* On a disk of two tracks of two blocks, requests that stay on it: one block, a
\* crossing of a track boundary, nothing, and a start behind the last block.
GoodRequests ==
    {Ask("READ", 1, 0, 1), Ask("WRITE", 0, 1, 2), Ask("READ", 0, 0, 0),
     Ask("WRITE", 0, 2, 1)}

\* Requests that leave it: a track that does not exist, a range that runs off
\* the last track, a negative length, and a block number refused at once.
BadRequests ==
    {Ask("READ", 2, 0, 1), Ask("WRITE", 1, 1, 2), Ask("READ", 1, 0, -1),
     Ask("READ", 0, 3, 1)}

AllRequests == GoodRequests \cup BadRequests

\* On a disk of three tracks of one block, a block of each track and a range over
\* two of them.
TrackRequests ==
    {Ask("READ", t, 0, 1) : t \in 0 .. 2} \cup {Ask("WRITE", 0, 0, 2)}

Symmetry == Permutations(Procs)
=============================================================================
