---------------------------- MODULE DiskRequests ----------------------------
(***************************************************************************)
(* The arguments of DiskRead and DiskWrite.                                *)
(***************************************************************************)
EXTENDS DiskBlocks

CONSTANT Requests   \* the argument lists a process may pass

Arguments == [op : {"READ", "WRITE"}, track : Int, start : Int, sectors : Int]

ASSUME RequestsAssumption ==
    /\ NTracks \in Nat \ {0}
    /\ NBlocks \in Nat \ {0}
    /\ Requests \subseteq Arguments
=============================================================================
