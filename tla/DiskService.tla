---------------------------- MODULE DiskService ----------------------------
(***************************************************************************)
(* What one disk unit promises its callers, without queue, daemon or       *)
(* device: operations are carried out one at a time, each one block after  *)
(* the other ("Reads a certain number of blocks from disk, sequentially.   *)
(* Once begun, the entire read is atomic."), up to the last or to the end  *)
(* of the disk.  What is moved and the answer depend on the arguments      *)
(* alone.                                                                  *)
(***************************************************************************)
EXTENDS DiskRequests, FiniteSets

CONSTANT Procs

VARIABLES
    phase,      \* of a process's operation: "idle", "queued", "active", "done"
    asked,      \* its arguments
    moved,      \* the blocks moved for it so far
    result,     \* the status of an operation that is done
    reply       \* what the last call returned

vars == <<phase, asked, moved, result, reply>>

Init ==
    /\ phase = [p \in Procs |-> "idle"]
    /\ asked \in [Procs -> Arguments]
    /\ moved = [p \in Procs |-> {}]
    /\ result = [p \in Procs |-> "READY"]
    /\ reply = [p \in Procs |-> "NONE"]

Refuse(p) ==
    \E r \in Requests :
        /\ phase[p] = "idle"
        /\ ~Valid(r)
        /\ asked' = [asked EXCEPT ![p] = r]
        /\ moved' = [moved EXCEPT ![p] = {}]
        /\ reply' = [reply EXCEPT ![p] = "INVALID"]
        /\ UNCHANGED <<phase, result>>

Accept(p) ==
    \E r \in Requests :
        /\ phase[p] = "idle"
        /\ Valid(r)
        /\ phase' = [phase EXCEPT ![p] = "queued"]
        /\ asked' = [asked EXCEPT ![p] = r]
        /\ moved' = [moved EXCEPT ![p] = {}]
        /\ reply' = [reply EXCEPT ![p] = "NONE"]
        /\ result' = [result EXCEPT ![p] = "READY"]

Begin(p) ==
    /\ phase[p] = "queued"
    /\ \A q \in Procs : phase[q] # "active"
    /\ phase' = [phase EXCEPT ![p] = "active"]
    /\ UNCHANGED <<asked, moved, result, reply>>

Move(p) ==
    /\ phase[p] = "active"
    /\ Cardinality(moved[p]) < Extent(asked[p])
    /\ moved' = [moved EXCEPT ![p] =
                    @ \cup {BlockOf(asked[p], Cardinality(@))}]
    /\ UNCHANGED <<phase, asked, result, reply>>

Answer(p) ==
    /\ phase[p] = "active"
    /\ moved[p] = FirstBlocks(asked[p], Extent(asked[p]))
    /\ phase' = [phase EXCEPT ![p] = "done"]
    /\ result' = [result EXCEPT ![p] = Verdict(asked[p])]
    /\ UNCHANGED <<asked, moved, reply>>

Return(p) ==
    /\ phase[p] = "done"
    /\ phase' = [phase EXCEPT ![p] = "idle"]
    /\ reply' = [reply EXCEPT ![p] = result[p]]
    /\ UNCHANGED <<asked, moved, result>>

Serve(p) == Begin(p) \/ Move(p) \/ Answer(p)

Next == \E p \in Procs : Refuse(p) \/ Accept(p) \/ Serve(p) \/ Return(p)

Spec == Init /\ [][Next]_vars

\* The unit keeps serving, and an answered caller returns.
FairSpec ==
    /\ Spec
    /\ WF_vars(\E p \in Procs : Serve(p))
    /\ \A p \in Procs : WF_vars(Return(p))
=============================================================================
