------------------------------ MODULE Buffers ------------------------------
(***************************************************************************)
(* A buffer as the sequence of what lies in it: characters before the NUL, *)
(* or blocks.                                                              *)
(***************************************************************************)
EXTENDS Integers, Sequences

\* A message is copied without a NUL behind it: what was in the buffer before
\* shows behind a shorter one.
Overwritten(old, new) == new \o SubSeq(old, Len(new) + 1, Len(old))
=============================================================================
