----------------------------- MODULE DiskBlocks -----------------------------
(***************************************************************************)
(* The blocks of a disk, and what becomes of a request for sectors blocks  *)
(* from block start of a track on.                                         *)
(***************************************************************************)
EXTENDS Integers

CONSTANTS
    NTracks,    \* tracks of the disk
    NBlocks     \* blocks of a track (USLOSS_DISK_TRACK_SIZE, 16 in the code)

\* The test of disk_helper; a start of NBlocks passes it.
Valid(r) == r.start >= 0 /\ r.start <= NBlocks

\* Where the i-th block of request r lies, counted from the disk's first block.
Place(r, i) == r.track * NBlocks + r.start + i

\* The block itself: its track, its number there, its sector of the buffer.
BlockOf(r, i) ==
    <<r.track + (r.start + i) \div NBlocks, (r.start + i) % NBlocks, i>>

\* The first k blocks of a request.
FirstBlocks(r, k) == {BlockOf(r, i) : i \in 0 .. k - 1}

Wanted(r) == FirstBlocks(r, r.sectors)

OnTracks(t) == t \in 0 .. NTracks - 1

\* Mutant of Extent: nobody looks at the device's errors.
ExtentEndless(r) == IF r.sectors > 0 THEN r.sectors ELSE 0

\* How many blocks are moved: those asked for, or those up to the end of the disk,
\* as for a negative number, which the daemon never counts up to.
Extent(r) ==
    LET room == NTracks * NBlocks - Place(r, 0) IN
    IF ~OnTracks(r.track) THEN 0
    ELSE IF r.sectors \in 0 .. room THEN r.sectors
    ELSE room

\* The answer: an error when the disk ends before the request does.
Verdict(r) ==
    IF OnTracks(r.track) /\ Extent(r) = r.sectors THEN "READY" ELSE "ERROR"
=============================================================================
