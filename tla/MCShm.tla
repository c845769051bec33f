-------------------------------- MODULE MCShm --------------------------------
(* An instance of Cursor, and of Shm, for TLC.                             *)
EXTENDS Cursor, TLC

CONSTANTS p1, p2, b1, b2, main, t1

(* With 15 as the largest integer, 4 * 4 wraps to -16.                     *)
MCSizes == {-1, 0, 2, 4}

PoolsAndBuffers == Permutations(Pools) \cup Permutations(Buffers)
=============================================================================
