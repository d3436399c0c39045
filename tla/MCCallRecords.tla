---------------------------- MODULE MCCallRecords ----------------------------
(* CallRecords on small pools of threads.                                  *)
EXTENDS CallRecords, TLC

CONSTANTS p1, p2, r1, x, y, z

Symmetric == Permutations({p1, p2}) \union Permutations({x, y, z})

=============================================================================
