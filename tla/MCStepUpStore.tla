---------------------------- MODULE MCStepUpStore ----------------------------
(* StepUpStore on small pools of threads.                                  *)
EXTENDS StepUpStore, TLC

CONSTANTS t1, t2, t3, c1, c2, k1, k2

Symmetric == Permutations({t1, t2, t3}) \union Permutations({c1, c2})
               \union Permutations({k1, k2})

=============================================================================
