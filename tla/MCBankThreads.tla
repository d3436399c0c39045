---------------------------- MODULE MCBankThreads ----------------------------
(* BankThreads on a small pool of threads.                                 *)
EXTENDS BankThreads, TLC

CONSTANTS t1, t2, t3, c1, c2, k1, k2

Symmetric == Permutations({t1, t2, t3}) \union Permutations({c1, c2})
               \union Permutations({k1, k2})

=============================================================================
