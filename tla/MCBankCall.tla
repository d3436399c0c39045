----------------------------- MODULE MCBankCall -----------------------------
(* BankCall on a small instance.                                           *)
EXTENDS BankCall

CONSTANTS s1, s2, c1, c2, k1, k2

Symmetric == Permutations({s1, s2}) \union Permutations({k1, k2})
               \union Permutations({c1, c2})

=============================================================================
