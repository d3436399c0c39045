--------------------------- MODULE MCCallSession ---------------------------
(* CallSession on a small instance.                                        *)
EXTENDS CallSession, TLC

CONSTANTS s1, s2, c1, c2

Symmetric == Permutations({s1, s2}) \union Permutations({c1, c2})

=============================================================================
