--------------------------- MODULE MCAgentProcess ---------------------------
(* AgentProcess on a small instance: an account number in every way that   *)
(* it can be written.                                                      *)
EXTENDS AgentProcess

Ways == {n \in [form : Forms, len : {ACCOUNT_DIGITS}, tokens : 1..ACCOUNT_DIGITS,
                wide : BOOLEAN] : WellFormed(n)}

Delays == [eou |-> {1}, ttft |-> {0, 1, 2}, ttfb |-> {1}]

=============================================================================
