---------------------------- MODULE MCDashboard ----------------------------
(* Dashboard on small pools of threads.                                    *)
EXTENDS Dashboard

CONSTANTS p1, p2, r1, r2, x, y

=============================================================================
