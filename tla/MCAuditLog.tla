----------------------------- MODULE MCAuditLog -----------------------------
(* One writer sends a chunk while another sends enough of them to make it    *)
(* lose all of its five attempts.                                            *)
EXTENDS AuditLog

CONSTANTS slow, fast
MCWriters == {slow, fast}
MCBudget == [w \in MCWriters |-> IF w = slow THEN 2 ELSE 5]
=============================================================================
