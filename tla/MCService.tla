------------------------------ MODULE MCService ------------------------------
(* One administrator and one integration of the seed, a refund and a         *)
(* deployment the planner may decide on, refunds of the same payment from    *)
(* outside, and reads.                                                       *)
EXTENDS Service, TLC

CONSTANTS robot, pay, staging, k1, r1, r2, w1, w2

\* Requests and workers are interchangeable.
MCSymmetry == Permutations({r1, r2}) \cup Permutations({w1, w2})

MCTraffic == ({Bootstrap} \X {"create", "step"})
             \cup ({robot} \X {"step", "submit", "read"})

MCSeededRole == robot :> "VIEWER"

Job(tool, key, target, fits) == [tool |-> tool, key |-> key, target |-> target, fits |-> fits]

MCPlanned == {Job("refund_payment", PlannedKey, pay, TRUE), Job("deploy", PlannedKey, staging, TRUE)}

MCSubmitted == {Job("refund_payment", k1, pay, TRUE)}

=============================================================================
