---------------------------- MODULE ApprovalGate ----------------------------
(* What the approval engine promises the tool gateway: an execution has one  *)
(* open question at a time, each question is asked once and answered once,   *)
(* the tool behind a granted one runs at most once and the tool behind a     *)
(* refused one never.                                                        *)
EXTENDS Naturals

CONSTANT Requests   \* the tool requests parked for approval

VARIABLES
    verdict,
    runs        \* how often the tool of each request ran

gateVars == <<verdict, runs>>

Verdicts == {"unasked", "open", "granted", "refused", "settled"}

GateTypeOK ==
    /\ verdict \in [Requests -> Verdicts]
    /\ runs \in [Requests -> 0 .. 1]

GateInit ==
    /\ verdict = [q \in Requests |-> "unasked"]
    /\ runs = [q \in Requests |-> 0]

Ask(q) ==
    /\ verdict[q] = "unasked"
    /\ \A p \in Requests : verdict[p] \in {"unasked", "settled"}
    /\ verdict' = [verdict EXCEPT ![q] = "open"]
    /\ UNCHANGED runs

Answer(q) ==
    /\ verdict[q] = "open"
    /\ \E v \in {"granted", "refused"} : verdict' = [verdict EXCEPT ![q] = v]
    /\ UNCHANGED runs

RunTool(q) ==
    /\ verdict[q] = "granted"
    /\ runs[q] = 0
    /\ runs' = [runs EXCEPT ![q] = 1]
    /\ UNCHANGED verdict

Settle(q) ==
    /\ verdict[q] \in {"granted", "refused"}
    /\ verdict' = [verdict EXCEPT ![q] = "settled"]
    /\ UNCHANGED runs

GateNext == \E q \in Requests : Ask(q) \/ Answer(q) \/ RunTool(q) \/ Settle(q)

GateSpec == GateInit /\ [][GateNext]_gateVars

=============================================================================
