----------------------------- MODULE RiskEngine -----------------------------
(* RiskEngine.assess: which of the nine detectors match a call, the score,   *)
(* level and action their signals add up to, and how that action combines    *)
(* with the policy's.  Phrases stand for the lists of risk_config.py: one    *)
(* for each combination of lists that has a phrase of its own.               *)
EXTENDS Integers

CONSTANTS
    Objective,          \* the categories the execution's objective implies
    DestructiveTools,   \* tools whose name holds a destructive keyword
    OutgoingTools       \* tools whose name holds an external keyword

Severity == [ALLOW |-> 0, REQUIRE_APPROVAL |-> 1, BLOCK |-> 2]

Signals == {"PROMPT_INJECTION", "PRIVILEGE_ESCALATION", "DATA_EXFILTRATION",
            "SCOPE_DEVIATION", "FINANCIAL_RISK", "SENSITIVE_DATA_ACCESS",
            "DESTRUCTIVE_ACTION", "EXTERNAL_COMMUNICATION", "UNUSUAL_TOOL_SEQUENCE"}

Levels == {"LOW", "MEDIUM", "HIGH", "CRITICAL"}

-----------------------------------------------------------------------------
(* The detectors                                                             *)

InjectionPhrases == {"ignore previous instructions", "export the database"}
EscalationPhrases == {"bypass security"}
ExfiltrationPhrases == {"export the database"}
SensitiveKeywords == {"password"}
Phrases == InjectionPhrases \cup EscalationPhrases \cup ExfiltrationPhrases \cup SensitiveKeywords

DataExportTools == {"export_customer_data", "send_external_email"}
ExternalCommunicationTools == {"send_external_email"}
CustomerDataReadTools == {"read_customer", "get_payments", "get_support_ticket"}

Category(tool) ==
    CASE tool \in CustomerDataReadTools \cup {"refund_payment"} -> "customer_support"
      [] tool \in {"read_logs", "get_deployment", "deploy_staging", "deploy_production"} -> "devops"
      [] tool \in DataExportTools -> "data_export"
      [] OTHER -> "none"

\* A source without a trust label is as little trusted as one that says so.
UntrustedText(input) == UNION {s.phrases : s \in {t \in input.sources : t.trust # "TRUSTED"}}

FinancialWeight(amount) ==
    CASE amount <= 100 -> 10
      [] amount > 100 /\ amount <= 1000 -> 25
      [] amount > 1000 -> 40

\* Mutant: only a read that was recorded as executed makes the sequence.
AfterExecutedRead(input, earlier) ==
    \E r \in earlier : r.tool \in CustomerDataReadTools /\ r.status = "EXECUTED"

\* The look at the execution's earlier tool requests, whatever became of them.
AfterRead(input, earlier) == \E r \in earlier : r.tool \in CustomerDataReadTools

Detects(signal, input, earlier) ==
    CASE signal = "PROMPT_INJECTION" -> UntrustedText(input) \cap InjectionPhrases # {}
      [] signal = "PRIVILEGE_ESCALATION" -> UntrustedText(input) \cap EscalationPhrases # {}
      [] signal = "DATA_EXFILTRATION" ->
            input.tool \in DataExportTools \/ UntrustedText(input) \cap ExfiltrationPhrases # {}
      [] signal = "SCOPE_DEVIATION" ->
            /\ Category(input.tool) # "none"
            /\ Objective # {}
            /\ Category(input.tool) \notin Objective
      [] signal = "FINANCIAL_RISK" -> input.tool = "refund_payment"
      [] signal = "SENSITIVE_DATA_ACCESS" ->
            (input.text \cup UntrustedText(input)) \cap SensitiveKeywords # {}
      [] signal = "DESTRUCTIVE_ACTION" -> input.tool \in DestructiveTools
      [] signal = "EXTERNAL_COMMUNICATION" ->
            \/ input.tool \in ExternalCommunicationTools \cup OutgoingTools
            \/ "an email address" \in input.text
      [] signal = "UNUSUAL_TOOL_SEQUENCE" ->
            Category(input.tool) = "data_export" /\ AfterRead(input, earlier)

-----------------------------------------------------------------------------
(* The assessment                                                            *)

Points(signal, signals, weight) == IF signal \in signals THEN weight ELSE 0

Sum(signals, financial) ==
    Points("PROMPT_INJECTION", signals, 60)
      + Points("DATA_EXFILTRATION", signals, 50)
      + Points("PRIVILEGE_ESCALATION", signals, 50)
      + Points("DESTRUCTIVE_ACTION", signals, 40)
      + Points("SENSITIVE_DATA_ACCESS", signals, 35)
      + Points("SCOPE_DEVIATION", signals, 35)
      + Points("EXTERNAL_COMMUNICATION", signals, 20)
      + Points("UNUSUAL_TOOL_SEQUENCE", signals, 20)
      + Points("FINANCIAL_RISK", signals, financial)

Clamp(score) ==
    CASE score < 0 -> 0
      [] score >= 0 /\ score <= 100 -> score
      [] score > 100 -> 100

Level(score) ==
    CASE score <= 29 -> "LOW"
      [] score > 29 /\ score <= 59 -> "MEDIUM"
      [] score > 59 /\ score <= 84 -> "HIGH"
      [] score > 84 -> "CRITICAL"

\* MEDIUM_REQUIRE_APPROVAL_THRESHOLD splits the MEDIUM band.
ActionFor(score) ==
    CASE Level(score) = "LOW" -> "ALLOW"
      [] Level(score) = "MEDIUM" -> IF score >= 45 THEN "REQUIRE_APPROVAL" ELSE "ALLOW"
      [] Level(score) = "HIGH" -> "REQUIRE_APPROVAL"
      [] Level(score) = "CRITICAL" -> "BLOCK"

HardBlock(signals) ==
    \/ {"PROMPT_INJECTION", "DATA_EXFILTRATION"} \subseteq signals
    \/ "PRIVILEGE_ESCALATION" \in signals

\* A detector that failed forces the whole assessment.
Assess(signals, financial, failed) ==
    LET score == Clamp(Sum(signals, financial))
    IN IF HardBlock(signals) \/ failed
       THEN [signals |-> signals, score |-> 100, level |-> "CRITICAL", action |-> "BLOCK"]
       ELSE [signals |-> signals, score |-> score, level |-> Level(score),
             action |-> ActionFor(score)]

\* combine_decisions: the more severe of the two.
Combine(policy, risk) == IF Severity[risk] > Severity[policy] THEN risk ELSE policy

=============================================================================
