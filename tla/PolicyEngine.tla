---------------------------- MODULE PolicyEngine ----------------------------
(* PolicyEngine.evaluate and the condition language of the policies it       *)
(* reads: pure functions of the policies that are enabled and of one call.   *)
(*                                                                           *)
(* The conditions of all policies form one forest: a policy names its root,  *)
(* a combinator its clauses in the order they are written.  A condition is   *)
(* TRUE, FALSE or an error, and where the evaluation stops decides which.    *)
EXTENDS Integers, Sequences

CONSTANTS
    Policies,   \* the rows of the policies table
    Conditions, \* the nodes of their conditions, by name
    Absent,     \* a field the call does not have, or a null
    Text        \* a field whose value is no finite number

Actions == {"ALLOW", "REQUIRE_APPROVAL", "BLOCK"}

\* A policy's scope is an agent, a type of agent or every agent.
Scopes == <<"agent", "type", "tool">>

-----------------------------------------------------------------------------
(* policy_conditions                                                         *)

Truths == {"true", "false", "error"}

Truth(holds) == IF holds THEN "true" ELSE "false"

IsNumber(value) == value \notin {Absent, Text}

Orders(operator, a, b) ==
    CASE operator = "lt"  -> a < b
      [] operator = "lte" -> a <= b
      [] operator = "gt"  -> a > b
      [] operator = "gte" -> a >= b

\* eq, neq and in compare anything, the four orders numbers only; any other
\* operator is an error, as is a field the call does not have.
Leaf(leaf, call) ==
    LET actual == call[leaf.field]
    IN CASE actual = Absent -> "error"
         [] actual # Absent /\ leaf.operator = "eq" -> Truth(actual = leaf.value)
         [] actual # Absent /\ leaf.operator = "neq" -> Truth(actual # leaf.value)
         [] actual # Absent /\ leaf.operator \in {"lt", "lte", "gt", "gte"} ->
               IF IsNumber(actual) /\ IsNumber(leaf.value)
               THEN Truth(Orders(leaf.operator, actual, leaf.value))
               ELSE "error"
         [] actual # Absent /\ leaf.operator = "in" -> Truth(actual \in leaf.value)
         [] OTHER -> "error"

\* The first clause with another value ends the evaluation.
UnlessFirst(value, truths) ==
    LET Others == {i \in DOMAIN truths : truths[i] # value}
    IN IF Others = {} THEN value
       ELSE truths[CHOOSE i \in Others : \A j \in Others : i <= j]

\* A combinator without clauses is malformed; a policy without conditions,
\* whose root is "empty", always holds.
Holds(call) ==
    LET Value[n \in DOMAIN Conditions] ==
            LET node == Conditions[n]
                truths == [i \in DOMAIN node.clauses |-> Value[node.clauses[i]]]
            IN CASE node.kind = "empty" -> "true"
                 [] node.kind = "leaf" -> Leaf(node, call)
                 [] node.kind \in {"all", "any"} /\ node.clauses = <<>> -> "error"
                 [] node.kind = "all" /\ node.clauses # <<>> -> UnlessFirst("true", truths)
                 [] node.kind = "any" /\ node.clauses # <<>> -> UnlessFirst("false", truths)
    IN Value

-----------------------------------------------------------------------------
(* evaluate                                                                  *)

Decided(action, policy) == [decision |-> action, policy |-> policy]

\* _resolve_rank for the policies of a rank that match, none of the rank being
\* in error: the highest priority wins, two actions at that priority do not.
Resolve(matched) ==
    LET top == {p \in matched : \A q \in matched : q.priority <= p.priority}
        shared == {a \in Actions : \A p \in top : p.action = a}
    IN IF shared = {}
       THEN Decided("BLOCK", "POLICY_CONFLICT")
       ELSE Decided(CHOOSE a \in shared : TRUE, "MATCHED")

\* The policies of one rank for the call.  A row that names both an agent and
\* a type counts as the agent's.
Rank(enabled, scope, call) ==
    {p \in enabled : p.tool = call.tool /\ p.scope = scope
                        /\ (scope # "tool" => p.subject = call[scope])}

\* Mutant: a policy in error is passed over.
PassedOver(rank, call) == {}

InError(rank, call) == LET value == Holds(call) IN {p \in rank : value[p.conditions] = "error"}

\* Mutant: a policy holds without a look at its conditions.
MatchedByScope(rank, call) == rank

Matched(rank, call) == LET value == Holds(call) IN {p \in rank : value[p.conditions] = "true"}

\* A rank with nothing to say leaves the call to the next one.
Decides(rank, call) == InError(rank, call) # {} \/ Matched(rank, call) # {}

Verdict(rank, call) ==
    IF InError(rank, call) # {}
    THEN Decided("BLOCK", "POLICY_EVALUATION_ERROR")
    ELSE Resolve(Matched(rank, call))

Evaluate(enabled, call) ==
    LET rank == [i \in DOMAIN Scopes |-> Rank(enabled, Scopes[i], call)]
        deciding == {i \in DOMAIN Scopes : Decides(rank[i], call)}
    IN IF deciding = {}
       THEN Decided("BLOCK", "NO_MATCHING_POLICY")
       ELSE Verdict(rank[CHOOSE i \in deciding : \A j \in deciding : i <= j], call)

=============================================================================
