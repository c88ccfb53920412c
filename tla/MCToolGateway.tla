---------------------------- MODULE MCToolGateway ---------------------------
(* The support agent with the permissions and refund policies of the seed    *)
(* data, a policy of its own and one for every agent, and calls that read    *)
(* customer data, refund, export and send mail.                              *)
EXTENDS ToolGateway

MCRegistered == {"read_customer", "refund_payment", "export_customer_data", "send_external_email"}

MCGranted == [tool \in MCRegistered |->
                 IF tool = "refund_payment" THEN "CONDITIONAL" ELSE "ALLOW"]

Compare(field, operator, value) ==
    [kind |-> "leaf", clauses |-> <<>>, field |-> field, operator |-> operator, value |-> value]

Combinator(kind, clauses) == [kind |-> kind, clauses |-> clauses]

MCConditions ==
    [empty |-> Combinator("empty", <<>>),
     atMost100 |-> Compare("amount", "lte", 100),
     above100 |-> Compare("amount", "gt", 100),
     atMost1000 |-> Compare("amount", "lte", 1000),
     small |-> Combinator("all", <<"atMost100">>),
     middle |-> Combinator("all", <<"above100", "atMost1000">>),
     ordered |-> Compare("ticket", "eq", 1),
     waived |-> Combinator("any", <<"small", "ordered">>)]

Row(scope, subject, priority, action, conditions) ==
    [scope |-> scope, subject |-> subject, tool |-> "refund_payment", priority |-> priority,
     action |-> action, conditions |-> conditions]

MCPolicies ==
    {Row("type", "support", 100, "ALLOW", "small"),
     Row("type", "support", 100, "REQUIRE_APPROVAL", "middle"),
     Row("type", "support", 100, "ALLOW", "ordered"),
     Row("agent", "support-agent", 100, "ALLOW", "waived"),
     Row("tool", "any", 100, "REQUIRE_APPROVAL", "empty"),
     Row("tool", "any", 50, "ALLOW", "empty")}

Input(tool, amount, ticket, phrases) ==
    [agent |-> "support-agent", type |-> "support", tool |-> tool, amount |-> amount,
     ticket |-> ticket, text |-> {}, valid |-> amount # 0,
     sources |-> {[trust |-> "UNTRUSTED", phrases |-> phrases],
                  [trust |-> "TRUSTED", phrases |-> {"bypass security"}]}]

MCInputs ==
    {Input("read_customer", Absent, Absent, {}),
     Input("export_customer_data", Absent, Absent, {}),
     Input("send_external_email", Absent, Absent, {}),
     Input("refund_payment", 50, 0, {"ignore previous instructions"}),
     Input("refund_payment", 750, 1, {}),
     Input("refund_payment", 750, 0, {}),
     Input("refund_payment", 2000, Absent, {}),
     Input("refund_payment", 0, Text, {})}

=============================================================================
