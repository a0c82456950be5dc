--------------------------- MODULE MCScheduleEditor ---------------------------
(***************************************************************************)
(* A week of three days of three hours of two minutes: every grid over     *)
(* three kinds, every single block, budgets on some days and none on       *)
(* others, and overrides that set one rule, both or none.                  *)
(***************************************************************************)
EXTENDS ScheduleEditor

Rule(schedule, budget, content) ==
    [schedule |-> schedule, budget |-> budget, content |-> content]

Blocks == [kind : Paint, weekdays : SUBSET Day, start : Minute, end : Minute]
Unread == [kind : {"blocked"}, weekdays : {Day}, start : {0, Bad}, end : {Bad}]

Budgets == [Day -> {0, 1}] \union {None}
Night   == [kind |-> "bedtime", weekdays |-> {0}, start |-> 4, end |-> 2]

MCPolicies ==
    {Rule({b}, None, None) : b \in Blocks \union Unread}
    \union {Rule(s, b, c) : s \in {None, {}, {Night}}, b \in Budgets, c \in {None, {"app_block"}}}

MCOverrides ==
    {Rule(s, b, c) : s \in {None, {}, {Night}}, b \in {None, [d \in Day |-> d]},
                     c \in {None, {}, {"domain_block"}}}

FewPolicies == {Rule({Night}, None, None), Rule(None, [d \in Day |-> d % 2], {"app_block"})}

===============================================================================
