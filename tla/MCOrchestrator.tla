--------------------------- MODULE MCOrchestrator ---------------------------
(* Plans for TLC: a chain, a fork whose second branch needs approval, a    *)
(* sub-orchestration, a cycle, entries without a usable id.                *)
EXTENDS Orchestrator

Plain(id, deps) == [id |-> id, deps |-> deps, approval |-> FALSE, sub |-> FALSE]
Gated(id, deps) == [Plain(id, deps) EXCEPT !.approval = TRUE]
Nested(id, deps) == [Plain(id, deps) EXCEPT !.sub = TRUE]

Ids == {"a", "b", "task-0", ""}
NoName == ""

Chain == <<Plain("a", {}), Plain("b", {"a"})>>
Fork == <<Gated("a", {}), Plain("b", {})>>
Recursion == <<Plain("b", {}), Nested("a", {})>>
Join == <<Plain("a", {}), Plain("task-0", {}), Plain("b", {"a", "task-0"})>>
Cycle == <<Plain("a", {"b"}), Plain("b", {"a"})>>
Broken == <<Plain("a", {}), Plain(NoId, {})>>
Nameless == <<Plain("", {}), Plain("a", {})>>

Retrying == [registry |-> TRUE, deep |-> FALSE, requester |-> TRUE, attempts |-> 1,
             plans |-> {Chain}, trouble |-> 2, flaky |-> FALSE]
Approving == [Retrying EXCEPT !.plans = {Fork, Recursion}, !.trouble = 1]
Bare == [registry |-> FALSE, deep |-> TRUE, requester |-> FALSE, attempts |-> 0,
         plans |-> {Join, Fork, Recursion, Cycle, Broken, Nameless, << >>}, trouble |-> 1,
         flaky |-> FALSE]
Forgetful == [Bare EXCEPT !.plans = {<< >>}, !.flaky = TRUE]

AllConfigs == {Retrying, Approving, Bare, Forgetful}
=============================================================================
