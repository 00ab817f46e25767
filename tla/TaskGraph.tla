----------------------------- MODULE TaskGraph -----------------------------
(***************************************************************************)
(* The orchestrator's dependency graph (agent_rt/task_graph.rs) as values. *)
(* A task is what the JSON of one entry decides: its id, the ids it depends *)
(* on, whether it needs approval and whether it is a sub-orchestration.    *)
(* A graph has the nodes, by id, and insertion_order, which may name an id *)
(* twice when a plan does.                                                 *)
(***************************************************************************)
EXTENDS Naturals, FiniteSets, Sequences

CONSTANT TaskId      \* values of "task_id"

NoId == "no task_id"    \* an entry without "task_id"

Task == [id : TaskId \union {NoId}, deps : SUBSET TaskId,
         approval : BOOLEAN, sub : BOOLEAN]

TaskStatus == {"Pending", "Ready", "AwaitingApproval", "Running",
               "Completed", "Failed", "Skipped"}

Terminal == {"Completed", "Failed", "Skipped"}

EmptyGraph == [node |-> << >>, order |-> << >>]

Known(g) == DOMAIN g.node
StatusOf(g, id) == IF id \in Known(g) THEN g.node[id].status ELSE "Absent"

IdsOf(tasks) == {tasks[i].id : i \in DOMAIN tasks}

\* The node a list of entries leaves for an id: the last one wins.
LastEntry(tasks, id) ==
    tasks[CHOOSE i \in DOMAIN tasks :
             tasks[i].id = id /\ \A j \in DOMAIN tasks : tasks[j].id = id => j <= i]

Inserted(g, tasks) ==
    [node |-> [id \in Known(g) \union IdsOf(tasks) |->
                 IF id \in IdsOf(tasks)
                 THEN LET t == LastEntry(tasks, id)
                      IN  [task |-> t, status |-> IF t.deps = {} THEN "Ready" ELSE "Pending"]
                 ELSE g.node[id]],
     order |-> g.order \o [i \in DOMAIN tasks |-> tasks[i].id]]

\* Kahn's algorithm: the nodes processed after n rounds.  Dependencies that
\* name no node are not counted.
Processed(g) ==
    LET done[n \in Nat] ==
          IF n = 0 THEN {}
          ELSE {id \in Known(g) : g.node[id].task.deps \cap Known(g) \subseteq done[n - 1]}
    IN  done[Cardinality(Known(g))]

DetectCycle(g) == Processed(g) # Known(g)

\* Entries before the first one without an id: add_tasks() has inserted them
\* when it returns the error, and leaves them.
NamedPrefix(tasks) ==
    LET bad == {i \in DOMAIN tasks : tasks[i].id = NoId}
    IN  IF bad = {} THEN tasks
        ELSE SubSeq(tasks, 1, (CHOOSE i \in bad : \A j \in bad : i <= j) - 1)

WithoutIds(g, ids) == [node |-> [id \in Known(g) \ ids |-> g.node[id]],
                       order |-> g.order]

\* add_tasks(): the graph left behind and whether it returned Ok.
AddTasks(g, tasks) ==
    LET named == NamedPrefix(tasks)
        grown == Inserted(g, named)
    IN  CASE named # tasks      -> [ok |-> FALSE, graph |-> grown]
          [] named = tasks /\ DetectCycle(grown) ->
               [ok |-> FALSE,
                graph |-> [WithoutIds(grown, IdsOf(tasks)) EXCEPT !.order = g.order]]
          [] OTHER              -> [ok |-> TRUE, graph |-> grown]

ReadyIds(g) == SelectSeq(g.order, LAMBDA id : StatusOf(g, id) = "Ready")
ReadyTasks(g) == [i \in DOMAIN ReadyIds(g) |-> g.node[ReadyIds(g)[i]].task]

\* set_status(), mark_running(), mark_failed(): unknown ids are ignored.
SetStatus(g, id, status) ==
    IF id \in Known(g) THEN [g EXCEPT !.node[id].status = status] ELSE g

\* Faulty variant: one finished dependency is enough.
PromotableEarly(g, id) ==
    /\ g.node[id].status = "Pending"
    /\ \E d \in g.node[id].task.deps : StatusOf(g, d) = "Completed"

\* A dependency that is not in the graph never counts as completed.
Promotable(g, id) ==
    /\ g.node[id].status = "Pending"
    /\ \A d \in g.node[id].task.deps : StatusOf(g, d) = "Completed"

MarkCompleted(g, id) ==
    LET done == SetStatus(g, id, "Completed")
    IN  [done EXCEPT !.node = [i \in Known(g) |->
            IF Promotable(done, i) THEN [done.node[i] EXCEPT !.status = "Ready"]
                                   ELSE done.node[i]]]

\* Breadth-first search against the dependencies.
Dependents(g, id) ==
    LET reached[n \in Nat] ==
          IF n = 0 THEN {id}
          ELSE reached[n - 1] \union
               {i \in Known(g) : g.node[i].task.deps \cap reached[n - 1] # {}}
        all == reached[Cardinality(Known(g))]
    IN  {i \in Known(g) : g.node[i].task.deps \cap all # {}}

FailDependents(g, id) ==
    LET skipped == Dependents(g, id)
    IN  [g EXCEPT !.node = [i \in Known(g) |->
            IF i \in skipped THEN [g.node[i] EXCEPT !.status = "Skipped"] ELSE g.node[i]]]

\* Faulty variant: the dependents keep waiting.
FailAlone(g, id) == SetStatus(g, id, "Failed")

\* mark_failed() and fail_dependents()
Fail(g, id) == FailDependents(SetStatus(g, id, "Failed"), id)

GraphComplete(g) == \A id \in Known(g) : g.node[id].status \in Terminal

IsGraph(g) ==
    /\ Known(g) \subseteq TaskId
    /\ g.node \in [Known(g) -> [task : Task, status : TaskStatus]]
    /\ g.order \in Seq(TaskId)
=============================================================================
