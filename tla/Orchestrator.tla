---------------------------- MODULE Orchestrator ----------------------------
(***************************************************************************)
(* The orchestrator and its workers (agent_rt/orchestration.rs), over the  *)
(* task graph, the approval registry, the retry tracker and a checkpoint   *)
(* store.  The orchestrator is a process: it handles the messages of its   *)
(* mailbox one at a time and answers each with one Action, which the       *)
(* scheduler performs before the next message.  Workers, the bridge, the   *)
(* people who approve, the requester and the pruner move in between.       *)
(* Progress reports, usage reports and the text of results are left out:   *)
(* nothing reads them to decide anything.                                  *)
(***************************************************************************)
EXTENDS TaskGraph

CONSTANTS
    Configs,         \* the configurations to consider, see config
    Goal,            \* goals a requester may ask for
    MaxConcurrency,  \* max_concurrency
    MaxTurns,        \* max_turns of a worker
    Unnamed,         \* the task id "", in TaskId
    MaxWorker,       \* bound: workers ever spawned
    MaxRequests      \* bound: goals ever sent

ASSUME OrchestratorAssumption ==
    /\ \A c \in Configs :
         /\ c.registry \in BOOLEAN /\ c.deep \in BOOLEAN /\ c.requester \in BOOLEAN
         /\ c.attempts \in Nat /\ c.plans \subseteq Seq(Task) /\ c.trouble \in Nat
         /\ c.flaky \in BOOLEAN
    /\ Unnamed \in TaskId /\ MaxConcurrency \in Nat /\ MaxTurns \in Nat \ {0}
    /\ MaxWorker \in Nat /\ MaxRequests \in Nat

Worker == 1..MaxWorker
NoWorker == 0                  \* "worker_pid" of a result that names none
NoGoal == "null"
BusyReply == "worker_busy"     \* a payload that is not a result is a goal

VARIABLES
    config,     \* fixed at the start: the OrchestratorBehavior, and the plans
                \* and the trouble its surroundings have in store
    s,          \* OrchestratorState
    alive,      \* the process exists
    mailbox,    \* its messages, oldest first
    worker,     \* of each PID spawned so far, the WorkerState and its inbox
    asked,      \* decompose_goal requests the bridge has not answered
    registry,   \* ApprovalRegistry: requests pending and decisions made
    checkpoint, \* what the store holds under checkpoint_key
    requests,   \* goals sent so far, for the bound
    trouble,    \* disturbances so far, for the bound
    due,        \* history: ids of the plan accepted for the current goal
    reports,    \* history: orchestration_complete messages for it
    orderly,    \* history: no goal or worker_busy came in the middle of one
    relapsed,   \* history: tasks of the goal whose worker died, not normally, after its answer
    whole       \* history: no restart since the goal was accepted

orchVars == <<config, s, alive, mailbox, worker, asked, registry, checkpoint,
              requests, trouble, due, reports, orderly, relapsed, whole>>

HasRegistry == config.registry   \* approval_registry is configured
AtMaxDepth == config.deep        \* current_depth >= max_depth

\* config.flaky: CheckpointStore::save and delete may return an error
MaxAttempts == config.attempts   \* 0: RetryStrategy::None and Skip
Plans == config.plans            \* answers to decompose_goal

\* Worker deaths, follow-ups, crashes, prunings and further goals are bounded
\* together.
Disturbance == trouble < config.trouble /\ trouble' = trouble + 1

NoCheckpoint == [goal |-> NoGoal, results |-> << >>, queued |-> << >>, inflight |-> {}]

\* OrchestratorState as init() makes it without a checkpoint.
FreshState ==
    [graph |-> EmptyGraph, pendingSpawn |-> << >>, active |-> << >>,
     inflight |-> << >>, results |-> << >>, goal |-> NoGoal,
     requester |-> FALSE, resumed |-> FALSE, awaiting |-> FALSE,
     planned |-> FALSE, attempts |-> [id \in TaskId |-> 0]]

NewWorker(t) == [task |-> t, live |-> TRUE, run |-> FALSE, stop |-> FALSE,
                 waiting |-> FALSE, io |-> 0, turns |-> 0, named |-> FALSE,
                 answered |-> FALSE, kin |-> TRUE]

OrchInit ==
    /\ config \in Configs
    /\ s = FreshState /\ alive = TRUE /\ mailbox = << >> /\ worker = << >>
    /\ asked = 0
    /\ registry = [pending |-> {}, decided |-> << >>]
    /\ checkpoint = NoCheckpoint
    /\ requests = 0 /\ trouble = 0
    /\ due = {} /\ reports = 0 /\ orderly = TRUE /\ relapsed = {} /\ whole = TRUE

-----------------------------------------------------------------------------
(* Functions with a changing domain: the HashMaps of the state.            *)
Put(f, k, v) == [x \in DOMAIN f \union {k} |-> IF x = k THEN v ELSE f[x]]
Del(f, k) == [x \in DOMAIN f \ {k} |-> f[x]]

\* persist_checkpoint: Ready tasks, those being spawned, those with a worker.
Snapshot(st) ==
    [goal |-> st.goal, results |-> st.results,
     queued |-> ReadyTasks(st.graph) \o st.pendingSpawn,
     inflight |-> {st.inflight[id] : id \in DOMAIN st.inflight}]

\* poll_approval_registry: decisions on Ready tasks are taken and applied.
Taken(g, reg) ==
    {id \in DOMAIN reg.decided :
        HasRegistry /\ StatusOf(g, id) = "Ready" /\ g.node[id].task.approval}

PollGraph(g, reg) ==
    LET rejected == {id \in Taken(g, reg) : reg.decided[id] = "Rejected"}
        skipped == UNION {Dependents(g, id) : id \in rejected}
    IN  [g EXCEPT !.node = [i \in Known(g) |->
            [g.node[i] EXCEPT !.status =
                IF i \in skipped THEN "Skipped"
                ELSE IF i \in rejected THEN "Failed" ELSE @]]]

PollRegistry(g, reg) ==
    [reg EXCEPT !.decided = [id \in DOMAIN @ \ Taken(g, reg) |-> @[id]]]

CanSpawnMore(st) ==
    /\ st.planned /\ ~st.awaiting
    /\ ReadyIds(st.graph) # << >>
    /\ Cardinality(DOMAIN st.active) + Len(st.pendingSpawn)
         < (IF MaxConcurrency = 0 THEN 1 ELSE MaxConcurrency)

IsComplete(st) ==
    /\ st.planned /\ ~st.awaiting /\ GraphComplete(st.graph)
    /\ st.pendingSpawn = << >> /\ st.active = << >>

\* What a handler leaves: state, registry, Action and checkpoints written.
Outcome(st, reg, do, writes) == [st |-> st, reg |-> reg, do |-> do, writes |-> writes]
Act(kind) == [kind |-> kind, pid |-> NoWorker]
ActOn(kind, w) == [kind |-> kind, pid |-> w]
SpawnOf(t) == [kind |-> "Spawn", pid |-> NoWorker, task |-> t]

\* Sub-orchestrations at the depth limit fail one by one, without their
\* dependents, until another task is first.
TooDeep(t) == t.sub /\ ~(t.approval /\ HasRegistry) /\ t.id # Unnamed /\ AtMaxDepth
DeepPrefix(st) ==
    LET ready == ReadyTasks(st.graph)
        other == {i \in DOMAIN ready : ~TooDeep(ready[i])}
    IN  IF other = {} THEN IdsOf(ready)
        ELSE {ready[i].id : i \in 1..((CHOOSE i \in other : \A j \in other : i <= j) - 1)}
DeepFailed(st) ==
    LET deep == DeepPrefix(st)
        ids == SelectSeq(ReadyIds(st.graph), LAMBDA id : id \in deep)
    IN  [st EXCEPT
           !.graph.node = [i \in DOMAIN @ |->
               IF i \in deep THEN [@[i] EXCEPT !.status = "Failed"] ELSE @[i]],
           !.results = @ \o [i \in DOMAIN ids |-> [kind |-> "depth", id |-> ids[i]]]]

\* mark_running and pending_spawn_tasks
HandOut(st, t) == [st EXCEPT !.pendingSpawn = Append(@, t),
                             !.graph = SetStatus(@, t.id, "Running")]

\* The first Ready task: hand it to a new worker, ask for approval, or start
\* a sub-orchestrator (whose SpawnResult finds no pending_spawn_tasks).
StartFirst(st, reg) ==
    LET t == Head(ReadyTasks(st.graph))
        queued == [st EXCEPT !.pendingSpawn = Append(@, t)]
        running == HandOut(st, t)
    IN  CASE t.id = Unnamed -> Outcome(queued, reg, SpawnOf(t), <<Snapshot(queued)>>)
          [] t.id # Unnamed /\ t.approval /\ HasRegistry ->
               Outcome([st EXCEPT !.graph = SetStatus(@, t.id, "AwaitingApproval")],
                       [reg EXCEPT !.pending = @ \union {t.id}], Act("Continue"), << >>)
          [] t.id # Unnamed /\ ~(t.approval /\ HasRegistry) /\ t.sub ->
               Outcome(st, reg, Act("SpawnSub"), << >>)
          [] OTHER -> Outcome(running, reg, SpawnOf(t), <<Snapshot(running)>>)

Finalize(st, reg) ==
    IF ~IsComplete(st) THEN Outcome(st, reg, Act("Continue"), << >>)
    ELSE Outcome(st, reg, Act(IF st.requester THEN "Summary" ELSE "Stop"),
                 <<NoCheckpoint>>)

NextOrFinalize(st0, reg0) ==
    LET polled == [st0 EXCEPT !.graph = PollGraph(@, reg0)]
        reg == PollRegistry(st0.graph, reg0)
        st == IF CanSpawnMore(polled) THEN DeepFailed(polled) ELSE polled
    IN  IF CanSpawnMore(st) THEN StartFirst(st, reg) ELSE Finalize(st, reg)

\* A handler goes on to next_or_finalize, after it persisted its state or not.
GoOn(st, reg, writes) == Outcome(st, reg, Act("NextOrFinalize"), writes)
SaveAndGoOn(st, reg) == GoOn(st, reg, <<Snapshot(st)>>)

-----------------------------------------------------------------------------
(* handle_message, one operator for each kind of message.                  *)

\* A goal, or any payload that is not a worker's result.
OnGoal(st, reg, m) ==
    LET caller == [st EXCEPT !.requester = @ \/ m.requester]
        resume == [caller EXCEPT !.resumed = FALSE]
        new == [caller EXCEPT
                  !.goal = m.goal, !.graph = EmptyGraph, !.pendingSpawn = << >>,
                  !.active = << >>, !.inflight = << >>, !.results = << >>,
                  !.resumed = FALSE, !.awaiting = TRUE, !.planned = FALSE]
    IN  IF st.resumed /\ m.goal = st.goal /\ ~m.restart
        THEN SaveAndGoOn(resume, reg)
        ELSE Outcome(new, reg, Act("Decompose"), <<Snapshot(new)>>)

\* extract_tasks: an error or an empty list is one task for the whole goal.
ExtractTasks(plan) ==
    IF plan # << >> THEN plan
    ELSE <<[id |-> "task-0", deps |-> {}, approval |-> FALSE, sub |-> FALSE]>>

\* The answer to decompose_goal, whichever goal it was asked for.
OnTasks(st, reg, m) ==
    LET added == AddTasks(st.graph, ExtractTasks(m.plan))
        planned == [st EXCEPT !.awaiting = FALSE, !.planned = TRUE,
                              !.graph = added.graph]
    IN  IF added.ok THEN SaveAndGoOn(planned, reg)
        ELSE Outcome([planned EXCEPT !.results = Append(@, [kind |-> "cycle", id |-> NoId])],
                     reg, Act("Continue"), << >>)

OnSpawned(st, reg, m) ==
    IF st.pendingSpawn = << >> THEN GoOn(st, reg, << >>)
    ELSE LET t == Head(st.pendingSpawn)
             next == [st EXCEPT !.pendingSpawn = Tail(@),
                                !.active = Put(@, m.pid, t.id),
                                !.inflight = Put(@, t.id, t)]
         IN  Outcome(next, reg, ActOn("RunTask", m.pid), <<Snapshot(next)>>)

\* Faulty variant: the task is still listed as in flight.
RecordedInFlight(st, id) ==
    [st EXCEPT !.graph = MarkCompleted(@, id),
               !.results = Append(@, [kind |-> "result", id |-> id])]

Recorded(st, id) ==
    [st EXCEPT !.graph = MarkCompleted(@, id),
               !.results = Append(@, [kind |-> "result", id |-> id]),
               !.inflight = Del(@, id)]

\* worker_result: the worker is told to stop; its Down moves things on.
OnResult(st, reg, m) ==
    LET next == Recorded(st, m.id)
    IN  IF m.pid # NoWorker
        THEN Outcome(next, reg, ActOn("Shutdown", m.pid), <<Snapshot(next)>>)
        ELSE SaveAndGoOn(next, reg)

\* RetryTracker::should_retry; attempts saturate above the limit.
Attempted(st, id) ==
    IF MaxAttempts = 0 \/ st.attempts[id] > MaxAttempts THEN st
    ELSE [st EXCEPT !.attempts[id] = @ + 1]

ShouldRetry(st, id) == MaxAttempts > 0 /\ st.attempts[id] + 1 <= MaxAttempts

\* Down of an active worker; others are not known any more.
OnDown(st, reg, m) ==
    IF m.pid \notin DOMAIN st.active THEN SaveAndGoOn(st, reg)
    ELSE LET id == st.active[m.pid]
             gone == [st EXCEPT !.active = Del(@, m.pid), !.inflight = Del(@, id)]
             tried == Attempted(gone, id)
         IN  SaveAndGoOn(
               CASE m.reason = "Normal" -> gone
                 [] m.reason # "Normal" /\ ShouldRetry(gone, id) ->
                      [tried EXCEPT !.graph = SetStatus(@, id, "Ready")]
                 [] OTHER ->
                      [tried EXCEPT !.graph = Fail(@, id),
                                    !.results = Append(@, [kind |-> "error", id |-> id])],
               reg)

HandlerOutcome(m) ==
    LET st == [s EXCEPT !.graph = PollGraph(@, registry)]
        reg == PollRegistry(s.graph, registry)
        out == CASE m.type = "Goal"    -> OnGoal(st, reg, m)
                 [] m.type = "Tasks"   -> OnTasks(st, reg, m)
                 [] m.type = "Spawned" -> OnSpawned(st, reg, m)
                 [] m.type = "Result"  -> OnResult(st, reg, m)
                 [] m.type = "Down"    -> OnDown(st, reg, m)
        next == NextOrFinalize(out.st, out.reg)
    IN  IF out.do.kind # "NextOrFinalize" THEN out
        ELSE [next EXCEPT !.writes = out.writes \o @]

-----------------------------------------------------------------------------
(* The scheduler performs the Action.                                      *)

\* A save or delete that fails leaves what the store held before.
Stored(writes) ==
    IF writes = << >> THEN checkpoint' = checkpoint
    ELSE \/ checkpoint' = writes[Len(writes)]
         \/ config.flaky /\ checkpoint' \in {checkpoint} \union
                                 {writes[i] : i \in DOMAIN writes}

Spawned(do) ==
    CASE do.kind = "Spawn"    -> <<[type |-> "Spawned", pid |-> Len(worker) + 1]>>
      [] do.kind = "SpawnSub" -> <<[type |-> "Spawned", pid |-> NoWorker]>>
      [] OTHER                -> << >>

WorkerAfter(do) ==
    CASE do.kind = "Spawn"    -> Append(worker, NewWorker(do.task))
      [] do.kind = "RunTask" /\ do.pid # NoWorker -> [worker EXCEPT ![do.pid].run = TRUE]
      [] do.kind = "Shutdown" -> [worker EXCEPT ![do.pid].stop = TRUE]
      [] OTHER                -> worker

\* A goal is in progress.
InProgress ==
    s.awaiting \/ asked > 0 \/ s.pendingSpawn # << >> \/ s.active # << >>

Handle ==
    /\ alive /\ mailbox # << >>
    /\ LET m == Head(mailbox)
           out == HandlerOutcome(m)
           fresh == out.do.kind = "Decompose"
       IN  /\ out.do.kind = "Spawn" => Len(worker) < MaxWorker
           /\ s' = out.st
           /\ alive' = (out.do.kind # "Stop")
           /\ mailbox' = IF out.do.kind = "Stop" THEN << >>
                         ELSE Tail(mailbox) \o Spawned(out.do)
           /\ worker' = WorkerAfter(out.do)
           /\ asked' = IF fresh THEN asked + 1 ELSE asked
           /\ registry' = out.reg
           /\ Stored(out.writes)
           /\ due' = IF fresh THEN {}
                     ELSE IF m.type = "Tasks" /\ AddTasks(s.graph, ExtractTasks(m.plan)).ok
                     THEN IdsOf(ExtractTasks(m.plan)) ELSE due
           /\ reports' = IF fresh THEN 0
                         ELSE IF out.do.kind \in {"Summary", "Stop"} THEN reports + 1
                         ELSE reports
           /\ orderly' = (orderly /\ ~(fresh /\ InProgress))
           /\ relapsed' = IF fresh THEN {} ELSE relapsed
           /\ whole' = (whole \/ fresh)
    /\ UNCHANGED <<config, requests, trouble>>

\* The bridge answers one decompose_goal request.
AnswerDecompose(plan) ==
    /\ alive /\ asked > 0
    /\ asked' = asked - 1
    /\ mailbox' = Append(mailbox, [type |-> "Tasks", plan |-> plan])
    /\ UNCHANGED <<config, s, alive, worker, registry, checkpoint, requests,
                   trouble, due, reports, orderly, relapsed, whole>>

\* Someone sends a goal.
SendGoal(g, restart) ==
    /\ alive /\ requests < MaxRequests
    /\ requests' = requests + 1
    /\ IF requests > 0 /\ ~s.resumed THEN Disturbance ELSE UNCHANGED trouble
    /\ mailbox' = Append(mailbox, [type |-> "Goal", goal |-> g, restart |-> restart,
                                   requester |-> config.requester])
    /\ UNCHANGED <<config, s, alive, worker, asked, registry, checkpoint, due, reports,
                   orderly, relapsed, whole>>

\* approve_handler: whatever is not "approved": true rejects.
DecisionOf(body) == IF body = "true" THEN "Approved" ELSE "Rejected"

\* A POST of the HTTP server: ApprovalRegistry::submit_decision
SubmitDecision(id, body) ==
    /\ id \in registry.pending
    /\ registry' = [pending |-> registry.pending \ {id},
                    decided |-> Put(registry.decided, id, DecisionOf(body))]
    /\ UNCHANGED <<config, s, alive, mailbox, worker, asked, checkpoint, requests,
                   trouble, due, reports, orderly, relapsed, whole>>

-----------------------------------------------------------------------------
(* WorkerBehavior.  A worker's messages to a dead orchestrator are lost.   *)
Tell(w, m) == mailbox' = IF worker[w].kin THEN Append(mailbox, m) ELSE mailbox

WorkerStep(w) ==
    /\ worker[w].live
    /\ UNCHANGED <<config, s, alive, asked, registry, checkpoint, requests, due,
                   reports, whole>>

\* run_task: remember who we are, ask the model.
RunTask(w) ==
    /\ WorkerStep(w) /\ worker[w].run
    /\ worker' = [worker EXCEPT ![w].run = FALSE, ![w].named = TRUE,
                                ![w].waiting = TRUE, ![w].io = @ + 1]
    /\ UNCHANGED <<mailbox, orderly, relapsed, trouble>>

\* follow_up: refused while waiting, otherwise another request.
FollowUp(w) ==
    /\ WorkerStep(w) /\ Disturbance
    /\ IF worker[w].waiting
       THEN /\ Tell(w, [type |-> "Goal", goal |-> BusyReply, restart |-> FALSE,
                        requester |-> FALSE])
            /\ orderly' = FALSE /\ UNCHANGED <<worker, relapsed>>
       ELSE /\ worker' = [worker EXCEPT ![w].waiting = TRUE, ![w].io = @ + 1]
            /\ UNCHANGED <<mailbox, orderly, relapsed>>

\* The answer of the model, good or bad: report it, unless the turns are up.
WorkerAnswer(w) ==
    LET me == worker[w]
        last == me.turns + 1 >= MaxTurns
        next == [me EXCEPT !.waiting = FALSE, !.io = @ - 1, !.turns = @ + 1]
    IN  /\ WorkerStep(w) /\ me.io > 0 /\ me.waiting
        /\ worker' = [worker EXCEPT ![w] = [next EXCEPT !.live = ~last,
                                                        !.answered = @ \/ ~last]]
        /\ Tell(w, IF last THEN [type |-> "Down", pid |-> w, reason |-> "Normal"]
                   ELSE [type |-> "Result", id |-> me.task.id,
                         pid |-> IF me.named THEN w ELSE NoWorker])
        /\ UNCHANGED <<orderly, relapsed, trouble>>

\* An answer nobody waits for.
WorkerIgnores(w) ==
    /\ WorkerStep(w) /\ worker[w].io > 0 /\ ~worker[w].waiting
    /\ worker' = [worker EXCEPT ![w].io = @ - 1]
    /\ UNCHANGED <<mailbox, orderly, relapsed, trouble>>

\* shutdown_worker, after run_task in the same mailbox.
WorkerStops(w) ==
    /\ WorkerStep(w) /\ worker[w].stop /\ ~worker[w].run
    /\ worker' = [worker EXCEPT ![w].live = FALSE]
    /\ Tell(w, [type |-> "Down", pid |-> w, reason |-> "Normal"])
    /\ UNCHANGED <<orderly, relapsed, trouble>>

\* Panic, receive timeout or termination from outside.
WorkerDies(w) ==
    /\ WorkerStep(w) /\ Disturbance
    /\ worker' = [worker EXCEPT ![w].live = FALSE]
    /\ Tell(w, [type |-> "Down", pid |-> w, reason |-> "Custom"])
    /\ relapsed' = IF worker[w].answered /\ worker[w].kin THEN relapsed \union {worker[w].task.id} ELSE relapsed
    /\ UNCHANGED orderly

-----------------------------------------------------------------------------
\* The orchestrator's process dies; what it was told or told nobody is lost.
Crash ==
    /\ alive /\ Disturbance
    /\ alive' = FALSE /\ s' = FreshState /\ mailbox' = << >> /\ asked' = 0
    /\ worker' = [w \in DOMAIN worker |-> [worker[w] EXCEPT !.kin = FALSE]]
    /\ whole' = FALSE
    /\ UNCHANGED <<config, registry, checkpoint, requests, due, reports, orderly, relapsed>>

\* init(): from the checkpoint if there is one.  The tasks in flight were
\* stored in the order of a HashMap.
Restored(order) ==
    [FreshState EXCEPT !.graph = AddTasks(EmptyGraph, checkpoint.queued \o order).graph,
                       !.results = checkpoint.results, !.goal = checkpoint.goal,
                       !.resumed = TRUE, !.planned = TRUE]

Orders(set) == {q \in [1..Cardinality(set) -> set] : \A x \in set : \E i \in DOMAIN q : q[i] = x}

Restart ==
    /\ ~alive
    /\ alive' = TRUE /\ whole' = FALSE
    /\ IF checkpoint = NoCheckpoint THEN s' = FreshState
       ELSE \E q \in Orders(checkpoint.inflight) : s' = Restored(q)
    /\ UNCHANGED <<config, mailbox, worker, asked, registry, checkpoint,
                   requests, trouble, due, reports, orderly, relapsed>>

\* The pruner finds the checkpoint older than its time to live.
Prune ==
    /\ checkpoint # NoCheckpoint /\ Disturbance
    /\ checkpoint' = NoCheckpoint
    /\ UNCHANGED <<config, s, alive, mailbox, worker, asked, registry, requests,
                   due, reports, orderly, relapsed, whole>>

WorkerNext(w) ==
    \/ RunTask(w) \/ FollowUp(w) \/ WorkerAnswer(w) \/ WorkerIgnores(w)
    \/ WorkerStops(w) \/ WorkerDies(w)

OrchNext ==
    \/ Handle
    \/ \E plan \in Plans : AnswerDecompose(plan)
    \/ \E g \in Goal, restart \in BOOLEAN : SendGoal(g, restart)
    \/ \E id \in registry.pending, body \in {"true", "false", "absent"} : SubmitDecision(id, body)
    \/ \E w \in DOMAIN worker : WorkerNext(w)
    \/ Crash \/ Restart \/ Prune

OrchSpec == OrchInit /\ [][OrchNext]_orchVars

\* Weak fairness of Handle, with its enabling condition spelled out: the
\* scheduler dispatches a message sooner or later.
Dispatches == []<>(~alive \/ mailbox = << >>) \/ []<><<Handle>>_orchVars

\* Workers are dispatched too, and the bridge answers every request.
WorkerMoves(w) ==
    w \in DOMAIN worker /\ (RunTask(w) \/ WorkerAnswer(w) \/ WorkerIgnores(w) \/ WorkerStops(w))

OrchFairSpec ==
    /\ OrchSpec
    /\ Dispatches
    /\ WF_orchVars(\E plan \in Plans : AnswerDecompose(plan))
    /\ \A w \in Worker : WF_orchVars(WorkerMoves(w))

-----------------------------------------------------------------------------
Result == [kind : {"result", "error", "depth", "cycle"}, id : TaskId \union {NoId}]

OrchTypeOK ==
    /\ IsGraph(s.graph) /\ s.pendingSpawn \in Seq(Task) /\ s.results \in Seq(Result)
    /\ DOMAIN s.active \subseteq DOMAIN worker \union {NoWorker}
    /\ \A id \in DOMAIN s.inflight : s.inflight[id].id = id
    /\ s.attempts \in [TaskId -> 0..(MaxAttempts + 1)]
    /\ registry.pending \cap DOMAIN registry.decided = {}

Mine == {w \in DOMAIN worker : worker[w].live /\ worker[w].kin}
Reported(kind, id) == [kind |-> kind, id |-> id] \in {s.results[i] : i \in DOMAIN s.results}

(***************************************************************************)
(* No task is open to a worker, or has one, before everything it depends   *)
(* on is Completed: not after retries, rejections or a restart.  (One that *)
(* was Completed may be Ready again, or Failed, when its worker dies late: *)
(* its result is there.)                                                   *)
(***************************************************************************)
DependenciesFirst ==
    orderly => \A id \in Known(s.graph) :
        s.graph.node[id].status \in {"Ready", "AwaitingApproval", "Running"}
            => \A d \in s.graph.node[id].task.deps :
                   \/ StatusOf(s.graph, d) = "Completed"
                   \/ d \in relapsed /\ Reported("result", d)

(***************************************************************************)
(* At most max_concurrency workers of this orchestrator exist at any time, *)
(* counting those whose SpawnResult or Down is still in the mailbox.       *)
(***************************************************************************)
WithinConcurrency ==
    orderly => Cardinality(Mine) <= (IF MaxConcurrency = 0 THEN 1 ELSE MaxConcurrency)

(***************************************************************************)
(* Retries never put a second worker on a task while the first one lives   *)
(* (a task whose id is the empty string is the exception: it stays Ready). *)
(***************************************************************************)
OneWorkerPerTask ==
    orderly => \A v, w \in Mine :
        worker[v].task.id = worker[w].task.id /\ v # w => worker[v].task.id = Unnamed

(***************************************************************************)
(* A graph that holds a cycle is one whose decomposition was refused.      *)
(***************************************************************************)
AcyclicOrRefused ==
    \/ \E i \in DOMAIN s.results : s.results[i].kind = "cycle"
    \/ \A C \in SUBSET Known(s.graph) :
          C # {} => \E id \in C : s.graph.node[id].task.deps \cap C = {}

(***************************************************************************)
(* The plan is kept to: dependencies first, one worker for a task, no more *)
(* workers than max_concurrency, and no work on a plan with a cycle,       *)
(* through retries, rejections, crashes and resumed checkpoints.           *)
(***************************************************************************)
PlanKept ==
    /\ OrchTypeOK /\ DependenciesFirst /\ AcyclicOrRefused
    /\ WithinConcurrency /\ OneWorkerPerTask

(***************************************************************************)
(* What has a result is given to a worker again only if the worker that    *)
(* gave it died otherwise than normally after it (the Down then sets a     *)
(* Completed task to Ready), across crashes and resumed checkpoints.       *)
(***************************************************************************)
NoRepeatStep ==
    (orderly' /\ Len(worker') > Len(worker)) =>
        LET id == worker'[Len(worker')].task.id
        IN  id = Unnamed \/ ~Reported("result", id) \/ id \in relapsed

(***************************************************************************)
(* orchestration_complete is sent once for a goal, when none of its        *)
(* workers is left and every task of the plan has its outcome: Completed   *)
(* tasks with their result, Failed ones with the error, Skipped ones only  *)
(* behind a failure.                                                       *)
(***************************************************************************)
Explained(id) ==
    CASE StatusOf(s.graph, id) = "Completed" -> Reported("result", id)
      [] StatusOf(s.graph, id) = "Failed" ->
           Reported("error", id) \/ Reported("depth", id) \/ s.graph.node[id].task.approval
      [] StatusOf(s.graph, id) = "Skipped" ->
           \E d \in s.graph.node[id].task.deps : StatusOf(s.graph, d) \in {"Failed", "Skipped"}
      [] OTHER -> FALSE

SummaryStep ==
    (reports' > reports /\ orderly /\ whole) =>
        /\ reports = 0 /\ Mine = {}
        /\ \A id \in due : Explained(id)'

(***************************************************************************)
(* No result is worked for twice but for those whose worker died after     *)
(* them, and the summary sent to the requester is sent once and complete.  *)
(***************************************************************************)
ResultsOnce == [][NoRepeatStep /\ SummaryStep]_orchVars

PlainTasks(g) ==
    \A id \in Known(g) :
        /\ id # Unnamed /\ g.node[id].task.deps \subseteq Known(g)
        /\ ~g.node[id].task.sub /\ ~(g.node[id].task.approval /\ HasRegistry)

Undisturbed == orderly /\ whole

(***************************************************************************)
(* A goal whose plan was accepted is answered, whatever its workers die of *)
(* and as often as they are retried, unless the orchestrator crashes or is *)
(* given something else to do.  The plan must consist of plain tasks:      *)
(* those that wait for approval, sub-orchestrations, tasks without a name  *)
(* and dependencies on tasks that are not in the plan never end.           *)
(***************************************************************************)
GoalAnswered ==
    (Undisturbed /\ s.planned /\ PlainTasks(s.graph)
        /\ ~Reported("cycle", NoId) /\ reports = 0)
        ~> (reports > 0 \/ ~Undisturbed)

(***************************************************************************)
(* What the comment in handle_message says: the decisions on tasks that    *)
(* await approval are collected whenever a message is handled.             *)
(***************************************************************************)
DecisionsCollected ==
    [][Handle => \A id \in DOMAIN registry.decided :
          StatusOf(s.graph, id) = "AwaitingApproval"
              => id \notin DOMAIN registry'.decided]_orchVars
=============================================================================
