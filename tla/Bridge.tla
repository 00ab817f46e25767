------------------------------- MODULE Bridge -------------------------------
(***************************************************************************)
(* The I/O bridge (agent_rt/bridge.rs).  Schedulers submit operations to   *)
(* one bounded queue; the workers of a pool take them from it and run each *)
(* as a task of its own; results come back through a second bounded queue. *)
(* The handle and all tasks share a table of cancellation slots, one for   *)
(* each PID with work in flight.  Every worker keeps its own registry of   *)
(* agents.  What an operation computes is left open; a step that the code  *)
(* separates from the next by an await, a lock or a queue is one action.   *)
(***************************************************************************)
EXTENDS Naturals, FiniteSets, Sequences, Collections

CONSTANTS
    BPid,               \* processes that use the bridge
    Setups,             \* the situations to consider, see bSetup
    RequestQueueSize,   \* REQUEST_QUEUE_SIZE
    ResponseQueueSize   \* RESPONSE_QUEUE_SIZE

ASSUME BridgeAssumption ==
    /\ RequestQueueSize \in Nat \ {0} /\ ResponseQueueSize \in Nat \ {0}
    /\ "host" \notin BPid
    /\ \A setup \in Setups :
          /\ setup.ops \in [BPid -> SUBSET {"Chat", "Decompose", "Timer", "Http", "Custom"}]
          /\ setup.workers \in Nat \ {0} /\ setup.cids \in Nat 
          /\ setup.stop \in BOOLEAN /\ setup.deaths \in BOOLEAN

VARIABLES
    bSetup,     \* fixed: size of the pool, the operations each process asks for,
                \* whether processes die and the host shuts down, a bound on the ids
    bQueue,     \* WorkerRequests: operations and shutdowns, oldest first
    bResponses, \* IoResponses, oldest first
    bCid,       \* next_correlation_id
    bSlot,      \* cancellation: by PID, the token and in_flight
    bToken,     \* tokens made so far
    bCancelled, \* tokens cancelled
    bCaller,    \* of each PID, the operation between reservation and queue
    bTask,      \* tasks not finished, by correlation id
    bWorker,    \* of each worker, its place in run()
    bAgents,    \* of each worker, the PIDs in its agent_registry
    bDead,      \* PIDs whose process was terminated
    bGot,       \* correlation ids of the answers drained for each PID
    bLost,      \* history: for each PID, the correlation ids of tasks that ended without
                \* an answer (but for AgentDestroy, which reserves no slot)
    bAcked      \* history: how the acknowledged shutdown ended

bridgeVars == <<bSetup, bQueue, bResponses, bCid, bSlot, bToken, bCancelled,
                bCaller, bTask, bWorker, bAgents, bDead, bGot, bLost, bAcked>>

BWorker == 1..bSetup.workers
MaxCid == bSetup.cids
Chats == {"Chat", "Decompose"}
NoToken == 0
Idle == "idle"
NoAck == "none"

BridgeInit ==
    /\ bSetup \in Setups
    /\ bQueue = << >> /\ bResponses = << >> /\ bCid = 0
    /\ bSlot = << >> /\ bToken = 0 /\ bCancelled = {}
    /\ bCaller = [p \in BPid |-> Idle]
    /\ bTask = << >>
    /\ bWorker = [w \in BWorker |-> "serving"]
    /\ bAgents = [w \in BWorker |-> {}]
    /\ bDead = {} /\ bGot = [p \in BPid |-> {}]
    /\ bLost = [p \in BPid |-> {}] /\ bAcked = NoAck

-----------------------------------------------------------------------------
(* BridgeHandle                                                            *)

\* reserve_cancellation_slot
Reserve(p) ==
    IF p \in DOMAIN bSlot
    THEN /\ bSlot' = [bSlot EXCEPT ![p].inflight = @ + 1]
         /\ UNCHANGED bToken
    ELSE /\ bToken' = bToken + 1
         /\ bSlot' = With(bSlot, p, [token |-> bToken + 1, inflight |-> 1])

\* release_cancellation_slot, and the same lines at the end of a task
Released(p) ==
    IF p \notin DOMAIN bSlot THEN bSlot
    ELSE IF bSlot[p].inflight > 1 THEN [bSlot EXCEPT ![p].inflight = @ - 1]
    ELSE Without(bSlot, p)

\* submit(), up to the reservation.  A dead process asks for nothing.
BeginSubmit(p, op) ==
    /\ p \notin bDead /\ bCaller[p] = Idle /\ bCid < MaxCid
    /\ Reserve(p)
    /\ bCaller' = [bCaller EXCEPT ![p] = op]
    /\ UNCHANGED <<bSetup, bQueue, bResponses, bCid, bCancelled, bTask, bWorker, bAgents,
                   bDead, bGot, bLost, bAcked>>

Disconnected == \A w \in BWorker : bWorker[w] = "stopped"

Accepting == Len(bQueue) < RequestQueueSize /\ ~Disconnected

\* fetch_add and try_send.  A refused AgentDestroy stays with the scheduler
\* (pending_destroys), for the next attempt or until it gives up.
EndSubmit(p) ==
    LET op == bCaller[p]
    IN  /\ op # Idle /\ bCid < MaxCid
        /\ bCid' = bCid + 1
        /\ IF Accepting
           THEN /\ bQueue' = Append(bQueue, [cid |-> bCid, pid |-> p, op |-> op])
                /\ bCaller' = [bCaller EXCEPT ![p] = Idle]
                /\ UNCHANGED <<bSlot, bGot>>
           ELSE /\ UNCHANGED bQueue
                /\ IF op = "Destroy"
                   THEN /\ \/ UNCHANGED bCaller
                           \/ bCaller' = [bCaller EXCEPT ![p] = Idle]
                        /\ UNCHANGED <<bSlot, bGot>>
                   ELSE /\ bSlot' = Released(p)
                        /\ bCaller' = [bCaller EXCEPT ![p] = Idle]
                        /\ bGot' = [bGot EXCEPT ![p] = @ \union {bCid}]
        /\ UNCHANGED <<bSetup, bResponses, bToken, bCancelled, bTask, bWorker, bAgents, bDead,
                       bLost, bAcked>>

\* The scheduler terminates a process: cancel(), then submit an AgentDestroy.
Terminate(p) ==
    /\ bSetup.deaths /\ p \notin bDead /\ bCaller[p] = Idle
    /\ bDead' = bDead \union {p}
    /\ bCancelled' = IF p \in DOMAIN bSlot THEN bCancelled \union {bSlot[p].token}
                     ELSE bCancelled
    /\ bCaller' = [bCaller EXCEPT ![p] = "Destroy"]
    /\ UNCHANGED <<bSetup, bQueue, bResponses, bCid, bSlot, bToken, bTask, bWorker, bAgents,
                   bGot, bLost, bAcked>>

\* drain_responses; what comes for a dead process is a dead letter.
Drain ==
    /\ bResponses # << >>
    /\ bResponses' = << >>
    /\ bGot' = [p \in BPid |-> bGot[p] \union
                  {bResponses[i].cid : i \in {j \in DOMAIN bResponses :
                                                 bResponses[j].pid = p /\ p \notin bDead}}]
    /\ UNCHANGED <<bSetup, bQueue, bCid, bSlot, bToken, bCancelled, bCaller, bTask, bWorker,
                   bAgents, bDead, bLost, bAcked>>

\* shutdown() waits for room in the queue.
Shutdown ==
    /\ bSetup.stop /\ Accepting /\ bAcked = NoAck
    /\ \A i \in DOMAIN bQueue : bQueue[i].op # "Shutdown"
    /\ \A w \in BWorker : bWorker[w] = "serving"
    /\ bQueue' = Append(bQueue, [cid |-> bCid, pid |-> "host", op |-> "Shutdown"])
    /\ UNCHANGED <<bSetup, bResponses, bCid, bSlot, bToken, bCancelled, bCaller, bTask, bWorker,
                   bAgents, bDead, bGot, bLost, bAcked>>

-----------------------------------------------------------------------------
(* BridgeWorker::run                                                       *)

Receive(w) ==
    /\ bWorker[w] = "serving" /\ bQueue # << >>
    /\ bQueue' = Tail(bQueue)
    /\ LET r == Head(bQueue)
       IN  IF r.op = "Shutdown"
           THEN /\ bWorker' = [bWorker EXCEPT ![w] = "draining"]
                /\ UNCHANGED bTask
           ELSE /\ bTask' = With(bTask, r.cid, [worker |-> w, pid |-> r.pid, op |-> r.op,
                                                at |-> "spawned", token |-> NoToken])
                /\ UNCHANGED bWorker
    /\ UNCHANGED <<bSetup, bResponses, bCid, bSlot, bToken, bCancelled, bCaller, bAgents, bDead,
                   bGot, bLost, bAcked>>

TasksOf(w) == {c \in DOMAIN bTask : bTask[c].worker = w}

\* abort_all() stops a task at an await: before it has its result.
Awaiting(c) == bTask[c].at \notin {"done", "sent"}

\* The tasks in gone end, with neither an answer nor the release of their slot.
Drop(gone) ==
    /\ bTask' = [c \in DOMAIN bTask \ gone |-> bTask[c]]
    /\ bLost' = [p \in BPid |-> bLost[p] \union
                    {c \in gone : bTask[c].pid = p /\ bTask[c].op # "Destroy"}]

\* Nothing in flight any more.
Drained(w) ==
    /\ bWorker[w] = "draining" /\ TasksOf(w) = {}
    /\ bAcked' = "drained" /\ UNCHANGED <<bTask, bLost>>

\* The deadline passes first.
DeadlinePassed(w) ==
    /\ bWorker[w] = "draining" /\ TasksOf(w) # {}
    /\ bAcked' = "aborted"
    /\ Drop({c \in TasksOf(w) : Awaiting(c)})

StopWorker(w) ==
    /\ Drained(w) \/ DeadlinePassed(w)
    /\ bWorker' = [bWorker EXCEPT ![w] = "stopped"]
    /\ UNCHANGED <<bSetup, bQueue, bResponses, bCid, bSlot, bToken, bCancelled, bCaller,
                   bAgents, bDead, bGot>>

\* Steps of the task with correlation id c.
TaskStep(c, at) ==
    /\ bTask[c].at = at
    /\ UNCHANGED <<bSetup, bQueue, bCid, bToken, bCancelled, bCaller, bWorker, bDead, bGot,
                   bLost, bAcked>>

\* The token of the slot, if there is one; then the agent's registry, the
\* session of a dying agent, or the operation itself.
StartTask(c) ==
    LET t == bTask[c]
        next == CASE t.op \in Chats ->
                       IF t.pid \in bAgents[t.worker] THEN "running" ELSE "building"
                  [] t.op = "Destroy" -> "closing"
                  [] OTHER -> "running"
    IN  /\ TaskStep(c, "spawned")
        /\ bTask' = [bTask EXCEPT ![c].at = next,
                                  ![c].token = IF t.pid \in DOMAIN bSlot
                                               THEN bSlot[t.pid].token ELSE NoToken]
        /\ UNCHANGED <<bResponses, bSlot, bAgents>>

\* The agent is built, with the tools of its MCP session, and registered
\* unless another task was faster.
RegisterAgent(c) ==
    /\ TaskStep(c, "building")
    /\ bAgents' = [bAgents EXCEPT ![bTask[c].worker] = @ \union {bTask[c].pid}]
    /\ bTask' = [bTask EXCEPT ![c].at = "running"]
    /\ UNCHANGED <<bResponses, bSlot>>

\* The agent cannot be built: no provider is configured (bridge.rs:605) or
\* build() fails (:654).  The panic is not in the part that is contained: it
\* ends the task, and the JoinSet keeps quiet about it.
PanicTask(c) ==
    /\ bTask[c].at = "building"
    /\ Drop({c})
    /\ UNCHANGED <<bSetup, bQueue, bResponses, bCid, bSlot, bToken, bCancelled, bCaller,
                   bWorker, bAgents, bDead, bGot, bAcked>>

\* AgentDestroy: close_session, then remove; never cancelled.
RemoveAgent(c) ==
    /\ TaskStep(c, "closing")
    /\ bAgents' = [bAgents EXCEPT ![bTask[c].worker] = @ \ {bTask[c].pid}]
    /\ bTask' = [bTask EXCEPT ![c].at = "done"]
    /\ UNCHANGED <<bResponses, bSlot>>

\* execute_agent_chat_standalone, execute_io_op or execute_http_op returns:
\* an answer, an error, a panic of the chat itself, a timeout.  decompose_goal falls back
\* to a plan of one task.
FinishTask(c) ==
    /\ TaskStep(c, "running")
    /\ bTask' = [bTask EXCEPT ![c].at = "done"]
    /\ UNCHANGED <<bResponses, bSlot, bAgents>>

\* select!: the token fires first, and the answer is IoResult::Timeout.
CancelTask(c) ==
    /\ \E at \in {"building", "running"} : TaskStep(c, at)
    /\ bTask[c].token \in bCancelled
    /\ bTask' = [bTask EXCEPT ![c].at = "done"]
    /\ UNCHANGED <<bResponses, bSlot, bAgents>>

\* Faulty variant: the task is polled once more after it has answered.
SendResponseAgain(c) ==
    /\ TaskStep(c, "done") /\ Len(bResponses) < ResponseQueueSize
    /\ bResponses' = Append(bResponses, [cid |-> c, pid |-> bTask[c].pid])
    /\ bTask' \in {bTask, [bTask EXCEPT ![c].at = "sent"]}
    /\ UNCHANGED <<bSlot, bAgents>>

\* send() blocks while the response queue is full.
SendResponse(c) ==
    /\ TaskStep(c, "done") /\ Len(bResponses) < ResponseQueueSize
    /\ bResponses' = Append(bResponses, [cid |-> c, pid |-> bTask[c].pid])
    /\ bTask' = [bTask EXCEPT ![c].at = "sent"]
    /\ UNCHANGED <<bSlot, bAgents>>

ReleaseTask(c) ==
    /\ TaskStep(c, "sent")
    /\ bSlot' = Released(bTask[c].pid)
    /\ bTask' = Without(bTask, c)
    /\ UNCHANGED <<bResponses, bAgents>>

TaskNext(c) ==
    \/ StartTask(c) \/ RegisterAgent(c) \/ RemoveAgent(c) \/ FinishTask(c)
    \/ PanicTask(c) \/ CancelTask(c) \/ SendResponse(c) \/ ReleaseTask(c)

PoolNext ==
    \/ \E w \in BWorker : Receive(w)
    \/ \E c \in DOMAIN bTask : TaskNext(c)
    \/ Drain

BridgeNext ==
    \/ \E p \in BPid : (\E op \in bSetup.ops[p] : BeginSubmit(p, op)) \/ EndSubmit(p) \/ Terminate(p)
    \/ Shutdown \/ \E w \in BWorker : StopWorker(w)
    \/ PoolNext

-----------------------------------------------------------------------------
BridgeTypeOK ==
    /\ Len(bQueue) <= RequestQueueSize /\ Len(bResponses) <= ResponseQueueSize
    /\ DOMAIN bSlot \subseteq BPid /\ \A p \in DOMAIN bSlot : bSlot[p].inflight \in 1..MaxCid
    /\ bCancelled \subseteq 1..bToken
    /\ DOMAIN bTask \subseteq 0..MaxCid
    /\ bWorker \in [BWorker -> {"serving", "draining", "stopped"}]
    /\ bAgents \in [BWorker -> SUBSET BPid]

Queued(p) == {i \in DOMAIN bQueue : bQueue[i].pid = p}
TasksFor(p) == {c \in DOMAIN bTask : bTask[c].pid = p}

(***************************************************************************)
(* What the slot of a process should count: its requests between           *)
(* reserve_cancellation_slot() and the end of their task, and those whose  *)
(* task ended without giving the slot back, which it counts for ever.      *)
(***************************************************************************)
Asked(p) == {i \in Queued(p) : bQueue[i].op # "Destroy"}
Unreleased(p) == {c \in TasksFor(p) : bTask[c].op # "Destroy"} \union bLost[p]
Owed(p) == Cardinality(Asked(p)) + Cardinality(Unreleased(p))
             + (IF bCaller[p] \in {Idle, "Destroy"} THEN 0 ELSE 1)
Counted(p) == IF p \in DOMAIN bSlot THEN bSlot[p].inflight ELSE 0

\* The AgentDestroy of p has ended, or was given up.
DestroyOver(p) ==
    /\ p \in bDead /\ bCaller[p] # "Destroy"
    /\ \A i \in Queued(p) : bQueue[i].op # "Destroy"
    /\ \A c \in TasksFor(p) : bTask[c].op # "Destroy"

(***************************************************************************)
(* The slot of a process counts exactly what it should, through refusals,  *)
(* completions, panics and aborts in any order; after a death it may count *)
(* one less, but only once the AgentDestroy, which reserves nothing and    *)
(* releases all the same, is over.  The token is cancelled by a death and  *)
(* nothing else.  A task at work has the token of the slot while its       *)
(* process lives, so that a cancel() reaches it; of a dead process, one    *)
(* that was not cancelled started after that process's AgentDestroy.       *)
(***************************************************************************)
SlotsCounted ==
    \A p \in BPid :
        /\ Counted(p) = Owed(p) \/ (DestroyOver(p) /\ Counted(p) + 1 = Owed(p))
        /\ p \in DOMAIN bSlot => (bSlot[p].token \in bCancelled <=> p \in bDead)
        /\ \A c \in TasksFor(p) : (bTask[c].op # "Destroy" /\ bTask[c].at # "spawned") =>
              IF p \in bDead
              THEN bTask[c].token \in bCancelled \/ (bTask[c].token = NoToken /\ DestroyOver(p))
              ELSE bTask[c].token = bSlot[p].token

(***************************************************************************)
(* No request has two answers, nor one while it is queued or at work, nor  *)
(* one after its task was lost; and as long as nobody dies, each id handed *)
(* out is queued, at work, answered or lost to a panic or to the deadline  *)
(* of a shutdown: none disappears between the queues, whatever refusals    *)
(* and full queues do.                                                     *)
(***************************************************************************)
AnsweredOnce ==
    /\ \A i \in DOMAIN bResponses :
          LET c == bResponses[i].cid
          IN  /\ \A j \in DOMAIN bResponses : bResponses[j].cid = c => i = j
              /\ \A p \in BPid : c \notin bGot[p]
              /\ c \in DOMAIN bTask => bTask[c].at = "sent"
    /\ \A p \in BPid : \A c \in bGot[p] :
          /\ \A j \in DOMAIN bQueue : bQueue[j].cid # c \/ bQueue[j].op = "Shutdown"
          /\ c \in DOMAIN bTask => bTask[c].at = "sent"
    /\ \A p \in BPid : \A c \in bLost[p] :
          /\ c \notin DOMAIN bTask /\ \A q \in BPid : c \notin bGot[q]
          /\ \A i \in DOMAIN bResponses : bResponses[i].cid # c
    /\ bDead = {} =>
          \A c \in 0..(bCid - 1) :
              \/ \E i \in DOMAIN bQueue : bQueue[i].cid = c
              \/ c \in DOMAIN bTask /\ bTask[c].at # "sent"
              \/ \E i \in DOMAIN bResponses : bResponses[i].cid = c
              \/ \E p \in BPid : c \in bGot[p] \union bLost[p]

(***************************************************************************)
(* With a single worker, a shutdown() that is acknowledged in time leaves  *)
(* no task behind: everything accepted before it has been answered, or its *)
(* task has panicked.                                                      *)
(***************************************************************************)
AckMeansAnswered ==
    (bAcked = "drained" /\ bSetup.workers = 1) => bTask = << >>

(***************************************************************************)
(* The requests of the pool are accounted for: the slots count them, each  *)
(* has at most one answer and is not mislaid, and an acknowledged shutdown *)
(* leaves none behind.                                                     *)
(***************************************************************************)
RequestsAccounted == BridgeTypeOK /\ SlotsCounted /\ AnsweredOnce /\ AckMeansAnswered

(***************************************************************************)
(* Every operation accepted for a process gets its answer, whichever       *)
(* worker takes it and however full the queues are; unless its task ends   *)
(* without one (a panic while the agent is built), its process dies, or    *)
(* the bridge is shut down.                                                *)
(***************************************************************************)
Cids == UNION {0..setup.cids : setup \in Setups}
Accepted(p, c) ==
    \/ \E i \in Queued(p) : bQueue[i].cid = c
    \/ c \in TasksFor(p) \/ \E i \in DOMAIN bResponses : bResponses[i] = [cid |-> c, pid |-> p]
EveryAnswer ==
    \A p \in BPid, c \in Cids :
        Accepted(p, c) ~> \/ c \in bGot[p] \union bLost[p]
                          \/ p \in bDead \/ ~(\A w \in BWorker : bWorker[w] = "serving")
=============================================================================
