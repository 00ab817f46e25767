--------------------------- MODULE AgentScheduler ---------------------------
(***************************************************************************)
(* The agent runtime's scheduler (agent_rt/scheduler.rs) with the process  *)
(* table it drives (registry.rs, process.rs) and its dead letters          *)
(* (dead_letter.rs).                                                       *)
(*                                                                         *)
(* The scheduler is single threaded: tick(), terminate_process() and       *)
(* graceful_shutdown() run to completion before the host gets control      *)
(* back.  Here they are cut into the steps between which a behavior        *)
(* callback answers or the bridge worker, the one concurrent actor, moves; *)
(* phase says where the call in progress is and is "idle" when the host    *)
(* has control.  A behavior is anything: a callback returns any Action of  *)
(* Callbacks, whatever the message.                                        *)
(***************************************************************************)
EXTENDS RunQueueOps, FiniteSets

CONSTANTS
    MaxPid,           \* bound: AgentPid values handed out
    MaxRef,           \* bound: MonitorRef values handed out
    Capacity,         \* mailbox_capacity
    Reductions,       \* DEFAULT_REDUCTIONS
    DlqCapacity,      \* capacity of the dead letter queue
    DestroyRetries,   \* attempts at an AgentDestroy before tick() gives up
    MaxInFlight,      \* bound: requests of one process the bridge accepts
    MaxQueue,         \* bound: entries a host may add to a ready queue
    Reserve,          \* bound: PIDs left for what one call may spawn
    Callbacks,        \* the Action variants the behaviors return
    Bridges,          \* whether an I/O bridge is attached at the start
    ExternalRouting,  \* allow_external_routing
    Hooked,           \* a message hook is installed, and may reject
    HostOps,          \* the operations the embedding program uses
    HostPriorities,   \* priorities it gives to the processes it spawns
    HostTraps,        \* trap_exit values it gives them
    Reasons           \* reasons processes are terminated with

Reason == {"Normal", "Shutdown", "Custom"}
ActionKinds == {"Continue", "Send", "Stop", "Panic", "Io", "Spawn"}
HostOpKinds == {"Spawn", "Send", "Monitor", "Demonitor", "Timeout", "Enqueue",
                "Terminate", "Shutdown", "Tick"}

ASSUME SchedulerAssumption ==
    /\ MaxPid \in Nat /\ MaxRef \in Nat
    /\ Capacity \in Nat \ {0}
    /\ Reductions \in Nat \ {0}
    /\ DlqCapacity \in Nat \ {0}
    /\ DestroyRetries \in Nat
    /\ MaxInFlight \in Nat /\ MaxQueue \in Nat /\ Reserve \in Nat
    /\ Callbacks \subseteq ActionKinds
    /\ Bridges \subseteq BOOLEAN
    /\ ExternalRouting \in BOOLEAN /\ Hooked \in BOOLEAN
    /\ HostOps \subseteq HostOpKinds
    /\ HostPriorities \subseteq Priority /\ HostTraps \subseteq BOOLEAN
    /\ Reasons \subseteq Reason

Pid == 1..MaxPid
Ref == 1..MaxRef
Status == {"Runnable", "Waiting", "Absent"}    \* Absent: not in the registry

\* Reductions a callback costs beyond the one for its message.
SendCost == 2
SpawnCost == 10

\* A message is its kind and the PID or monitor reference it names.
MsgKinds == {"User", "Exit", "Down", "SpawnResult", "IoResponse", "IoError",
             "ReceiveTimeout"}
Msg == [kind : MsgKinds, arg : Nat]
Message(k, a) == [kind |-> k, arg |-> a]

\* A call of terminate_process() in progress.
Frame == [pid : Pid, reason : Reason,
          links : SUBSET Pid,              \* linked processes still to notify
          downs : SUBSET (Ref \X Pid),     \* watchers still to be sent DOWN
          cascade : Seq(Pid),              \* pids_to_cascade
          told : BOOLEAN]                  \* exit handlers have run

\* What a Spawn action asks for besides the child.
SpawnOpts == [link : BOOLEAN, monitor : BOOLEAN]

\* A dead letter is its reason (the target and the time are left out).
DeadLetterReason == {"MailboxFull", "ProcessNotFound"}

Phase == {"idle", "drain", "destroys", "timeouts", "fire", "select",
          "dispatch", "flush", "spawned", "admit", "exit", "closing",
          "shutdown"}

VARIABLES
    \* registry and processes
    nextPid, nextRef, status, mailbox, priority, trapExit, timeoutSet,
    links, monitors, monitoredBy,
    \* scheduler
    queues, advantage, deadLetters, outbound, bridge, pendingDestroys,
    \* the call in progress
    phase, cur, reductions, sends, spawns, stop, todo, frames, shutting,
    \* bridge worker
    inFlight, responses, inbox, retrying,
    \* history
    fate, downSent, void

procVars   == <<nextPid, nextRef, status, mailbox, priority, trapExit,
                timeoutSet, links, monitors, monitoredBy>>
queueVars  == <<queues, advantage>>
turnVars   == <<cur, reductions, sends, spawns, stop>>
callVars   == <<phase, todo, frames, shutting>>
bridgeVars == <<bridge, inFlight, responses, inbox, pendingDestroys, retrying>>
history    == <<fate, downSent, void>>
vars == <<procVars, queueVars, deadLetters, outbound, turnVars, callVars,
          bridgeVars, history>>

None == 0                                      \* no process is being run
Live == {p \in Pid : status[p] # "Absent"}

ProcTypeOK ==
    /\ nextPid \in 1..(MaxPid + 1) /\ nextRef \in 1..(MaxRef + 1)
    /\ status \in [Pid -> Status]
    /\ mailbox \in [Pid -> Seq(Msg)]
    /\ priority \in [Pid -> Priority]
    /\ trapExit \in [Pid -> BOOLEAN] /\ timeoutSet \in [Pid -> BOOLEAN]
    /\ links \in [Pid -> SUBSET Pid]
    /\ monitors \in [Pid -> SUBSET (Ref \X Pid)]
    /\ monitoredBy \in [Pid -> SUBSET (Ref \X Pid)]

QueueTypeOK ==
    /\ queues \in [Priority -> Seq(Pid)] /\ advantage \in 0..NormalAdvantage
    /\ deadLetters \in Seq(DeadLetterReason)
    /\ outbound \in Seq(Pid \X Msg)

BridgeTypeOK ==
    /\ bridge \in BOOLEAN
    /\ inFlight \in [Pid -> 0..MaxInFlight]
    /\ responses \in Seq(Pid) /\ inbox \in Seq(Pid)
    /\ pendingDestroys \in Seq(Pid \X (0..DestroyRetries))
    /\ retrying \in Seq(Pid \X (0..DestroyRetries))

TurnTypeOK ==
    /\ cur \in Pid \union {None}
    /\ reductions \in 0..Reductions
    /\ sends \in Seq(Pid \X Msg)
    /\ spawns \in Seq(SpawnOpts)
    /\ stop \in Reason \union {"No"}

CallTypeOK ==
    /\ phase \in Phase
    /\ todo \subseteq Pid /\ frames \in Seq(Frame) /\ shutting \in BOOLEAN

HistoryTypeOK ==
    /\ fate \in [Pid -> Reason \union {"None"}]
    /\ downSent \in [Ref -> Nat] /\ void \subseteq Ref

TypeOK ==
    /\ ProcTypeOK /\ QueueTypeOK /\ BridgeTypeOK
    /\ TurnTypeOK /\ CallTypeOK /\ HistoryTypeOK

Init ==
    /\ nextPid = 1 /\ nextRef = 1
    /\ status = [p \in Pid |-> "Absent"]
    /\ mailbox = [p \in Pid |-> << >>]
    /\ priority = [p \in Pid |-> "Normal"]
    /\ trapExit = [p \in Pid |-> FALSE]
    /\ timeoutSet = [p \in Pid |-> FALSE]
    /\ links = [p \in Pid |-> {}]
    /\ monitors = [p \in Pid |-> {}] /\ monitoredBy = [p \in Pid |-> {}]
    /\ queues = EmptyQueues /\ advantage = 0
    /\ deadLetters = << >> /\ outbound = << >>
    /\ bridge \in Bridges
    /\ inFlight = [p \in Pid |-> 0] /\ responses = << >> /\ inbox = << >>
    /\ pendingDestroys = << >> /\ retrying = << >>
    /\ phase = "idle" /\ cur = None /\ reductions = 0
    /\ sends = << >> /\ spawns = << >> /\ stop = "No"
    /\ todo = {} /\ frames = << >> /\ shutting = FALSE
    /\ fate = [p \in Pid |-> "None"]
    /\ downSent = [r \in Ref |-> 0] /\ void = {}

-----------------------------------------------------------------------------
(* Operations of a process and of the registry.                            *)

HasRoom(p) == Len(mailbox[p]) < Capacity

\* DeadLetterQueue::push: the oldest entry makes room.
LetterPushed(why) ==
    LET kept == IF Len(deadLetters) >= DlqCapacity THEN Tail(deadLetters)
                ELSE deadLetters
    IN  Append(kept, why)

\* Faulty variant: the receiver is woken but not enqueued.
DeliverUnqueued(p, m) ==
    /\ mailbox' = [mailbox EXCEPT ![p] = Append(@, m)]
    /\ timeoutSet' = [timeoutSet EXCEPT ![p] = FALSE]
    /\ status' = [status EXCEPT ![p] = "Runnable"]
    /\ UNCHANGED queues

\* AgentProcess::deliver_message for a process with room, and the enqueue()
\* its callers do when that woke it.
DeliverAndWake(p, m) ==
    /\ mailbox' = [mailbox EXCEPT ![p] = Append(@, m)]
    /\ timeoutSet' = [timeoutSet EXCEPT ![p] = FALSE]
    /\ IF status[p] = "Waiting"
       THEN /\ status' = [status EXCEPT ![p] = "Runnable"]
            /\ queues' = Enqueued(queues, priority[p], p)
       ELSE UNCHANGED <<status, queues>>

\* send(): hook, then delivery, dead letter or external routing.
Send(p, m) ==
    \/ /\ Hooked
       /\ UNCHANGED <<mailbox, timeoutSet, status, queues, deadLetters, outbound>>
    \/ /\ p \in Live /\ HasRoom(p)
       /\ DeliverAndWake(p, m)
       /\ UNCHANGED <<deadLetters, outbound>>
    \/ /\ p \in Live /\ ~HasRoom(p)
       /\ deadLetters' = LetterPushed("MailboxFull")
       /\ UNCHANGED <<mailbox, timeoutSet, status, queues, outbound>>
    \/ /\ p \notin Live /\ ExternalRouting
       /\ outbound' = Append(outbound, <<p, m>>)
       /\ UNCHANGED <<mailbox, timeoutSet, status, queues, deadLetters>>
    \/ /\ p \notin Live /\ ~ExternalRouting
       /\ deadLetters' = LetterPushed("ProcessNotFound")
       /\ UNCHANGED <<mailbox, timeoutSet, status, queues, outbound>>

\* What send() leaves alone.
SendFrame == <<nextPid, nextRef, priority, trapExit, links, monitors,
               monitoredBy, advantage>>

\* AgentProcess::new and registry.insert for the next PID.
NewProcess(c, trap) ==
    /\ status' = [status EXCEPT ![nextPid] = "Runnable"]
    /\ priority' = [priority EXCEPT ![nextPid] = c]
    /\ trapExit' = [trapExit EXCEPT ![nextPid] = trap]
    /\ nextPid' = nextPid + 1

\* monitor(): both tables get the same fresh reference.
AddMonitor(watcher, target) ==
    /\ nextRef <= MaxRef
    /\ monitors' = [monitors EXCEPT ![watcher] = @ \union {<<nextRef, target>>}]
    /\ monitoredBy' = [monitoredBy EXCEPT ![target] = @ \union {<<nextRef, watcher>>}]
    /\ nextRef' = nextRef + 1

-----------------------------------------------------------------------------
(* The embedding program's calls, between two ticks.  A scheduler with     *)
(* external routing has its outbound messages drained after every call.    *)

HostCall(op) ==
    /\ phase = "idle" /\ op \in HostOps /\ outbound = << >>
    /\ op \in {"Shutdown", "Tick"} => nextPid + Reserve <= MaxPid + 1

\* registry.spawn, the fields set on the new process, enqueue().
HostSpawn(c, trap) ==
    /\ HostCall("Spawn") /\ nextPid <= MaxPid
    /\ NewProcess(c, trap)
    /\ queues' = Enqueued(queues, c, nextPid)
    /\ UNCHANGED <<nextRef, mailbox, timeoutSet, links, monitors, monitoredBy,
                   advantage, deadLetters, outbound, turnVars, callVars,
                   bridgeVars, history>>

HostSend(p) ==
    /\ HostCall("Send")
    /\ Send(p, Message("User", 0))
    /\ UNCHANGED <<SendFrame, turnVars, callVars, bridgeVars, history>>

HostMonitor(watcher, target) ==
    /\ HostCall("Monitor")
    /\ watcher \in Live /\ target \in Live
    /\ AddMonitor(watcher, target)
    /\ UNCHANGED <<nextPid, status, mailbox, priority, trapExit, timeoutSet,
                   links, queueVars, deadLetters, outbound, turnVars, callVars,
                   bridgeVars, history>>

\* Faulty variant: the target keeps its half of the monitor.
HostDemonitorHalf(watcher, r, target) ==
    /\ HostCall("Demonitor")
    /\ watcher \in Live /\ <<r, target>> \in monitors[watcher]
    /\ monitors' = [monitors EXCEPT ![watcher] = @ \ {<<r, target>>}]
    /\ void' = void \union {r}
    /\ UNCHANGED <<nextPid, nextRef, status, mailbox, priority, trapExit,
                   timeoutSet, links, monitoredBy, queueVars, deadLetters,
                   outbound, turnVars, callVars, bridgeVars, fate, downSent>>

HostDemonitor(watcher, r, target) ==
    /\ HostCall("Demonitor")
    /\ watcher \in Live /\ <<r, target>> \in monitors[watcher]
    /\ monitors' = [monitors EXCEPT ![watcher] = @ \ {<<r, target>>}]
    /\ monitoredBy' = [monitoredBy EXCEPT ![target] = @ \ {<<r, watcher>>}]
    /\ void' = void \union {r}
    /\ UNCHANGED <<nextPid, nextRef, status, mailbox, priority, trapExit,
                   timeoutSet, links, queueVars, deadLetters, outbound,
                   turnVars, callVars, bridgeVars, fate, downSent>>

HostSetReceiveTimeout(p) ==
    /\ HostCall("Timeout") /\ p \in Live
    /\ timeoutSet' = [timeoutSet EXCEPT ![p] = TRUE]
    /\ UNCHANGED <<nextPid, nextRef, status, mailbox, priority, trapExit, links,
                   monitors, monitoredBy, queueVars, deadLetters, outbound,
                   turnVars, callVars, bridgeVars, history>>

\* enqueue() called by the host: it never checks for an earlier entry.
HostEnqueue(p) ==
    /\ HostCall("Enqueue") /\ p \in Live
    /\ Len(queues[priority[p]]) < MaxQueue
    /\ queues' = Enqueued(queues, priority[p], p)
    /\ UNCHANGED <<procVars, advantage, deadLetters, outbound, turnVars,
                   callVars, bridgeVars, history>>

DrainOutbound ==
    /\ phase = "idle" /\ outbound # << >>
    /\ outbound' = << >>
    /\ UNCHANGED <<procVars, queueVars, deadLetters, turnVars, callVars,
                   bridgeVars, history>>

-----------------------------------------------------------------------------
(* The bridge worker answers a request: the only concurrent step.          *)

Respond(p) ==
    /\ inFlight[p] > 0
    /\ inFlight' = [inFlight EXCEPT ![p] = @ - 1]
    /\ responses' = Append(responses, p)
    /\ UNCHANGED <<procVars, queueVars, deadLetters, outbound, turnVars,
                   callVars, bridge, inbox, pendingDestroys, retrying, history>>

\* BridgeHandle::submit: the request queue takes it or is full or gone.
Submit(p, accepted) ==
    IF accepted
    THEN /\ inFlight[p] < MaxInFlight
         /\ inFlight' = [inFlight EXCEPT ![p] = @ + 1]
    ELSE UNCHANGED inFlight

-----------------------------------------------------------------------------
(* tick(): responses, AgentDestroy retries, receive timeouts.              *)

TickBegin ==
    /\ HostCall("Tick")
    /\ IF bridge
       THEN /\ phase' = "drain"
            /\ inbox' = responses /\ responses' = << >>
       ELSE phase' = "timeouts" /\ UNCHANGED <<inbox, responses>>
    /\ UNCHANGED <<procVars, queueVars, deadLetters, outbound, turnVars, todo,
                   frames, shutting, bridge, inFlight, pendingDestroys,
                   retrying, history>>

DeliverResponse ==
    /\ phase = "drain" /\ inbox # << >>
    /\ Send(Head(inbox), Message("IoResponse", 0))
    /\ inbox' = Tail(inbox)
    /\ UNCHANGED <<SendFrame, turnVars, callVars, bridge, inFlight, responses,
                   pendingDestroys, retrying, history>>

ResponsesDrained ==
    /\ phase = "drain" /\ inbox = << >>
    /\ IF shutting
       THEN /\ phase' = "shutdown" /\ todo' = Live
            /\ UNCHANGED <<pendingDestroys, retrying>>
       ELSE /\ phase' = "destroys" /\ UNCHANGED todo
            /\ retrying' = pendingDestroys /\ pendingDestroys' = << >>
    /\ UNCHANGED <<procVars, queueVars, deadLetters, outbound, turnVars, frames,
                   shutting, bridge, inFlight, responses, inbox, history>>

\* Faulty variant: a failed attempt is not counted.
RetryDestroyUncounted(accepted) ==
    /\ phase = "destroys" /\ retrying # << >>
    /\ Submit(Head(retrying)[1], accepted)
    /\ pendingDestroys' = IF accepted THEN pendingDestroys
                          ELSE Append(pendingDestroys, Head(retrying))
    /\ retrying' = Tail(retrying)
    /\ UNCHANGED <<procVars, queueVars, deadLetters, outbound, turnVars,
                   callVars, bridge, responses, inbox, history>>

\* One entry of pending_destroys: given up, submitted, or kept for later.
RetryDestroy(accepted) ==
    /\ phase = "destroys" /\ retrying # << >>
    /\ LET p == Head(retrying)[1]
           n == Head(retrying)[2]
       IN  \/ /\ n >= DestroyRetries /\ ~accepted
              /\ UNCHANGED <<pendingDestroys, inFlight>>
           \/ /\ n < DestroyRetries
              /\ Submit(p, accepted)
              /\ pendingDestroys' = IF accepted THEN pendingDestroys
                                    ELSE Append(pendingDestroys, <<p, n + 1>>)
    /\ retrying' = Tail(retrying)
    /\ UNCHANGED <<procVars, queueVars, deadLetters, outbound, turnVars,
                   callVars, bridge, responses, inbox, history>>

RetriesDone ==
    /\ phase = "destroys" /\ retrying = << >>
    /\ phase' = "timeouts"
    /\ UNCHANGED <<procVars, queueVars, deadLetters, outbound, turnVars, todo,
                   frames, shutting, bridgeVars, history>>

\* Any of the armed deadlines of Waiting processes may have passed.
CollectTimeouts(expired) ==
    /\ phase = "timeouts"
    /\ \A p \in expired : status[p] = "Waiting" /\ timeoutSet[p]
    /\ phase' = "fire" /\ todo' = expired
    /\ timeoutSet' = [p \in Pid |-> timeoutSet[p] /\ p \notin expired]
    /\ UNCHANGED <<nextPid, nextRef, status, mailbox, priority, trapExit, links,
                   monitors, monitoredBy, queueVars, deadLetters, outbound,
                   turnVars, frames, shutting, bridgeVars, history>>

\* registry.pids() has no order, so neither have the timeouts.
FireTimeout(p) ==
    /\ phase = "fire" /\ p \in todo
    /\ Send(p, Message("ReceiveTimeout", 0))
    /\ todo' = todo \ {p}
    /\ UNCHANGED <<SendFrame, turnVars, phase, frames, shutting, bridgeVars,
                   history>>

TimeoutsFired ==
    /\ phase = "fire" /\ todo = {}
    /\ phase' = "select"
    /\ UNCHANGED <<procVars, queueVars, deadLetters, outbound, turnVars, todo,
                   frames, shutting, bridgeVars, history>>

-----------------------------------------------------------------------------
(* tick(): the dispatch loop.                                              *)

Candidate == Head(queues[NextClass(queues, advantage)])

TakeCandidate ==
    /\ queues' = Popped(queues, NextClass(queues, advantage))
    /\ advantage' = NextAdvantage(queues, advantage)

SelectRunnable ==
    /\ phase = "select" /\ ~NothingQueued(queues)
    /\ status[Candidate] = "Runnable"
    /\ TakeCandidate
    /\ phase' = "dispatch" /\ cur' = Candidate /\ reductions' = Reductions
    /\ UNCHANGED <<procVars, deadLetters, outbound, sends, spawns, stop, todo,
                   frames, shutting, bridgeVars, history>>

SkipStaleEntry ==
    /\ phase = "select" /\ ~NothingQueued(queues)
    /\ status[Candidate] # "Runnable"
    /\ TakeCandidate
    /\ UNCHANGED <<procVars, deadLetters, outbound, turnVars, callVars,
                   bridgeVars, history>>

NothingToRun ==
    /\ phase = "select" /\ NothingQueued(queues)
    /\ phase' = "idle"
    /\ UNCHANGED <<procVars, queueVars, deadLetters, outbound, turnVars, todo,
                   frames, shutting, bridgeVars, history>>

OutOfReductions ==
    /\ phase = "dispatch" /\ reductions = 0
    /\ queues' = Enqueued(queues, priority[cur], cur)
    /\ phase' = "flush"
    /\ UNCHANGED <<procVars, advantage, deadLetters, outbound, turnVars, todo,
                   frames, shutting, bridgeVars, history>>

MailboxEmpty ==
    /\ phase = "dispatch" /\ reductions > 0 /\ mailbox[cur] = << >>
    /\ status' = [status EXCEPT ![cur] = "Waiting"]
    /\ phase' = "flush"
    /\ UNCHANGED <<nextPid, nextRef, mailbox, priority, trapExit, timeoutSet,
                   links, monitors, monitoredBy, queueVars, deadLetters,
                   outbound, turnVars, todo, frames, shutting, bridgeVars,
                   history>>

\* Faulty variant: the subtraction does not saturate.
HandleUnsaturated(kind, k) ==
    /\ phase = "dispatch" /\ reductions > 0 /\ mailbox[cur] # << >>
    /\ kind \in Callbacks
    /\ reductions' = reductions - k

\* next_message() and the callback's answer: the callback costs k reductions.
Handle(kind, k) ==
    /\ phase = "dispatch" /\ reductions > 0 /\ mailbox[cur] # << >>
    /\ kind \in Callbacks
    /\ reductions' = IF reductions > k THEN reductions - k ELSE 0

Consumed == [mailbox EXCEPT ![cur] = Tail(@)]

\* What a callback's answer leaves alone besides.
HandleFrame == <<nextPid, nextRef, priority, trapExit, links, monitors,
                 monitoredBy, advantage, deadLetters, outbound, cur, todo,
                 frames, shutting, bridge, responses, inbox, pendingDestroys,
                 retrying, history>>

HandleContinue ==
    /\ Handle("Continue", 1)
    /\ mailbox' = Consumed
    /\ UNCHANGED <<HandleFrame, status, timeoutSet, queues, phase, sends, spawns,
                   stop, inFlight>>

HandleSend(p) ==
    /\ Handle("Send", 1 + SendCost)
    /\ mailbox' = Consumed
    /\ sends' = Append(sends, <<p, Message("User", 0)>>)
    /\ UNCHANGED <<HandleFrame, status, timeoutSet, queues, phase, spawns, stop,
                   inFlight>>

\* Stop(reason), or a panic, which the scheduler turns into Stop(Custom).
HandleStop(kind, reason) ==
    /\ Handle(kind, 1)
    /\ kind = "Panic" => reason = "Custom"
    /\ mailbox' = Consumed
    /\ stop' = reason
    /\ phase' = "flush"
    /\ UNCHANGED <<HandleFrame, status, timeoutSet, queues, sends, spawns, inFlight>>

\* IoRequest: wait for the answer, or go on with an error message if the
\* bridge is missing or refuses.
HandleIo(accepted) ==
    /\ Handle("Io", 2)
    /\ accepted => bridge
    /\ Submit(cur, accepted)
    /\ IF accepted
       THEN /\ mailbox' = Consumed
            /\ status' = [status EXCEPT ![cur] = "Waiting"]
            /\ UNCHANGED <<queues, timeoutSet>>
       ELSE /\ mailbox' = [mailbox EXCEPT ![cur] = Append(Tail(@), Message("IoError", 0))]
            /\ timeoutSet' = [timeoutSet EXCEPT ![cur] = FALSE]
            /\ queues' = Enqueued(queues, priority[cur], cur)
            /\ UNCHANGED status
    /\ phase' = "flush"
    /\ UNCHANGED <<HandleFrame, sends, spawns, stop>>

HandleSpawn(link, monitor) ==
    /\ Handle("Spawn", 1 + SpawnCost)
    /\ nextPid + Len(spawns) <= MaxPid
    /\ monitor => nextRef + Len(spawns) <= MaxRef
    /\ mailbox' = Consumed
    /\ spawns' = Append(spawns, [link |-> link, monitor |-> monitor])
    /\ UNCHANGED <<HandleFrame, status, timeoutSet, queues, phase, sends, stop,
                   inFlight>>

-----------------------------------------------------------------------------
(* tick(): the deferred sends and spawns, then the stop.                   *)

FlushSend ==
    /\ phase = "flush" /\ sends # << >>
    /\ Send(Head(sends)[1], Head(sends)[2])
    /\ sends' = Tail(sends)
    /\ UNCHANGED <<SendFrame, cur, reductions, spawns, stop, callVars,
                   bridgeVars, history>>

\* registry.spawn refuses (init failed): the PID is used up all the same.
FlushSpawnRefused ==
    /\ phase = "flush" /\ sends = << >> /\ spawns # << >>
    /\ spawns' = Tail(spawns)
    /\ nextPid' = nextPid + 1
    /\ UNCHANGED <<nextRef, status, mailbox, priority, trapExit, timeoutSet,
                   links, monitors, monitoredBy, queueVars, deadLetters,
                   outbound, cur, reductions, sends, stop, callVars, bridgeVars,
                   history>>

\* registry.spawn, the link and the monitor.
FlushSpawn ==
    /\ phase = "flush" /\ sends = << >> /\ spawns # << >>
    /\ NewProcess("Normal", FALSE)
    /\ links' = IF Head(spawns).link
                THEN [links EXCEPT ![cur] = @ \union {nextPid},
                                   ![nextPid] = @ \union {cur}]
                ELSE links
    /\ IF Head(spawns).monitor
       THEN AddMonitor(cur, nextPid)
       ELSE UNCHANGED <<monitors, monitoredBy, nextRef>>
    /\ phase' = "spawned"
    /\ UNCHANGED <<mailbox, timeoutSet, queueVars, deadLetters, outbound,
                   turnVars, todo, frames, shutting, bridgeVars, history>>

\* The parent is sent SpawnResult ...
NotifySpawn ==
    /\ phase = "spawned"
    /\ Send(cur, Message("SpawnResult", nextPid - 1))
    /\ phase' = "admit"
    /\ UNCHANGED <<SendFrame, turnVars, todo, frames, shutting, bridgeVars,
                   history>>

\* ... and the child is enqueued.
AdmitSpawn ==
    /\ phase = "admit"
    /\ queues' = Enqueued(queues, priority[nextPid - 1], nextPid - 1)
    /\ spawns' = Tail(spawns)
    /\ phase' = "flush"
    /\ UNCHANGED <<procVars, advantage, deadLetters, outbound, cur, reductions,
                   sends, stop, todo, frames, shutting, bridgeVars, history>>

TickEnd ==
    /\ phase = "flush" /\ sends = << >> /\ spawns = << >> /\ stop = "No"
    /\ phase' = "idle" /\ cur' = None /\ reductions' = 0
    /\ UNCHANGED <<procVars, queueVars, deadLetters, outbound, sends, spawns,
                   stop, todo, frames, shutting, bridgeVars, history>>

-----------------------------------------------------------------------------
(* terminate_process().                                                    *)

\* The PIDs and references vectors list come in increasing order: links and
\* monitors are only made by spawning and by monitor().
IsLeast(x, S) == x \in S /\ \A y \in S : x <= y

Top == frames[Len(frames)]
Below == SubSeq(frames, 1, Len(frames) - 1)

\* monitored_by once p has left: the processes it monitored forget it.
Purged(p) ==
    [q \in Pid |->
       IF q = p THEN {}
       ELSE {m \in monitoredBy[q] : ~(m[2] = p /\ <<m[1], q>> \in monitors[p])}]

(***************************************************************************)
(* The call up to the notifications, on top of the calls fs: the process   *)
(* leaves the registry, and the processes it monitored forget it.  A PID   *)
(* that is not in the registry passes through with nothing to notify.      *)
(***************************************************************************)
Remove(fs, p, reason) ==
    /\ frames' = Append(fs, [pid |-> p, reason |-> reason, links |-> links[p],
                             downs |-> monitoredBy[p], cascade |-> << >>,
                             told |-> FALSE])
    /\ phase' = "exit"
    /\ status' = [status EXCEPT ![p] = "Absent"]
    /\ mailbox' = [mailbox EXCEPT ![p] = << >>]
    /\ priority' = [priority EXCEPT ![p] = "Normal"]
    /\ trapExit' = [trapExit EXCEPT ![p] = FALSE]
    /\ timeoutSet' = [timeoutSet EXCEPT ![p] = FALSE]
    /\ links' = [links EXCEPT ![p] = {}]
    /\ monitors' = [monitors EXCEPT ![p] = {}]
    /\ monitoredBy' = Purged(p)
    /\ fate' = IF p \in Live THEN [fate EXCEPT ![p] = reason] ELSE fate
    /\ void' = void \union {r \in Ref : \E t \in Pid \ {p} : <<r, t>> \in monitors[p]}
    /\ UNCHANGED <<nextPid, nextRef, queueVars, deadLetters, outbound, bridgeVars,
                   downSent>>

\* tick() ends with the process it ran stopping.
StopCurrent ==
    /\ phase = "flush" /\ sends = << >> /\ spawns = << >> /\ stop # "No"
    /\ Remove(frames, cur, stop)
    /\ cur' = None /\ reductions' = 0 /\ stop' = "No"
    /\ UNCHANGED <<sends, spawns, todo, shutting>>

\* The MCP server cancels a process by a PID its client named.
HostTerminate(p, reason) ==
    /\ HostCall("Terminate")
    /\ p \in Live => nextPid + Reserve <= MaxPid + 1
    /\ Len(pendingDestroys) < MaxPid
    /\ Remove(frames, p, reason)
    /\ UNCHANGED <<turnVars, todo, shutting>>

TerminateFrame == <<nextPid, nextRef, priority, trapExit, links, monitoredBy,
                    advantage, turnVars, phase, todo, shutting, bridgeVars, fate,
                    void>>

\* Faulty variant: nobody checks that q is alive.
TakenAlongUnchecked(q) == ~trapExit[q] /\ Top.reason # "Normal"

\* The linked process q dies with the process being terminated.
TakenAlong(q) == q \in Live /\ ~trapExit[q] /\ Top.reason # "Normal"

\* One linked process: Exit message, cascade, or nothing.  A full mailbox
\* swallows the Exit message.
NotifyLink(q) ==
    /\ phase = "exit" /\ IsLeast(q, Top.links)
    /\ frames' = Append(Below, [Top EXCEPT !.links = @ \ {q},
                          !.cascade = IF TakenAlong(q) THEN Append(@, q) ELSE @])
    /\ \/ /\ q \in Live /\ trapExit[q] /\ HasRoom(q)
          /\ DeliverAndWake(q, Message("Exit", Top.pid))
       \/ /\ q \in Live /\ trapExit[q] /\ ~HasRoom(q)
          /\ queues' = IF status[q] = "Waiting" THEN Enqueued(queues, priority[q], q)
                       ELSE queues
          /\ UNCHANGED <<mailbox, timeoutSet, status>>
       \/ /\ ~(q \in Live /\ trapExit[q])
          /\ UNCHANGED <<mailbox, timeoutSet, status, queues>>
    /\ UNCHANGED <<TerminateFrame, monitors, deadLetters, outbound, downSent>>

\* One watcher: its record goes and it is sent DOWN.
NotifyDown(r, q) ==
    /\ phase = "exit" /\ Top.links = {}
    /\ <<r, q>> \in Top.downs /\ \A m \in Top.downs : r <= m[1]
    /\ frames' = Append(Below, [Top EXCEPT !.downs = @ \ {<<r, q>>}])
    /\ monitors' = [monitors EXCEPT ![q] = @ \ {<<r, Top.pid>>}]
    /\ Send(q, Message("Down", r))
    /\ downSent' = [downSent EXCEPT ![r] = @ + 1]
    /\ UNCHANGED TerminateFrame

Notified == Top.links = {} /\ Top.downs = {}

\* The recursive call for the next process to take along.
Cascade ==
    /\ phase = "exit" /\ Notified /\ Top.cascade # << >>
    /\ Remove(Append(Below, [Top EXCEPT !.cascade = Tail(@)]),
              Head(Top.cascade), Top.reason)
    /\ UNCHANGED <<turnVars, todo, shutting>>

\* The call has reached the exit handlers.
AtHandlers == phase = "exit" /\ Notified /\ Top.cascade = << >> /\ ~Top.told

\* No exit handler is registered.
NoExitHandlers ==
    /\ AtHandlers
    /\ frames' = Append(Below, [Top EXCEPT !.told = TRUE])
    /\ UNCHANGED <<procVars, queueVars, deadLetters, outbound, turnVars, phase,
                   todo, shutting, bridgeVars, history>>

\* AgentDestroy goes to the bridge, or waits for tick() to retry; return.
FinishTermination(accepted) ==
    /\ phase = "exit" /\ Notified /\ Top.cascade = << >> /\ Top.told
    /\ accepted => bridge
    /\ Submit(Top.pid, accepted)
    /\ pendingDestroys' = IF bridge /\ ~accepted
                          THEN Append(pendingDestroys, <<Top.pid, 0>>)
                          ELSE pendingDestroys
    /\ frames' = Below
    /\ phase' = IF Below # << >> THEN "exit"
                ELSE IF shutting THEN "shutdown" ELSE "idle"
    /\ UNCHANGED <<procVars, queueVars, deadLetters, outbound, turnVars, todo,
                   shutting, bridge, responses, inbox, retrying, history>>

-----------------------------------------------------------------------------
(* graceful_shutdown().                                                    *)

\* Faulty variant: only the processes that are awake are listed.
HostShutdownAwake ==
    /\ HostCall("Shutdown")
    /\ shutting' = TRUE
    /\ phase' = "shutdown" /\ todo' = {p \in Pid : status[p] = "Runnable"}
    /\ UNCHANGED <<procVars, queueVars, deadLetters, outbound, turnVars, frames,
                   bridgeVars, history>>

HostShutdown ==
    /\ HostCall("Shutdown")
    /\ shutting' = TRUE
    /\ IF bridge THEN phase' = "closing" /\ UNCHANGED todo
                 ELSE phase' = "shutdown" /\ todo' = Live
    /\ UNCHANGED <<procVars, queueVars, deadLetters, outbound, turnVars, frames,
                   bridgeVars, history>>

\* The worker finished or aborted what was in flight, or the wait timed out.
BridgeClosed ==
    /\ phase = "closing"
    /\ inFlight' = [p \in Pid |-> 0]
    /\ inbox' = responses /\ responses' = << >>
    /\ phase' = "drain"
    /\ UNCHANGED <<procVars, queueVars, deadLetters, outbound, turnVars, todo,
                   frames, shutting, bridge, pendingDestroys, retrying, history>>

ShutdownTerminate(p) ==
    /\ phase = "shutdown" /\ p \in todo /\ p \in Live
    /\ Remove(frames, p, "Shutdown")
    /\ todo' = todo \ {p}
    /\ UNCHANGED <<turnVars, shutting>>

ShutdownSkip(p) ==
    /\ phase = "shutdown" /\ p \in todo /\ p \notin Live
    /\ todo' = todo \ {p}
    /\ UNCHANGED <<procVars, queueVars, deadLetters, outbound, turnVars, phase,
                   frames, shutting, bridgeVars, history>>

ShutdownDone ==
    /\ phase = "shutdown" /\ todo = {}
    /\ bridge' = FALSE
    /\ inFlight' = [p \in Pid |-> 0] /\ responses' = << >>
    /\ queues' = EmptyQueues
    /\ shutting' = FALSE /\ phase' = "idle"
    /\ UNCHANGED <<procVars, advantage, deadLetters, outbound, turnVars, todo,
                   frames, inbox, pendingDestroys, retrying, history>>

-----------------------------------------------------------------------------

HostStep ==
    \/ \E c \in HostPriorities, trap \in HostTraps : HostSpawn(c, trap)
    \/ \E p \in Pid : HostSend(p) \/ HostSetReceiveTimeout(p) \/ HostEnqueue(p)
    \/ \E w, t \in Pid : HostMonitor(w, t)
    \/ \E w, t \in Pid, r \in Ref : HostDemonitor(w, r, t)
    \/ \E p \in Pid, reason \in Reasons : HostTerminate(p, reason)
    \/ HostShutdown
    \/ DrainOutbound

BridgeStep == \E p \in Pid : Respond(p)

\* The steps of a call in progress, the exit handlers apart.
CallStep ==
    \/ DeliverResponse \/ ResponsesDrained
    \/ \E b \in BOOLEAN : RetryDestroy(b)
    \/ RetriesDone
    \/ \E S \in SUBSET Pid : CollectTimeouts(S)
    \/ \E p \in Pid : FireTimeout(p)
    \/ TimeoutsFired
    \/ SelectRunnable \/ SkipStaleEntry \/ NothingToRun
    \/ OutOfReductions \/ MailboxEmpty \/ HandleContinue
    \/ \E p \in Pid : HandleSend(p)
    \/ \E k \in {"Stop", "Panic"}, reason \in Reasons : HandleStop(k, reason)
    \/ \E b \in BOOLEAN : HandleIo(b)
    \/ \E l, m \in BOOLEAN : HandleSpawn(l, m)
    \/ FlushSend \/ FlushSpawnRefused \/ FlushSpawn \/ NotifySpawn
    \/ AdmitSpawn \/ TickEnd \/ StopCurrent
    \/ \E q \in Pid : NotifyLink(q)
    \/ \E r \in Ref, q \in Pid : NotifyDown(r, q)
    \/ Cascade
    \/ \E b \in BOOLEAN : FinishTermination(b)
    \/ BridgeClosed
    \/ \E p \in Pid : ShutdownTerminate(p) \/ ShutdownSkip(p)
    \/ ShutdownDone

Next == HostStep \/ TickBegin \/ CallStep \/ NoExitHandlers \/ BridgeStep

Spec == Init /\ [][Next]_vars

(***************************************************************************)
(* Fairness: the embedding loop keeps calling tick() (main.rs:288 and      *)
(* main.rs:372 call it every 10 ms), and a call runs to its end; armed     *)
(* deadlines pass, and every tick() after that collects them.              *)
(***************************************************************************)
FairSpec ==
    /\ Spec
    /\ WF_vars(TickBegin)
    /\ WF_vars(CallStep \/ NoExitHandlers)
    /\ WF_vars(DrainOutbound)
    /\ \A p \in Pid : SF_vars(\E S \in SUBSET Pid : p \in S /\ CollectTimeouts(S))

-----------------------------------------------------------------------------
(* Safety.                                                                 *)

(***************************************************************************)
(* What the call in progress may rely on: a turn has its process, a PID is *)
(* left for every child still to be spawned, a termination has its frame.  *)
(***************************************************************************)
InTurn == phase \in {"dispatch", "flush", "spawned", "admit"}

CallOK ==
    /\ InTurn => cur \in Pid
    /\ phase \in {"dispatch", "flush"} => nextPid + Len(spawns) <= MaxPid + 1
    /\ phase \in {"spawned", "admit"} =>
          spawns # << >> /\ nextPid >= 2 /\ nextPid + Len(spawns) <= MaxPid + 2
    /\ ~InTurn => spawns = << >> /\ sends = << >>
    /\ stop # "No" => InTurn /\ phase # "dispatch"
    /\ phase = "exit" => frames # << >>
    /\ shutting => phase \in {"closing", "drain", "shutdown", "exit"}

\* reject-sender on overflow: no mailbox grows past its capacity.
MailboxBounded == \A p \in Pid : Len(mailbox[p]) <= Capacity

(***************************************************************************)
(* A Waiting process has room in its mailbox, so the message that should   *)
(* wake it (an I/O response, a receive timeout, an Exit) is never the one  *)
(* that is rejected: a sleeper cannot sleep through its wake-up because of *)
(* a full mailbox.  It is not obvious because an IoRequest puts a process  *)
(* to sleep with messages still queued.                                    *)
(***************************************************************************)
WaitingHasRoom == \A p \in Pid : status[p] = "Waiting" => HasRoom(p)

\* The running process is off the queues until its turn ends; so is a
\* spawned child until it is admitted.
Excused(p) ==
    \/ p = cur /\ (phase = "dispatch" \/ stop # "No")
    \/ p = nextPid - 1 /\ phase \in {"spawned", "admit"}

(***************************************************************************)
(* No lost wake-up: every Runnable process has an entry in a ready queue,  *)
(* so tick() will find it.  send(), receive timeouts, Exit signals, failed *)
(* I/O submissions and preemption each have to enqueue the process they    *)
(* make or leave Runnable.                                                 *)
(***************************************************************************)
RunnableIsQueued ==
    \A p \in Pid : status[p] = "Runnable" /\ ~Excused(p) => InQueues(queues, p)

(***************************************************************************)
(* Wake-ups arrive: the message that should wake a sleeper has room, and a *)
(* process that is awake is where tick() looks.                            *)
(***************************************************************************)
WakeupsReach == WaitingHasRoom /\ RunnableIsQueued

\* While graceful_shutdown() terminates, whoever is alive is on its list:
\* what keeps a Runnable process from losing its entry when it clears the
\* queues.
ShutdownOK ==
    /\ phase \in {"closing", "shutdown"} => shutting
    /\ shutting /\ phase \in {"shutdown", "exit"} => Live \subseteq todo

(***************************************************************************)
(* The two monitor tables agree: a watcher's record and its target's are   *)
(* made, cancelled and purged together, whichever of the two dies first.   *)
(* While a target is being terminated its watchers wait in the frame.      *)
(***************************************************************************)
OwedDown(r, w, t) ==
    \E i \in 1..Len(frames) : frames[i].pid = t /\ <<r, w>> \in frames[i].downs

MonitorsAgree ==
    /\ \A w, t \in Pid, r \in Ref :
          <<r, w>> \in monitoredBy[t] => w \in Live /\ t \in Live /\ <<r, t>> \in monitors[w]
    /\ \A w, t \in Pid, r \in Ref :
          <<r, t>> \in monitors[w] =>
             w \in Live /\ (<<r, w>> \in monitoredBy[t] \/ OwedDown(r, w, t))

(***************************************************************************)
(* Between calls every monitor reference handed out is either active,      *)
(* void (cancelled, or its watcher died first) or has had its one DOWN.    *)
(***************************************************************************)
ActiveRef(r) == \E w, t \in Pid : <<r, t>> \in monitors[w]

DownExactlyOnce ==
    /\ \A r \in Ref : downSent[r] <= 1
    /\ phase = "idle" =>
         \A r \in 1..(nextRef - 1) :
            /\ ActiveRef(r) \/ r \in void \/ downSent[r] = 1
            /\ ~(ActiveRef(r) /\ (r \in void \/ downSent[r] = 1))
            /\ ~(r \in void /\ downSent[r] = 1)

(***************************************************************************)
(* The two sides of every monitor agree, and each reference is answered by *)
(* at most one DOWN: monitor(), demonitor() and the purge of               *)
(* terminate_process() together.                                           *)
(***************************************************************************)
MonitorsKept == MonitorsAgree /\ DownExactlyOnce

(***************************************************************************)
(* Exit signals reach everyone: between calls, a process still alive with  *)
(* a link to one that died abnormally is a process that traps exits.  The  *)
(* recursion of terminate_process() must not stop short of any of them.    *)
(***************************************************************************)
ExitPropagated ==
    phase = "idle" =>
      \A p \in Live : \A q \in links[p] : fate[q] \in {"Shutdown", "Custom"} => trapExit[p]

(***************************************************************************)
(* The links of spawned families never reach a process twice: no process   *)
(* is on the cascade list of two terminations at once, so terminate_process*)
(* runs once per death.                                                    *)
(***************************************************************************)
CascadeOnce ==
    \A i, j \in 1..Len(frames) :
      \A a \in 1..Len(frames[i].cascade), b \in 1..Len(frames[j].cascade) :
        /\ frames[i].cascade[a] \in Live
        /\ frames[i].cascade[a] = frames[j].cascade[b] => i = j /\ a = b

(***************************************************************************)
(* Exit signals go everywhere, once: what every caller of                  *)
(* terminate_process() relies on.                                          *)
(***************************************************************************)
ExitSignals == ExitPropagated /\ CascadeOnce

\* graceful_shutdown() ends with an empty registry.
ShutdownLeavesNothing == phase = "shutdown" /\ todo = {} => Live = {}

-----------------------------------------------------------------------------
(* Liveness.                                                               *)

(***************************************************************************)
(* A Runnable process gets its turn (or dies) when only one priority is in *)
(* use: stale and duplicate queue entries delay it but never bury it.      *)
(***************************************************************************)
RunnableGetsTurn ==
    \A p \in Pid : status[p] = "Runnable" ~> (cur = p \/ status[p] = "Absent")

\* A Waiting process with a receive deadline does not wait for ever.
DeadlineWakes ==
    \A p \in Pid : (status[p] = "Waiting" /\ timeoutSet[p]) ~> status[p] # "Waiting"

\* tick() is done with every AgentDestroy sooner or later, although the
\* bridge may refuse every attempt.
DestroyPending(p) ==
    \/ \E i \in 1..Len(pendingDestroys) : pendingDestroys[i][1] = p
    \/ \E i \in 1..Len(retrying) : retrying[i][1] = p

DestroyResolved == \A p \in Pid : DestroyPending(p) ~> ~DestroyPending(p)

(***************************************************************************)
(* Neither a receive deadline nor the retry of an AgentDestroy is left     *)
(* behind by tick().                                                       *)
(***************************************************************************)
TicksResolve == DeadlineWakes /\ DestroyResolved

=============================================================================
