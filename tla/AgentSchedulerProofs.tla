----------------------- MODULE AgentSchedulerProofs -----------------------
(***************************************************************************)
(* The scheduler's invariants for every number of processes, every mailbox *)
(* capacity, every reduction budget and every set of host operations and   *)
(* behaviors: its types, and that no process sleeps through its wake-up: a *)
(* Waiting process always has room for the message that wakes it, and a    *)
(* Runnable one always has an entry in a ready queue.                      *)
(***************************************************************************)
EXTENDS AgentScheduler, TLAPS

-----------------------------------------------------------------------------
(* What the operators on the state return.                                 *)

\* enqueue() keeps the queues sequences of PIDs.
LEMMA EnqueuedType ==
    ASSUME NEW qs \in [Priority -> Seq(Pid)], NEW c \in Priority, NEW p \in Pid
    PROVE  Enqueued(qs, c, p) \in [Priority -> Seq(Pid)]
  BY DEF Enqueued

\* next_runnable() only takes from a queue that has an entry.
LEMMA NextClassNonEmpty ==
    ASSUME QueueTypeOK, ~NothingQueued(queues)
    PROVE  /\ NextClass(queues, advantage) \in Priority
           /\ queues[NextClass(queues, advantage)] # << >>
  BY NormalAdvantageAssumption
  DEF NextClass, LowHasTurn, NothingQueued, Priority, QueueTypeOK

\* A message built by the scheduler is a message.
LEMMA MessageType ==
    ASSUME NEW k \in MsgKinds, NEW a \in Nat
    PROVE  Message(k, a) \in Msg
  BY DEF Message, Msg

\* DeadLetterQueue::push keeps the ring a sequence of letters.
LEMMA LetterPushedType ==
    ASSUME QueueTypeOK, NEW why \in DeadLetterReason
    PROVE  LetterPushed(why) \in Seq(DeadLetterReason)
  BY SchedulerAssumption DEF LetterPushed, QueueTypeOK

\* deliver_message() and the wake-up keep the types.
LEMMA DeliverType ==
    ASSUME ProcTypeOK, QueueTypeOK, NEW p \in Pid, NEW m \in Msg, DeliverAndWake(p, m)
    PROVE  /\ mailbox' \in [Pid -> Seq(Msg)]
           /\ timeoutSet' \in [Pid -> BOOLEAN]
           /\ status' \in [Pid -> Status]
           /\ queues' \in [Priority -> Seq(Pid)]
<1>1. mailbox' \in [Pid -> Seq(Msg)]
  BY DEF DeliverAndWake, ProcTypeOK
<1>2. timeoutSet' \in [Pid -> BOOLEAN]
  BY DEF DeliverAndWake, ProcTypeOK
<1>3. status' \in [Pid -> Status]
  BY DEF DeliverAndWake, ProcTypeOK, Status
<1>4. queues' \in [Priority -> Seq(Pid)]
  <2>1. priority[p] \in Priority /\ queues \in [Priority -> Seq(Pid)]
    BY DEF ProcTypeOK, QueueTypeOK
  <2>2. Enqueued(queues, priority[p], p) \in [Priority -> Seq(Pid)]
    BY <2>1, EnqueuedType
  <2> QED BY <2>1, <2>2 DEF DeliverAndWake
<1> QED BY <1>1, <1>2, <1>3, <1>4

\* Every outcome of send() keeps the types it may touch.
LEMMA SendKeeps ==
    ASSUME ProcTypeOK, QueueTypeOK, NEW p \in Pid, NEW m \in Msg, Send(p, m)
    PROVE  /\ mailbox' \in [Pid -> Seq(Msg)] /\ timeoutSet' \in [Pid -> BOOLEAN]
           /\ status' \in [Pid -> Status] /\ queues' \in [Priority -> Seq(Pid)]
           /\ deadLetters' \in Seq(DeadLetterReason)
           /\ outbound' \in Seq(Pid \X Msg)
<1>1. CASE DeliverAndWake(p, m) /\ UNCHANGED <<deadLetters, outbound>>
  BY <1>1, DeliverType DEF QueueTypeOK
<1>2. CASE UNCHANGED <<mailbox, timeoutSet, status, queues>>
  <2>1. deadLetters' \in Seq(DeadLetterReason)
    <3>1. /\ LetterPushed("MailboxFull") \in Seq(DeadLetterReason)
          /\ LetterPushed("ProcessNotFound") \in Seq(DeadLetterReason)
      BY LetterPushedType DEF DeadLetterReason
    <3>2. deadLetters \in Seq(DeadLetterReason)
      BY DEF QueueTypeOK
    <3> QED BY <3>1, <3>2 DEF Send
  <2>2. outbound' \in Seq(Pid \X Msg)
    <3>1. outbound \in Seq(Pid \X Msg) /\ <<p, m>> \in Pid \X Msg
      BY DEF QueueTypeOK
    <3>2. Append(outbound, <<p, m>>) \in Seq(Pid \X Msg)
      BY <3>1
    <3> QED BY <3>1, <3>2 DEF Send
  <2> QED BY <1>2, <2>1, <2>2 DEF ProcTypeOK, QueueTypeOK
<1> QED BY <1>1, <1>2 DEF Send

\* send() keeps the processes and the queues typed.
LEMMA SendType ==
    ASSUME ProcTypeOK, QueueTypeOK, NEW p \in Pid, NEW m \in Msg, Send(p, m),
           UNCHANGED SendFrame
    PROVE  ProcTypeOK' /\ QueueTypeOK'
  BY SendKeeps DEF ProcTypeOK, QueueTypeOK, SendFrame

\* BridgeHandle::submit keeps the requests in flight within their bound.
LEMMA SubmitType ==
    ASSUME BridgeTypeOK, NEW p \in Pid, NEW b \in BOOLEAN, Submit(p, b)
    PROVE  inFlight' \in [Pid -> 0..MaxInFlight]
<1>1. inFlight[p] \in Nat /\ (b => inFlight[p] + 1 \in 0..MaxInFlight)
  BY SchedulerAssumption DEF Submit, BridgeTypeOK
<1> QED BY <1>1 DEF Submit, BridgeTypeOK

\* AgentProcess::new for a PID that is left.
LEMMA NewProcessType ==
    ASSUME ProcTypeOK, nextPid <= MaxPid, NEW c \in Priority, NEW t \in BOOLEAN,
           NewProcess(c, t)
    PROVE  /\ nextPid \in Pid
           /\ nextPid' \in 1..(MaxPid + 1)
           /\ status' \in [Pid -> Status]
           /\ priority' \in [Pid -> Priority]
           /\ trapExit' \in [Pid -> BOOLEAN]
<1>1. nextPid \in Pid /\ nextPid' \in 1..(MaxPid + 1)
  BY SchedulerAssumption DEF NewProcess, ProcTypeOK, Pid
<1>2. status' \in [Pid -> Status]
  BY DEF NewProcess, ProcTypeOK, Status
<1> QED BY <1>1, <1>2 DEF NewProcess, ProcTypeOK

\* monitor() keeps both tables typed.
LEMMA AddMonitorType ==
    ASSUME ProcTypeOK, NEW w \in Pid, NEW t \in Pid, AddMonitor(w, t)
    PROVE  /\ nextRef \in Ref
           /\ nextRef' \in 1..(MaxRef + 1)
           /\ monitors' \in [Pid -> SUBSET (Ref \X Pid)]
           /\ monitoredBy' \in [Pid -> SUBSET (Ref \X Pid)]
<1>1. nextRef \in Ref /\ nextRef' \in 1..(MaxRef + 1)
  BY SchedulerAssumption DEF AddMonitor, ProcTypeOK, Ref
<1>2. <<nextRef, t>> \in Ref \X Pid /\ <<nextRef, w>> \in Ref \X Pid
  BY <1>1
<1> QED BY <1>1, <1>2 DEF AddMonitor, ProcTypeOK

\* The first half of terminate_process() keeps the types and pushes a frame.
LEMMA RemoveType ==
    ASSUME TypeOK, NEW fs \in Seq(Frame), NEW p \in Pid, NEW reason \in Reason,
           Remove(fs, p, reason)
    PROVE  /\ ProcTypeOK' /\ QueueTypeOK' /\ BridgeTypeOK' /\ HistoryTypeOK'
           /\ phase' = "exit" /\ frames' \in Seq(Frame) /\ frames' # << >>
<1>1. frames' \in Seq(Frame) /\ frames' # << >>
  <2>1. [pid |-> p, reason |-> reason, links |-> links[p], downs |-> monitoredBy[p],
         cascade |-> << >>, told |-> FALSE] \in Frame
    BY DEF TypeOK, ProcTypeOK, Frame
  <2> QED BY <2>1 DEF Remove
<1>2. ProcTypeOK'
  <2>1. monitoredBy' \in [Pid -> SUBSET (Ref \X Pid)]
    BY DEF Remove, Purged, TypeOK, ProcTypeOK
  <2>2. status' \in [Pid -> Status] /\ priority' \in [Pid -> Priority]
    BY DEF Remove, TypeOK, ProcTypeOK, Status, Priority
  <2> QED BY <2>1, <2>2 DEF Remove, TypeOK, ProcTypeOK
<1>3. QueueTypeOK' /\ BridgeTypeOK'
  BY DEF Remove, TypeOK, QueueTypeOK, BridgeTypeOK, queueVars, bridgeVars
<1>4. HistoryTypeOK'
  BY DEF Remove, TypeOK, HistoryTypeOK
<1> QED BY <1>1, <1>2, <1>3, <1>4 DEF Remove

\* The frame on top, and what is left without it.
LEMMA TopType ==
    ASSUME CallTypeOK, frames # << >>
    PROVE  Top \in Frame /\ Below \in Seq(Frame)
  BY DEF CallTypeOK, Top, Below

-----------------------------------------------------------------------------
(* Every action keeps TypeOK and CallOK: the embedding program's calls.    *)

\* registry.spawn by the host.
LEMMA HostSpawnTyped ==
    ASSUME TypeOK, CallOK, NEW c \in Priority, NEW t \in BOOLEAN, HostSpawn(c, t)
    PROVE  TypeOK' /\ CallOK'
<1>1. ProcTypeOK'
  BY NewProcessType DEF HostSpawn, TypeOK, ProcTypeOK
<1>2. QueueTypeOK'
  BY NewProcessType, EnqueuedType DEF HostSpawn, TypeOK, QueueTypeOK
<1>3. BridgeTypeOK' /\ TurnTypeOK' /\ CallTypeOK' /\ HistoryTypeOK'
  BY DEF HostSpawn, TypeOK, BridgeTypeOK, TurnTypeOK, CallTypeOK, HistoryTypeOK, bridgeVars, turnVars, callVars, history
<1>4. CallOK'
  BY SchedulerAssumption DEF HostSpawn, CallOK, InTurn, TypeOK, ProcTypeOK, HostCall, NewProcess, turnVars, callVars
<1> QED BY <1>1, <1>2, <1>3, <1>4 DEF TypeOK

\* send() by the host.
LEMMA HostSendTyped ==
    ASSUME TypeOK, CallOK, NEW p \in Pid, HostSend(p)
    PROVE  TypeOK' /\ CallOK'
<1>1. ProcTypeOK'
  <2>1. Message("User", 0) \in Msg
    BY MessageType DEF MsgKinds
  <2> QED BY <2>1, SendType DEF HostSend, TypeOK
<1>2. QueueTypeOK'
  <2>1. Message("User", 0) \in Msg
    BY MessageType DEF MsgKinds
  <2> QED BY <2>1, SendType DEF HostSend, TypeOK
<1>3. BridgeTypeOK' /\ TurnTypeOK' /\ CallTypeOK' /\ HistoryTypeOK'
  BY DEF HostSend, TypeOK, BridgeTypeOK, TurnTypeOK, CallTypeOK, HistoryTypeOK, bridgeVars, turnVars, callVars, history
<1>4. CallOK'
  BY DEF HostSend, CallOK, InTurn, turnVars, callVars, SendFrame
<1> QED BY <1>1, <1>2, <1>3, <1>4 DEF TypeOK

\* monitor() by the host.
LEMMA HostMonitorTyped ==
    ASSUME TypeOK, CallOK, NEW w \in Pid, NEW t \in Pid, HostMonitor(w, t)
    PROVE  TypeOK' /\ CallOK'
<1>1. ProcTypeOK'
  BY AddMonitorType DEF HostMonitor, TypeOK, ProcTypeOK
<1>2. QueueTypeOK' /\ BridgeTypeOK' /\ TurnTypeOK' /\ CallTypeOK' /\ HistoryTypeOK'
  BY DEF HostMonitor, TypeOK, QueueTypeOK, BridgeTypeOK, TurnTypeOK, CallTypeOK, HistoryTypeOK, queueVars, bridgeVars, turnVars, callVars, history
<1>3. CallOK'
  BY DEF HostMonitor, CallOK, InTurn, turnVars, callVars
<1> QED BY <1>1, <1>2, <1>3 DEF TypeOK

\* demonitor() by the host.
LEMMA HostDemonitorTyped ==
    ASSUME TypeOK, CallOK, NEW w \in Pid, NEW t \in Pid, NEW r \in Ref, HostDemonitor(w, r, t)
    PROVE  TypeOK' /\ CallOK'
<1>1. ProcTypeOK'
  BY DEF HostDemonitor, TypeOK, ProcTypeOK
<1>2. HistoryTypeOK'
  BY DEF HostDemonitor, TypeOK, HistoryTypeOK
<1>3. QueueTypeOK' /\ BridgeTypeOK' /\ TurnTypeOK' /\ CallTypeOK'
  BY DEF HostDemonitor, TypeOK, QueueTypeOK, BridgeTypeOK, TurnTypeOK, CallTypeOK, queueVars, bridgeVars, turnVars, callVars
<1>4. CallOK'
  BY DEF HostDemonitor, CallOK, InTurn, turnVars, callVars
<1> QED BY <1>1, <1>2, <1>3, <1>4 DEF TypeOK

\* set_receive_timeout() by the host.
LEMMA HostSetReceiveTimeoutTyped ==
    ASSUME TypeOK, CallOK, NEW p \in Pid, HostSetReceiveTimeout(p)
    PROVE  TypeOK' /\ CallOK'
<1>1. ProcTypeOK'
  BY DEF HostSetReceiveTimeout, TypeOK, ProcTypeOK
<1>2. QueueTypeOK' /\ BridgeTypeOK' /\ TurnTypeOK' /\ CallTypeOK' /\ HistoryTypeOK'
  BY DEF HostSetReceiveTimeout, TypeOK, QueueTypeOK, BridgeTypeOK, TurnTypeOK, CallTypeOK, HistoryTypeOK, queueVars, bridgeVars, turnVars, callVars, history
<1>3. CallOK'
  BY DEF HostSetReceiveTimeout, CallOK, InTurn, turnVars, callVars
<1> QED BY <1>1, <1>2, <1>3 DEF TypeOK

\* enqueue() by the host.
LEMMA HostEnqueueTyped ==
    ASSUME TypeOK, CallOK, NEW p \in Pid, HostEnqueue(p)
    PROVE  TypeOK' /\ CallOK'
<1>1. QueueTypeOK'
  BY EnqueuedType DEF HostEnqueue, TypeOK, QueueTypeOK, ProcTypeOK
<1>2. ProcTypeOK' /\ BridgeTypeOK' /\ TurnTypeOK' /\ CallTypeOK' /\ HistoryTypeOK'
  BY DEF HostEnqueue, TypeOK, ProcTypeOK, BridgeTypeOK, TurnTypeOK, CallTypeOK, HistoryTypeOK, procVars, bridgeVars, turnVars, callVars, history
<1>3. CallOK'
  BY DEF HostEnqueue, CallOK, InTurn, turnVars, callVars, procVars
<1> QED BY <1>1, <1>2, <1>3 DEF TypeOK

\* drain_outbound_messages().
LEMMA DrainOutboundTyped ==
    ASSUME TypeOK, CallOK, DrainOutbound
    PROVE  TypeOK' /\ CallOK'
<1>1. QueueTypeOK'
  BY DEF DrainOutbound, TypeOK, QueueTypeOK, queueVars
<1>2. ProcTypeOK' /\ BridgeTypeOK' /\ TurnTypeOK' /\ CallTypeOK' /\ HistoryTypeOK'
  BY DEF DrainOutbound, TypeOK, ProcTypeOK, BridgeTypeOK, TurnTypeOK, CallTypeOK, HistoryTypeOK, procVars, bridgeVars, turnVars, callVars, history
<1>3. CallOK'
  BY DEF DrainOutbound, CallOK, InTurn, turnVars, callVars, procVars
<1> QED BY <1>1, <1>2, <1>3 DEF TypeOK

\* The bridge worker answers.
LEMMA RespondTyped ==
    ASSUME TypeOK, CallOK, NEW p \in Pid, Respond(p)
    PROVE  TypeOK' /\ CallOK'
<1>1. BridgeTypeOK'
  BY SchedulerAssumption DEF Respond, TypeOK, BridgeTypeOK
<1>2. ProcTypeOK' /\ QueueTypeOK' /\ TurnTypeOK' /\ CallTypeOK' /\ HistoryTypeOK'
  BY DEF Respond, TypeOK, ProcTypeOK, QueueTypeOK, TurnTypeOK, CallTypeOK, HistoryTypeOK, procVars, queueVars, turnVars, callVars, history
<1>3. CallOK'
  BY DEF Respond, CallOK, InTurn, turnVars, callVars, procVars
<1> QED BY <1>1, <1>2, <1>3 DEF TypeOK

-----------------------------------------------------------------------------
(* tick() up to the choice of a process.                                   *)

\* tick() takes the bridge responses.
LEMMA TickBeginTyped ==
    ASSUME TypeOK, CallOK, TickBegin
    PROVE  TypeOK' /\ CallOK'
<1>1. BridgeTypeOK'
  <2>1. responses \in Seq(Pid) /\ inbox \in Seq(Pid) /\ << >> \in Seq(Pid)
    BY DEF TypeOK, BridgeTypeOK
  <2>2. responses' \in Seq(Pid) /\ inbox' \in Seq(Pid)
    BY <2>1 DEF TickBegin
  <2> QED BY <2>2 DEF TickBegin, TypeOK, BridgeTypeOK
<1>2. CallTypeOK'
  BY DEF TickBegin, TypeOK, CallTypeOK, Phase
<1>3. ProcTypeOK' /\ QueueTypeOK' /\ TurnTypeOK' /\ HistoryTypeOK'
  BY DEF TickBegin, TypeOK, ProcTypeOK, QueueTypeOK, TurnTypeOK, HistoryTypeOK, procVars, queueVars, turnVars, history
<1>4. CallOK'
  BY DEF TickBegin, CallOK, InTurn, HostCall, turnVars, procVars
<1> QED BY <1>1, <1>2, <1>3, <1>4 DEF TypeOK

\* tick() delivers a bridge response.
LEMMA DeliverResponseTyped ==
    ASSUME TypeOK, CallOK, DeliverResponse
    PROVE  TypeOK' /\ CallOK'
<1>1. ProcTypeOK'
  <2>1. Head(inbox) \in Pid /\ Message("IoResponse", 0) \in Msg
    BY MessageType DEF MsgKinds, DeliverResponse, TypeOK, BridgeTypeOK
  <2> QED BY <2>1, SendType DEF DeliverResponse, TypeOK
<1>2. QueueTypeOK'
  <2>1. Head(inbox) \in Pid /\ Message("IoResponse", 0) \in Msg
    BY MessageType DEF MsgKinds, DeliverResponse, TypeOK, BridgeTypeOK
  <2> QED BY <2>1, SendType DEF DeliverResponse, TypeOK
<1>3. BridgeTypeOK'
  BY DEF DeliverResponse, TypeOK, BridgeTypeOK
<1>4. TurnTypeOK' /\ CallTypeOK' /\ HistoryTypeOK'
  BY DEF DeliverResponse, TypeOK, TurnTypeOK, CallTypeOK, HistoryTypeOK, turnVars, callVars, history
<1>5. CallOK'
  BY DEF DeliverResponse, CallOK, InTurn, turnVars, callVars, SendFrame
<1> QED BY <1>1, <1>2, <1>3, <1>4, <1>5 DEF TypeOK

\* The responses are delivered: on to the retries, or to the shutdown.
LEMMA ResponsesDrainedTyped ==
    ASSUME TypeOK, CallOK, ResponsesDrained
    PROVE  TypeOK' /\ CallOK'
<1>1. BridgeTypeOK'
  <2> DEFINE D == Pid \X (0..DestroyRetries)
  <2>1. pendingDestroys \in Seq(D) /\ retrying \in Seq(D)
    BY DEF TypeOK, BridgeTypeOK
  <2>2. pendingDestroys' \in Seq(D) /\ retrying' \in Seq(D)
    <3>1. << >> \in Seq(D)
      OBVIOUS
    <3> HIDE DEF D
    <3> QED BY <2>1, <3>1 DEF ResponsesDrained
  <2> QED BY <2>2 DEF ResponsesDrained, TypeOK, BridgeTypeOK
<1>2. CallTypeOK'
  BY DEF ResponsesDrained, TypeOK, CallTypeOK, Phase, Live
<1>3. ProcTypeOK' /\ QueueTypeOK' /\ TurnTypeOK' /\ HistoryTypeOK'
  BY DEF ResponsesDrained, TypeOK, ProcTypeOK, QueueTypeOK, TurnTypeOK, HistoryTypeOK, procVars, queueVars, turnVars, history
<1>4. CallOK'
  BY DEF ResponsesDrained, CallOK, InTurn, turnVars, procVars
<1> QED BY <1>1, <1>2, <1>3, <1>4 DEF TypeOK

\* tick() retries one AgentDestroy.
LEMMA RetryDestroyTyped ==
    ASSUME TypeOK, CallOK, NEW b \in BOOLEAN, RetryDestroy(b)
    PROVE  TypeOK' /\ CallOK'
<1>1. BridgeTypeOK'
  <2>1. Head(retrying) \in Pid \X (0..DestroyRetries) /\ Tail(retrying) \in Seq(Pid \X (0..DestroyRetries))
    BY DEF RetryDestroy, TypeOK, BridgeTypeOK
  <2>2. inFlight' \in [Pid -> 0..MaxInFlight]
    BY <2>1, SubmitType DEF RetryDestroy, TypeOK, BridgeTypeOK
  <2>3. pendingDestroys' \in Seq(Pid \X (0..DestroyRetries))
    <3>1. Head(retrying)[2] < DestroyRetries =>
            <<Head(retrying)[1], Head(retrying)[2] + 1>> \in Pid \X (0..DestroyRetries)
      BY <2>1, SchedulerAssumption
    <3> DEFINE D == Pid \X (0..DestroyRetries)
    <3>2. pendingDestroys \in Seq(D)
      BY DEF TypeOK, BridgeTypeOK
    <3>3. Head(retrying)[2] < DestroyRetries =>
            Append(pendingDestroys, <<Head(retrying)[1], Head(retrying)[2] + 1>>) \in Seq(D)
      <4> HIDE DEF D
      <4>1. Head(retrying)[2] < DestroyRetries => <<Head(retrying)[1], Head(retrying)[2] + 1>> \in D
        BY <3>1 DEF D
      <4> QED BY <3>2, <4>1
    <3> HIDE DEF D
    <3>4. pendingDestroys' \in Seq(D)
      BY <3>2, <3>3 DEF RetryDestroy
    <3> QED BY <3>4 DEF D
  <2> QED BY <2>1, <2>2, <2>3 DEF RetryDestroy, TypeOK, BridgeTypeOK
<1>2. ProcTypeOK' /\ QueueTypeOK' /\ TurnTypeOK' /\ CallTypeOK' /\ HistoryTypeOK'
  BY DEF RetryDestroy, TypeOK, ProcTypeOK, QueueTypeOK, TurnTypeOK, CallTypeOK, HistoryTypeOK, procVars, queueVars, turnVars, callVars, history
<1>3. CallOK'
  BY DEF RetryDestroy, CallOK, InTurn, turnVars, callVars, procVars
<1> QED BY <1>1, <1>2, <1>3 DEF TypeOK

\* tick() is done with the retries.
LEMMA RetriesDoneTyped ==
    ASSUME TypeOK, CallOK, RetriesDone
    PROVE  TypeOK' /\ CallOK'
<1>1. CallTypeOK'
  BY DEF RetriesDone, TypeOK, CallTypeOK, Phase
<1>2. ProcTypeOK' /\ QueueTypeOK' /\ BridgeTypeOK' /\ TurnTypeOK' /\ HistoryTypeOK'
  BY DEF RetriesDone, TypeOK, ProcTypeOK, QueueTypeOK, BridgeTypeOK, TurnTypeOK, HistoryTypeOK, procVars, queueVars, bridgeVars, turnVars, history
<1>3. CallOK'
  BY DEF RetriesDone, CallOK, InTurn, turnVars, procVars
<1> QED BY <1>1, <1>2, <1>3 DEF TypeOK

\* tick() collects the expired deadlines.
LEMMA CollectTimeoutsTyped ==
    ASSUME TypeOK, CallOK, NEW S \in SUBSET Pid, CollectTimeouts(S)
    PROVE  TypeOK' /\ CallOK'
<1>1. ProcTypeOK'
  BY DEF CollectTimeouts, TypeOK, ProcTypeOK
<1>2. CallTypeOK'
  BY DEF CollectTimeouts, TypeOK, CallTypeOK, Phase
<1>3. QueueTypeOK' /\ BridgeTypeOK' /\ TurnTypeOK' /\ HistoryTypeOK'
  BY DEF CollectTimeouts, TypeOK, QueueTypeOK, BridgeTypeOK, TurnTypeOK, HistoryTypeOK, queueVars, bridgeVars, turnVars, history
<1>4. CallOK'
  BY DEF CollectTimeouts, CallOK, InTurn, turnVars
<1> QED BY <1>1, <1>2, <1>3, <1>4 DEF TypeOK

\* tick() sends one ReceiveTimeout.
LEMMA FireTimeoutTyped ==
    ASSUME TypeOK, CallOK, NEW p \in Pid, FireTimeout(p)
    PROVE  TypeOK' /\ CallOK'
<1>1. ProcTypeOK'
  <2>1. p \in Pid /\ Message("ReceiveTimeout", 0) \in Msg
    BY MessageType DEF MsgKinds
  <2> QED BY <2>1, SendType DEF FireTimeout, TypeOK
<1>2. QueueTypeOK'
  <2>1. p \in Pid /\ Message("ReceiveTimeout", 0) \in Msg
    BY MessageType DEF MsgKinds
  <2> QED BY <2>1, SendType DEF FireTimeout, TypeOK
<1>3. CallTypeOK'
  BY DEF FireTimeout, TypeOK, CallTypeOK
<1>4. BridgeTypeOK' /\ TurnTypeOK' /\ HistoryTypeOK'
  BY DEF FireTimeout, TypeOK, BridgeTypeOK, TurnTypeOK, HistoryTypeOK, bridgeVars, turnVars, history
<1>5. CallOK'
  BY DEF FireTimeout, CallOK, InTurn, turnVars, SendFrame
<1> QED BY <1>1, <1>2, <1>3, <1>4, <1>5 DEF TypeOK

\* tick() is done with the deadlines.
LEMMA TimeoutsFiredTyped ==
    ASSUME TypeOK, CallOK, TimeoutsFired
    PROVE  TypeOK' /\ CallOK'
<1>1. CallTypeOK'
  BY DEF TimeoutsFired, TypeOK, CallTypeOK, Phase
<1>2. ProcTypeOK' /\ QueueTypeOK' /\ BridgeTypeOK' /\ TurnTypeOK' /\ HistoryTypeOK'
  BY DEF TimeoutsFired, TypeOK, ProcTypeOK, QueueTypeOK, BridgeTypeOK, TurnTypeOK, HistoryTypeOK, procVars, queueVars, bridgeVars, turnVars, history
<1>3. CallOK'
  BY DEF TimeoutsFired, CallOK, InTurn, turnVars, procVars
<1> QED BY <1>1, <1>2, <1>3 DEF TypeOK

-----------------------------------------------------------------------------
(* tick(): the dispatch loop.                                              *)

\* next_runnable() returns a PID and keeps the queues typed.
LEMMA TakeCandidateType ==
    ASSUME QueueTypeOK, ~NothingQueued(queues), TakeCandidate
    PROVE  /\ Candidate \in Pid
           /\ queues' \in [Priority -> Seq(Pid)] /\ advantage' \in 0..NormalAdvantage
<1>1. Candidate \in Pid
  BY NextClassNonEmpty DEF Candidate, QueueTypeOK
<1>2. queues' \in [Priority -> Seq(Pid)]
  BY NextClassNonEmpty DEF TakeCandidate, Popped, QueueTypeOK
<1>3. advantage' \in 0..NormalAdvantage
  BY NormalAdvantageAssumption DEF TakeCandidate, NextAdvantage, QueueTypeOK
<1> QED BY <1>1, <1>2, <1>3

\* tick() starts a turn.
LEMMA SelectRunnableTyped ==
    ASSUME TypeOK, CallOK, SelectRunnable
    PROVE  TypeOK' /\ CallOK'
<1>1. QueueTypeOK'
  BY TakeCandidateType DEF SelectRunnable, TypeOK, QueueTypeOK
<1>2. TurnTypeOK'
  BY TakeCandidateType, SchedulerAssumption DEF SelectRunnable, TypeOK, TurnTypeOK, QueueTypeOK
<1>3. CallTypeOK'
  BY DEF SelectRunnable, TypeOK, CallTypeOK, Phase
<1>4. ProcTypeOK' /\ BridgeTypeOK' /\ HistoryTypeOK'
  BY DEF SelectRunnable, TypeOK, ProcTypeOK, BridgeTypeOK, HistoryTypeOK, procVars, bridgeVars, history
<1>5. CallOK'
  BY TakeCandidateType DEF SelectRunnable, CallOK, InTurn, TypeOK, QueueTypeOK, ProcTypeOK, procVars
<1> QED BY <1>1, <1>2, <1>3, <1>4, <1>5 DEF TypeOK

\* tick() skips a stale entry.
LEMMA SkipStaleEntryTyped ==
    ASSUME TypeOK, CallOK, SkipStaleEntry
    PROVE  TypeOK' /\ CallOK'
<1>1. QueueTypeOK'
  BY TakeCandidateType DEF SkipStaleEntry, TypeOK, QueueTypeOK
<1>2. ProcTypeOK' /\ BridgeTypeOK' /\ TurnTypeOK' /\ CallTypeOK' /\ HistoryTypeOK'
  BY DEF SkipStaleEntry, TypeOK, ProcTypeOK, BridgeTypeOK, TurnTypeOK, CallTypeOK, HistoryTypeOK, procVars, bridgeVars, turnVars, callVars, history
<1>3. CallOK'
  BY DEF SkipStaleEntry, CallOK, InTurn, turnVars, callVars, procVars
<1> QED BY <1>1, <1>2, <1>3 DEF TypeOK

\* tick() finds no process to run.
LEMMA NothingToRunTyped ==
    ASSUME TypeOK, CallOK, NothingToRun
    PROVE  TypeOK' /\ CallOK'
<1>1. CallTypeOK'
  BY DEF NothingToRun, TypeOK, CallTypeOK, Phase
<1>2. ProcTypeOK' /\ QueueTypeOK' /\ BridgeTypeOK' /\ TurnTypeOK' /\ HistoryTypeOK'
  BY DEF NothingToRun, TypeOK, ProcTypeOK, QueueTypeOK, BridgeTypeOK, TurnTypeOK, HistoryTypeOK, procVars, queueVars, bridgeVars, turnVars, history
<1>3. CallOK'
  BY DEF NothingToRun, CallOK, InTurn, turnVars, procVars
<1> QED BY <1>1, <1>2, <1>3 DEF TypeOK

\* The turn ends without reductions.
LEMMA OutOfReductionsTyped ==
    ASSUME TypeOK, CallOK, OutOfReductions
    PROVE  TypeOK' /\ CallOK'
<1>1. QueueTypeOK'
  BY EnqueuedType DEF OutOfReductions, TypeOK, QueueTypeOK, CallOK, InTurn, ProcTypeOK
<1>2. CallTypeOK'
  BY DEF OutOfReductions, TypeOK, CallTypeOK, Phase
<1>3. ProcTypeOK' /\ BridgeTypeOK' /\ TurnTypeOK' /\ HistoryTypeOK'
  BY DEF OutOfReductions, TypeOK, ProcTypeOK, BridgeTypeOK, TurnTypeOK, HistoryTypeOK, procVars, bridgeVars, turnVars, history
<1>4. CallOK'
  BY DEF OutOfReductions, CallOK, InTurn, turnVars, procVars
<1> QED BY <1>1, <1>2, <1>3, <1>4 DEF TypeOK

\* The turn ends with an empty mailbox.
LEMMA MailboxEmptyTyped ==
    ASSUME TypeOK, CallOK, MailboxEmpty
    PROVE  TypeOK' /\ CallOK'
<1>1. ProcTypeOK'
  BY DEF MailboxEmpty, TypeOK, ProcTypeOK, Status
<1>2. CallTypeOK'
  BY DEF MailboxEmpty, TypeOK, CallTypeOK, Phase
<1>3. QueueTypeOK' /\ BridgeTypeOK' /\ TurnTypeOK' /\ HistoryTypeOK'
  BY DEF MailboxEmpty, TypeOK, QueueTypeOK, BridgeTypeOK, TurnTypeOK, HistoryTypeOK, queueVars, bridgeVars, turnVars, history
<1>4. CallOK'
  BY DEF MailboxEmpty, CallOK, InTurn, turnVars
<1> QED BY <1>1, <1>2, <1>3, <1>4 DEF TypeOK

\* A callback answers Continue.
LEMMA HandleContinueTyped ==
    ASSUME TypeOK, CallOK, HandleContinue
    PROVE  TypeOK' /\ CallOK'
<1>1. ProcTypeOK'
  BY DEF HandleContinue, TypeOK, ProcTypeOK, Handle, Consumed, CallOK, InTurn, HandleFrame
<1>2. TurnTypeOK'
  <2>1. reductions' \in 0..Reductions
    BY SchedulerAssumption DEF HandleContinue, Handle, TypeOK, TurnTypeOK, SendCost, SpawnCost
  <2> QED BY <2>1 DEF HandleContinue, TypeOK, TurnTypeOK, HandleFrame
<1>3. QueueTypeOK' /\ BridgeTypeOK' /\ CallTypeOK' /\ HistoryTypeOK'
  BY DEF HandleContinue, TypeOK, QueueTypeOK, BridgeTypeOK, CallTypeOK, HistoryTypeOK, queueVars, bridgeVars, callVars, history, HandleFrame
<1>4. CallOK'
  BY DEF HandleContinue, CallOK, InTurn, Handle, HandleFrame
<1> QED BY <1>1, <1>2, <1>3, <1>4 DEF TypeOK

\* A callback answers Send: the send is deferred.
LEMMA HandleSendTyped ==
    ASSUME TypeOK, CallOK, NEW p \in Pid, HandleSend(p)
    PROVE  TypeOK' /\ CallOK'
<1>1. ProcTypeOK'
  BY DEF HandleSend, TypeOK, ProcTypeOK, Handle, Consumed, CallOK, InTurn, HandleFrame
<1>2. TurnTypeOK'
  <2>1. reductions' \in 0..Reductions
    BY SchedulerAssumption, SMTT(30) DEF HandleSend, Handle, TypeOK, TurnTypeOK, SendCost
  <2>2. <<p, Message("User", 0)>> \in Pid \X Msg
    BY MessageType DEF MsgKinds
  <2>3. sends' \in Seq(Pid \X Msg)
    BY <2>2 DEF HandleSend, TypeOK, TurnTypeOK
  <2> QED BY <2>1, <2>3 DEF HandleSend, TypeOK, TurnTypeOK, HandleFrame
<1>3. QueueTypeOK' /\ BridgeTypeOK' /\ CallTypeOK' /\ HistoryTypeOK'
  BY DEF HandleSend, TypeOK, QueueTypeOK, BridgeTypeOK, CallTypeOK, HistoryTypeOK, queueVars, bridgeVars, callVars, history, HandleFrame
<1>4. CallOK'
  BY DEF HandleSend, CallOK, InTurn, Handle, HandleFrame
<1> QED BY <1>1, <1>2, <1>3, <1>4 DEF TypeOK

\* A callback answers Stop, or panics.
LEMMA HandleStopTyped ==
    ASSUME TypeOK, CallOK, NEW k \in {"Stop", "Panic"}, NEW reason \in Reason, HandleStop(k, reason)
    PROVE  TypeOK' /\ CallOK'
<1>1. ProcTypeOK'
  BY DEF HandleStop, TypeOK, ProcTypeOK, Handle, Consumed, CallOK, InTurn, HandleFrame
<1>2. TurnTypeOK'
  <2>1. reductions' \in 0..Reductions
    BY SchedulerAssumption DEF HandleStop, Handle, TypeOK, TurnTypeOK, SendCost, SpawnCost
  <2> QED BY <2>1 DEF HandleStop, TypeOK, TurnTypeOK, HandleFrame
<1>3. CallTypeOK'
  BY DEF HandleStop, TypeOK, CallTypeOK, Phase, HandleFrame
<1>4. QueueTypeOK' /\ BridgeTypeOK' /\ HistoryTypeOK'
  BY DEF HandleStop, TypeOK, QueueTypeOK, BridgeTypeOK, HistoryTypeOK, queueVars, bridgeVars, history, HandleFrame
<1>5. CallOK'
  BY DEF HandleStop, CallOK, InTurn, Handle, HandleFrame
<1> QED BY <1>1, <1>2, <1>3, <1>4, <1>5 DEF TypeOK

\* A callback answers IoRequest.
LEMMA HandleIoTyped ==
    ASSUME TypeOK, CallOK, NEW b \in BOOLEAN, HandleIo(b)
    PROVE  TypeOK' /\ CallOK'
<1>1. ProcTypeOK'
  <2>1. Message("IoError", 0) \in Msg
    BY MessageType DEF MsgKinds
  <2>2. cur \in Pid /\ mailbox[cur] \in Seq(Msg) /\ mailbox[cur] # << >>
    BY DEF HandleIo, Handle, CallOK, InTurn, TypeOK, ProcTypeOK
  <2>3. mailbox' \in [Pid -> Seq(Msg)]
    <3>1. Tail(mailbox[cur]) \in Seq(Msg)
      BY <2>2
    <3>2. Append(Tail(mailbox[cur]), Message("IoError", 0)) \in Seq(Msg)
      BY <2>1, <3>1
    <3> QED BY <2>2, <3>1, <3>2 DEF HandleIo, Consumed, TypeOK, ProcTypeOK
  <2>4. status' \in [Pid -> Status] /\ timeoutSet' \in [Pid -> BOOLEAN]
    BY DEF HandleIo, TypeOK, ProcTypeOK, Status
  <2> QED BY <2>3, <2>4 DEF HandleIo, TypeOK, ProcTypeOK, HandleFrame
<1>2. TurnTypeOK'
  <2>1. reductions' \in 0..Reductions
    BY SchedulerAssumption DEF HandleIo, Handle, TypeOK, TurnTypeOK, SendCost, SpawnCost
  <2> QED BY <2>1 DEF HandleIo, TypeOK, TurnTypeOK, HandleFrame
<1>3. QueueTypeOK'
  <2>1. cur \in Pid /\ priority[cur] \in Priority
    BY DEF HandleIo, Handle, CallOK, InTurn, TypeOK, ProcTypeOK
  <2>2. Enqueued(queues, priority[cur], cur) \in [Priority -> Seq(Pid)]
    BY <2>1, EnqueuedType DEF TypeOK, QueueTypeOK
  <2> QED BY <2>2 DEF HandleIo, TypeOK, QueueTypeOK, HandleFrame
<1>4. BridgeTypeOK'
  <2>1. inFlight' \in [Pid -> 0..MaxInFlight]
    BY SubmitType DEF HandleIo, Handle, CallOK, InTurn, TypeOK
  <2> QED BY <2>1 DEF HandleIo, TypeOK, BridgeTypeOK, HandleFrame
<1>5. CallTypeOK'
  BY DEF HandleIo, TypeOK, CallTypeOK, Phase, HandleFrame
<1>6. HistoryTypeOK'
  BY DEF HandleIo, TypeOK, HistoryTypeOK, history, HandleFrame
<1>7. CallOK'
  BY DEF HandleIo, CallOK, InTurn, Handle, HandleFrame
<1> QED BY <1>1, <1>2, <1>3, <1>4, <1>5, <1>6, <1>7 DEF TypeOK

\* A callback answers Spawn: the spawn is deferred and its PID promised.
LEMMA HandleSpawnTyped ==
    ASSUME TypeOK, CallOK, NEW l \in BOOLEAN, NEW m \in BOOLEAN, HandleSpawn(l, m)
    PROVE  TypeOK' /\ CallOK'
<1>1. ProcTypeOK'
  BY DEF HandleSpawn, TypeOK, ProcTypeOK, Handle, Consumed, CallOK, InTurn, HandleFrame
<1>2. TurnTypeOK'
  <2>1. reductions' \in 0..Reductions
    BY SchedulerAssumption DEF HandleSpawn, Handle, TypeOK, TurnTypeOK, SpawnCost
  <2>2. spawns' \in Seq(SpawnOpts)
    BY DEF HandleSpawn, TypeOK, TurnTypeOK, SpawnOpts
  <2> QED BY <2>1, <2>2 DEF HandleSpawn, TypeOK, TurnTypeOK, HandleFrame
<1>3. QueueTypeOK' /\ BridgeTypeOK' /\ CallTypeOK' /\ HistoryTypeOK'
  BY DEF HandleSpawn, TypeOK, QueueTypeOK, BridgeTypeOK, CallTypeOK, HistoryTypeOK, queueVars, bridgeVars, callVars, history, HandleFrame
<1>4. CallOK'
  <2>1. Len(spawns') = Len(spawns) + 1 /\ Len(spawns) \in Nat
    BY DEF HandleSpawn, TypeOK, TurnTypeOK
  <2>2. nextPid + Len(spawns') <= MaxPid + 1
    BY <2>1, SchedulerAssumption DEF HandleSpawn, TypeOK, ProcTypeOK
  <2> QED BY <2>2 DEF HandleSpawn, Handle, CallOK, InTurn, HandleFrame
<1> QED BY <1>1, <1>2, <1>3, <1>4 DEF TypeOK

-----------------------------------------------------------------------------
(* tick(): the deferred sends and spawns, and the end of the turn.         *)

\* tick() does a deferred send.
LEMMA FlushSendTyped ==
    ASSUME TypeOK, CallOK, FlushSend
    PROVE  TypeOK' /\ CallOK'
<1>1. ProcTypeOK'
  <2>1. Head(sends)[1] \in Pid /\ Head(sends)[2] \in Msg
    BY DEF FlushSend, TypeOK, TurnTypeOK
  <2> QED BY <2>1, SendType DEF FlushSend, TypeOK
<1>2. QueueTypeOK'
  <2>1. Head(sends)[1] \in Pid /\ Head(sends)[2] \in Msg
    BY DEF FlushSend, TypeOK, TurnTypeOK
  <2> QED BY <2>1, SendType DEF FlushSend, TypeOK
<1>3. TurnTypeOK'
  BY DEF FlushSend, TypeOK, TurnTypeOK
<1>4. BridgeTypeOK' /\ CallTypeOK' /\ HistoryTypeOK'
  BY DEF FlushSend, TypeOK, BridgeTypeOK, CallTypeOK, HistoryTypeOK, bridgeVars, callVars, history
<1>5. CallOK'
  BY DEF FlushSend, CallOK, InTurn, callVars, SendFrame
<1> QED BY <1>1, <1>2, <1>3, <1>4, <1>5 DEF TypeOK

\* A deferred spawn is refused: the PID is used up.
LEMMA FlushSpawnRefusedTyped ==
    ASSUME TypeOK, CallOK, FlushSpawnRefused
    PROVE  TypeOK' /\ CallOK'
<1>1. ProcTypeOK'
  <2>1. spawns \in Seq(SpawnOpts) /\ spawns # << >> /\ nextPid + Len(spawns) <= MaxPid + 1
    BY DEF FlushSpawnRefused, CallOK, TypeOK, TurnTypeOK
  <2>2. nextPid' \in 1..(MaxPid + 1)
    BY <2>1, SchedulerAssumption DEF FlushSpawnRefused, TypeOK, ProcTypeOK
  <2> QED BY <2>2 DEF FlushSpawnRefused, TypeOK, ProcTypeOK
<1>2. TurnTypeOK'
  BY DEF FlushSpawnRefused, TypeOK, TurnTypeOK
<1>3. QueueTypeOK' /\ BridgeTypeOK' /\ CallTypeOK' /\ HistoryTypeOK'
  BY DEF FlushSpawnRefused, TypeOK, QueueTypeOK, BridgeTypeOK, CallTypeOK, HistoryTypeOK, queueVars, bridgeVars, callVars, history
<1>4. CallOK'
  <2>1. spawns \in Seq(SpawnOpts) /\ spawns # << >> /\ nextPid + Len(spawns) <= MaxPid + 1
    BY DEF FlushSpawnRefused, CallOK, TypeOK, TurnTypeOK
  <2>2. Len(spawns') = Len(spawns) - 1 /\ Len(spawns) \in Nat
    BY <2>1 DEF FlushSpawnRefused
  <2>3. nextPid' + Len(spawns') <= MaxPid + 1
    BY <2>1, <2>2, SchedulerAssumption DEF FlushSpawnRefused, TypeOK, ProcTypeOK
  <2> QED BY <2>3 DEF FlushSpawnRefused, CallOK, InTurn, callVars
<1> QED BY <1>1, <1>2, <1>3, <1>4 DEF TypeOK

\* A deferred spawn, with its link and its monitor.
LEMMA FlushSpawnTyped ==
    ASSUME TypeOK, CallOK, FlushSpawn
    PROVE  TypeOK' /\ CallOK'
<1>1. ProcTypeOK'
  <2>1. spawns \in Seq(SpawnOpts) /\ spawns # << >> /\ nextPid + Len(spawns) <= MaxPid + 1
    BY DEF FlushSpawn, CallOK, TypeOK, TurnTypeOK
  <2>2. nextPid <= MaxPid /\ cur \in Pid /\ "Normal" \in Priority
    BY <2>1, SchedulerAssumption DEF FlushSpawn, CallOK, InTurn, TypeOK, ProcTypeOK, Priority
  <2>3. /\ nextPid \in Pid /\ nextPid' \in 1..(MaxPid + 1)
        /\ status' \in [Pid -> Status] /\ priority' \in [Pid -> Priority]
        /\ trapExit' \in [Pid -> BOOLEAN]
    BY <2>2, NewProcessType DEF FlushSpawn, TypeOK
  <2>4. links' \in [Pid -> SUBSET Pid]
    BY <2>2, <2>3 DEF FlushSpawn, TypeOK, ProcTypeOK
  <2>5. /\ nextRef' \in 1..(MaxRef + 1)
        /\ monitors' \in [Pid -> SUBSET (Ref \X Pid)]
        /\ monitoredBy' \in [Pid -> SUBSET (Ref \X Pid)]
    <3>1. CASE AddMonitor(cur, nextPid)
      BY <2>2, <2>3, <3>1, AddMonitorType DEF TypeOK
    <3>2. CASE UNCHANGED <<monitors, monitoredBy, nextRef>>
      BY <3>2 DEF TypeOK, ProcTypeOK
    <3> QED BY <3>1, <3>2 DEF FlushSpawn
  <2> QED BY <2>3, <2>4, <2>5 DEF FlushSpawn, TypeOK, ProcTypeOK
<1>2. CallTypeOK'
  BY DEF FlushSpawn, TypeOK, CallTypeOK, Phase
<1>3. QueueTypeOK' /\ BridgeTypeOK' /\ TurnTypeOK' /\ HistoryTypeOK'
  BY DEF FlushSpawn, TypeOK, QueueTypeOK, BridgeTypeOK, TurnTypeOK, HistoryTypeOK, queueVars, bridgeVars, turnVars, history
<1>4. CallOK'
  <2>1. spawns \in Seq(SpawnOpts) /\ spawns # << >> /\ nextPid + Len(spawns) <= MaxPid + 1
    BY DEF FlushSpawn, CallOK, TypeOK, TurnTypeOK
  <2>2. nextPid' = nextPid + 1 /\ nextPid \in Nat /\ nextPid >= 1
    BY SchedulerAssumption DEF FlushSpawn, NewProcess, TypeOK, ProcTypeOK
  <2>3. spawns' # << >> /\ nextPid' >= 2 /\ nextPid' + Len(spawns') <= MaxPid + 2
    BY <2>1, <2>2, SchedulerAssumption DEF FlushSpawn, turnVars
  <2> QED BY <2>3 DEF FlushSpawn, CallOK, InTurn, turnVars
<1> QED BY <1>1, <1>2, <1>3, <1>4 DEF TypeOK

\* The parent is sent SpawnResult.
LEMMA NotifySpawnTyped ==
    ASSUME TypeOK, CallOK, NotifySpawn
    PROVE  TypeOK' /\ CallOK'
<1>1. ProcTypeOK'
  <2>1. cur \in Pid /\ Message("SpawnResult", nextPid - 1) \in Msg
    <3>1. nextPid - 1 \in Nat
      BY SchedulerAssumption DEF TypeOK, ProcTypeOK
    <3> QED BY <3>1, MessageType DEF MsgKinds, NotifySpawn, CallOK, InTurn
  <2> QED BY <2>1, SendType DEF NotifySpawn, TypeOK
<1>2. QueueTypeOK'
  <2>1. cur \in Pid /\ Message("SpawnResult", nextPid - 1) \in Msg
    <3>1. nextPid - 1 \in Nat
      BY SchedulerAssumption DEF TypeOK, ProcTypeOK
    <3> QED BY <3>1, MessageType DEF MsgKinds, NotifySpawn, CallOK, InTurn
  <2> QED BY <2>1, SendType DEF NotifySpawn, TypeOK
<1>3. CallTypeOK'
  BY DEF NotifySpawn, TypeOK, CallTypeOK, Phase
<1>4. BridgeTypeOK' /\ TurnTypeOK' /\ HistoryTypeOK'
  BY DEF NotifySpawn, TypeOK, BridgeTypeOK, TurnTypeOK, HistoryTypeOK, bridgeVars, turnVars, history
<1>5. CallOK'
  BY DEF NotifySpawn, CallOK, InTurn, turnVars, SendFrame
<1> QED BY <1>1, <1>2, <1>3, <1>4, <1>5 DEF TypeOK

\* The child is enqueued.
LEMMA AdmitSpawnTyped ==
    ASSUME TypeOK, CallOK, AdmitSpawn
    PROVE  TypeOK' /\ CallOK'
<1>1. QueueTypeOK'
  <2>1. nextPid - 1 \in Pid
    BY SchedulerAssumption DEF AdmitSpawn, CallOK, TypeOK, ProcTypeOK, Pid
  <2> QED BY <2>1, EnqueuedType DEF AdmitSpawn, TypeOK, ProcTypeOK, QueueTypeOK
<1>2. TurnTypeOK'
  BY DEF AdmitSpawn, TypeOK, TurnTypeOK, CallOK
<1>3. CallTypeOK'
  BY DEF AdmitSpawn, TypeOK, CallTypeOK, Phase
<1>4. ProcTypeOK' /\ BridgeTypeOK' /\ HistoryTypeOK'
  BY DEF AdmitSpawn, TypeOK, ProcTypeOK, BridgeTypeOK, HistoryTypeOK, procVars, bridgeVars, history
<1>5. CallOK'
  <2>1. spawns \in Seq(SpawnOpts) /\ spawns # << >> /\ nextPid + Len(spawns) <= MaxPid + 2
    BY DEF AdmitSpawn, CallOK, TypeOK, TurnTypeOK
  <2>2. Len(spawns') = Len(spawns) - 1 /\ Len(spawns) \in Nat /\ nextPid' = nextPid
    BY <2>1 DEF AdmitSpawn, procVars
  <2>3. nextPid' + Len(spawns') <= MaxPid + 1
    BY <2>1, <2>2, SchedulerAssumption DEF TypeOK, ProcTypeOK
  <2> QED BY <2>3 DEF AdmitSpawn, CallOK, InTurn
<1> QED BY <1>1, <1>2, <1>3, <1>4, <1>5 DEF TypeOK

\* tick() returns.
LEMMA TickEndTyped ==
    ASSUME TypeOK, CallOK, TickEnd
    PROVE  TypeOK' /\ CallOK'
<1>1. TurnTypeOK'
  BY SchedulerAssumption DEF TickEnd, TypeOK, TurnTypeOK
<1>2. CallTypeOK'
  BY DEF TickEnd, TypeOK, CallTypeOK, Phase
<1>3. ProcTypeOK' /\ QueueTypeOK' /\ BridgeTypeOK' /\ HistoryTypeOK'
  BY DEF TickEnd, TypeOK, ProcTypeOK, QueueTypeOK, BridgeTypeOK, HistoryTypeOK, procVars, queueVars, bridgeVars, history
<1>4. CallOK'
  BY DEF TickEnd, CallOK, InTurn, procVars
<1> QED BY <1>1, <1>2, <1>3, <1>4 DEF TypeOK

-----------------------------------------------------------------------------
(* terminate_process().                                                    *)

\* tick() terminates the process it ran.
LEMMA StopCurrentTyped ==
    ASSUME TypeOK, CallOK, StopCurrent
    PROVE  TypeOK' /\ CallOK'
<1>0. /\ frames \in Seq(Frame) /\ cur \in Pid /\ stop \in Reason
      /\ Remove(frames, cur, stop)
  BY DEF StopCurrent, CallOK, InTurn, TypeOK, TurnTypeOK, CallTypeOK
<1>1. ProcTypeOK'
  <2> QED BY <1>0, RemoveType
<1>2. QueueTypeOK'
  <2> QED BY <1>0, RemoveType
<1>3. BridgeTypeOK'
  <2> QED BY <1>0, RemoveType
<1>4. HistoryTypeOK'
  <2> QED BY <1>0, RemoveType
<1>5. TurnTypeOK'
  BY SchedulerAssumption DEF StopCurrent, TypeOK, TurnTypeOK
<1>6. CallTypeOK'
  BY <1>0, RemoveType DEF StopCurrent, TypeOK, CallTypeOK, Phase
<1>7. CallOK'
  BY <1>0, RemoveType DEF StopCurrent, CallOK, InTurn, TypeOK
<1> QED BY <1>1, <1>2, <1>3, <1>4, <1>5, <1>6, <1>7 DEF TypeOK

\* terminate_process() by the host.
LEMMA HostTerminateTyped ==
    ASSUME TypeOK, CallOK, NEW p \in Pid, NEW reason \in Reason, HostTerminate(p, reason)
    PROVE  TypeOK' /\ CallOK'
<1>0. /\ frames \in Seq(Frame) /\ p \in Pid /\ reason \in Reason
      /\ Remove(frames, p, reason)
  BY DEF HostTerminate, TypeOK, CallTypeOK
<1>1. ProcTypeOK'
  <2> QED BY <1>0, RemoveType
<1>2. QueueTypeOK'
  <2> QED BY <1>0, RemoveType
<1>3. BridgeTypeOK'
  <2> QED BY <1>0, RemoveType
<1>4. HistoryTypeOK'
  <2> QED BY <1>0, RemoveType
<1>5. TurnTypeOK'
  BY DEF HostTerminate, TypeOK, TurnTypeOK, turnVars
<1>6. CallTypeOK'
  BY <1>0, RemoveType DEF HostTerminate, TypeOK, CallTypeOK, Phase
<1>7. CallOK'
  BY <1>0, RemoveType DEF HostTerminate, CallOK, InTurn, TypeOK, HostCall, turnVars
<1> QED BY <1>1, <1>2, <1>3, <1>4, <1>5, <1>6, <1>7 DEF TypeOK

\* graceful_shutdown() terminates a process.
LEMMA ShutdownTerminateTyped ==
    ASSUME TypeOK, CallOK, NEW p \in Pid, ShutdownTerminate(p)
    PROVE  TypeOK' /\ CallOK'
<1>0. /\ frames \in Seq(Frame) /\ p \in Pid /\ "Shutdown" \in Reason
      /\ Remove(frames, p, "Shutdown")
  BY DEF ShutdownTerminate, TypeOK, CallTypeOK, Reason
<1>1. ProcTypeOK'
  <2> QED BY <1>0, RemoveType
<1>2. QueueTypeOK'
  <2> QED BY <1>0, RemoveType
<1>3. BridgeTypeOK'
  <2> QED BY <1>0, RemoveType
<1>4. HistoryTypeOK'
  <2> QED BY <1>0, RemoveType
<1>5. TurnTypeOK'
  BY DEF ShutdownTerminate, TypeOK, TurnTypeOK, turnVars
<1>6. CallTypeOK'
  BY <1>0, RemoveType DEF ShutdownTerminate, TypeOK, CallTypeOK, Phase
<1>7. CallOK'
  BY <1>0, RemoveType DEF ShutdownTerminate, CallOK, InTurn, TypeOK, turnVars
<1> QED BY <1>1, <1>2, <1>3, <1>4, <1>5, <1>6, <1>7 DEF TypeOK

\* terminate_process() calls itself for a linked process.
LEMMA CascadeTyped ==
    ASSUME TypeOK, CallOK, Cascade
    PROVE  TypeOK' /\ CallOK'
<1>0. /\ Append(Below, [Top EXCEPT !.cascade = Tail(@)]) \in Seq(Frame) /\ Head(Top.cascade) \in Pid /\ Top.reason \in Reason
      /\ Remove(Append(Below, [Top EXCEPT !.cascade = Tail(@)]), Head(Top.cascade), Top.reason)
  <2>1. Top \in Frame /\ Below \in Seq(Frame) /\ Top.cascade \in Seq(Pid) /\ Top.cascade # << >>
    BY TopType DEF Cascade, CallOK, TypeOK, Frame
  <2>2. [Top EXCEPT !.cascade = Tail(@)] \in Frame
    <3>1. Tail(Top.cascade) \in Seq(Pid)
      BY <2>1
    <3> QED BY <2>1, <3>1 DEF Frame
  <2>3. Head(Top.cascade) \in Pid /\ Top.reason \in Reason
    BY <2>1 DEF Frame
  <2> QED BY <2>1, <2>2, <2>3 DEF Cascade
<1>1. ProcTypeOK'
  <2> QED BY <1>0, RemoveType
<1>2. QueueTypeOK'
  <2> QED BY <1>0, RemoveType
<1>3. BridgeTypeOK'
  <2> QED BY <1>0, RemoveType
<1>4. HistoryTypeOK'
  <2> QED BY <1>0, RemoveType
<1>5. TurnTypeOK'
  BY DEF Cascade, TypeOK, TurnTypeOK, turnVars
<1>6. CallTypeOK'
  BY <1>0, RemoveType DEF Cascade, TypeOK, CallTypeOK, Phase
<1>7. CallOK'
  BY <1>0, RemoveType DEF Cascade, CallOK, InTurn, TypeOK, turnVars
<1> QED BY <1>1, <1>2, <1>3, <1>4, <1>5, <1>6, <1>7 DEF TypeOK

\* terminate_process() notifies a linked process.
LEMMA NotifyLinkTyped ==
    ASSUME TypeOK, CallOK, NEW q \in Pid, NotifyLink(q)
    PROVE  TypeOK' /\ CallOK'
<1>0. Top \in Frame /\ Below \in Seq(Frame)
  BY TopType DEF NotifyLink, CallOK, TypeOK
<1>1. ProcTypeOK'
  <2>1. Message("Exit", Top.pid) \in Msg
    BY <1>0, MessageType, SchedulerAssumption DEF MsgKinds, Frame, Pid
  <2>2. CASE DeliverAndWake(q, Message("Exit", Top.pid))
    BY <2>1, <2>2, DeliverType DEF NotifyLink, TypeOK, ProcTypeOK, TerminateFrame
  <2>3. CASE UNCHANGED <<mailbox, timeoutSet, status>>
    BY <2>3 DEF NotifyLink, TypeOK, ProcTypeOK, TerminateFrame
  <2> QED BY <2>2, <2>3 DEF NotifyLink
<1>2. QueueTypeOK'
  <2>1. Message("Exit", Top.pid) \in Msg
    BY <1>0, MessageType, SchedulerAssumption DEF MsgKinds, Frame, Pid
  <2>2. CASE DeliverAndWake(q, Message("Exit", Top.pid))
    BY <2>1, <2>2, DeliverType DEF NotifyLink, TypeOK, QueueTypeOK, TerminateFrame
  <2>3. CASE ~DeliverAndWake(q, Message("Exit", Top.pid))
    <3>1. Enqueued(queues, priority[q], q) \in [Priority -> Seq(Pid)]
      BY EnqueuedType DEF TypeOK, ProcTypeOK, QueueTypeOK
    <3> QED BY <2>3, <3>1 DEF NotifyLink, TypeOK, QueueTypeOK, TerminateFrame
  <2> QED BY <2>2, <2>3
<1>3. CallTypeOK'
  <2>1. [Top EXCEPT !.links = @ \ {q},
                    !.cascade = IF TakenAlong(q) THEN Append(@, q) ELSE @] \in Frame
    <3>1. /\ Top.cascade \in Seq(Pid) /\ Append(Top.cascade, q) \in Seq(Pid)
          /\ Top.links \ {q} \in SUBSET Pid
      BY <1>0 DEF Frame
    <3>2. (IF TakenAlong(q) THEN Append(Top.cascade, q) ELSE Top.cascade) \in Seq(Pid)
      BY <3>1
    <3> QED BY <1>0, <3>1, <3>2 DEF Frame
  <2>2. frames' \in Seq(Frame)
    BY <1>0, <2>1 DEF NotifyLink
  <2> QED BY <2>2 DEF NotifyLink, TypeOK, CallTypeOK, TerminateFrame
<1>4. BridgeTypeOK' /\ TurnTypeOK' /\ HistoryTypeOK'
  BY DEF NotifyLink, TypeOK, BridgeTypeOK, TurnTypeOK, HistoryTypeOK, bridgeVars, turnVars, history, TerminateFrame
<1>5. CallOK'
  BY <1>0 DEF NotifyLink, CallOK, InTurn, turnVars, TerminateFrame, TerminateFrame
<1> QED BY <1>1, <1>2, <1>3, <1>4, <1>5 DEF TypeOK

\* terminate_process() sends a DOWN.
LEMMA NotifyDownTyped ==
    ASSUME TypeOK, CallOK, NEW r \in Ref, NEW q \in Pid, NotifyDown(r, q)
    PROVE  TypeOK' /\ CallOK'
<1>0. Top \in Frame /\ Below \in Seq(Frame)
  BY TopType DEF NotifyDown, CallOK, TypeOK
<1>1. Message("Down", r) \in Msg
  BY MessageType, SchedulerAssumption DEF MsgKinds, Ref
<1>2. ProcTypeOK'
  <2>1. /\ mailbox' \in [Pid -> Seq(Msg)] /\ timeoutSet' \in [Pid -> BOOLEAN]
        /\ status' \in [Pid -> Status]
    BY <1>1, SendKeeps DEF NotifyDown, TypeOK
  <2>2. monitors' \in [Pid -> SUBSET (Ref \X Pid)]
    BY DEF NotifyDown, TypeOK, ProcTypeOK
  <2> QED BY <2>1, <2>2 DEF NotifyDown, TypeOK, ProcTypeOK, TerminateFrame
<1>3. QueueTypeOK'
  <2>1. /\ queues' \in [Priority -> Seq(Pid)] /\ deadLetters' \in Seq(DeadLetterReason)
        /\ outbound' \in Seq(Pid \X Msg)
    BY <1>1, SendKeeps DEF NotifyDown, TypeOK
  <2> QED BY <2>1 DEF NotifyDown, TypeOK, QueueTypeOK, TerminateFrame
<1>4. CallTypeOK'
  <2>1. [Top EXCEPT !.downs = @ \ {<<r, q>>}] \in Frame
    BY <1>0 DEF Frame
  <2>2. frames' \in Seq(Frame)
    BY <1>0, <2>1 DEF NotifyDown
  <2> QED BY <2>2 DEF NotifyDown, TypeOK, CallTypeOK, TerminateFrame
<1>5. HistoryTypeOK'
  BY DEF NotifyDown, TypeOK, HistoryTypeOK, TerminateFrame
<1>6. BridgeTypeOK' /\ TurnTypeOK'
  BY DEF NotifyDown, TypeOK, BridgeTypeOK, TurnTypeOK, bridgeVars, turnVars, TerminateFrame
<1>7. CallOK'
  BY <1>0 DEF NotifyDown, CallOK, InTurn, turnVars, TerminateFrame, TerminateFrame
<1> QED BY <1>2, <1>3, <1>4, <1>5, <1>6, <1>7 DEF TypeOK

\* terminate_process() without exit handlers.
LEMMA NoExitHandlersTyped ==
    ASSUME TypeOK, CallOK, NoExitHandlers
    PROVE  TypeOK' /\ CallOK'
<1>0. Top \in Frame /\ Below \in Seq(Frame)
  BY TopType DEF NoExitHandlers, AtHandlers, CallOK, TypeOK
<1>1. CallTypeOK'
  <2>1. [Top EXCEPT !.told = TRUE] \in Frame
    BY <1>0 DEF Frame
  <2>2. frames' \in Seq(Frame)
    BY <1>0, <2>1 DEF NoExitHandlers
  <2> QED BY <2>2 DEF NoExitHandlers, TypeOK, CallTypeOK
<1>2. ProcTypeOK' /\ QueueTypeOK' /\ BridgeTypeOK' /\ TurnTypeOK' /\ HistoryTypeOK'
  BY DEF NoExitHandlers, TypeOK, ProcTypeOK, QueueTypeOK, BridgeTypeOK, TurnTypeOK, HistoryTypeOK, procVars, queueVars, bridgeVars, turnVars, history
<1>3. CallOK'
  BY <1>0 DEF NoExitHandlers, CallOK, InTurn, turnVars, procVars
<1> QED BY <1>1, <1>2, <1>3 DEF TypeOK

\* terminate_process() submits AgentDestroy and returns.
LEMMA FinishTerminationTyped ==
    ASSUME TypeOK, CallOK, NEW b \in BOOLEAN, FinishTermination(b)
    PROVE  TypeOK' /\ CallOK'
<1>0. Top \in Frame /\ Below \in Seq(Frame)
  BY TopType DEF FinishTermination, CallOK, TypeOK
<1>1. BridgeTypeOK'
  <2>1. Top.pid \in Pid
    BY <1>0 DEF Frame
  <2>2. inFlight' \in [Pid -> 0..MaxInFlight]
    BY <2>1, SubmitType DEF FinishTermination, TypeOK
  <2> DEFINE D == Pid \X (0..DestroyRetries)
  <2>3. pendingDestroys \in Seq(D) /\ <<Top.pid, 0>> \in D
    BY <2>1, SchedulerAssumption DEF TypeOK, BridgeTypeOK
  <2>4. pendingDestroys' \in Seq(D)
    <3> HIDE DEF D
    <3>1. Append(pendingDestroys, <<Top.pid, 0>>) \in Seq(D)
      BY <2>3
    <3> QED BY <2>3, <3>1 DEF FinishTermination
  <2> QED BY <2>2, <2>4 DEF FinishTermination, TypeOK, BridgeTypeOK
<1>2. CallTypeOK'
  BY <1>0 DEF FinishTermination, TypeOK, CallTypeOK, Phase
<1>3. ProcTypeOK' /\ QueueTypeOK' /\ TurnTypeOK' /\ HistoryTypeOK'
  BY DEF FinishTermination, TypeOK, ProcTypeOK, QueueTypeOK, TurnTypeOK, HistoryTypeOK, procVars, queueVars, turnVars, history
<1>4. CallOK'
  BY <1>0 DEF FinishTermination, CallOK, InTurn, turnVars, procVars
<1> QED BY <1>1, <1>2, <1>3, <1>4 DEF TypeOK

-----------------------------------------------------------------------------
(* graceful_shutdown().                                                    *)

\* graceful_shutdown() begins.
LEMMA HostShutdownTyped ==
    ASSUME TypeOK, CallOK, HostShutdown
    PROVE  TypeOK' /\ CallOK'
<1>1. CallTypeOK'
  BY DEF HostShutdown, TypeOK, CallTypeOK, Phase, Live
<1>2. ProcTypeOK' /\ QueueTypeOK' /\ BridgeTypeOK' /\ TurnTypeOK' /\ HistoryTypeOK'
  BY DEF HostShutdown, TypeOK, ProcTypeOK, QueueTypeOK, BridgeTypeOK, TurnTypeOK, HistoryTypeOK, procVars, queueVars, bridgeVars, turnVars, history
<1>3. CallOK'
  BY DEF HostShutdown, CallOK, InTurn, HostCall, turnVars, procVars
<1> QED BY <1>1, <1>2, <1>3 DEF TypeOK

\* graceful_shutdown() has waited for the bridge.
LEMMA BridgeClosedTyped ==
    ASSUME TypeOK, CallOK, BridgeClosed
    PROVE  TypeOK' /\ CallOK'
<1>1. BridgeTypeOK'
  <2>1. inFlight' \in [Pid -> 0..MaxInFlight]
    BY SchedulerAssumption DEF BridgeClosed
  <2>2. responses' \in Seq(Pid) /\ inbox' \in Seq(Pid)
    BY DEF BridgeClosed, TypeOK, BridgeTypeOK
  <2> QED BY <2>1, <2>2 DEF BridgeClosed, TypeOK, BridgeTypeOK
<1>2. CallTypeOK'
  BY DEF BridgeClosed, TypeOK, CallTypeOK, Phase
<1>3. ProcTypeOK' /\ QueueTypeOK' /\ TurnTypeOK' /\ HistoryTypeOK'
  BY DEF BridgeClosed, TypeOK, ProcTypeOK, QueueTypeOK, TurnTypeOK, HistoryTypeOK, procVars, queueVars, turnVars, history
<1>4. CallOK'
  BY DEF BridgeClosed, CallOK, InTurn, turnVars, procVars
<1> QED BY <1>1, <1>2, <1>3, <1>4 DEF TypeOK

\* graceful_shutdown() skips a process that died meanwhile.
LEMMA ShutdownSkipTyped ==
    ASSUME TypeOK, CallOK, NEW p \in Pid, ShutdownSkip(p)
    PROVE  TypeOK' /\ CallOK'
<1>1. CallTypeOK'
  BY DEF ShutdownSkip, TypeOK, CallTypeOK
<1>2. ProcTypeOK' /\ QueueTypeOK' /\ BridgeTypeOK' /\ TurnTypeOK' /\ HistoryTypeOK'
  BY DEF ShutdownSkip, TypeOK, ProcTypeOK, QueueTypeOK, BridgeTypeOK, TurnTypeOK, HistoryTypeOK, procVars, queueVars, bridgeVars, turnVars, history
<1>3. CallOK'
  BY DEF ShutdownSkip, CallOK, InTurn, turnVars, procVars
<1> QED BY <1>1, <1>2, <1>3 DEF TypeOK

\* graceful_shutdown() clears the queues and returns.
LEMMA ShutdownDoneTyped ==
    ASSUME TypeOK, CallOK, ShutdownDone
    PROVE  TypeOK' /\ CallOK'
<1>1. QueueTypeOK'
  BY DEF ShutdownDone, TypeOK, QueueTypeOK, EmptyQueues
<1>2. BridgeTypeOK'
  <2>1. inFlight' \in [Pid -> 0..MaxInFlight]
    BY SchedulerAssumption DEF ShutdownDone
  <2>2. responses' \in Seq(Pid)
    BY DEF ShutdownDone
  <2>3. bridge' \in BOOLEAN
    BY DEF ShutdownDone
  <2> QED BY <2>1, <2>2, <2>3 DEF ShutdownDone, TypeOK, BridgeTypeOK
<1>3. CallTypeOK'
  BY DEF ShutdownDone, TypeOK, CallTypeOK, Phase
<1>4. ProcTypeOK' /\ TurnTypeOK' /\ HistoryTypeOK'
  BY DEF ShutdownDone, TypeOK, ProcTypeOK, TurnTypeOK, HistoryTypeOK, procVars, turnVars, history
<1>5. CallOK'
  BY DEF ShutdownDone, CallOK, InTurn, turnVars, procVars
<1> QED BY <1>1, <1>2, <1>3, <1>4, <1>5 DEF TypeOK

-----------------------------------------------------------------------------
(* Together.                                                               *)

\* AgentScheduler::new.
LEMMA TypedInit == Init => TypeOK /\ CallOK
<1> SUFFICES ASSUME Init PROVE TypeOK /\ CallOK
  OBVIOUS
<1> USE SchedulerAssumption
<1>1. ProcTypeOK
  <2>1. nextPid \in 1..(MaxPid + 1) /\ nextRef \in 1..(MaxRef + 1)
    BY DEF Init
  <2>2. mailbox \in [Pid -> Seq(Msg)]
    BY DEF Init
  <2>3. status \in [Pid -> Status] /\ priority \in [Pid -> Priority]
    BY DEF Init, Status, Priority
  <2> QED BY <2>1, <2>2, <2>3 DEF Init, ProcTypeOK
<1>2. QueueTypeOK
  <2>1. advantage \in 0..NormalAdvantage
    BY NormalAdvantageAssumption DEF Init
  <2>2. queues \in [Priority -> Seq(Pid)]
    BY DEF Init, EmptyQueues
  <2> QED BY <2>1, <2>2 DEF Init, QueueTypeOK
<1>3. BridgeTypeOK
  <2>1. inFlight \in [Pid -> 0..MaxInFlight]
    BY DEF Init
  <2>2. bridge \in BOOLEAN
    BY DEF Init
  <2>3. responses \in Seq(Pid) /\ inbox \in Seq(Pid)
    BY DEF Init
  <2>4. /\ pendingDestroys \in Seq(Pid \X (0..DestroyRetries))
        /\ retrying \in Seq(Pid \X (0..DestroyRetries))
    BY DEF Init
  <2> QED BY <2>1, <2>2, <2>3, <2>4 DEF BridgeTypeOK
<1>4. TurnTypeOK
  <2>1. reductions \in 0..Reductions
    BY DEF Init
  <2>2. sends \in Seq(Pid \X Msg) /\ spawns \in Seq(SpawnOpts)
    BY DEF Init
  <2> QED BY <2>1, <2>2 DEF Init, TurnTypeOK
<1>5. CallTypeOK
  <2>1. frames \in Seq(Frame)
    BY DEF Init
  <2> QED BY <2>1 DEF Init, CallTypeOK, Phase
<1>6. HistoryTypeOK
  BY DEF Init, HistoryTypeOK
<1>7. CallOK
  BY DEF Init, CallOK, InTurn
<1> QED BY <1>1, <1>2, <1>3, <1>4, <1>5, <1>6, <1>7 DEF TypeOK

\* All calls of the embedding program.
LEMMA TypedHostStep ==
    ASSUME TypeOK, CallOK, HostStep
    PROVE  TypeOK' /\ CallOK'
  BY SchedulerAssumption, HostSpawnTyped, HostSendTyped, HostSetReceiveTimeoutTyped,
     HostEnqueueTyped, HostMonitorTyped, HostDemonitorTyped, HostTerminateTyped,
     HostShutdownTyped, DrainOutboundTyped
  DEF HostStep

\* All steps of a call in progress.
LEMMA TypedCallStep ==
    ASSUME TypeOK, CallOK, CallStep
    PROVE  TypeOK' /\ CallOK'
<1>1. CASE \/ DeliverResponse \/ ResponsesDrained \/ RetriesDone \/ TimeoutsFired
           \/ \E b \in BOOLEAN : RetryDestroy(b)
           \/ \E S \in SUBSET Pid : CollectTimeouts(S)
           \/ \E p \in Pid : FireTimeout(p)
  BY <1>1, DeliverResponseTyped, ResponsesDrainedTyped, RetriesDoneTyped,
     TimeoutsFiredTyped, RetryDestroyTyped, CollectTimeoutsTyped, FireTimeoutTyped
<1>2. CASE \/ SelectRunnable \/ SkipStaleEntry \/ NothingToRun
           \/ OutOfReductions \/ MailboxEmpty \/ HandleContinue
           \/ \E p \in Pid : HandleSend(p)
           \/ \E k \in {"Stop", "Panic"}, reason \in Reasons : HandleStop(k, reason)
           \/ \E b \in BOOLEAN : HandleIo(b)
           \/ \E l, m \in BOOLEAN : HandleSpawn(l, m)
  BY <1>2, SchedulerAssumption, SelectRunnableTyped, SkipStaleEntryTyped,
     NothingToRunTyped, OutOfReductionsTyped, MailboxEmptyTyped, HandleContinueTyped,
     HandleSendTyped, HandleStopTyped, HandleIoTyped, HandleSpawnTyped
<1>3. CASE \/ FlushSend \/ FlushSpawnRefused \/ FlushSpawn \/ NotifySpawn
           \/ AdmitSpawn \/ TickEnd \/ StopCurrent
  BY <1>3, FlushSendTyped, FlushSpawnRefusedTyped, FlushSpawnTyped, NotifySpawnTyped,
     AdmitSpawnTyped, TickEndTyped, StopCurrentTyped
<1>4. CASE \/ \E q \in Pid : NotifyLink(q)
           \/ \E r \in Ref, q \in Pid : NotifyDown(r, q)
           \/ Cascade
           \/ \E b \in BOOLEAN : FinishTermination(b)
  BY <1>4, NotifyLinkTyped, NotifyDownTyped, CascadeTyped, FinishTerminationTyped
<1>5. CASE \/ BridgeClosed \/ ShutdownDone
           \/ \E p \in Pid : ShutdownTerminate(p) \/ ShutdownSkip(p)
  BY <1>5, BridgeClosedTyped, ShutdownDoneTyped, ShutdownTerminateTyped,
     ShutdownSkipTyped
<1> QED BY <1>1, <1>2, <1>3, <1>4, <1>5 DEF CallStep

\* Steps of others.
LEMMA TypedStutter ==
    ASSUME TypeOK, CallOK, UNCHANGED vars
    PROVE  TypeOK' /\ CallOK'
<1> USE DEF vars, procVars, queueVars, bridgeVars, turnVars, callVars, history
<1>1. ProcTypeOK' /\ QueueTypeOK' /\ BridgeTypeOK'
  BY DEF TypeOK, ProcTypeOK, QueueTypeOK, BridgeTypeOK
<1>2. TurnTypeOK' /\ CallTypeOK' /\ HistoryTypeOK'
  BY DEF TypeOK, TurnTypeOK, CallTypeOK, HistoryTypeOK
<1>3. CallOK'
  BY DEF CallOK, InTurn
<1> QED BY <1>1, <1>2, <1>3 DEF TypeOK

(***************************************************************************)
(* TypeOK with CallOK is inductive: a turn always has its process, the     *)
(* PIDs it was promised are still free, a termination in progress has a    *)
(* frame to return to (scheduler.rs tick, terminate_process).              *)
(***************************************************************************)
THEOREM TypeCorrect == Spec => [](TypeOK /\ CallOK)
<1>1. TypeOK /\ CallOK /\ [Next]_vars => (TypeOK /\ CallOK)'
  BY TypedHostStep, TypedCallStep, TypedStutter, TickBeginTyped, NoExitHandlersTyped,
     RespondTyped
  DEF Next, BridgeStep
<1> QED BY <1>1, TypedInit, PTL DEF Spec

-----------------------------------------------------------------------------
(* Room for the wake-up.                                                   *)

Room == MailboxBounded /\ WaitingHasRoom

\* Steps that touch neither a mailbox nor a status.
LEMMA RoomKept ==
    ASSUME Room, UNCHANGED <<mailbox, status>>
    PROVE  Room'
  BY DEF Room, MailboxBounded, WaitingHasRoom, HasRoom

\* A delivery wakes its receiver and fits into its mailbox.
LEMMA RoomDeliver ==
    ASSUME ProcTypeOK, Room, NEW p \in Pid, NEW m, HasRoom(p), DeliverAndWake(p, m)
    PROVE  Room'
<1>1. Len(mailbox[p]) \in Nat /\ mailbox \in [Pid -> Seq(Msg)] /\ status \in [Pid -> Status]
  BY DEF ProcTypeOK
<1>2. Len(mailbox'[p]) = Len(mailbox[p]) + 1 /\ \A q \in Pid \ {p} : mailbox'[q] = mailbox[q]
  BY <1>1 DEF DeliverAndWake
<1>3. status'[p] # "Waiting" /\ \A q \in Pid \ {p} : status'[q] = status[q]
  BY <1>1 DEF DeliverAndWake
<1>4. Len(mailbox[p]) + 1 <= Capacity
  BY <1>1, SchedulerAssumption DEF HasRoom
<1> QED BY <1>2, <1>3, <1>4 DEF Room, MailboxBounded, WaitingHasRoom, HasRoom

\* Every outcome of send().
LEMMA RoomSend ==
    ASSUME ProcTypeOK, Room, NEW p \in Pid, NEW m, Send(p, m)
    PROVE  Room'
  BY RoomDeliver, RoomKept DEF Send

\* A callback takes a message first: what it leaves has room, and so has the
\* error message of a refused I/O request.
LEMMA RoomConsumed ==
    ASSUME ProcTypeOK, Room, cur \in Pid, NEW rest \in Seq(Msg),
           Len(rest) <= Len(mailbox[cur]),
           mailbox' = [mailbox EXCEPT ![cur] = rest],
           \/ status' = status
           \/ status' = [status EXCEPT ![cur] = "Waiting"] /\ Len(rest) < Len(mailbox[cur])
    PROVE  Room'
<1>1. Len(mailbox[cur]) \in Nat /\ Len(rest) \in Nat
  BY DEF ProcTypeOK
<1>2. mailbox'[cur] = rest /\ \A q \in Pid \ {cur} : mailbox'[q] = mailbox[q]
  BY DEF ProcTypeOK
<1>3. \A q \in Pid \ {cur} : status'[q] = status[q]
  BY DEF ProcTypeOK
<1>4. Len(mailbox[cur]) <= Capacity
  BY DEF Room, MailboxBounded
<1>5. status'[cur] = "Waiting" => Len(rest) < Capacity
  BY <1>1, <1>4, SchedulerAssumption DEF Room, WaitingHasRoom, HasRoom
<1> QED
  BY <1>1, <1>2, <1>3, <1>4, <1>5, SchedulerAssumption
  DEF Room, MailboxBounded, WaitingHasRoom, HasRoom

\* What is left after next_message().
LEMMA ConsumedShorter ==
    ASSUME TypeOK, CallOK, NEW kind, NEW k, Handle(kind, k)
    PROVE  /\ cur \in Pid /\ Tail(mailbox[cur]) \in Seq(Msg)
           /\ Len(Tail(mailbox[cur])) = Len(mailbox[cur]) - 1
           /\ Len(mailbox[cur]) \in Nat
  BY DEF Handle, CallOK, InTurn, TypeOK, ProcTypeOK

\* terminate_process() removes a process with its mailbox.
LEMMA RoomRemove ==
    ASSUME ProcTypeOK, Room, NEW fs, NEW p \in Pid, NEW reason, Remove(fs, p, reason)
    PROVE  Room'
<1>1. mailbox'[p] = << >> /\ \A q \in Pid \ {p} : mailbox'[q] = mailbox[q]
  BY DEF Remove, ProcTypeOK
<1>2. status'[p] = "Absent" /\ \A q \in Pid \ {p} : status'[q] = status[q]
  BY DEF Remove, ProcTypeOK
<1> QED BY <1>1, <1>2, SchedulerAssumption DEF Room, MailboxBounded, WaitingHasRoom, HasRoom

\* A new process does not sleep.
LEMMA RoomNewProcess ==
    ASSUME ProcTypeOK, Room, NEW c, NEW t, NewProcess(c, t), UNCHANGED mailbox
    PROVE  Room'
<1>1. \A q \in Pid : status'[q] = "Waiting" => status[q] = "Waiting"
  BY DEF NewProcess, ProcTypeOK
<1> QED BY <1>1 DEF Room, MailboxBounded, WaitingHasRoom, HasRoom

\* The steps of a turn that take messages or put the process to sleep.
LEMMA RoomTurn ==
    ASSUME TypeOK, CallOK, Room,
           \/ MailboxEmpty \/ HandleContinue
           \/ \E p \in Pid : HandleSend(p)
           \/ \E k \in {"Stop", "Panic"}, reason \in Reasons : HandleStop(k, reason)
           \/ \E b \in BOOLEAN : HandleIo(b)
           \/ \E l, m \in BOOLEAN : HandleSpawn(l, m)
    PROVE  Room'
<1>1. CASE MailboxEmpty
  <2>1. cur \in Pid /\ status'[cur] = "Waiting" /\ \A q \in Pid \ {cur} : status'[q] = status[q]
    BY <1>1 DEF MailboxEmpty, CallOK, InTurn, TypeOK, ProcTypeOK
  <2> QED
    BY <1>1, <2>1, SchedulerAssumption
    DEF MailboxEmpty, Room, MailboxBounded, WaitingHasRoom, HasRoom
<1>2. CASE \/ HandleContinue
           \/ \E p \in Pid : HandleSend(p)
           \/ \E k \in {"Stop", "Panic"}, reason \in Reasons : HandleStop(k, reason)
           \/ \E l, m \in BOOLEAN : HandleSpawn(l, m)
  <2>1. PICK kind, k : Handle(kind, k)
    BY <1>2 DEF HandleContinue, HandleSend, HandleStop, HandleSpawn
  <2>2. mailbox' = [mailbox EXCEPT ![cur] = Tail(mailbox[cur])] /\ status' = status
    BY <1>2 DEF HandleContinue, HandleSend, HandleStop, HandleSpawn, Consumed
  <2>3. /\ cur \in Pid /\ Tail(mailbox[cur]) \in Seq(Msg)
        /\ Len(Tail(mailbox[cur])) <= Len(mailbox[cur])
    BY <2>1, ConsumedShorter
  <2> QED BY <2>2, <2>3, RoomConsumed DEF TypeOK
<1>3. ASSUME NEW b \in BOOLEAN, HandleIo(b) PROVE Room'
  <2>1. Handle("Io", 2)
    BY <1>3 DEF HandleIo
  <2>2. /\ cur \in Pid /\ Tail(mailbox[cur]) \in Seq(Msg) /\ Len(mailbox[cur]) \in Nat
        /\ Len(Tail(mailbox[cur])) = Len(mailbox[cur]) - 1
    BY <2>1, ConsumedShorter
  <2>3. CASE b
    <3>1. mailbox' = [mailbox EXCEPT ![cur] = Tail(mailbox[cur])]
          /\ status' = [status EXCEPT ![cur] = "Waiting"]
      BY <1>3, <2>3 DEF HandleIo, Consumed
    <3>2. Len(Tail(mailbox[cur])) < Len(mailbox[cur]) /\ Len(Tail(mailbox[cur])) <= Len(mailbox[cur])
      BY <2>2
    <3> QED BY <2>2, <3>1, <3>2, RoomConsumed DEF TypeOK
  <2>4. CASE ~b
    <3> DEFINE rest == Append(Tail(mailbox[cur]), Message("IoError", 0))
    <3>1. mailbox' = [mailbox EXCEPT ![cur] = rest] /\ status' = status
      BY <1>3, <2>4 DEF HandleIo
    <3>2. Message("IoError", 0) \in Msg
      BY MessageType DEF MsgKinds
    <3>3. rest \in Seq(Msg) /\ Len(rest) <= Len(mailbox[cur])
      BY <2>2, <3>2
    <3> HIDE DEF rest
    <3> QED BY <2>2, <3>1, <3>3, RoomConsumed DEF TypeOK
  <2> QED BY <2>3, <2>4
<1> QED BY <1>1, <1>2, <1>3

\* Everything the actions call send() with names a process.
LEMMA RoomSends ==
    ASSUME TypeOK, CallOK, Room,
           \/ \E p \in Pid : HostSend(p)
           \/ DeliverResponse
           \/ \E p \in Pid : FireTimeout(p)
           \/ FlushSend
           \/ NotifySpawn
           \/ \E r \in Ref, q \in Pid : NotifyDown(r, q)
    PROVE  Room'
<1>1. ProcTypeOK
  BY DEF TypeOK
<1>2. CASE \/ \E p \in Pid : HostSend(p)
           \/ \E p \in Pid : FireTimeout(p)
           \/ \E r \in Ref, q \in Pid : NotifyDown(r, q)
  BY <1>1, <1>2, RoomSend DEF HostSend, FireTimeout, NotifyDown
<1>3. CASE DeliverResponse
  <2>1. Head(inbox) \in Pid
    BY <1>3 DEF DeliverResponse, TypeOK, BridgeTypeOK
  <2> QED BY <1>1, <1>3, <2>1, RoomSend DEF DeliverResponse
<1>4. CASE FlushSend
  <2> DEFINE D == Pid \X Msg
  <2>1. sends \in Seq(D) /\ sends # << >>
    BY <1>4 DEF FlushSend, TypeOK, TurnTypeOK
  <2>2. Head(sends) \in D
    <3> HIDE DEF D
    <3> QED BY <2>1
  <2>3. Head(sends)[1] \in Pid
    BY <2>2
  <2> QED BY <1>1, <1>4, <2>3, RoomSend DEF FlushSend
<1>5. CASE NotifySpawn
  <2>1. cur \in Pid
    BY <1>5 DEF NotifySpawn, CallOK, InTurn
  <2> QED BY <1>1, <1>5, <2>1, RoomSend DEF NotifySpawn
<1> QED BY <1>2, <1>3, <1>4, <1>5

\* Every process a call of terminate_process() names is one.
LEMMA RoomRemovals ==
    ASSUME TypeOK, CallOK, Room,
           \/ StopCurrent \/ Cascade
           \/ \E p \in Pid, reason \in Reasons : HostTerminate(p, reason)
           \/ \E p \in Pid : ShutdownTerminate(p)
    PROVE  Room'
<1>1. ProcTypeOK
  BY DEF TypeOK
<1>2. CASE StopCurrent
  <2>1. cur \in Pid
    BY <1>2 DEF StopCurrent, CallOK, InTurn
  <2> QED BY <1>1, <1>2, <2>1, RoomRemove DEF StopCurrent
<1>3. CASE Cascade
  <2>1. Head(Top.cascade) \in Pid
    <3>1. Top.cascade \in Seq(Pid) /\ Top.cascade # << >>
      BY <1>3, TopType DEF Cascade, CallOK, TypeOK, Frame
    <3> QED BY <3>1
  <2> QED BY <1>1, <1>3, <2>1, RoomRemove DEF Cascade
<1>4. CASE \/ \E p \in Pid, reason \in Reasons : HostTerminate(p, reason)
           \/ \E p \in Pid : ShutdownTerminate(p)
  BY <1>1, <1>4, RoomRemove DEF HostTerminate, ShutdownTerminate
<1> QED BY <1>2, <1>3, <1>4

\* An Exit message is delivered only where there is room.
LEMMA RoomLink ==
    ASSUME TypeOK, Room, NEW q \in Pid, NotifyLink(q)
    PROVE  Room'
<1>1. ProcTypeOK
  BY DEF TypeOK
<1>2. CASE HasRoom(q) /\ DeliverAndWake(q, Message("Exit", Top.pid))
  BY <1>1, <1>2, RoomDeliver
<1>3. CASE UNCHANGED <<mailbox, status>>
  BY <1>3, RoomKept
<1> QED BY <1>2, <1>3 DEF NotifyLink

\* No step of the scheduler, of the bridge or of its host takes a sleeper's
\* room away.
LEMMA RoomNext ==
    ASSUME TypeOK, CallOK, Room, Next
    PROVE  Room'
<1> USE DEF procVars
<1>1. CASE HostStep
  <2>1. CASE \E c \in HostPriorities, trap \in HostTraps : HostSpawn(c, trap)
    BY <2>1, RoomNewProcess DEF HostSpawn, TypeOK
  <2>2. CASE \E p \in Pid : HostSend(p)
    BY <2>2, RoomSends
  <2>3. CASE \E p \in Pid, reason \in Reasons : HostTerminate(p, reason)
    BY <2>3, RoomRemovals
  <2>4. CASE UNCHANGED <<mailbox, status>>
    BY <2>4, RoomKept
  <2> QED
    BY <1>1, <2>1, <2>2, <2>3, <2>4
    DEF HostStep, HostSetReceiveTimeout, HostEnqueue, HostMonitor, HostDemonitor,
        HostShutdown, DrainOutbound
<1>2. CASE CallStep
  <2>1. CASE \/ DeliverResponse \/ FlushSend \/ NotifySpawn
             \/ \E p \in Pid : FireTimeout(p)
             \/ \E r \in Ref, q \in Pid : NotifyDown(r, q)
    BY <2>1, RoomSends
  <2>2. CASE \/ MailboxEmpty \/ HandleContinue
             \/ \E p \in Pid : HandleSend(p)
             \/ \E k \in {"Stop", "Panic"}, reason \in Reasons : HandleStop(k, reason)
             \/ \E b \in BOOLEAN : HandleIo(b)
             \/ \E l, m \in BOOLEAN : HandleSpawn(l, m)
    BY <2>2, RoomTurn
  <2>3. CASE StopCurrent \/ Cascade \/ \E p \in Pid : ShutdownTerminate(p)
    BY <2>3, RoomRemovals
  <2>4. CASE FlushSpawn
    BY <2>4, RoomNewProcess DEF FlushSpawn, TypeOK
  <2>5. CASE \E q \in Pid : NotifyLink(q)
    BY <2>5, RoomLink
  <2>6. CASE \/ ResponsesDrained \/ RetriesDone \/ TimeoutsFired
             \/ \E b \in BOOLEAN : RetryDestroy(b)
             \/ \E S \in SUBSET Pid : CollectTimeouts(S)
             \/ SelectRunnable \/ SkipStaleEntry \/ NothingToRun \/ OutOfReductions
             \/ FlushSpawnRefused \/ AdmitSpawn \/ TickEnd
             \/ \E b \in BOOLEAN : FinishTermination(b)
             \/ BridgeClosed \/ ShutdownDone
             \/ \E p \in Pid : ShutdownSkip(p)
    <3>1. UNCHANGED <<mailbox, status>>
      BY <2>6
      DEF ResponsesDrained, RetriesDone, TimeoutsFired, RetryDestroy, CollectTimeouts,
          SelectRunnable, SkipStaleEntry, NothingToRun, OutOfReductions,
          FlushSpawnRefused, AdmitSpawn, TickEnd, FinishTermination, BridgeClosed,
          ShutdownDone, ShutdownSkip
    <3> QED BY <3>1, RoomKept
  <2> QED BY <1>2, <2>1, <2>2, <2>3, <2>4, <2>5, <2>6 DEF CallStep
<1>3. CASE TickBegin \/ NoExitHandlers \/ BridgeStep
  BY <1>3, RoomKept DEF TickBegin, NoExitHandlers, BridgeStep, Respond
<1> QED BY <1>1, <1>2, <1>3 DEF Next

(***************************************************************************)
(* A sleeping process always has room for the message that wakes it, for   *)
(* every mailbox capacity: it got to sleep by consuming a message or by    *)
(* finding its mailbox empty, and everything delivered since woke it       *)
(* (scheduler.rs tick, process.rs deliver_message).                        *)
(***************************************************************************)
THEOREM SleepersHaveRoom == Spec => []WaitingHasRoom
<1>1. Init => Room
  BY SchedulerAssumption DEF Init, Room, MailboxBounded, WaitingHasRoom, HasRoom
<1>2. TypeOK /\ CallOK /\ Room /\ [Next]_vars => Room'
  BY RoomNext, RoomKept DEF vars, procVars
<1>3. Room => WaitingHasRoom
  BY DEF Room
<1> QED BY <1>1, <1>2, <1>3, TypeCorrect, PTL DEF Spec

-----------------------------------------------------------------------------
(* An entry for every Runnable process: the ready queues.                  *)

\* enqueue() adds an entry and removes none.
LEMMA EnqueuedEntries ==
    ASSUME NEW qs \in [Priority -> Seq(Pid)], NEW c \in Priority, NEW p \in Pid
    PROVE  /\ InQueues(Enqueued(qs, c, p), p)
           /\ \A q \in Pid : InQueues(qs, q) => InQueues(Enqueued(qs, c, p), q)
<1> DEFINE new == Enqueued(qs, c, p)
<1>1. /\ qs[c] \in Seq(Pid) /\ Len(qs[c]) \in Nat
      /\ Len(new[c]) = Len(qs[c]) + 1 /\ new[c][Len(qs[c]) + 1] = p
      /\ \A i \in 1..Len(qs[c]) : new[c][i] = qs[c][i]
  BY DEF Enqueued
<1>2. \A d \in Priority \ {c} : new[d] = qs[d]
  BY DEF Enqueued
<1> HIDE DEF new
<1>3. InQueues(new, p)
  <2>1. Len(qs[c]) + 1 \in 1..Len(new[c])
    BY <1>1
  <2> QED BY <1>1, <2>1 DEF InQueues
<1>4. ASSUME NEW q \in Pid, InQueues(qs, q) PROVE InQueues(new, q)
  <2>1. PICK d \in Priority : \E i \in 1..Len(qs[d]) : qs[d][i] = q
    BY <1>4 DEF InQueues
  <2>2. PICK i \in 1..Len(qs[d]) : qs[d][i] = q
    BY <2>1
  <2>3. i \in 1..Len(new[d]) /\ new[d][i] = q
    BY <1>1, <1>2, <2>2, SMTT(30)
  <2> QED BY <2>3 DEF InQueues
<1> QED BY <1>3, <1>4 DEF new

\* next_runnable() removes one entry, of the process it returns.
LEMMA PoppedEntries ==
    ASSUME NEW qs \in [Priority -> Seq(Pid)], NEW c \in Priority, qs[c] # << >>,
           NEW q \in Pid, q # Head(qs[c]), InQueues(qs, q)
    PROVE  InQueues(Popped(qs, c), q)
<1> DEFINE new == Popped(qs, c)
<1>1. /\ qs[c] \in Seq(Pid) /\ Len(qs[c]) \in Nat \ {0} /\ Head(qs[c]) = qs[c][1]
      /\ Len(new[c]) = Len(qs[c]) - 1
      /\ \A i \in 1..(Len(qs[c]) - 1) : new[c][i] = qs[c][i + 1]
  BY DEF Popped
<1>2. \A d \in Priority \ {c} : new[d] = qs[d]
  BY DEF Popped
<1> HIDE DEF new
<1>3. PICK d \in Priority : \E i \in 1..Len(qs[d]) : qs[d][i] = q
  BY DEF InQueues
<1>4. PICK i \in 1..Len(qs[d]) : qs[d][i] = q
  BY <1>3
<1>5. CASE d = c
  <2>1. i # 1
    BY <1>1, <1>4, <1>5
  <2>2. i - 1 \in 1..Len(new[c]) /\ new[c][i - 1] = q
    BY <1>1, <1>4, <1>5, <2>1
  <2>3. InQueues(new, q)
    BY <2>2 DEF InQueues
  <2> QED BY <2>3 DEF new
<1>6. CASE d # c
  <2>1. new[d] = qs[d]
    BY <1>2, <1>6
  <2>2. InQueues(new, q)
    BY <1>3, <2>1 DEF InQueues
  <2> QED BY <2>2 DEF new
<1> QED BY <1>5, <1>6

-----------------------------------------------------------------------------
(* An entry for every Runnable process: the steps.                         *)

\* What has to be shown of a step, process by process.
LEMMA QueuedStep ==
    ASSUME RunnableIsQueued,
           \A p \in Pid :
             status'[p] = "Runnable" =>
               \/ InQueues(queues', p)
               \/ Excused(p)'
               \/ /\ status[p] = "Runnable" /\ ~Excused(p)
                  /\ InQueues(queues, p) => InQueues(queues', p)
    PROVE  RunnableIsQueued'
  BY DEF RunnableIsQueued

\* Steps that leave the processes and the queues alone and end no excuse.
LEMMA QueuedKept ==
    ASSUME RunnableIsQueued, UNCHANGED <<status, queues>>,
           \A p \in Pid : Excused(p) => Excused(p)'
    PROVE  RunnableIsQueued'
  BY DEF RunnableIsQueued

\* Outside a turn nobody is excused.
LEMMA NoExcuse ==
    ASSUME CallOK, ~InTurn
    PROVE  \A p \in Pid : ~Excused(p)
  BY DEF CallOK, InTurn, Excused

\* Delivery: whoever wakes up gets its entry.
LEMMA QueuedDeliver ==
    ASSUME ProcTypeOK, QueueTypeOK, RunnableIsQueued, NEW p \in Pid, NEW m,
           DeliverAndWake(p, m), \A q \in Pid : Excused(q) => Excused(q)'
    PROVE  RunnableIsQueued'
<1>1. CASE status[p] = "Waiting"
  <2>1. /\ queues' = Enqueued(queues, priority[p], p)
        /\ \A q \in Pid \ {p} : status'[q] = status[q]
    BY <1>1 DEF DeliverAndWake, ProcTypeOK
  <2>2. queues \in [Priority -> Seq(Pid)] /\ priority[p] \in Priority
    BY DEF ProcTypeOK, QueueTypeOK
  <2>3. InQueues(queues', p) /\ \A q \in Pid : InQueues(queues, q) => InQueues(queues', q)
    BY <2>1, <2>2, EnqueuedEntries
  <2> QED BY <2>1, <2>3 DEF RunnableIsQueued
<1>2. CASE status[p] # "Waiting"
  BY <1>2, QueuedKept DEF DeliverAndWake
<1> QED BY <1>1, <1>2

\* send(): whoever it wakes up gets its entry.
LEMMA QueuedSend ==
    ASSUME ProcTypeOK, QueueTypeOK, RunnableIsQueued, NEW p \in Pid, NEW m,
           Send(p, m), \A q \in Pid : Excused(q) => Excused(q)'
    PROVE  RunnableIsQueued'
  BY QueuedDeliver, QueuedKept DEF Send

\* A process that leaves the registry needs no entry.
LEMMA QueuedRemove ==
    ASSUME ProcTypeOK, RunnableIsQueued, NEW fs, NEW p \in Pid, NEW reason,
           Remove(fs, p, reason), \A q \in Pid \ {p} : ~Excused(q)
    PROVE  RunnableIsQueued'
<1>1. /\ status'[p] # "Runnable" /\ \A q \in Pid \ {p} : status'[q] = status[q]
      /\ queues' = queues
  BY DEF Remove, ProcTypeOK, queueVars
<1> QED BY <1>1 DEF RunnableIsQueued

\* The actions that call send().
LEMMA QueuedSends ==
    ASSUME TypeOK, CallOK, RunnableIsQueued,
           \/ \E p \in Pid : HostSend(p)
           \/ DeliverResponse
           \/ \E p \in Pid : FireTimeout(p)
           \/ FlushSend
           \/ NotifySpawn
           \/ \E r \in Ref, q \in Pid : NotifyDown(r, q)
    PROVE  RunnableIsQueued'
<1> USE DEF SendFrame, TerminateFrame, turnVars, callVars
<1>1. ProcTypeOK /\ QueueTypeOK
  BY DEF TypeOK
<1>2. CASE \E p \in Pid : HostSend(p)
  <2>1. \A q \in Pid : Excused(q) => Excused(q)'
    BY <1>2 DEF HostSend, Excused
  <2> QED BY <1>1, <1>2, <2>1, QueuedSend DEF HostSend
<1>3. CASE DeliverResponse
  <2>1. Head(inbox) \in Pid
    BY <1>3 DEF DeliverResponse, TypeOK, BridgeTypeOK
  <2>2. \A q \in Pid : Excused(q) => Excused(q)'
    BY <1>3 DEF DeliverResponse, Excused
  <2> QED BY <1>1, <1>3, <2>1, <2>2, QueuedSend DEF DeliverResponse
<1>4. CASE \E p \in Pid : FireTimeout(p)
  <2>1. \A q \in Pid : Excused(q) => Excused(q)'
    BY <1>4 DEF FireTimeout, Excused
  <2> QED BY <1>1, <1>4, <2>1, QueuedSend DEF FireTimeout
<1>5. CASE FlushSend
  <2> DEFINE D == Pid \X Msg
  <2>1. sends \in Seq(D) /\ sends # << >>
    BY <1>5 DEF FlushSend, TypeOK, TurnTypeOK
  <2>2. Head(sends) \in D
    <3> HIDE DEF D
    <3> QED BY <2>1
  <2>3. Head(sends)[1] \in Pid
    BY <2>2
  <2>4. \A q \in Pid : Excused(q) => Excused(q)'
    BY <1>5 DEF FlushSend, Excused
  <2> QED BY <1>1, <1>5, <2>3, <2>4, QueuedSend DEF FlushSend
<1>6. CASE NotifySpawn
  <2>1. cur \in Pid
    BY <1>6 DEF NotifySpawn, CallOK, InTurn
  <2>2. \A q \in Pid : Excused(q) => Excused(q)'
    BY <1>6 DEF NotifySpawn, Excused
  <2> QED BY <1>1, <1>6, <2>1, <2>2, QueuedSend DEF NotifySpawn
<1>7. CASE \E r \in Ref, q \in Pid : NotifyDown(r, q)
  <2>1. \A q \in Pid : Excused(q) => Excused(q)'
    BY <1>7 DEF NotifyDown, Excused
  <2> QED BY <1>1, <1>7, <2>1, QueuedSend DEF NotifyDown
<1> QED BY <1>2, <1>3, <1>4, <1>5, <1>6, <1>7

\* The actions that start a termination: only a stopping process was excused.
LEMMA QueuedRemovals ==
    ASSUME TypeOK, CallOK, RunnableIsQueued,
           \/ StopCurrent \/ Cascade
           \/ \E p \in Pid, reason \in Reasons : HostTerminate(p, reason)
           \/ \E p \in Pid : ShutdownTerminate(p)
    PROVE  RunnableIsQueued'
<1>1. ProcTypeOK
  BY DEF TypeOK
<1>2. CASE StopCurrent
  <2>1. cur \in Pid /\ \A q \in Pid \ {cur} : ~Excused(q)
    BY <1>2 DEF StopCurrent, CallOK, InTurn, Excused
  <2> QED BY <1>1, <1>2, <2>1, QueuedRemove DEF StopCurrent
<1>3. CASE Cascade
  <2>1. Head(Top.cascade) \in Pid
    <3>1. Top.cascade \in Seq(Pid) /\ Top.cascade # << >>
      BY <1>3, TopType DEF Cascade, CallOK, TypeOK, Frame
    <3> QED BY <3>1
  <2>2. \A q \in Pid : ~Excused(q)
    BY <1>3, NoExcuse DEF Cascade, InTurn
  <2> QED BY <1>1, <1>3, <2>1, <2>2, QueuedRemove DEF Cascade
<1>4. CASE \/ \E p \in Pid, reason \in Reasons : HostTerminate(p, reason)
           \/ \E p \in Pid : ShutdownTerminate(p)
  <2>1. \A q \in Pid : ~Excused(q)
    BY <1>4, NoExcuse DEF HostTerminate, HostCall, ShutdownTerminate, InTurn
  <2> QED BY <1>1, <1>4, <2>1, QueuedRemove DEF HostTerminate, ShutdownTerminate
<1> QED BY <1>2, <1>3, <1>4

\* A turn begins: the process taken is the one excused.
LEMMA QueuedSelect ==
    ASSUME TypeOK, CallOK, RunnableIsQueued, SelectRunnable \/ SkipStaleEntry
    PROVE  RunnableIsQueued'
<1> DEFINE c == NextClass(queues, advantage)
<1>1. /\ c \in Priority /\ queues[c] # << >> /\ queues \in [Priority -> Seq(Pid)]
      /\ queues' = Popped(queues, c) /\ status' = status
  BY NextClassNonEmpty
  DEF SelectRunnable, SkipStaleEntry, TakeCandidate, TypeOK, QueueTypeOK, procVars
<1>2. Candidate = Head(queues[c])
  BY DEF Candidate
<1> HIDE DEF c
<1>3. \A q \in Pid : q # Candidate /\ InQueues(queues, q) => InQueues(queues', q)
  BY <1>1, <1>2, PoppedEntries
<1>4. \A q \in Pid : ~Excused(q)
  BY NoExcuse DEF SelectRunnable, SkipStaleEntry, InTurn
<1>5. \A q \in Pid : q = Candidate /\ status[q] = "Runnable" => Excused(q)'
  BY DEF SelectRunnable, SkipStaleEntry, Excused
<1> QED BY <1>1, <1>3, <1>4, <1>5 DEF RunnableIsQueued

\* A turn ends: preempted, waiting, stopping or with a refused request.
LEMMA QueuedTurn ==
    ASSUME TypeOK, CallOK, RunnableIsQueued,
           \/ OutOfReductions \/ MailboxEmpty
           \/ \E k \in {"Stop", "Panic"}, reason \in Reasons : HandleStop(k, reason)
           \/ \E b \in BOOLEAN : HandleIo(b)
    PROVE  RunnableIsQueued'
<1>1. /\ cur \in Pid /\ stop = "No" /\ priority[cur] \in Priority
      /\ queues \in [Priority -> Seq(Pid)] /\ status \in [Pid -> Status]
  BY DEF OutOfReductions, MailboxEmpty, HandleStop, HandleIo, Handle, CallOK, InTurn,
         TypeOK, ProcTypeOK, QueueTypeOK
<1>2. \A q \in Pid \ {cur} : ~Excused(q)
  BY <1>1 DEF OutOfReductions, MailboxEmpty, HandleStop, HandleIo, Handle, Excused
<1>3. /\ InQueues(Enqueued(queues, priority[cur], cur), cur)
      /\ \A q \in Pid : InQueues(queues, q)
                        => InQueues(Enqueued(queues, priority[cur], cur), q)
  BY <1>1, EnqueuedEntries
<1>4. CASE queues' = Enqueued(queues, priority[cur], cur) /\ status' = status
  BY <1>2, <1>3, <1>4, QueuedStep
<1>5. CASE queues' = queues /\ status' = [status EXCEPT ![cur] = "Waiting"]
  <2>1. status'[cur] # "Runnable" /\ \A q \in Pid \ {cur} : status'[q] = status[q]
    BY <1>1, <1>5
  <2> QED BY <1>2, <1>5, <2>1, QueuedStep
<1>6. CASE \E k \in {"Stop", "Panic"}, reason \in Reasons : HandleStop(k, reason)
  <2>1. UNCHANGED <<status, queues>> /\ stop' # "No" /\ cur' = cur
    BY <1>6, SchedulerAssumption DEF HandleStop, HandleFrame, Reason
  <2>2. Excused(cur)'
    BY <2>1 DEF Excused
  <2> QED BY <1>2, <2>1, <2>2, QueuedStep
<1> QED
  BY <1>4, <1>5, <1>6 DEF OutOfReductions, MailboxEmpty, HandleIo, procVars, queueVars

\* The processes a step spawns, and their admission.
LEMMA QueuedSpawns ==
    ASSUME TypeOK, CallOK, RunnableIsQueued,
           \/ \E c \in HostPriorities, trap \in HostTraps : HostSpawn(c, trap)
           \/ FlushSpawn \/ AdmitSpawn
    PROVE  RunnableIsQueued'
<1>1. /\ queues \in [Priority -> Seq(Pid)] /\ status \in [Pid -> Status] /\ nextPid \in Nat
      /\ priority \in [Pid -> Priority]
  BY SchedulerAssumption DEF TypeOK, QueueTypeOK, ProcTypeOK
<1>2. ASSUME NEW c \in HostPriorities, NEW trap \in HostTraps, HostSpawn(c, trap)
      PROVE  RunnableIsQueued'
  <2>1. nextPid \in Pid /\ c \in Priority
    BY <1>2, SchedulerAssumption DEF HostSpawn, TypeOK, ProcTypeOK, Pid
  <2>2. /\ InQueues(queues', nextPid)
        /\ \A q \in Pid : InQueues(queues, q) => InQueues(queues', q)
    BY <1>1, <1>2, <2>1, EnqueuedEntries DEF HostSpawn
  <2>3. \A q \in Pid \ {nextPid} : status'[q] = status[q]
    BY <1>1, <1>2 DEF HostSpawn, NewProcess
  <2>4. \A q \in Pid : ~Excused(q)
    BY <1>2, NoExcuse DEF HostSpawn, HostCall, InTurn
  <2> QED BY <2>2, <2>3, <2>4, QueuedStep
<1>3. CASE FlushSpawn
  <2>1. \A q \in Pid \ {nextPid} : status'[q] = status[q] /\ (Excused(q) => Excused(q)')
    BY <1>1, <1>3 DEF FlushSpawn, NewProcess, Excused, turnVars
  <2>2. queues' = queues
    BY <1>3 DEF FlushSpawn, queueVars
  <2>3. ASSUME NEW q \in Pid, status'[q] = "Runnable", ~Excused(q)'
        PROVE  InQueues(queues', q)
    <3>1. nextPid' - 1 = nextPid
      BY <1>1, <1>3 DEF FlushSpawn, NewProcess
    <3>2. q # nextPid
      BY <1>3, <2>3, <3>1 DEF FlushSpawn, Excused
    <3> QED BY <2>1, <2>2, <2>3, <3>2 DEF RunnableIsQueued
  <2> QED BY <2>3 DEF RunnableIsQueued
<1>4. CASE AdmitSpawn
  <2>1. nextPid - 1 \in Pid
    BY <1>4, SchedulerAssumption DEF AdmitSpawn, CallOK, TypeOK, ProcTypeOK, Pid
  <2>2. /\ InQueues(queues', nextPid - 1)
        /\ \A q \in Pid : InQueues(queues, q) => InQueues(queues', q)
    BY <1>1, <1>4, <2>1, EnqueuedEntries DEF AdmitSpawn
  <2>3. status' = status /\ cur' = cur /\ stop' = stop /\ phase = "admit"
    BY <1>4 DEF AdmitSpawn, procVars
  <2>4. \A q \in Pid \ {nextPid - 1} : Excused(q) => Excused(q)'
    BY <2>3 DEF Excused
  <2> QED BY <2>2, <2>3, <2>4 DEF RunnableIsQueued
<1> QED BY <1>2, <1>3, <1>4

\* enqueue() by the host, and the Exit signal of a linked process.
LEMMA QueuedEnqueues ==
    ASSUME TypeOK, CallOK, RunnableIsQueued,
           \E q \in Pid : HostEnqueue(q) \/ NotifyLink(q)
    PROVE  RunnableIsQueued'
<1>1. PICK q \in Pid : HostEnqueue(q) \/ NotifyLink(q)
  OBVIOUS
<1>2. \A p \in Pid : ~Excused(p)
  BY <1>1, NoExcuse DEF HostEnqueue, HostCall, NotifyLink, InTurn
<1>3. CASE DeliverAndWake(q, Message("Exit", Top.pid))
  BY <1>2, <1>3, QueuedDeliver DEF TypeOK
<1>4. CASE status' = status /\ queues' = Enqueued(queues, priority[q], q)
  <2>1. \A p \in Pid : InQueues(queues, p) => InQueues(queues', p)
    <3>1. queues \in [Priority -> Seq(Pid)] /\ priority[q] \in Priority
      BY DEF TypeOK, ProcTypeOK, QueueTypeOK
    <3> QED BY <1>4, <3>1, EnqueuedEntries
  <2> QED BY <1>2, <1>4, <2>1, QueuedStep
<1>5. CASE UNCHANGED <<status, queues>>
  BY <1>2, <1>5, QueuedKept
<1> QED BY <1>1, <1>3, <1>4, <1>5 DEF HostEnqueue, NotifyLink, procVars

-----------------------------------------------------------------------------
(* graceful_shutdown() has everyone on its list.                           *)

\* A delivery brings nobody to life.
LEMMA SendLive ==
    ASSUME ProcTypeOK, NEW p \in Pid, NEW m, Send(p, m) \/ DeliverAndWake(p, m)
    PROVE  \A q \in Pid : status'[q] # "Absent" => status[q] # "Absent"
<1>1. CASE status' = status
  BY <1>1
<1>2. CASE status[p] = "Waiting" /\ status' = [status EXCEPT ![p] = "Runnable"]
  BY <1>2 DEF ProcTypeOK
<1> QED BY <1>1, <1>2 DEF Send, DeliverAndWake

\* A removal brings nobody to life either.
LEMMA RemoveLive ==
    ASSUME ProcTypeOK, NEW fs, NEW p \in Pid, NEW reason, Remove(fs, p, reason)
    PROVE  /\ \A q \in Pid : status'[q] # "Absent" => status[q] # "Absent" /\ q # p
           /\ phase' = "exit"
  BY DEF Remove, ProcTypeOK

\* The list still covers everyone if nobody came to life.
LEMMA ListKept ==
    ASSUME ShutdownOK, UNCHANGED <<phase, todo, shutting>>,
           \A q \in Pid : status'[q] # "Absent" => status[q] # "Absent"
    PROVE  ShutdownOK'
  BY DEF ShutdownOK, Live

\* Every step that calls or continues graceful_shutdown() or
\* terminate_process() keeps the list complete.
LEMMA ListTermination ==
    ASSUME TypeOK, CallOK, ShutdownOK,
           \/ HostShutdown \/ BridgeClosed \/ ResponsesDrained \/ ShutdownDone
           \/ \E p \in Pid : ShutdownTerminate(p) \/ ShutdownSkip(p)
           \/ StopCurrent \/ Cascade \/ NoExitHandlers
           \/ \E p \in Pid, reason \in Reasons : HostTerminate(p, reason)
           \/ \E q \in Pid : NotifyLink(q)
           \/ \E r \in Ref, q \in Pid : NotifyDown(r, q)
           \/ \E b \in BOOLEAN : FinishTermination(b)
    PROVE  ShutdownOK'
<1> USE DEF procVars, turnVars, callVars
<1>0. ProcTypeOK
  BY DEF TypeOK
<1>1. CASE HostShutdown \/ BridgeClosed \/ ResponsesDrained \/ ShutdownDone
  <2>1. status' = status
    BY <1>1 DEF HostShutdown, BridgeClosed, ResponsesDrained, ShutdownDone
  <2>2. Live' = Live
    BY <2>1 DEF Live
  <2> QED
    BY <1>1, <2>2
    DEF HostShutdown, HostCall, BridgeClosed, ResponsesDrained, ShutdownDone, ShutdownOK
<1>2. ASSUME NEW p \in Pid, ShutdownTerminate(p) PROVE ShutdownOK'
  <2>1. /\ \A q \in Pid : status'[q] # "Absent" => status[q] # "Absent" /\ q # p
        /\ phase' = "exit"
    BY <1>0, <1>2, RemoveLive DEF ShutdownTerminate
  <2> QED BY <1>2, <2>1 DEF ShutdownTerminate, ShutdownOK, Live
<1>3. ASSUME NEW p \in Pid, ShutdownSkip(p) PROVE ShutdownOK'
  BY <1>3 DEF ShutdownSkip, ShutdownOK, Live
<1>4. CASE StopCurrent
  <2>1. cur \in Pid /\ ~shutting
    BY <1>4 DEF StopCurrent, CallOK, InTurn
  <2>2. phase' = "exit" /\ ~shutting'
    BY <1>0, <1>4, <2>1, RemoveLive DEF StopCurrent
  <2> QED BY <2>2 DEF ShutdownOK
<1>5. CASE Cascade
  <2>1. Head(Top.cascade) \in Pid
    <3>1. Top.cascade \in Seq(Pid) /\ Top.cascade # << >>
      BY <1>5, TopType DEF Cascade, CallOK, TypeOK, Frame
    <3> QED BY <3>1
  <2>2. phase' = "exit" /\ \A q \in Pid : status'[q] # "Absent" => status[q] # "Absent"
    BY <1>0, <1>5, <2>1, RemoveLive DEF Cascade
  <2>3. phase = "exit" /\ shutting' = shutting /\ todo' = todo
    BY <1>5 DEF Cascade
  <2> QED BY <2>2, <2>3, ListKept
<1>6. ASSUME NEW p \in Pid, NEW reason \in Reasons, HostTerminate(p, reason)
      PROVE  ShutdownOK'
  <2>1. phase' = "exit" /\ ~shutting'
    BY <1>0, <1>6, RemoveLive DEF HostTerminate, HostCall, CallOK
  <2> QED BY <2>1 DEF ShutdownOK
<1>7. ASSUME NEW q \in Pid, NotifyLink(q) PROVE ShutdownOK'
  <2>1. \A p \in Pid : status'[p] # "Absent" => status[p] # "Absent"
    <3>1. CASE DeliverAndWake(q, Message("Exit", Top.pid))
      BY <1>0, <3>1, SendLive
    <3>2. CASE status' = status
      BY <3>2
    <3> QED BY <1>7, <3>1, <3>2 DEF NotifyLink
  <2>2. phase' = phase /\ shutting' = shutting /\ todo' = todo
    BY <1>7 DEF NotifyLink, TerminateFrame
  <2> QED BY <2>1, <2>2, ListKept
<1>8. ASSUME NEW r \in Ref, NEW q \in Pid, NotifyDown(r, q) PROVE ShutdownOK'
  <2>1. \A p \in Pid : status'[p] # "Absent" => status[p] # "Absent"
    BY <1>0, <1>8, SendLive DEF NotifyDown
  <2>2. phase' = phase /\ shutting' = shutting /\ todo' = todo
    BY <1>8 DEF NotifyDown, TerminateFrame
  <2> QED BY <2>1, <2>2, ListKept
<1>9. CASE NoExitHandlers \/ \E b \in BOOLEAN : FinishTermination(b)
  <2>1. phase = "exit" /\ UNCHANGED <<status, todo, shutting>>
    BY <1>9 DEF NoExitHandlers, AtHandlers, FinishTermination
  <2>2. shutting => Live' \subseteq todo'
    BY <2>1 DEF ShutdownOK, Live
  <2>3. CASE phase' \in {"exit", "idle"}
    BY <2>1, <2>2, <2>3 DEF ShutdownOK
  <2>4. CASE phase' = "shutdown" /\ shutting
    BY <2>1, <2>2, <2>4 DEF ShutdownOK
  <2>5. CASE NoExitHandlers
    BY <2>1, <2>3, <2>5 DEF NoExitHandlers
  <2>6. ASSUME NEW b \in BOOLEAN, FinishTermination(b) PROVE ShutdownOK'
    <3>1. phase' = IF Below # << >> THEN "exit" ELSE IF shutting THEN "shutdown" ELSE "idle"
      BY <2>6 DEF FinishTermination
    <3>2. CASE Below # << >>
      <4>1. phase' = "exit"
        BY <3>1, <3>2
      <4> QED BY <4>1, <2>3
    <3>3. CASE Below = << >> /\ shutting
      BY <2>4, <3>1, <3>3
    <3>4. CASE Below = << >> /\ ~shutting
      <4>1. phase' = "idle"
        BY <3>1, <3>4
      <4> QED BY <4>1, <2>3
    <3> QED BY <3>2, <3>3, <3>4
  <2> QED BY <1>9, <2>5, <2>6
<1> QED BY <1>1, <1>2, <1>3, <1>4, <1>5, <1>6, <1>7, <1>8, <1>9

\* No other step is taken while graceful_shutdown() terminates.
LEMMA ListOther ==
    ASSUME phase' \notin {"closing", "shutdown", "exit"}
    PROVE  ShutdownOK'
  BY DEF ShutdownOK

-----------------------------------------------------------------------------
(* Both together.                                                          *)

Awake == RunnableIsQueued /\ ShutdownOK

\* graceful_shutdown() clears the queues when nobody is left.
LEMMA QueuedShutdown ==
    ASSUME Awake, ShutdownDone
    PROVE  RunnableIsQueued'
<1>1. \A p \in Pid : status'[p] = "Absent"
  BY DEF Awake, ShutdownOK, ShutdownDone, Live, procVars
<1> QED BY <1>1 DEF RunnableIsQueued

\* The calls of the embedding program.
LEMMA AwakeHost ==
    ASSUME TypeOK, CallOK, Awake, HostStep
    PROVE  Awake'
<1> USE DEF procVars, queueVars, turnVars, callVars
<1>1. RunnableIsQueued /\ ShutdownOK
  BY DEF Awake
<1>2. CASE \E c \in HostPriorities, trap \in HostTraps : HostSpawn(c, trap)
  BY <1>1, <1>2, QueuedSpawns, ListOther DEF Awake, HostSpawn, HostCall
<1>3. CASE \E p \in Pid : HostSend(p)
  BY <1>1, <1>3, QueuedSends, ListOther DEF Awake, HostSend, HostCall
<1>4. CASE \E p \in Pid : HostEnqueue(p)
  BY <1>1, <1>4, QueuedEnqueues, ListOther DEF Awake, HostEnqueue, HostCall
<1>5. CASE \E p \in Pid, reason \in Reasons : HostTerminate(p, reason)
  BY <1>1, <1>5, QueuedRemovals, ListTermination DEF Awake
<1>6. CASE \/ \E p \in Pid : HostSetReceiveTimeout(p)
           \/ \E w, t \in Pid : HostMonitor(w, t)
           \/ \E w, t \in Pid, r \in Ref : HostDemonitor(w, r, t)
           \/ HostShutdown \/ DrainOutbound
  <2>1. phase = "idle" /\ UNCHANGED <<status, queues>>
    BY <1>6
    DEF HostSetReceiveTimeout, HostMonitor, HostDemonitor, HostShutdown, DrainOutbound, HostCall
  <2>2. \A p \in Pid : ~Excused(p)
    BY <2>1, NoExcuse DEF InTurn
  <2>3. RunnableIsQueued'
    BY <1>1, <2>1, <2>2, QueuedKept
  <2>4. ShutdownOK'
    BY <1>1, <1>6, ListTermination, ListOther
    DEF HostSetReceiveTimeout, HostMonitor, HostDemonitor, DrainOutbound, HostCall
  <2> QED BY <2>3, <2>4 DEF Awake
<1> QED BY <1>2, <1>3, <1>4, <1>5, <1>6 DEF HostStep

\* The steps of a turn, from next_runnable() to the deferred spawns.
LEMMA AwakeTurn ==
    ASSUME TypeOK, CallOK, Awake,
           \/ SelectRunnable \/ SkipStaleEntry \/ NothingToRun
           \/ OutOfReductions \/ MailboxEmpty \/ HandleContinue
           \/ \E p \in Pid : HandleSend(p)
           \/ \E k \in {"Stop", "Panic"}, reason \in Reasons : HandleStop(k, reason)
           \/ \E b \in BOOLEAN : HandleIo(b)
           \/ \E l, m \in BOOLEAN : HandleSpawn(l, m)
           \/ FlushSend \/ FlushSpawnRefused \/ FlushSpawn \/ NotifySpawn
           \/ AdmitSpawn \/ TickEnd
    PROVE  Awake'
<1> USE DEF procVars, queueVars, turnVars, callVars, SendFrame, HandleFrame
<1>1. RunnableIsQueued /\ ShutdownOK
  BY DEF Awake
<1>2. CASE SelectRunnable \/ SkipStaleEntry
  BY <1>1, <1>2, QueuedSelect, ListOther DEF Awake, SelectRunnable, SkipStaleEntry
<1>3. CASE \/ OutOfReductions \/ MailboxEmpty
           \/ \E k \in {"Stop", "Panic"}, reason \in Reasons : HandleStop(k, reason)
           \/ \E b \in BOOLEAN : HandleIo(b)
  <2>1. ShutdownOK'
    BY <1>3, ListOther DEF OutOfReductions, MailboxEmpty, HandleStop, HandleIo
  <2> QED BY <1>1, <1>3, <2>1, QueuedTurn DEF Awake
<1>4. CASE FlushSend \/ NotifySpawn
  BY <1>1, <1>4, QueuedSends, ListOther DEF Awake, FlushSend, NotifySpawn
<1>5. CASE FlushSpawn \/ AdmitSpawn
  BY <1>1, <1>5, QueuedSpawns, ListOther DEF Awake, FlushSpawn, AdmitSpawn
<1>6. CASE \/ HandleContinue
           \/ \E p \in Pid : HandleSend(p)
           \/ \E l, m \in BOOLEAN : HandleSpawn(l, m)
           \/ NothingToRun \/ FlushSpawnRefused \/ TickEnd
  <2>1. ShutdownOK'
    BY <1>6, ListOther
    DEF HandleContinue, HandleSend, HandleSpawn, Handle, NothingToRun,
        FlushSpawnRefused, TickEnd
  <2>2. UNCHANGED <<status, queues>>
    BY <1>6
    DEF HandleContinue, HandleSend, HandleSpawn, NothingToRun, FlushSpawnRefused, TickEnd
  <2>3. \A p \in Pid : Excused(p) => Excused(p)'
    BY <1>6
    DEF HandleContinue, HandleSend, HandleSpawn, Handle, NothingToRun, FlushSpawnRefused,
        TickEnd, Excused, CallOK, InTurn
  <2> QED BY <1>1, <2>1, <2>2, <2>3, QueuedKept DEF Awake
<1> QED BY <1>2, <1>3, <1>4, <1>5, <1>6

\* The steps of tick() before the turn.
LEMMA AwakeTick ==
    ASSUME TypeOK, CallOK, Awake,
           \/ TickBegin \/ DeliverResponse \/ ResponsesDrained
           \/ \E b \in BOOLEAN : RetryDestroy(b)
           \/ RetriesDone
           \/ \E S \in SUBSET Pid : CollectTimeouts(S)
           \/ \E p \in Pid : FireTimeout(p)
           \/ TimeoutsFired
    PROVE  Awake'
<1> USE DEF procVars, queueVars, turnVars, callVars, SendFrame
<1>1. RunnableIsQueued /\ ShutdownOK
  BY DEF Awake
<1>2. CASE DeliverResponse \/ \E p \in Pid : FireTimeout(p)
  BY <1>1, <1>2, QueuedSends, ListOther DEF Awake, DeliverResponse, FireTimeout
<1>3. CASE \/ TickBegin \/ ResponsesDrained
           \/ \E b \in BOOLEAN : RetryDestroy(b)
           \/ RetriesDone
           \/ \E S \in SUBSET Pid : CollectTimeouts(S)
           \/ TimeoutsFired
  <2>1. ~InTurn /\ UNCHANGED <<status, queues>>
    BY <1>3
    DEF TickBegin, HostCall, ResponsesDrained, RetryDestroy, RetriesDone,
        CollectTimeouts, TimeoutsFired, InTurn
  <2>2. RunnableIsQueued'
    BY <1>1, <2>1, NoExcuse, QueuedKept
  <2>3. CASE ResponsesDrained
    BY <1>1, <2>2, <2>3, ListTermination DEF Awake
  <2>4. CASE ~ResponsesDrained
    BY <1>3, <2>2, <2>4, ListOther
    DEF Awake, TickBegin, RetryDestroy, RetriesDone, CollectTimeouts, TimeoutsFired
  <2> QED BY <2>3, <2>4
<1> QED BY <1>2, <1>3

\* The steps of terminate_process() and graceful_shutdown().
LEMMA AwakeTermination ==
    ASSUME TypeOK, CallOK, Awake,
           \/ StopCurrent \/ Cascade \/ NoExitHandlers
           \/ \E q \in Pid : NotifyLink(q)
           \/ \E r \in Ref, q \in Pid : NotifyDown(r, q)
           \/ \E b \in BOOLEAN : FinishTermination(b)
           \/ BridgeClosed \/ ShutdownDone
           \/ \E p \in Pid : ShutdownTerminate(p) \/ ShutdownSkip(p)
    PROVE  Awake'
<1> USE DEF procVars, queueVars, turnVars, callVars
<1>1. RunnableIsQueued /\ ShutdownOK
  BY DEF Awake
<1>2. ShutdownOK'
  BY <1>1, ListTermination
<1>3. CASE StopCurrent \/ Cascade \/ \E p \in Pid : ShutdownTerminate(p)
  BY <1>1, <1>2, <1>3, QueuedRemovals DEF Awake
<1>4. CASE \E q \in Pid : NotifyLink(q)
  BY <1>1, <1>2, <1>4, QueuedEnqueues DEF Awake
<1>5. CASE \E r \in Ref, q \in Pid : NotifyDown(r, q)
  BY <1>1, <1>2, <1>5, QueuedSends DEF Awake
<1>6. CASE ShutdownDone
  BY <1>2, <1>6, QueuedShutdown DEF Awake
<1>7. CASE \/ NoExitHandlers \/ BridgeClosed
           \/ \E b \in BOOLEAN : FinishTermination(b)
           \/ \E p \in Pid : ShutdownSkip(p)
  <2>1. ~InTurn /\ UNCHANGED <<status, queues>>
    BY <1>7 DEF NoExitHandlers, AtHandlers, BridgeClosed, FinishTermination, ShutdownSkip, InTurn
  <2> QED BY <1>1, <1>2, <2>1, NoExcuse, QueuedKept DEF Awake
<1> QED BY <1>3, <1>4, <1>5, <1>6, <1>7

\* The bridge worker touches neither the registry nor the queues.
LEMMA AwakeStutter ==
    ASSUME Awake, BridgeStep \/ UNCHANGED vars
    PROVE  Awake'
<1>1. UNCHANGED <<status, queues, phase, cur, stop, nextPid, todo, shutting>>
  BY DEF BridgeStep, Respond, vars, procVars, queueVars, turnVars, callVars
<1>2. \A p \in Pid : Excused(p) => Excused(p)'
  BY <1>1 DEF Excused
<1>3. ShutdownOK'
  BY <1>1 DEF Awake, ShutdownOK, Live
<1> QED BY <1>1, <1>2, <1>3, QueuedKept DEF Awake

\* All steps of a call in progress.
LEMMA AwakeCall ==
    ASSUME TypeOK, CallOK, Awake, CallStep
    PROVE  Awake'
  BY AwakeTick, AwakeTurn, AwakeTermination DEF CallStep

(***************************************************************************)
(* The inductive invariant: ShutdownOK is needed because                   *)
(* graceful_shutdown() ends by clearing the ready queues, which would      *)
(* strand a Runnable process it had missed.                                *)
(***************************************************************************)
THEOREM AwakeInvariant == Spec => []Awake
<1>1. Init => Awake
  BY DEF Init, Awake, RunnableIsQueued, ShutdownOK
<1>2. TypeOK /\ CallOK /\ Awake /\ [Next]_vars => Awake'
  BY AwakeHost, AwakeCall, AwakeTick, AwakeTermination, AwakeStutter DEF Next
<1> QED BY <1>1, <1>2, TypeCorrect, PTL DEF Spec

(***************************************************************************)
(* No lost wake-up in scheduler.rs: whatever made a process Runnable also  *)
(* put it where tick() will look for it, for any number of processes and   *)
(* any interleaving of host calls, callbacks and bridge responses.         *)
(***************************************************************************)
THEOREM NoLostWakeup == Spec => []RunnableIsQueued
<1>1. Awake => RunnableIsQueued
  BY DEF Awake
<1> QED BY <1>1, AwakeInvariant, PTL

(***************************************************************************)
(* Both halves of a wake-up in scheduler.rs at once: room for the message  *)
(* that wakes a sleeper, and a queue entry for whoever is awake.           *)
(***************************************************************************)
THEOREM WakeupsArrive == Spec => []WakeupsReach
<1>1. WaitingHasRoom /\ RunnableIsQueued => WakeupsReach
  BY DEF WakeupsReach
<1> QED BY <1>1, SleepersHaveRoom, NoLostWakeup, PTL

(***************************************************************************)
(* graceful_shutdown() (scheduler.rs) leaves an empty registry when no     *)
(* exit handler spawns: what it terminates may take others along, and no   *)
(* one it skips is alive.                                                  *)
(***************************************************************************)
THEOREM ShutdownComplete == Spec => []ShutdownLeavesNothing
<1>1. Awake => ShutdownLeavesNothing
  BY DEF Awake, ShutdownOK, ShutdownLeavesNothing
<1> QED BY <1>1, AwakeInvariant, PTL

=============================================================================
