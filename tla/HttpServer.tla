------------------------------ MODULE HttpServer ------------------------------
(***************************************************************************)
(* The HTTP server of the daemon (agent_rt/server.rs) and the thread       *)
(* behind its MCP tools (zeptobeam/src/main.rs): sessions that expire and  *)
(* are kept by an event stream, JSON-RPC requests, tool calls that become  *)
(* commands of the runtime worker and wait two seconds for the reply, and  *)
(* the shutdown of both.  A handler is cut where it waits for the worker.  *)
(***************************************************************************)
EXTENDS Naturals, FiniteSets, Sequences, SequencesExt, Collections

CONSTANTS
    HttpClient,      \* clients
    HttpPid,         \* processes the worker's scheduler starts with
    SessionTimeout,  \* mcp_session_timeout, in ticks of the clock
    MaxHttpMail,     \* mailbox capacity
    MaxHttpCalls,    \* bound: requests
    MaxHttpClock     \* bound: ticks

ASSUME HttpAssumption ==
    /\ SessionTimeout \in Nat \ {0} /\ MaxHttpMail \in Nat
    /\ MaxHttpCalls \in Nat /\ MaxHttpClock \in Nat

VARIABLES
    hSessions,  \* mcp_sessions: session id -> when last seen
    hCounter,   \* mcp_session_counter
    hClock,     \* the clock
    hKnows,     \* the session id each client holds, 0 for none
    hStream,    \* clients with an event stream open
    hCall,      \* the request each client waits for: [nr, op, pid], nr 0 for none
    hNr,        \* requests made
    hQueue,     \* commands sent to the worker; the last one may be Shutdown
    hReply,     \* reply channels by request: the result sent, if any
    hAnswer,    \* history: how each request was answered
    hDone,      \* history: the commands the worker has executed, with their results
    hAlive,     \* PIDs in the scheduler's registry
    hMail,      \* messages in each mailbox; nothing ticks this scheduler
    hCount,     \* process_count
    hPhase,     \* "up", "draining", "signalled", "stopped"
    hWorker     \* the worker runs
hVars == <<hSessions, hCounter, hClock, hKnows, hStream, hCall, hNr, hQueue, hReply,
           hAnswer, hDone, hAlive, hMail, hCount, hPhase, hWorker>>

NoRequest == [nr |-> 0, op |-> "none", pid |-> "none"]
Shutdown == [nr |-> 0, op |-> "shutdown", pid |-> "none"]

HttpInit ==
    /\ hSessions = << >> /\ hCounter = 1 /\ hClock = 0 /\ hKnows = [c \in HttpClient |-> 0]
    /\ hStream = {} /\ hCall = [c \in HttpClient |-> NoRequest] /\ hNr = 0
    /\ hQueue = << >> /\ hReply = << >> /\ hAnswer = << >> /\ hDone = << >>
    /\ hAlive = HttpPid /\ hMail = [p \in HttpPid |-> 0] /\ hCount = Cardinality(HttpPid)
    /\ hPhase = "up" /\ hWorker = TRUE

\* prune_expired_http_sessions_locked
Unexpired == [s \in {s \in DOMAIN hSessions : hClock - hSessions[s] <= SessionTimeout} |-> hSessions[s]]

MayCall(c) == hPhase = "up" /\ hCall[c] = NoRequest
MayAsk(c) == MayCall(c) /\ hNr < MaxHttpCalls
Answered(nr, a) == hAnswer' = With(hAnswer, nr, a)

\* touch_http_session
Touched(s) == With(Unexpired, s, hClock)

HasSession(c) == hKnows[c] # 0 /\ hKnows[c] \in DOMAIN Unexpired

(***************************************************************************)
(* initialize: with the id the client sends, known to the server or not,   *)
(* or with a new one (create_or_refresh_http_session).                     *)
(***************************************************************************)
PostInitialize(c) ==
    /\ MayAsk(c) /\ hNr' = hNr + 1
    /\ LET s == IF hKnows[c] = 0 THEN hCounter ELSE hKnows[c]
       IN  /\ hSessions' = Touched(s) /\ hKnows' = [hKnows EXCEPT ![c] = s]
           /\ hCounter' = IF hKnows[c] = 0 THEN hCounter + 1 ELSE hCounter
    /\ Answered(hNr + 1, "ok")
    /\ UNCHANGED <<hClock, hStream, hCall, hQueue, hReply, hDone, hAlive, hMail, hCount, hPhase, hWorker>>

\* Any other method without a session, or with one that is gone.
PostRefused(c) ==
    /\ MayAsk(c) /\ ~HasSession(c) /\ hNr' = hNr + 1
    /\ hSessions' = IF hKnows[c] = 0 THEN hSessions ELSE Unexpired
    /\ Answered(hNr + 1, "refused")
    /\ UNCHANGED <<hCounter, hClock, hKnows, hStream, hCall, hQueue, hReply, hDone, hAlive, hMail,
                   hCount, hPhase, hWorker>>

\* tools/list, ping, get_metrics, get_orchestration_status, bad parameters and unknown
\* methods are answered at once; spawn_orchestration only takes a number.
PostAnswered(c, op) ==
    /\ MayAsk(c) /\ HasSession(c) /\ hNr' = hNr + 1
    /\ hSessions' = Touched(hKnows[c])
    /\ hCounter' = IF op = "spawn_orchestration" THEN hCounter + 1 ELSE hCounter
    /\ Answered(hNr + 1, "ok")
    /\ UNCHANGED <<hClock, hKnows, hStream, hCall, hQueue, hReply, hDone, hAlive, hMail, hCount,
                   hPhase, hWorker>>

(***************************************************************************)
(* The tools that ask the runtime (DaemonMcpRuntimeOps::call): a reply     *)
(* channel of its own goes with the command.                               *)
(***************************************************************************)
PostToolCall(c, op, p) ==
    /\ MayAsk(c) /\ HasSession(c) /\ hNr' = hNr + 1
    /\ hSessions' = Touched(hKnows[c])
    /\ LET call == [nr |-> hNr + 1, op |-> op, pid |-> p]
       IN  IF hWorker
           THEN /\ hCall' = [hCall EXCEPT ![c] = call] /\ hQueue' = Append(hQueue, call)
                /\ UNCHANGED hAnswer
           ELSE Answered(hNr + 1, "fail") /\ UNCHANGED <<hCall, hQueue>>
    /\ UNCHANGED <<hCounter, hClock, hKnows, hStream, hReply, hDone, hAlive, hMail, hCount, hPhase, hWorker>>

\* recv_timeout gets the reply.
CallReturns(c) ==
    /\ hCall[c] # NoRequest /\ hCall[c].nr \in DOMAIN hReply
    /\ Answered(hCall[c].nr, hReply[hCall[c].nr]) /\ hCall' = [hCall EXCEPT ![c] = NoRequest]
    /\ UNCHANGED <<hSessions, hCounter, hClock, hKnows, hStream, hNr, hQueue, hReply, hDone, hAlive,
                   hMail, hCount, hPhase, hWorker>>

\* ... or gives up; the command stays in the queue.
CallTimesOut(c) ==
    /\ hCall[c] # NoRequest /\ hCall[c].nr \notin DOMAIN hReply
    /\ Answered(hCall[c].nr, "timeout") /\ hCall' = [hCall EXCEPT ![c] = NoRequest]
    /\ UNCHANGED <<hSessions, hCounter, hClock, hKnows, hStream, hNr, hQueue, hReply, hDone, hAlive,
                   hMail, hCount, hPhase, hWorker>>

(***************************************************************************)
(* spawn_mcp_runtime_worker's loop: list, send and cancel on a scheduler   *)
(* that nobody ticks, so mailboxes only fill.  cancel never fails.         *)
(***************************************************************************)
ResultOf(call) ==
    IF call.op = "send" /\ (call.pid \notin hAlive \/ hMail[call.pid] >= MaxHttpMail)
    THEN "fail" ELSE "ok"

\* process_count.store after every command.
CountAfter(call) == Cardinality(IF call.op = "cancel" THEN hAlive \ {call.pid} ELSE hAlive)

WorkerStep ==
    /\ hWorker /\ hQueue # << >> /\ Head(hQueue) # Shutdown
    /\ LET call == Head(hQueue)
           result == ResultOf(call)
       IN  /\ hMail' = IF call.op = "send" /\ result = "ok" THEN [hMail EXCEPT ![call.pid] = @ + 1] ELSE hMail
           /\ hAlive' = IF call.op = "cancel" THEN hAlive \ {call.pid} ELSE hAlive
           /\ hCount' = CountAfter(call)
           /\ hReply' = With(hReply, call.nr, result)
           /\ hDone' = Append(hDone, [nr |-> call.nr, result |-> result])
    /\ hQueue' = Tail(hQueue)
    /\ UNCHANGED <<hSessions, hCounter, hClock, hKnows, hStream, hCall, hNr, hAnswer, hPhase, hWorker>>

WorkerStops ==
    /\ hWorker /\ hQueue # << >> /\ Head(hQueue) = Shutdown /\ hWorker' = FALSE
    /\ UNCHANGED <<hSessions, hCounter, hClock, hKnows, hStream, hCall, hNr, hQueue, hReply, hAnswer,
                   hDone, hAlive, hMail, hCount, hPhase>>

\* GET /mcp: an event stream that touches the session with every heartbeat and goes on
\* after the session is gone, until the client closes it.
GetStream(c) ==
    /\ MayCall(c) /\ HasSession(c) /\ c \notin hStream
    /\ hSessions' = Touched(hKnows[c]) /\ hStream' = hStream \cup {c}
    /\ UNCHANGED <<hCounter, hClock, hKnows, hCall, hNr, hQueue, hReply, hAnswer, hDone, hAlive, hMail,
                   hCount, hPhase, hWorker>>

\* Faulty variant: the heartbeat inserts the session when it is gone.
HeartbeatInserts(c) ==
    /\ c \in hStream /\ hPhase # "stopped" /\ hSessions' = Touched(hKnows[c])
    /\ UNCHANGED <<hCounter, hClock, hKnows, hStream, hCall, hNr, hQueue, hReply, hAnswer, hDone, hAlive,
                   hMail, hCount, hPhase, hWorker>>

Heartbeat(c) ==
    /\ c \in hStream /\ hPhase # "stopped"
    /\ hSessions' = IF hKnows[c] \in DOMAIN Unexpired THEN Touched(hKnows[c]) ELSE Unexpired
    /\ UNCHANGED <<hCounter, hClock, hKnows, hStream, hCall, hNr, hQueue, hReply, hAnswer, hDone, hAlive,
                   hMail, hCount, hPhase, hWorker>>

StreamCloses(c) ==
    /\ c \in hStream /\ hStream' = hStream \ {c}
    /\ UNCHANGED <<hSessions, hCounter, hClock, hKnows, hCall, hNr, hQueue, hReply, hAnswer, hDone,
                   hAlive, hMail, hCount, hPhase, hWorker>>

\* DELETE /mcp, with a session or without.
DeleteSession(c) ==
    /\ MayCall(c) /\ hKnows[c] # 0
    /\ hSessions' = [s \in DOMAIN Unexpired \ {hKnows[c]} |-> hSessions[s]]
    /\ UNCHANGED <<hCounter, hClock, hKnows, hStream, hCall, hNr, hQueue, hReply, hAnswer, hDone, hAlive,
                   hMail, hCount, hPhase, hWorker>>

HttpTick ==
    /\ hClock < MaxHttpClock /\ hClock' = hClock + 1
    /\ UNCHANGED <<hSessions, hCounter, hKnows, hStream, hCall, hNr, hQueue, hReply, hAnswer, hDone,
                   hAlive, hMail, hCount, hPhase, hWorker>>

\* run_daemon after the signal: HealthServer::shutdown, which takes no more requests ...
Signal ==
    /\ hPhase = "up" /\ hPhase' = "draining"
    /\ UNCHANGED <<hSessions, hCounter, hClock, hKnows, hStream, hCall, hNr, hQueue, hReply, hAnswer,
                   hDone, hAlive, hMail, hCount, hWorker>>

\* ... and ends when the open connections do; then the worker is told to stop ...
ServerDown ==
    /\ hPhase = "draining" /\ hStream = {} /\ \A c \in HttpClient : hCall[c] = NoRequest
    /\ hPhase' = "signalled" /\ hQueue' = Append(hQueue, Shutdown)
    /\ UNCHANGED <<hSessions, hCounter, hClock, hKnows, hStream, hCall, hNr, hReply, hAnswer, hDone,
                   hAlive, hMail, hCount, hWorker>>

\* ... and joined.
Joined ==
    /\ hPhase = "signalled" /\ ~hWorker /\ hPhase' = "stopped"
    /\ UNCHANGED <<hSessions, hCounter, hClock, hKnows, hStream, hCall, hNr, hQueue, hReply, hAnswer,
                   hDone, hAlive, hMail, hCount, hWorker>>

HttpNext ==
    \/ \E c \in HttpClient :
         \/ PostInitialize(c) \/ PostRefused(c) \/ GetStream(c) \/ Heartbeat(c) \/ StreamCloses(c)
         \/ DeleteSession(c) \/ CallReturns(c) \/ CallTimesOut(c)
         \/ \E op \in {"ping", "spawn_orchestration"} : PostAnswered(c, op)
         \/ \E op \in {"send", "cancel"}, p \in HttpPid : PostToolCall(c, op, p)
    \/ WorkerStep \/ WorkerStops \/ HttpTick \/ Signal \/ ServerDown \/ Joined

-----------------------------------------------------------------------------
(***************************************************************************)
(* A tool call that is answered with a result was executed, once, with     *)
(* that result, however late the replies of earlier calls come in; one     *)
(* that timed out may still be executed, but no command twice.             *)
(***************************************************************************)
AnswersMatch ==
    /\ \A i, j \in DOMAIN hDone : i # j => hDone[i].nr # hDone[j].nr
    /\ \A nr \in DOMAIN hAnswer \cap DOMAIN hReply :
           hAnswer[nr] # "timeout" => \E d \in Range(hDone) : d.nr = nr /\ d.result = hAnswer[nr]

(***************************************************************************)
(* A shutdown loses no command: when the daemon has stopped, everything    *)
(* the server passed to the worker has been executed, what timed out too.  *)
(***************************************************************************)
ShutdownDrains ==
    ~hWorker => \A k \in DOMAIN hQueue : hQueue[k] = Shutdown

(***************************************************************************)
(* A session that was deleted or has expired is over: no request in flight *)
(* and no heartbeat of an open stream brings it back, only an initialize.  *)
(***************************************************************************)
NoRevivalStep ==
    \A s \in (DOMAIN Unexpired)' \ DOMAIN Unexpired : \E c \in HttpClient : PostInitialize(c)

(***************************************************************************)
(* Requests, sessions and the shutdown together: answers belong to their   *)
(* call, a session that is over stays over, and a shutdown loses no        *)
(* command.                                                                *)
(***************************************************************************)
CallsSound == [][AnswersMatch' /\ ShutdownDrains' /\ NoRevivalStep]_hVars

(***************************************************************************)
(* The daemon stops after a signal, if the clients close their streams.    *)
(***************************************************************************)
DaemonStops == hPhase = "draining" /\ hStream = {} ~> hPhase = "stopped"
=============================================================================
