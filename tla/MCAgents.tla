------------------------------- MODULE MCAgents -------------------------------
(***************************************************************************)
(* What runs agents, for TLC: the ready queues, the bridge pool on its own *)
(* and under agent workers, the rate limiter and the MCP client.  In a     *)
(* behaviour one of them, the subject, moves.                              *)
(***************************************************************************)
EXTENDS RunQueues, AgentWorkers, RateLimiter, McpClient

CONSTANT Subjects   \* the components that move in a run

VARIABLE subject

mcaVars == <<subject, vars, bridgeVars, awVars, rlVars, mcVars>>

-----------------------------------------------------------------------------
(* What the processes ask of the pool, its workers, and what goes wrong.   *)
Pids == {"p", "q"}
Setup(p, q, workers, cids, deaths, stop) ==
    [ops |-> [x \in Pids |-> IF x = "p" THEN p ELSE q], workers |-> workers,
     cids |-> cids, deaths |-> deaths, stop |-> stop]

PoolSetups ==
    {Setup({"Chat"}, {}, 1, 3, TRUE, FALSE),
     Setup({"Decompose"}, {"Http"}, 1, 2, FALSE, TRUE),
     Setup({"Chat"}, {}, 2, 2, TRUE, TRUE)}
AgentSetups ==
    {Setup({"Chat"}, {"Chat"}, 1, 3, FALSE, FALSE), Setup({"Chat"}, {}, 1, 2, TRUE, FALSE)}
AllSetups == PoolSetups \union AgentSetups \union {Setup({}, {}, 1, 0, FALSE, FALSE)}

Limits == {[max |-> 0, window |-> 1], [max |-> 1, window |-> 2], [max |-> 2, window |-> 2]}

-----------------------------------------------------------------------------
SuiteInit ==
    /\ subject \in Subjects
    /\ Init /\ BridgeInit /\ AwInit /\ RlInit /\ McInit
    /\ bSetup \in CASE subject = "pool" -> PoolSetups
                   [] subject = "agents" -> AgentSetups
                   [] OTHER -> {Setup({}, {}, 1, 0, FALSE, FALSE)}

SuiteNext ==
    /\ UNCHANGED subject
    /\ \/ /\ subject = "queues" /\ Next
          /\ UNCHANGED <<bridgeVars, awVars, rlVars, mcVars>>
       \/ /\ subject = "pool" /\ BridgeNext
          /\ UNCHANGED <<vars, awVars, rlVars, mcVars>>
       \/ /\ subject = "agents" /\ AwNext
          /\ UNCHANGED <<vars, rlVars, mcVars>>
       \/ /\ subject = "limiter" /\ RlNext
          /\ UNCHANGED <<vars, bridgeVars, awVars, mcVars>>
       \/ /\ subject = "mcp" /\ McNext
          /\ UNCHANGED <<vars, bridgeVars, awVars, rlVars>>

SuiteSpec == SuiteInit /\ [][SuiteNext]_mcaVars

(***************************************************************************)
(* What goes on by itself: tick() takes queued processes and hands over    *)
(* messages and answers; the runtime polls its tasks and operations end    *)
(* (they all have timeouts); time passes and sleeping threads wake up.     *)
(***************************************************************************)
SuiteFairSpec ==
    /\ SuiteSpec
    /\ WF_vars(subject = "queues" /\ Take)
    /\ WF_bridgeVars(subject \in {"pool", "agents"} /\ Drain)
    /\ WF_bridgeVars(subject \in {"pool", "agents"} /\ \E w \in BWorker : Receive(w))
    /\ WF_bridgeVars(subject \in {"pool", "agents"} /\ \E c \in DOMAIN bTask : TaskNext(c))
    /\ WF_bridgeVars(subject \in {"pool", "agents"} /\ \E p \in BPid : EndSubmit(p))
    /\ WF_awVars(subject = "agents" /\ \E p \in BPid : AwHandle(p))
    /\ WF_rlVars(subject = "limiter" /\ RlTick)
    /\ WF_rlVars(subject = "limiter" /\ \E t \in RlThread : Acquire(t))

-----------------------------------------------------------------------------
(***************************************************************************)
(* OneChatAtATime where the processes are agent workers: the pool on its   *)
(* own is used by processes that may have several requests in flight.      *)
(***************************************************************************)
AgentsOneChat == subject = "agents" => OneChatAtATime

(***************************************************************************)
(* What is asked is answered in the end: the requests of the pool, the     *)
(* prompts an agent worker put aside, the threads the rate limiter told to *)
(* wait.                                                                   *)
(***************************************************************************)
RequestsEnd == EveryAnswer /\ PendingServed /\ WaitersEnd
=============================================================================
