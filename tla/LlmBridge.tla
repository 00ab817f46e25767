------------------------------- MODULE LlmBridge -------------------------------
(***************************************************************************)
(* Agents of the second daemon: the adapter that makes an agent a zeptovm  *)
(* process (zeptobeam/src/agent_adapter.rs) and the bridge it asks the     *)
(* model through (zeptobeam/src/llm_bridge.rs).  chat() submits under the  *)
(* lock and then polls: each poll drains the responses of everybody and    *)
(* keeps its own.  The library calls should_checkpoint after each message. *)
(***************************************************************************)
EXTENDS Naturals, FiniteSets, Sequences, SequencesExt

CONSTANTS
    LlmAgent,         \* agents sharing the bridge
    CheckpointEvery,  \* messages between checkpoints
    MaxLlmMessages    \* bound: messages to all agents

ASSUME LlmAssumption == CheckpointEvery \in Nat \ {0} /\ MaxLlmMessages \in Nat

VARIABLES
    lPhase,      \* of each agent: "idle", "chat" (submitting), "poll", "handled", "stopped"
    lId,         \* the correlation id its chat() waits for
    lSubmitted,  \* correlation ids given out
    lAtBridge,   \* requests the bridge works on
    lResponses,  \* the bridge's response queue: ids
    lGot,        \* history: id of the response chat() returned last
    lDropped,    \* history: ids drained by a poll that did not want them
    lCount,      \* message_count
    lLength,     \* length of conversation_history
    lSaved,      \* length of the history in the checkpoint store
    lSince,      \* history: messages handled since that checkpoint
    lMessages    \* messages sent
lVars == <<lPhase, lId, lSubmitted, lAtBridge, lResponses, lGot, lDropped, lCount, lLength,
           lSaved, lSince, lMessages>>

Agents(v) == [a \in LlmAgent |-> v]

LlmInit ==
    /\ lPhase = Agents("idle") /\ lId = Agents(0) /\ lSubmitted = 0 /\ lAtBridge = {}
    /\ lResponses = << >> /\ lGot = Agents(0) /\ lDropped = {}
    /\ lCount = Agents(0) /\ lLength = Agents(0) /\ lSaved = Agents(0) /\ lSince = Agents(0)
    /\ lMessages = 0

Counted(a, added) ==
    /\ lPhase[a] = "idle" /\ lMessages < MaxLlmMessages /\ lMessages' = lMessages + 1
    /\ lCount' = [lCount EXCEPT ![a] = @ + 1] /\ lSince' = [lSince EXCEPT ![a] = @ + 1]
    /\ lLength' = [lLength EXCEPT ![a] = @ + added]

\* handle() of a text: recorded, counted, then the model is asked.
HandleText(a) ==
    /\ Counted(a, 1) /\ lPhase' = [lPhase EXCEPT ![a] = "chat"]
    /\ UNCHANGED <<lId, lSubmitted, lAtBridge, lResponses, lGot, lDropped, lSaved>>

\* JSON that is no stop command is recorded, bytes are only counted.
HandleOther(a, added) ==
    /\ Counted(a, added) /\ lPhase' = [lPhase EXCEPT ![a] = "handled"]
    /\ UNCHANGED <<lId, lSubmitted, lAtBridge, lResponses, lGot, lDropped, lSaved>>

HandleStop(a) ==
    /\ lPhase[a] = "idle" /\ lPhase' = [lPhase EXCEPT ![a] = "stopped"]
    /\ UNCHANGED <<lId, lSubmitted, lAtBridge, lResponses, lGot, lDropped, lCount, lLength, lSaved,
                   lSince, lMessages>>

\* The request is submitted, or refused, and then handle() only logs.
SubmitChat(a) ==
    /\ lPhase[a] = "chat"
    /\ \/ /\ lSubmitted' = lSubmitted + 1 /\ lAtBridge' = lAtBridge \cup {lSubmitted + 1}
          /\ lId' = [lId EXCEPT ![a] = lSubmitted + 1] /\ lPhase' = [lPhase EXCEPT ![a] = "poll"]
          /\ lGot' = [lGot EXCEPT ![a] = 0]
       \/ lPhase' = [lPhase EXCEPT ![a] = "handled"] /\ UNCHANGED <<lSubmitted, lAtBridge, lId, lGot>>
    /\ UNCHANGED <<lResponses, lDropped, lCount, lLength, lSaved, lSince, lMessages>>

\* The bridge answers, in any order.
BridgeAnswers(id) ==
    /\ id \in lAtBridge /\ lAtBridge' = lAtBridge \ {id} /\ lResponses' = Append(lResponses, id)
    /\ UNCHANGED <<lPhase, lId, lSubmitted, lGot, lDropped, lCount, lLength, lSaved, lSince, lMessages>>

\* chat() returns the response, which joins the history.
Return(a, id) ==
    /\ lGot' = [lGot EXCEPT ![a] = id] /\ lLength' = [lLength EXCEPT ![a] = @ + 1]
    /\ lPhase' = [lPhase EXCEPT ![a] = "handled"]

\* Faulty variant: the first response is taken, whatever its correlation id.
PollFirst(a) ==
    /\ lPhase[a] = "poll" /\ lResponses # << >>
    /\ lResponses' = << >> /\ lDropped' = lDropped \cup Range(Tail(lResponses))
    /\ Return(a, Head(lResponses))
    /\ UNCHANGED <<lId, lSubmitted, lAtBridge, lCount, lSaved, lSince, lMessages>>

\* drain_responses empties the queue; what is not for this call is gone.
Poll(a) ==
    /\ lPhase[a] = "poll" /\ lResponses # << >>
    /\ lResponses' = << >> /\ lDropped' = lDropped \cup (Range(lResponses) \ {lId[a]})
    /\ IF lId[a] \in Range(lResponses) THEN Return(a, lId[a]) ELSE UNCHANGED <<lGot, lLength, lPhase>>
    /\ UNCHANGED <<lId, lSubmitted, lAtBridge, lCount, lSaved, lSince, lMessages>>

\* Faulty variant: the loop has no deadline while the bridge has nothing for it.
GiveUpAnswered(a) ==
    /\ lPhase[a] = "poll" /\ lId[a] \in Range(lResponses) /\ lPhase' = [lPhase EXCEPT ![a] = "handled"]
    /\ UNCHANGED <<lId, lSubmitted, lAtBridge, lResponses, lGot, lDropped, lCount, lLength, lSaved,
                   lSince, lMessages>>

\* After 130 seconds chat() reports an error; handle() goes on.
GiveUp(a) ==
    /\ lPhase[a] = "poll" /\ lPhase' = [lPhase EXCEPT ![a] = "handled"]
    /\ UNCHANGED <<lId, lSubmitted, lAtBridge, lResponses, lGot, lDropped, lCount, lLength, lSaved,
                   lSince, lMessages>>

\* should_checkpoint
ShouldCheckpoint(a) == lCount[a] > 0 /\ lCount[a] % CheckpointEvery = 0

AfterMessage(a) ==
    /\ lPhase[a] = "handled" /\ lPhase' = [lPhase EXCEPT ![a] = "idle"]
    /\ IF ShouldCheckpoint(a)
       THEN lSaved' = [lSaved EXCEPT ![a] = lLength[a]] /\ lSince' = [lSince EXCEPT ![a] = 0]
       ELSE UNCHANGED <<lSaved, lSince>>
    /\ UNCHANGED <<lId, lSubmitted, lAtBridge, lResponses, lGot, lDropped, lCount, lLength, lMessages>>

\* The daemon restarts; init() restores the history and takes its length for the count.
LlmRestart ==
    /\ lPhase' = Agents("idle") /\ lId' = Agents(0) /\ lGot' = Agents(0)
    /\ lAtBridge' = {} /\ lResponses' = << >> /\ lDropped' = {}
    /\ lLength' = lSaved /\ lCount' = lSaved /\ lSince' = Agents(0)
    /\ UNCHANGED <<lSubmitted, lSaved, lMessages>>

LlmNext ==
    \/ \E a \in LlmAgent :
         \/ HandleText(a) \/ HandleStop(a) \/ SubmitChat(a) \/ Poll(a) \/ GiveUp(a)
         \/ AfterMessage(a)
         \/ \E added \in 0..1 : HandleOther(a, added)
    \/ \E id \in 1..MaxLlmMessages : BridgeAnswers(id)
    \/ LlmRestart

-----------------------------------------------------------------------------
(***************************************************************************)
(* chat() returns the response to its own request or an error, never that  *)
(* of another agent or of a request given up before.                       *)
(***************************************************************************)
ChatAnswersOwn == \A a \in LlmAgent : lGot[a] # 0 => lGot[a] = lId[a]

(***************************************************************************)
(* Every chat() comes back, though other agents take its response away.    *)
(***************************************************************************)
ChatReturns == \A a \in LlmAgent : lPhase[a] = "poll" ~> lPhase[a] # "poll"

(***************************************************************************)
(* A crash costs an agent fewer than CheckpointEvery messages and the one  *)
(* in hand, also after restores that set the count to something else.      *)
(***************************************************************************)
LossBounded == \A a \in LlmAgent : lPhase[a] = "idle" => lSince[a] < CheckpointEvery

(***************************************************************************)
(* What an agent keeps of its conversation is its own and recent: the      *)
(* answer to its own request, and after a crash all but the last few       *)
(* messages.                                                               *)
(***************************************************************************)
ConversationKept == ChatAnswersOwn /\ LossBounded

(***************************************************************************)
(* "Each call gets a fresh PID so responses don't collide": no poll takes  *)
(* away a response that another chat() is waiting for.                     *)
(***************************************************************************)
ResponsesDontCollide == \A a \in LlmAgent : lPhase[a] = "poll" => lId[a] \notin lDropped
=============================================================================
