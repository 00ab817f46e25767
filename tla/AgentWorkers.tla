---------------------------- MODULE AgentWorkers ----------------------------
(***************************************************************************)
(* AgentWorkerBehavior (agent_rt/agent_worker.rs) on top of the bridge.    *)
(* Such a process chats through the bridge, one prompt at a time: what     *)
(* arrives meanwhile is put aside.  The scheduler between the two is       *)
(* reduced to what it does for them: it hands over messages one by one,    *)
(* submits an IoRequest in the same turn and delivers the answers, also    *)
(* the one it makes up when the bridge refuses.                            *)
(***************************************************************************)
EXTENDS Bridge

CONSTANT MaxPrompts    \* bound: messages sent to the processes

VARIABLES
    awState,   \* AgentWorkerState: busy and pending_messages
    awInbox,   \* messages not handled yet, oldest first
    awSent     \* messages sent so far, for the bound

awVars == <<awState, awInbox, awSent>>

\* Text, or Json with a prompt; Json without one, or any other message
AwMessage == {"Prompt", "Other"}

AwInit ==
    /\ awState = [p \in BPid |-> [busy |-> FALSE, pending |-> << >>]]
    /\ awInbox = [p \in BPid |-> << >>]
    /\ awSent = 0

AwSend(p, m) ==
    /\ p \notin bDead /\ bSetup.ops[p] # {} /\ awSent < MaxPrompts
    /\ awSent' = awSent + 1
    /\ awInbox' = [awInbox EXCEPT ![p] = Append(@, m)]
    /\ UNCHANGED <<awState, bridgeVars>>

\* Faulty variant: a prompt is submitted although the agent is busy.
TakePromptAnyway(p, m, st) ==
    /\ awState' = [awState EXCEPT ![p] = [st EXCEPT !.busy = TRUE]]
    /\ BeginSubmit(p, "Chat")

\* A prompt: put aside while busy, otherwise submitted.
TakePrompt(p, m, st) ==
    IF st.busy
    THEN /\ awState' = [awState EXCEPT ![p] = [st EXCEPT !.pending = Append(@, m)]]
         /\ UNCHANGED bridgeVars
    ELSE /\ awState' = [awState EXCEPT ![p] = [st EXCEPT !.busy = TRUE]]
         /\ BeginSubmit(p, "Chat")

\* Faulty variant: what was put aside waits for the next prompt.
TakeAnswerOnly(p) ==
    /\ awState' = [awState EXCEPT ![p].busy = FALSE]
    /\ UNCHANGED bridgeVars

\* An answer, whatever it says: take up the prompt put aside last.
TakeAnswer(p) ==
    LET free == [awState[p] EXCEPT !.busy = FALSE]
        n == Len(free.pending)
    IN  IF n = 0
        THEN awState' = [awState EXCEPT ![p] = free] /\ UNCHANGED bridgeVars
        ELSE TakePrompt(p, free.pending[n], [free EXCEPT !.pending = SubSeq(@, 1, n - 1)])

AwHandle(p) ==
    /\ p \notin bDead /\ bCaller[p] = Idle /\ awInbox[p] # << >>
    /\ awInbox' = [awInbox EXCEPT ![p] = Tail(@)]
    /\ LET m == Head(awInbox[p])
       IN  CASE m = "Answer" -> TakeAnswer(p)
             [] m = "Prompt" -> TakePrompt(p, m, awState[p])
             [] OTHER -> UNCHANGED <<awState, bridgeVars>>
    /\ UNCHANGED awSent

\* A step of the bridge; the answers it brings go to the inboxes.
AwBridge ==
    /\ PoolNext \/ \E p \in BPid : EndSubmit(p) \/ Terminate(p)
    /\ awInbox' = [p \in BPid |-> awInbox[p] \o
                     [i \in 1..Cardinality(bGot'[p] \ bGot[p]) |-> "Answer"]]
    /\ UNCHANGED <<awState, awSent>>

AwNext ==
    \/ \E p \in BPid : (\E m \in AwMessage : AwSend(p, m)) \/ AwHandle(p)
    \/ AwBridge

-----------------------------------------------------------------------------
AnswersInInbox(p) == Cardinality({i \in DOMAIN awInbox[p] : awInbox[p][i] = "Answer"})

(***************************************************************************)
(* A living agent has at most one chat on its way through the bridge and   *)
(* back, and is busy exactly while it has, or for ever after one whose     *)
(* task panicked, which nothing ever answers: a refused submission,        *)
(* answered by the scheduler, does not leave it busy, and an answer never  *)
(* meets an agent that asked for nothing.                                  *)
(***************************************************************************)
OneChatAtATime ==
    \A p \in BPid \ bDead :
        Cardinality(Queued(p)) + Cardinality({c \in TasksFor(p) : bTask[c].at # "sent"} \union bLost[p])
          + Cardinality({i \in DOMAIN bResponses : bResponses[i].pid = p})
          + (IF bCaller[p] = Idle THEN 0 ELSE 1) + AnswersInInbox(p)
        = (IF awState[p].busy THEN 1 ELSE 0)

(***************************************************************************)
(* Prompts put aside are taken up as long as answers come and new prompts  *)
(* end: the last of them is not left for a message that never arrives,     *)
(* unless it waits behind a chat whose task panicked.                      *)
(***************************************************************************)
PendingServed ==
    \A p \in BPid : (awState[p].pending # << >>)
        ~> (awState[p].pending = << >> \/ p \in bDead \/ bLost[p] # {} \/ bCid = MaxCid)
=============================================================================
