---------------------------- MODULE RunQueueOps ----------------------------
(***************************************************************************)
(* The three ready queues of the agent scheduler (scheduler.rs) and the    *)
(* rule by which tick() takes the next process from them.  A queue set is  *)
(* a function from priority to a sequence of PIDs.  The sequences may hold *)
(* the same PID twice and PIDs that are no longer runnable: enqueue()      *)
(* never looks for an earlier entry and tick() skips stale ones.           *)
(***************************************************************************)
EXTENDS Naturals, Sequences

CONSTANT NormalAdvantage   \* NORMAL_ADVANTAGE, 8 in the code

ASSUME NormalAdvantageAssumption == NormalAdvantage \in Nat \ {0}

Priority == {"High", "Normal", "Low"}

EmptyQueues == [c \in Priority |-> << >>]

\* Faulty variant: push_front.
EnqueuedInFront(qs, c, p) == [qs EXCEPT ![c] = <<p>> \o @]

\* Push p at the back of the queue of class c.
Enqueued(qs, c, p) == [qs EXCEPT ![c] = Append(@, p)]

\* Drop the head of the queue of class c.
Popped(qs, c) == [qs EXCEPT ![c] = Tail(@)]

NothingQueued(qs) == \A c \in Priority : qs[c] = << >>

\* p has an entry in some queue.
InQueues(qs, p) == \E c \in Priority : \E i \in 1..Len(qs[c]) : qs[c][i] = p

\* Faulty variant: the count is compared before it is incremented.
LowHasTurnLate(qs, adv) ==
    /\ qs["High"] = << >>
    /\ qs["Normal"] # << >>
    /\ qs["Low"] # << >>
    /\ adv >= NormalAdvantage

\* A Normal process gives its turn to a Low one.
LowHasTurn(qs, adv) ==
    /\ qs["High"] = << >>
    /\ qs["Normal"] # << >>
    /\ qs["Low"] # << >>
    /\ adv + 1 >= NormalAdvantage

\* Faulty variant: strict priorities.
StrictClass(qs, adv) ==
    IF qs["High"] # << >> THEN "High"
    ELSE IF qs["Normal"] # << >> THEN "Normal"
    ELSE "Low"

\* The queue whose head next_runnable() returns, if any queue has one.
NextClass(qs, adv) ==
    IF qs["High"] # << >> THEN "High"
    ELSE IF qs["Normal"] # << >> /\ ~LowHasTurn(qs, adv) THEN "Normal"
    ELSE "Low"

(***************************************************************************)
(* advantage_count after the call.  The code only compares it with         *)
(* NORMAL_ADVANTAGE, so the count saturates there instead of growing for   *)
(* as long as no Low process is queued.                                    *)
(***************************************************************************)
NextAdvantage(qs, adv) ==
    IF qs["High"] # << >> \/ qs["Normal"] = << >> THEN adv
    ELSE IF LowHasTurn(qs, adv) THEN 0
    ELSE IF adv < NormalAdvantage THEN adv + 1 ELSE adv

=============================================================================
