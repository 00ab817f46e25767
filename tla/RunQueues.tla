----------------------------- MODULE RunQueues -----------------------------
(***************************************************************************)
(* The ready queues on their own: any caller may enqueue, and tick() takes *)
(* one entry at a time.  The question asked of them is fairness between    *)
(* the classes.                                                            *)
(***************************************************************************)
EXTENDS RunQueueOps

CONSTANTS Pid,        \* processes
          MaxQueue    \* bound: entries per queue a caller may add

ASSUME MaxQueueAssumption == MaxQueue \in Nat

VARIABLES queues,     \* queue_high, queue_normal, queue_low
          advantage,  \* advantage_count
          bypass      \* history: Normal entries taken in a row while a Low
                      \* entry was queued, counted up to NormalAdvantage

vars == <<queues, advantage, bypass>>

TypeOK ==
    /\ queues \in [Priority -> Seq(Pid)]
    /\ advantage \in 0..NormalAdvantage
    /\ bypass \in 0..NormalAdvantage

Init ==
    /\ queues = EmptyQueues
    /\ advantage = 0
    /\ bypass = 0

Enqueue(c, p) ==
    /\ Len(queues[c]) < MaxQueue
    /\ queues' = Enqueued(queues, c, p)
    /\ UNCHANGED <<advantage, bypass>>

\* One call of next_runnable() that returns a PID.
Take ==
    /\ ~NothingQueued(queues)
    /\ LET c == NextClass(queues, advantage)
       IN  /\ queues' = Popped(queues, c)
           /\ bypass' = IF c = "High" THEN bypass
                        ELSE IF c = "Low" \/ queues["Low"] = << >> THEN 0
                        ELSE IF bypass < NormalAdvantage THEN bypass + 1
                        ELSE bypass
    /\ advantage' = NextAdvantage(queues, advantage)

Next == Take \/ \E c \in Priority, p \in Pid : Enqueue(c, p)

Spec == Init /\ [][Next]_vars

FairSpec == Spec /\ WF_vars(Take)

-----------------------------------------------------------------------------
(***************************************************************************)
(* A queued Low process is passed over by fewer than NORMAL_ADVANTAGE      *)
(* Normal ones in a row, however the callers interleave their enqueues     *)
(* (High entries may delay it for ever: they always go first).             *)
(***************************************************************************)
LowBypassBounded == bypass < NormalAdvantage

\* What makes LowBypassBounded inductive: the bypass is counted by the
\* advantage count.
BypassCounted == bypass <= advantage /\ bypass < NormalAdvantage

(***************************************************************************)
(* While next_runnable() keeps being called, a queued Low process is taken *)
(* although Normal ones keep arriving, unless a High one shows up.  (Read  *)
(* with MaxQueue = 1, where an empty Low queue means its entry was taken.) *)
(***************************************************************************)
LowEventuallyTaken ==
    queues["Low"] # << >> ~> (queues["Low"] = << >> \/ queues["High"] # << >>)

=============================================================================
