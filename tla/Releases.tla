------------------------------- MODULE Releases -------------------------------
(***************************************************************************)
(* Releases (agent_rt/release.rs): a plan of steps, each of which moves    *)
(* one behavior or configuration key from a version to another, applied    *)
(* through the caller's StepHandler and undone when a step fails.  A       *)
(* handler may refuse any step, in either direction.  What a behavior is   *)
(* moved from is what its manifest says, right or wrong.                   *)
(***************************************************************************)
EXTENDS Naturals, Sequences, SequencesExt

CONSTANTS
    Item,         \* behaviors and configuration keys
    ConfigKey,    \* those that are configuration keys
    Manifest,     \* manifests: the moves of items, behaviors first (what a
                  \* configuration key is moved from is not in a manifest)
    MaxReleases,  \* bound: releases planned
    MaxHistory    \* ReleaseManager::max_history

ASSUME ReleasesAssumption ==
    /\ ConfigKey \subseteq Item
    /\ Manifest \subseteq Seq([item : Item, from : Nat, to : Nat])
    /\ \A moves \in Manifest : \A j, k \in DOMAIN moves :
          j < k /\ moves[j].item \in ConfigKey => moves[k].item \in ConfigKey \ {moves[j].item}
    /\ MaxReleases \in Nat /\ MaxHistory \in Nat

VARIABLES
    rLive,      \* the version of every item the runtime is on
    rPlan,      \* steps of every release, by number
    rMade,      \* releases planned
    rCurrent,   \* ReleaseManager::current, 0 for None
    rHistory,   \* ReleaseManager::history
    rCall,      \* the call in progress: its kind, release and steps left
    rFrom,      \* history: rLive when the call began
    rTarget,    \* history: rLive right after each release was applied
    rOutcome,   \* how the last call ended: "none", "ok", "undone" or "stuck"
    rBroken,    \* history: a rollback has failed half-way
    rAstray     \* history: the items some manifest misstated the version of
rVars == <<rLive, rPlan, rMade, rCurrent, rHistory, rCall, rFrom, rTarget, rOutcome, rBroken,
           rAstray>>

ReleaseIdle == [kind |-> "idle", release |-> 0, left |-> << >>, done |-> << >>]
PlanStep(i, f, t) == [item |-> i, from |-> f, to |-> t]

RelInit ==
    /\ rLive = [i \in Item |-> 0] /\ rPlan = << >> /\ rMade = 0
    /\ rCurrent = 0 /\ rHistory = << >> /\ rCall = ReleaseIdle
    /\ rFrom = rLive /\ rTarget = << >> /\ rOutcome = "none" /\ rBroken = FALSE
    /\ rAstray = {}

(***************************************************************************)
(* ReleasePlan::from_manifest: the steps in the manifest's order.  A       *)
(* configuration key is moved from its value in the current configuration, *)
(* a behavior from the manifest's upgrade_from, which nothing compares     *)
(* with the version that runs.                                             *)
(***************************************************************************)
PlanFor(moves) ==
    [k \in DOMAIN moves |->
        PlanStep(moves[k].item,
                 IF moves[k].item \in ConfigKey THEN rLive[moves[k].item] ELSE moves[k].from,
                 moves[k].to)]

\* The first step of a plan that moves i.
IsFirstMove(steps, k, i) ==
    /\ k \in DOMAIN steps /\ steps[k].item = i
    /\ \A j \in DOMAIN steps : j < k => steps[j].item # i

\* The items a plan moves from another version than the one they have in live.
Misstated(steps, live) ==
    {i \in Item : \E k \in DOMAIN steps : IsFirstMove(steps, k, i) /\ steps[k].from # live[i]}

\* A manifest is planned against the running configuration and apply() begins.
BeginApply ==
    /\ rCall = ReleaseIdle /\ rMade < MaxReleases /\ rMade' = rMade + 1
    /\ \E moves \in Manifest :
           /\ rPlan' = Append(rPlan, PlanFor(moves))
           /\ rCall' = [kind |-> "apply", release |-> rMade + 1, left |-> PlanFor(moves), done |-> << >>]
           /\ rAstray' = rAstray \union Misstated(PlanFor(moves), rLive)
    /\ rFrom' = rLive /\ rOutcome' = "none"
    /\ UNCHANGED <<rLive, rCurrent, rHistory, rTarget, rBroken>>

StepApplied ==
    /\ rCall.kind = "apply" /\ rCall.left # << >>
    /\ LET s == Head(rCall.left)
       IN  /\ rLive' = [rLive EXCEPT ![s.item] = s.to]
           /\ rCall' = [rCall EXCEPT !.left = Tail(@), !.done = Append(@, s)]
    /\ UNCHANGED <<rPlan, rMade, rCurrent, rHistory, rFrom, rTarget, rOutcome, rBroken, rAstray>>

\* Faulty variant: the completed steps are undone in the order they were applied.
StepRefusedForward ==
    /\ rCall.kind = "apply" /\ rCall.left # << >>
    /\ rCall' = [rCall EXCEPT !.kind = "undo", !.left = rCall.done, !.done = << >>]
    /\ UNCHANGED <<rLive, rPlan, rMade, rCurrent, rHistory, rFrom, rTarget, rOutcome, rBroken, rAstray>>

\* The handler refuses a step: the completed ones are undone, last first.
StepRefused ==
    /\ rCall.kind = "apply" /\ rCall.left # << >>
    /\ rCall' = [rCall EXCEPT !.kind = "undo", !.left = Reverse(rCall.done), !.done = << >>]
    /\ UNCHANGED <<rLive, rPlan, rMade, rCurrent, rHistory, rFrom, rTarget, rOutcome, rBroken, rAstray>>

\* record_apply: the previous release goes to the history, the oldest of a
\* full one is forgotten.
RecordApply ==
    /\ rCall.kind = "apply" /\ rCall.left = << >>
    /\ LET grown == IF rCurrent = 0 THEN rHistory ELSE Append(rHistory, rCurrent)
       IN  rHistory' = IF Len(grown) > MaxHistory THEN Tail(grown) ELSE grown
    /\ rCurrent' = rCall.release
    /\ rTarget' = [n \in DOMAIN rTarget \cup {rCall.release} |->
                      IF n = rCall.release THEN rLive ELSE rTarget[n]]
    /\ rCall' = ReleaseIdle /\ rOutcome' = "ok"
    /\ UNCHANGED <<rLive, rPlan, rMade, rFrom, rBroken, rAstray>>

\* ReleaseManager::rollback of the plan the current release was applied with.
BeginRollback ==
    /\ rCall = ReleaseIdle /\ rCurrent # 0 /\ ~rBroken
    /\ rCall' = [kind |-> "rollback", release |-> rCurrent,
                 left |-> Reverse(rPlan[rCurrent]), done |-> << >>]
    /\ rFrom' = rLive /\ rOutcome' = "none"
    /\ UNCHANGED <<rLive, rPlan, rMade, rCurrent, rHistory, rTarget, rBroken, rAstray>>

StepUndone ==
    /\ rCall.kind \in {"undo", "rollback"} /\ rCall.left # << >>
    /\ LET s == Head(rCall.left)
       IN  /\ rLive' = [rLive EXCEPT ![s.item] = s.from]
           /\ rCall' = [rCall EXCEPT !.left = Tail(@)]
    /\ UNCHANGED <<rPlan, rMade, rCurrent, rHistory, rFrom, rTarget, rOutcome, rBroken, rAstray>>

\* rollback_step fails: both calls return at once and undo nothing more.
UndoRefused ==
    /\ rCall.kind \in {"undo", "rollback"} /\ rCall.left # << >>
    /\ rCall' = ReleaseIdle /\ rOutcome' = "stuck" /\ rBroken' = TRUE
    /\ UNCHANGED <<rLive, rPlan, rMade, rCurrent, rHistory, rFrom, rTarget, rAstray>>

\* apply returns its error, or rollback goes back to the release before.
EndUndo ==
    /\ rCall.kind \in {"undo", "rollback"} /\ rCall.left = << >>
    /\ IF rCall.kind = "undo"
       THEN rOutcome' = "undone" /\ UNCHANGED <<rCurrent, rHistory>>
       ELSE /\ rOutcome' = "ok"
            /\ rCurrent' = IF rHistory = << >> THEN 0 ELSE Last(rHistory)
            /\ rHistory' = IF rHistory = << >> THEN << >> ELSE Front(rHistory)
    /\ rCall' = ReleaseIdle
    /\ UNCHANGED <<rLive, rPlan, rMade, rFrom, rTarget, rBroken, rAstray>>

RelNext ==
    \/ BeginApply \/ BeginRollback
    \/ StepApplied \/ StepRefused \/ RecordApply
    \/ StepUndone \/ UndoRefused \/ EndUndo

-----------------------------------------------------------------------------
(***************************************************************************)
(* Nothing half done: an apply() that fails and whose undoing succeeds     *)
(* leaves every item as it was, even one that several steps moved; except  *)
(* that a behavior whose first step misstates the version it had may be    *)
(* left at the version the manifest says it had.                           *)
(***************************************************************************)
AllOrNothing ==
    rOutcome = "undone" =>
        \A i \in Item :
            \/ rLive[i] = rFrom[i]
            \/ i \notin ConfigKey /\ \E k \in DOMAIN rPlan[rMade] :
                  IsFirstMove(rPlan[rMade], k, i) /\ rLive[i] = rPlan[rMade][k].from

(***************************************************************************)
(* The release called current is the one the runtime is on, after any      *)
(* sequence of applies, failed applies and rollbacks with a bounded        *)
(* history, as long as no rollback_step has failed; and so is, when it is  *)
(* reached by rollbacks, every release of the history.  This holds for     *)
(* every item no manifest has misstated the version of, so for all         *)
(* configuration keys.                                                     *)
(***************************************************************************)
CurrentIsLive ==
    /\ rAstray \subseteq Item \ ConfigKey
    /\ rCall = ReleaseIdle /\ ~rBroken /\ rCurrent # 0 =>
          \A i \in Item \ rAstray : rLive[i] = rTarget[rCurrent][i]
=============================================================================
