-------------------------------- MODULE HotCode --------------------------------
(***************************************************************************)
(* The hot code registry (agent_rt/hot_code.rs) for one behavior name: the *)
(* versions registered, the version each process runs and those it ran     *)
(* before.  An upgrade is what its callers do: prepare_upgrade, then       *)
(* push_version_history of the version left and set_process_version.       *)
(***************************************************************************)
EXTENDS Naturals, Sequences, SequencesExt, Collections

CONSTANTS
    HotPid,        \* processes
    HotVersion,    \* version strings
    MaxRegistered  \* bound: registrations and upgrades of a process

ASSUME HotCodeAssumption == MaxRegistered \in Nat

VARIABLES
    hcVersions,  \* behaviors[name]: versions in the order registered
    hcRuns,      \* process_versions, for the processes tracked
    hcHistory    \* version_history, for the processes that have one
hcVars == <<hcVersions, hcRuns, hcHistory>>

HotInit == hcVersions = << >> /\ hcRuns = << >> /\ hcHistory = << >>

Tracked == DOMAIN hcRuns

\* register() never looks whether the version is there already.
Register(v) ==
    /\ Len(hcVersions) < MaxRegistered
    /\ hcVersions' = Append(hcVersions, v) /\ UNCHANGED <<hcRuns, hcHistory>>

\* get_factory finds the first entry of the version.
HasFactory(v) == v \in Range(hcVersions)

\* A process is spawned from a factory of the registry and tracked.
Track(p, v) ==
    /\ p \notin Tracked /\ HasFactory(v)
    /\ hcRuns' = With(hcRuns, p, v) /\ UNCHANGED <<hcVersions, hcHistory>>

RemoveProcess(p) ==
    /\ hcRuns' = Without(hcRuns, p) /\ hcHistory' = Without(hcHistory, p)
    /\ UNCHANGED hcVersions

PastOf(p) == IF p \in DOMAIN hcHistory THEN hcHistory[p] ELSE << >>

\* prepare_upgrade, push_version_history, set_process_version.
UpgradeProcess(p, v) ==
    /\ p \in Tracked /\ HasFactory(v) /\ Len(PastOf(p)) < MaxRegistered
    /\ hcHistory' = With(hcHistory, p, Append(PastOf(p), hcRuns[p]))
    /\ hcRuns' = With(hcRuns, p, v)
    /\ UNCHANGED hcVersions

\* prepare_rollback names the last version of the history and leaves it there.
RollbackProcess(p) ==
    /\ p \in Tracked /\ PastOf(p) # << >> /\ HasFactory(Last(PastOf(p)))
    /\ hcRuns' = With(hcRuns, p, Last(PastOf(p)))
    /\ UNCHANGED <<hcVersions, hcHistory>>

HotNext ==
    \/ \E v \in HotVersion : Register(v)
    \/ \E p \in HotPid :
         \/ RemoveProcess(p) \/ RollbackProcess(p)
         \/ \E v \in HotVersion : Track(p, v) \/ UpgradeProcess(p, v)

-----------------------------------------------------------------------------
(***************************************************************************)
(* Whatever the order of upgrades, rollbacks and removals: a history       *)
(* belongs to a tracked process, so that a PID used again inherits none,   *)
(* and the version it would be rolled back to still has a factory.         *)
(***************************************************************************)
RollbackPossible ==
    \A p \in DOMAIN hcHistory : p \in Tracked /\ HasFactory(Last(hcHistory[p]))

=============================================================================
