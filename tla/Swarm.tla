--------------------------------- MODULE Swarm ---------------------------------
(***************************************************************************)
(* Swarms (zeptobeam/src/swarm.rs): steps run one after the other, all at  *)
(* once, or in waves along their dependencies, and validate_dag, which     *)
(* tells beforehand whether the waves reach every step.  A step is a       *)
(* process of the zeptovm library: it is sent the message and exits, or    *)
(* its task fails.                                                         *)
(***************************************************************************)
EXTENDS Naturals, FiniteSets

CONSTANTS
    SwarmStep,  \* the steps
    Nowhere     \* an id that no step has
ASSUME SwarmAssumption == Nowhere \notin SwarmStep /\ IsFiniteSet(SwarmStep)

VARIABLES
    wStrategy,   \* SwarmStrategy
    wDepends,    \* depends_on of each step
    wPending,    \* steps not started
    wWave,       \* steps started and not yet joined
    wCompleted,  \* steps joined
    wFailed,     \* history: those whose join failed
    wOver        \* the swarm has returned
wVars == <<wStrategy, wDepends, wPending, wWave, wCompleted, wFailed, wOver>>

SwarmInit ==
    /\ wStrategy \in {"Sequential", "Parallel", "Dag"}
    /\ wDepends \in [SwarmStep -> SUBSET (SwarmStep \cup {Nowhere})]
    /\ wStrategy # "Dag" => wDepends = [s \in SwarmStep |-> {}]
    /\ wPending = SwarmStep /\ wWave = {} /\ wCompleted = {} /\ wFailed = {} /\ wOver = FALSE

\* Faulty variant: one dependency that has completed is enough.
ReadyIfAny ==
    {s \in wPending : wDepends[s] # {} => wDepends[s] \cap wCompleted # {}}
\* The steps of the next wave.
Ready == {s \in wPending : wDepends[s] \subseteq wCompleted}

\* run_sequential, run_parallel, run_dag: the next step, all steps, or the next wave starts.
StartWave ==
    /\ ~wOver /\ wWave = {} /\ Ready # {}
    /\ wWave' = (IF wStrategy = "Sequential" THEN {CHOOSE s \in Ready : TRUE} ELSE Ready)
    /\ wPending' = wPending \ wWave'
    /\ UNCHANGED <<wStrategy, wDepends, wCompleted, wFailed, wOver>>

\* A step is joined; one whose task failed counts as completed for its dependents.
Join(s, failed) ==
    /\ s \in wWave
    /\ wWave' = wWave \ {s} /\ wCompleted' = wCompleted \cup {s}
    /\ wFailed' = IF failed THEN wFailed \cup {s} ELSE wFailed
    /\ UNCHANGED <<wStrategy, wDepends, wPending, wOver>>

\* Nothing pending, or nothing that can start.
SwarmReturns ==
    /\ ~wOver /\ wWave = {} /\ Ready = {} /\ wOver' = TRUE
    /\ UNCHANGED <<wStrategy, wDepends, wPending, wWave, wCompleted, wFailed>>

SwarmNext ==
    \/ StartWave \/ SwarmReturns
    \/ \E s \in SwarmStep, failed \in BOOLEAN : Join(s, failed)

(***************************************************************************)
(* validate_dag: all dependencies exist and Kahn's algorithm, which takes  *)
(* out a step all of whose dependencies are out, visits every step.        *)
(***************************************************************************)
Visited ==
    LET after[n \in 0..Cardinality(SwarmStep)] ==
            IF n = 0 THEN {}
            ELSE LET free == {s \in SwarmStep \ after[n - 1] : wDepends[s] \subseteq after[n - 1]}
                 IN  IF free = {} THEN after[n - 1] ELSE after[n - 1] \cup {CHOOSE s \in free : TRUE}
    IN  after[Cardinality(SwarmStep)]

ValidDag ==
    /\ \A s \in SwarmStep : Nowhere \notin wDepends[s]
    /\ Visited = SwarmStep

-----------------------------------------------------------------------------
(***************************************************************************)
(* validate_dag is right about run_dag: a swarm it accepts runs every      *)
(* step, one it rejects leaves some step out.                              *)
(***************************************************************************)
ValidatedRunsAll == wOver => (ValidDag <=> wPending = {})

(***************************************************************************)
(* A step starts after all the steps it depends on have been joined, those *)
(* of its own wave excluded.                                               *)
(***************************************************************************)
StartsAfterItsDependencies ==
    \A s \in wWave \cup wCompleted : wDepends[s] \subseteq wCompleted

(***************************************************************************)
(* run_dag runs what validate_dag accepts, all of it and in the order of   *)
(* the dependencies.                                                       *)
(***************************************************************************)
DagRunsInOrder == ValidatedRunsAll /\ StartsAfterItsDependencies
=============================================================================
