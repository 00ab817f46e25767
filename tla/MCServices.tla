------------------------------ MODULE MCServices ------------------------------
(***************************************************************************)
(* What is kept and what is built around the scheduler, for TLC: the       *)
(* durable mailbox, disk tables, tables in memory and checkpoint stores;   *)
(* behaviors, the cluster, releases and hot code, the HTTP and MCP servers,*)
(* swarms, the chat bridge and the two daemons.  In a behaviour one of     *)
(* them, the subject, moves.                                               *)
(***************************************************************************)
EXTENDS DurableMailbox, Dets, Ets, Checkpoints, Behaviors, Cluster, Releases, HotCode,
        HttpServer, McpServer, Swarm, LlmBridge, DaemonV2

CONSTANT Subjects   \* the components that move in a run

VARIABLE subject

storeVars == <<vars, dVars, eVars, cVars>>
serviceVars == <<gVars, kVars, rVars, hcVars, hVars, mVars, wVars, lVars, vVars>>
mcvVars == <<subject, storeVars, serviceVars>>

AllFaults == {"kill", "power", "ioerror", "torn", "header", "stale"}
Plan(faults, drained) == [faults |-> faults, drained |-> drained]
BenignPlan == Plan({"kill", "power", "ioerror"}, FALSE)
Plans == {BenignPlan, Plan(AllFaults, TRUE)}
DrainedPlans == {Plan({"kill"}, TRUE)}

Names == [k \in {"a/b", "a_b", "c"} |-> IF k = "c" THEN "c" ELSE "a_b"]

\* With all faults, shorter logs of one kind of message are enough.
MailboxBound ==
    plan = BenignPlan \/ (sequence' <= 3 /\ \A e \in adding' \union buffer' : e.msg = "a")

\* Behaviors i and j, configuration keys c and d.
Up(i, f, n) == [item |-> i, from |-> f, to |-> n]
Set(c, n) == [item |-> c, from |-> 0, to |-> n]
Manifests ==
    {<<Up("i", 0, 1), Set("c", 1)>>, <<Up("i", 1, 2), Up("j", 0, 1)>>, <<Set("d", 1), Set("c", 2)>>,
     <<Up("i", 0, 1), Up("i", 1, 2), Up("j", 1, 2)>>}

Agent(n, r, auto) == [name |-> n, rev |-> r, auto |-> auto]
Files ==
    {[valid |-> TRUE, agents |-> s] : s \in
        {<<Agent("a", 1, TRUE)>>, <<Agent("a", 1, TRUE), Agent("b", 1, TRUE)>>,
         <<Agent("b", 1, TRUE), Agent("b", 2, TRUE)>>, <<Agent("a", 1, FALSE), Agent("b", 1, TRUE)>>}}
    \cup {[valid |-> FALSE, agents |-> << >>]}

\* The subjects whose Init is a choice keep one value while another moves.
SuiteInit ==
    /\ subject \in Subjects
    /\ Init /\ (subject # "mailbox" => plan = CHOOSE p \in FaultPlans : TRUE)
    /\ DetsInit /\ (subject # "dets" => dTable.access = "Public")
    /\ EtsInit
    /\ CkptInit /\ (subject # "checkpoints" => cKind = "file")
    /\ GenInit /\ ClusterInit /\ RelInit /\ HotInit /\ HttpInit /\ McpInit /\ LlmInit
    /\ SwarmInit /\ (subject # "swarm" => wStrategy = "Parallel")
    /\ DaemonInit /\ (subject # "daemon" => vFile = CHOOSE f \in Files : f.valid)

StoreNext ==
    \/ subject = "mailbox" /\ Next /\ MailboxBound /\ UNCHANGED <<dVars, eVars, cVars>>
    \/ subject = "dets" /\ DetsNext /\ UNCHANGED <<vars, eVars, cVars>>
    \/ subject = "ets" /\ EtsNext /\ UNCHANGED <<vars, dVars, cVars>>
    \/ subject = "checkpoints" /\ CkptNext /\ UNCHANGED <<vars, dVars, eVars>>

ServiceNext ==
    \/ /\ subject = "behaviors" /\ GenNext
       /\ UNCHANGED <<kVars, rVars, hcVars, hVars, mVars, wVars, lVars, vVars>>
    \/ /\ subject = "cluster" /\ ClusterNext
       /\ UNCHANGED <<gVars, rVars, hcVars, hVars, mVars, wVars, lVars, vVars>>
    \/ /\ subject = "releases" /\ RelNext
       /\ UNCHANGED <<gVars, kVars, hcVars, hVars, mVars, wVars, lVars, vVars>>
    \/ /\ subject = "hotcode" /\ HotNext
       /\ UNCHANGED <<gVars, kVars, rVars, hVars, mVars, wVars, lVars, vVars>>
    \/ /\ subject = "http" /\ HttpNext
       /\ UNCHANGED <<gVars, kVars, rVars, hcVars, mVars, wVars, lVars, vVars>>
    \/ /\ subject = "mcp" /\ McpServerNext
       /\ UNCHANGED <<gVars, kVars, rVars, hcVars, hVars, wVars, lVars, vVars>>
    \/ /\ subject = "swarm" /\ SwarmNext
       /\ UNCHANGED <<gVars, kVars, rVars, hcVars, hVars, mVars, lVars, vVars>>
    \/ /\ subject = "llm" /\ LlmNext
       /\ UNCHANGED <<gVars, kVars, rVars, hcVars, hVars, mVars, wVars, vVars>>
    \/ /\ subject = "daemon" /\ DaemonNext
       /\ UNCHANGED <<gVars, kVars, rVars, hcVars, hVars, mVars, wVars, lVars>>

SuiteNext ==
    /\ UNCHANGED subject
    /\ \/ StoreNext /\ UNCHANGED serviceVars
       \/ ServiceNext /\ UNCHANGED storeVars

\* What the threads and tasks of the subject keep doing.
SuiteFairness ==
    /\ WF_hVars(subject = "http" /\ (WorkerStep \/ WorkerStops \/ ServerDown \/ Joined))
    /\ WF_hVars(subject = "http" /\ \E c \in HttpClient : CallReturns(c) \/ CallTimesOut(c))
    /\ WF_lVars(subject = "llm" /\ \E a \in LlmAgent : SubmitChat(a) \/ Poll(a) \/ GiveUp(a))
    /\ WF_vVars(subject = "daemon" /\ DaemonStep)
    /\ WF_vVars(subject = "daemon" /\ CheckForChanges)
    /\ WF_vVars(subject = "daemon" /\ KilledExits)

SuiteSpec == SuiteInit /\ [][SuiteNext]_mcvVars /\ SuiteFairness

-----------------------------------------------------------------------------
(***************************************************************************)
(* The stores keep what they were given: a disk table answers what a       *)
(* restart would read, a table in memory has an owner who can read it,     *)
(* load() returns the last save.                                           *)
(***************************************************************************)
StoresKept == CacheIsDurable /\ TablesHaveOwners /\ LoadsLastSave

(***************************************************************************)
(* An upgrade can be taken back: a failed apply() leaves every item as it  *)
(* was, the release called current is the one that runs (both but for      *)
(* behaviors whose manifest misstates the version they have), and the      *)
(* version a process would be rolled back to can still be built.           *)
(***************************************************************************)
UpgradesUndoable == AllOrNothing /\ CurrentIsLive /\ RollbackPossible

(***************************************************************************)
(* What was begun ends: the shutdown of both daemons, every chat(), and    *)
(* the reload of an edited configuration.                                  *)
(***************************************************************************)
ServicesSettle == DaemonStops /\ ChatReturns /\ ReloadSettles /\ DaemonV2Stops
=============================================================================
