-------------------------------- MODULE DaemonV2 --------------------------------
(***************************************************************************)
(* The second daemon (zeptobeam/src/main.rs, run_daemon_v2): one zeptovm   *)
(* process per configured agent, a watcher that polls the configuration    *)
(* file (config_watcher.rs, config_loader.rs) and sends changes through a  *)
(* bounded channel, the main loop that removes and adds agents and then    *)
(* shuts down, and the table the HTTP server's tools use (runtime_ops.rs). *)
(* The body of the loop is cut at every agent: the tools run in between.   *)
(***************************************************************************)
EXTENDS Naturals, FiniteSets, Sequences, SequencesExt, Collections

CONSTANTS
    ConfigFile,   \* contents the file may have: [valid, agents], agents [name, rev, auto]
    ChannelSize,  \* capacity of the watcher's channel
    MaxEdits      \* bound: edits of the file

ASSUME DaemonAssumption ==
    /\ ChannelSize \in Nat \ {0} /\ MaxEdits \in Nat
    /\ \A f \in ConfigFile : f.agents \in Seq(Range(f.agents))

VARIABLES
    vFile,     \* the configuration file
    vEdits,    \* edits made
    vHash,     \* the watcher's last_hash: here the agents themselves
    vSending,  \* changes the watcher waits to send, at most one
    vChannel,  \* changes on their way
    vHandles,  \* handles and joins: [name, pid], in order
    vTable,    \* ZeptovmRuntimeOps::processes: name -> pid
    vPids,     \* PIDs given out
    vAlive,    \* processes that have not exited
    vKilled,   \* processes whose kill token is cancelled
    vTodo,     \* the change being applied: names to remove, agents to add, and whether one is
    vCount,    \* process_count
    vPhase     \* "up", "killing", "joining", "stopped"
vVars == <<vFile, vEdits, vHash, vSending, vChannel, vHandles, vTable, vPids, vAlive, vKilled,
           vTodo, vCount, vPhase>>

NoReload == [busy |-> FALSE, remove |-> << >>, add |-> << >>]

\* resolve_agents: of a valid file, those to be started.
Resolved(file) == Only(file.agents, {a \in Range(file.agents) : a.auto})
NamesOf(seq) == {seq[k].name : k \in DOMAIN seq}

\* The daemon starts only with a file it can resolve, and spawns every agent.
DaemonInit ==
    /\ vFile \in {f \in ConfigFile : f.valid} /\ vEdits = 0 /\ vHash = vFile.agents
    /\ vSending = << >> /\ vChannel = << >>
    /\ vPids = Len(Resolved(vFile))
    /\ vHandles = [k \in 1..vPids |-> [name |-> Resolved(vFile)[k].name, pid |-> k]]
    /\ vTable = [n \in NamesOf(vHandles) |->
                    CHOOSE p \in 1..vPids : vHandles[p].name = n /\ \A q \in (p + 1)..vPids : vHandles[q].name # n]
    /\ vAlive = 1..vPids /\ vKilled = {} /\ vTodo = NoReload /\ vCount = vPids /\ vPhase = "up"

EditFile(f) ==
    /\ vEdits < MaxEdits /\ f # vFile /\ vFile' = f /\ vEdits' = vEdits + 1
    /\ UNCHANGED <<vHash, vSending, vChannel, vHandles, vTable, vPids, vAlive, vKilled, vTodo, vCount, vPhase>>

\* check_for_changes: an unreadable or invalid file is skipped; the hash is of all agents.
CheckForChanges ==
    /\ vPhase = "up" /\ vSending = << >> /\ vFile.valid /\ vFile.agents # vHash
    /\ vHash' = vFile.agents /\ vSending' = <<Resolved(vFile)>>
    /\ UNCHANGED <<vFile, vEdits, vChannel, vHandles, vTable, vPids, vAlive, vKilled, vTodo, vCount, vPhase>>

\* spawn_config_watcher: send() waits for room.
SendChange ==
    /\ vPhase = "up" /\ vSending # << >> /\ Len(vChannel) < ChannelSize
    /\ vChannel' = vChannel \o vSending /\ vSending' = << >>
    /\ UNCHANGED <<vFile, vEdits, vHash, vHandles, vTable, vPids, vAlive, vKilled, vTodo, vCount, vPhase>>

(***************************************************************************)
(* The loop takes a change; diff_agents compares names with what it runs.  *)
(***************************************************************************)
ReceiveChange ==
    /\ vPhase = "up" /\ ~vTodo.busy /\ vChannel # << >>
    /\ LET agents == Head(vChannel)
           names == [k \in DOMAIN vHandles |-> vHandles[k].name]
       IN  vTodo' = [busy |-> TRUE,
                     remove |-> Only(names, Range(names) \ NamesOf(agents)),
                     add |-> Only(agents, {a \in Range(agents) : a.name \notin NamesOf(vHandles)})]
    /\ vChannel' = Tail(vChannel)
    /\ UNCHANGED <<vFile, vEdits, vHash, vSending, vHandles, vTable, vPids, vAlive, vKilled, vCount, vPhase>>

PositionOf(n) == CHOOSE k \in DOMAIN vHandles :
                     vHandles[k].name = n /\ \A j \in 1..(k - 1) : vHandles[j].name # n

\* Faulty variant: the handle is dropped without a kill.
RemoveAgentUnkilled ==
    /\ vTodo.remove # << >>
    /\ LET n == Head(vTodo.remove)
       IN  /\ vHandles' = RemoveAt(vHandles, PositionOf(n))
           /\ vTable' = Without(vTable, n)
    /\ vTodo' = [vTodo EXCEPT !.remove = Tail(@)]
    /\ UNCHANGED <<vFile, vEdits, vHash, vSending, vChannel, vPids, vAlive, vKilled, vCount, vPhase>>

\* The first handle of the name is killed and waited for, two seconds at most.
RemoveAgent ==
    /\ vTodo.remove # << >>
    /\ LET n == Head(vTodo.remove)
       IN  /\ vKilled' = vKilled \cup {vHandles[PositionOf(n)].pid}
           /\ vHandles' = RemoveAt(vHandles, PositionOf(n))
           /\ vTable' = Without(vTable, n)
    /\ vTodo' = [vTodo EXCEPT !.remove = Tail(@)]
    /\ UNCHANGED <<vFile, vEdits, vHash, vSending, vChannel, vPids, vAlive, vCount, vPhase>>

AddAgent ==
    /\ vTodo.remove = << >> /\ vTodo.add # << >>
    /\ LET n == Head(vTodo.add).name
       IN  /\ vPids' = vPids + 1 /\ vAlive' = vAlive \cup {vPids + 1}
           /\ vHandles' = Append(vHandles, [name |-> n, pid |-> vPids + 1])
           /\ vTable' = With(vTable, n, vPids + 1)
    /\ vTodo' = [vTodo EXCEPT !.add = Tail(@)]
    /\ UNCHANGED <<vFile, vEdits, vHash, vSending, vChannel, vKilled, vCount, vPhase>>

ReloadComplete ==
    /\ vTodo.busy /\ vTodo.remove = << >> /\ vTodo.add = << >>
    /\ vTodo' = NoReload /\ vCount' = Len(vHandles)
    /\ UNCHANGED <<vFile, vEdits, vHash, vSending, vChannel, vHandles, vTable, vPids, vAlive, vKilled, vPhase>>

\* cancel_process of the HTTP server's tools, for a process of the table.
CancelProcess(n) ==
    /\ vPhase = "up" /\ n \in DOMAIN vTable /\ vKilled' = vKilled \cup {vTable[n]}
    /\ UNCHANGED <<vFile, vEdits, vHash, vSending, vChannel, vHandles, vTable, vPids, vAlive, vTodo, vCount, vPhase>>

\* A process exits: it was killed, or sent the stop command.
AgentExits(p) ==
    /\ p \in vAlive /\ vAlive' = vAlive \ {p}
    /\ UNCHANGED <<vFile, vEdits, vHash, vSending, vChannel, vHandles, vTable, vPids, vKilled, vTodo, vCount, vPhase>>

\* The loop sees the signal between two changes; watcher and server are stopped.
SignalV2 ==
    /\ vPhase = "up" /\ ~vTodo.busy /\ vPhase' = "killing"
    /\ UNCHANGED <<vFile, vEdits, vHash, vSending, vChannel, vHandles, vTable, vPids, vAlive, vKilled, vTodo, vCount>>

KillAll ==
    /\ vPhase = "killing" /\ vPhase' = "joining"
    /\ vKilled' = vKilled \cup {vHandles[k].pid : k \in DOMAIN vHandles}
    /\ UNCHANGED <<vFile, vEdits, vHash, vSending, vChannel, vHandles, vTable, vPids, vAlive, vTodo, vCount>>

\* Every join handle is awaited.
JoinAll ==
    /\ vPhase = "joining" /\ \A k \in DOMAIN vHandles : vHandles[k].pid \notin vAlive
    /\ vPhase' = "stopped"
    /\ UNCHANGED <<vFile, vEdits, vHash, vSending, vChannel, vHandles, vTable, vPids, vAlive, vKilled, vTodo, vCount>>

DaemonStep == SendChange \/ ReceiveChange \/ RemoveAgent \/ AddAgent \/ ReloadComplete \/ KillAll \/ JoinAll
KilledExits == \E p \in vKilled : AgentExits(p)

DaemonNext ==
    \/ \E f \in ConfigFile : EditFile(f)
    \/ CheckForChanges \/ SendChange \/ ReceiveChange \/ RemoveAgent \/ AddAgent \/ ReloadComplete
    \/ \E n \in DOMAIN vTable : CancelProcess(n)
    \/ \E p \in vAlive : AgentExits(p)
    \/ SignalV2 \/ KillAll \/ JoinAll

-----------------------------------------------------------------------------
(***************************************************************************)
(* No stray agent: a running process that nobody has killed is one the     *)
(* daemon holds a handle of, and between reloads the tools' table names    *)
(* only processes with a handle, duplicate names included.                 *)
(***************************************************************************)
NoStrayAgent ==
    /\ \A p \in vAlive \ vKilled : \E k \in DOMAIN vHandles : vHandles[k].pid = p
    /\ ~vTodo.busy => \A n \in DOMAIN vTable : [name |-> n, pid |-> vTable[n]] \in Range(vHandles)

(***************************************************************************)
(* Once the file stays as it is, and valid, the agents the daemon keeps    *)
(* are, by name, those the file wants, however edits, polls and a full     *)
(* channel interleave.                                                     *)
(***************************************************************************)
ReloadSettles ==
    <>[](vPhase = "up" /\ vFile.valid => NamesOf(vHandles) = NamesOf(Resolved(vFile)))

(***************************************************************************)
(* The daemon stops after a signal: each agent it has a handle of is       *)
(* killed, so that no join waits for ever.                                 *)
(***************************************************************************)
DaemonV2Stops == vPhase = "killing" ~> vPhase = "stopped"
=============================================================================
