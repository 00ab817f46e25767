------------------------------- MODULE Cluster -------------------------------
(***************************************************************************)
(* The cluster of schedulers (agent_rt/cluster.rs): partitions that run    *)
(* one after the other in a tick, a map from PIDs to partitions, and the   *)
(* routing of what a process sends to one of another partition.  Of a      *)
(* partition's scheduler, here are its processes with their mailboxes and  *)
(* its outbound messages: a turn of a process may send, spawn and stop.    *)
(* tick() is cut between partitions; the other calls are single steps.     *)
(***************************************************************************)
EXTENDS Naturals, FiniteSets, Sequences, Functions, Collections

CONSTANTS
    Partitions,     \* number of schedulers
    ClusterMailbox, \* mailbox_capacity
    MaxClusterPids, \* bound: processes ever spawned
    MaxClusterEvents \* bound: processes ever spawned and messages ever sent together

ASSUME ClusterAssumption ==
    /\ Partitions \in Nat \ {0} /\ ClusterMailbox \in Nat \ {0}
    /\ MaxClusterPids \in Nat /\ MaxClusterEvents \in Nat

VARIABLES
    kLive,      \* of each partition, the PIDs in its registry
    kBox,       \* of each PID, its mailbox: messages [from, nr], oldest first
    kOut,       \* of each partition, outbound_messages
    kOwner,     \* pid_owner
    kSpawnAt,   \* next_spawn_partition
    kTickAt,    \* next_tick_partition
    kPhase,     \* partitions still to tick in the round, 0 between rounds
    kTurn,      \* partitions ticked in the round already
    kPids,      \* PIDs given out
    kSent,      \* messages sent
    kRefused,   \* history: numbers of the messages a hook refused in the last routing
    kStopped    \* graceful_shutdown() has run

kVars == <<kLive, kBox, kOut, kOwner, kSpawnAt, kTickAt, kPhase, kTurn, kPids, kSent,
           kRefused, kStopped>>

Part == 0..(Partitions - 1)
KPid == 1..MaxClusterPids
AllLive == UNION {kLive[i] : i \in Part}

ClusterInit ==
    /\ kLive = [i \in Part |-> {}] /\ kBox = [p \in KPid |-> << >>]
    /\ kOut = [i \in Part |-> << >>] /\ kOwner = << >>
    /\ kSpawnAt = 0 /\ kTickAt = 0 /\ kPhase = 0 /\ kTurn = {}
    /\ kPids = 0 /\ kSent = 0 /\ kRefused = {} /\ kStopped = FALSE

Bounded == kPids + kSent < MaxClusterEvents

Between == kPhase = 0 /\ ~kStopped

\* Faulty variant: PIDs that are gone keep their owner.
ReconcileKeeps(live) ==
    [p \in DOMAIN kOwner \union UNION {live[i] : i \in Part} |->
        IF p \in UNION {live[i] : i \in Part} THEN CHOOSE i \in Part : p \in live[i]
        ELSE kOwner[p]]

\* reconcile_pid_map
Reconcile(live) ==
    [p \in UNION {live[i] : i \in Part} |-> CHOOSE i \in Part : p \in live[i]]

\* spawn_on; an init that refuses changes nothing.
SpawnOn(i) ==
    /\ Bounded /\ kPids < MaxClusterPids /\ kPids' = kPids + 1
    /\ kLive' = [kLive EXCEPT ![i] = @ \union {kPids + 1}]
    /\ kOwner' = [p \in DOMAIN kOwner \union {kPids + 1} |->
                    IF p = kPids + 1 THEN i ELSE kOwner[p]]
    /\ UNCHANGED <<kBox, kOut, kTickAt, kPhase, kTurn, kSent, kRefused, kStopped>>

ClusterSpawn ==
    /\ Between
    /\ kSpawnAt' = (kSpawnAt + 1) % Partitions
    /\ SpawnOn(kSpawnAt)

Msg0(from) == [from |-> from, nr |-> kSent + 1]

FirstOf(s, n) == IF Len(s) > n THEN SubSeq(s, 1, n) ELSE s

\* deliver_message: a full mailbox refuses, and the message goes.
Delivered(to, m) == [kBox EXCEPT ![to] = FirstOf(Append(@, m), ClusterMailbox)]

\* on_send of the message hook, which every send() of a scheduler asks first
HookRefuses == UNCHANGED <<kBox, kOut>>

\* send() from outside: reconcile, find the partition, hand over.  It fails
\* for a process that is gone, for a full mailbox and where the hook refuses.
ClusterSend(to) ==
    /\ Between /\ Bounded
    /\ kOwner' = Reconcile(kLive)
    /\ to \in AllLive
    /\ kSent' = kSent + 1
    /\ HookRefuses \/ (kBox' = Delivered(to, Msg0(0)) /\ UNCHANGED kOut)
    /\ UNCHANGED <<kLive, kSpawnAt, kTickAt, kPhase, kTurn, kPids, kRefused, kStopped>>

\* Through scheduler_mut() the host reaches one partition and nothing else.
HostStops(i, p) ==
    /\ Between /\ p \in kLive[i]
    /\ kLive' = [kLive EXCEPT ![i] = @ \ {p}]
    /\ kBox' = [kBox EXCEPT ![p] = << >>]
    /\ UNCHANGED <<kOut, kOwner, kSpawnAt, kTickAt, kPhase, kTurn, kPids, kSent, kRefused, kStopped>>

-----------------------------------------------------------------------------
\* tick(): the partitions from next_tick_partition on, each once.
Ticking(i) ==
    /\ ~kStopped /\ kPhase < Partitions /\ i = (kTickAt + kPhase) % Partitions
    /\ kPhase' = kPhase + 1 /\ kTurn' = kTurn \union {i} /\ kRefused' = {}
    /\ UNCHANGED <<kSpawnAt, kTickAt, kStopped>>

\* A partition without work
TickIdle(i) == Ticking(i) /\ UNCHANGED <<kLive, kBox, kOut, kOwner, kPids, kSent>>

\* Action::Send: a local receiver gets it at once, every other PID is left to
\* the cluster.
TurnSends(i, p, to) ==
    /\ Ticking(i) /\ p \in kLive[i] /\ Bounded
    /\ kSent' = kSent + 1
    /\ \/ HookRefuses
       \/ /\ to \in kLive[i]
          /\ kBox' = Delivered(to, Msg0(p)) /\ UNCHANGED kOut
       \/ /\ to \notin kLive[i]
          /\ kOut' = [kOut EXCEPT ![i] = Append(@, [to |-> to, msg |-> Msg0(p)])]
          /\ UNCHANGED kBox
    /\ UNCHANGED <<kLive, kOwner, kPids>>

\* A process takes a message, or stops with its mailbox.
TurnTakes(i, p) ==
    /\ Ticking(i) /\ p \in kLive[i] /\ kBox[p] # << >>
    /\ kBox' = [kBox EXCEPT ![p] = Tail(@)]
    /\ UNCHANGED <<kLive, kOut, kOwner, kPids, kSent>>

TurnStops(i, p) ==
    /\ Ticking(i) /\ p \in kLive[i]
    /\ kLive' = [kLive EXCEPT ![i] = @ \ {p}]
    /\ kBox' = [kBox EXCEPT ![p] = << >>]
    /\ UNCHANGED <<kOut, kOwner, kPids, kSent>>

\* Action::Spawn: the child belongs to its parent's partition; pid_owner hears
\* of it when it is reconciled.
TurnSpawns(i, p) ==
    /\ Ticking(i) /\ p \in kLive[i] /\ Bounded /\ kPids < MaxClusterPids
    /\ kPids' = kPids + 1
    /\ kLive' = [kLive EXCEPT ![i] = @ \union {kPids + 1}]
    /\ UNCHANGED <<kBox, kOut, kOwner, kSent>>

\* route_outbound_messages calls send(), which reconciles first.
Routable(to) == to \in DOMAIN Reconcile(kLive)

\* drain_outbound_messages of every partition
Outbound ==
    LET upTo[i \in 0..Partitions] == IF i = 0 THEN << >> ELSE upTo[i - 1] \o kOut[i - 1]
    IN  upTo[Partitions]

\* The end of tick(): what all partitions left is sent in order, each message
\* past the hook of its receiver's scheduler and into what room the mailbox has,
\* and dropped where that fails.  Then the map is brought up to date.
Route ==
    LET routable == {o \in Range(Outbound) : Routable(o.to)}
    IN  /\ kPhase = Partitions /\ ~kStopped
        /\ kPhase' = 0 /\ kTurn' = {} /\ kTickAt' = (kTickAt + 1) % Partitions
        /\ \E refused \in SUBSET {o.msg.nr : o \in routable} :
              LET new(p) == Only(Outbound, {o \in routable : o.to = p /\ o.msg.nr \notin refused})
              IN  /\ kRefused' = refused
                  /\ kBox' = [p \in KPid |->
                       IF p \in AllLive
                       THEN FirstOf(kBox[p] \o [j \in DOMAIN new(p) |-> new(p)[j].msg], ClusterMailbox)
                       ELSE kBox[p]]
        /\ kOut' = [i \in Part |-> << >>]
        /\ kOwner' = Reconcile(kLive)
        /\ UNCHANGED <<kLive, kSpawnAt, kPids, kSent, kStopped>>

\* graceful_shutdown(): the shared bridge first, then every partition.
ClusterShutdown ==
    /\ Between
    /\ kStopped' = TRUE
    /\ kLive' = [i \in Part |-> {}] /\ kBox' = [p \in KPid |-> << >>] /\ kOwner' = << >>
    /\ UNCHANGED <<kOut, kSpawnAt, kTickAt, kPhase, kTurn, kPids, kSent, kRefused>>

ClusterNext ==
    \/ ClusterSpawn \/ (\E to \in KPid : ClusterSend(to)) \/ Route \/ ClusterShutdown
    \/ Between /\ UNCHANGED kSpawnAt /\ \E i \in Part : SpawnOn(i)
    \/ \E i \in Part :
          \/ TickIdle(i)
          \/ \E p \in kLive[i] : \/ HostStops(i, p) \/ TurnTakes(i, p) \/ TurnStops(i, p)
                                 \/ TurnSpawns(i, p)
                                 \/ \E to \in KPid : TurnSends(i, p, to)

-----------------------------------------------------------------------------
(***************************************************************************)
(* Of the messages one process sends another, the receiver finds the older *)
(* before the newer, whichever partitions they are in and whatever dies    *)
(* and is routed meanwhile.                                                *)
(***************************************************************************)
PairOrder ==
    \A p \in KPid : \A i, j \in DOMAIN kBox[p] :
        (i < j /\ kBox[p][i].from = kBox[p][j].from) => kBox[p][i].nr < kBox[p][j].nr

(***************************************************************************)
(* After a round nothing is left outbound, and of what was, each message   *)
(* whose receiver lives (also one spawned in the same round) is in its     *)
(* mailbox, unless that is full or a hook refused the message; and the     *)
(* mail that was there is still at the front, so what a full mailbox       *)
(* loses is the newest.                                                    *)
(***************************************************************************)
RoutedOrGoneStep ==
    kPhase # 0 /\ kPhase' = 0 =>
        \A i \in Part :
           /\ kOut'[i] = << >>
           /\ \A o \in Range(kOut[i]) : o.to \in AllLive =>
                 \/ o.msg \in Range(kBox'[o.to])
                 \/ Len(kBox'[o.to]) = ClusterMailbox
                 \/ o.msg.nr \in kRefused'
           /\ \A p \in kLive[i] : \A j \in DOMAIN kBox[p] :
                 j \in DOMAIN kBox'[p] /\ kBox'[p][j] = kBox[p][j]

(***************************************************************************)
(* After a round pid_owner is exact: owner_of() names the partition of     *)
(* every process, also of those spawned or stopped in the round, and of no *)
(* other PID.                                                              *)
(***************************************************************************)
OwnersCurrentStep ==
    kPhase # 0 /\ kPhase' = 0 =>
       \A p \in KPid, i \in Part :
           p \in kLive'[i] <=> (p \in DOMAIN kOwner' /\ kOwner'[p] = i)

(***************************************************************************)
(* The partitions act as one scheduler: mail keeps its order, the routing  *)
(* loses what one scheduler would lose (to a process that is gone, to a    *)
(* full mailbox, to the hook) and nothing else, and after a round          *)
(* pid_owner is exact.                                                     *)
(***************************************************************************)
ClusterRoutes == [][PairOrder' /\ RoutedOrGoneStep /\ OwnersCurrentStep]_kVars
=============================================================================
