---------------------------- MODULE Supervision ----------------------------
(***************************************************************************)
(* Supervisors (agent_rt/supervision.rs) attached to the scheduler as exit *)
(* handlers by Supervisor::start_linked.  terminate_process() takes the    *)
(* handler list while it runs the handlers, so a termination started from  *)
(* inside a handler reaches none of them: the handler must itself account  *)
(* for the children it terminates.  The restart delay of BackoffStrategy   *)
(* is only reported (pending_restart_delay); restarts happen at once.      *)
(***************************************************************************)
EXTENDS AgentScheduler, Collections

CONSTANTS
    NumSup,         \* supervisors, registered in the order 1..NumSup
    Specs,          \* SupervisorSpec: the strategy, and the ChildRestart of
                    \* each child by its id
    MaxRestarts,    \* max_restarts
    InitMayFail     \* a child's init may refuse

Sup == 1..NumSup

ASSUME SupervisionAssumption ==
    /\ NumSup \in Nat
    /\ Specs \subseteq [strategy : {"OneForOne", "OneForAll", "RestForOne"},
                        restarts : Seq({"Permanent", "Transient", "Temporary"})]
    /\ MaxRestarts \in Nat /\ InitMayFail \in BOOLEAN

VARIABLES
    spec,        \* the SupervisorSpec of each, Unstarted before start_linked
    children,    \* of each supervisor, a sequence of [id, pid]
    recent,      \* restart_timestamps still inside the window, counted
    gaveUp,      \* shutdown
    handler,     \* the handler call in progress
    supervised,  \* history: PIDs ever spawned for a supervisor
    refused      \* history: children of each whose init refused a restart

supVars == <<spec, children, recent, gaveUp, handler, supervised, refused>>
allVars == <<vars, supVars>>

Unstarted == [strategy |-> "None", restarts |-> << >>]

(***************************************************************************)
(* depth is the number of terminate_process() calls open when the handlers *)
(* began, 0 when none is running; sup is the next supervisor to ask; kill  *)
(* and respawn are what restart_all/restart_rest/restart_one still have to *)
(* do, at the place a single restarted child is inserted (0: at the end).  *)
(***************************************************************************)
NoHandler == [depth |-> 0, sup |-> 1, kill |-> << >>, respawn |-> << >>, at |-> 0]

SupTypeOK ==
    /\ children \in [Sup -> Seq([id : Nat, pid : Pid])]
    /\ recent \in [Sup -> 0..(MaxRestarts + 1)]
    /\ gaveUp \in [Sup -> BOOLEAN] /\ spec \in [Sup -> Specs \union {Unstarted}]
    /\ handler \in [depth : Nat, sup : 1..(NumSup + 1), kill : Seq(Pid),
                    respawn : Seq(Nat), at : Nat]
    /\ supervised \subseteq Pid
    /\ refused \in [Sup -> SUBSET Nat]

SupInit ==
    /\ Init
    /\ children = [s \in Sup |-> << >>]
    /\ recent = [s \in Sup |-> 0]
    /\ gaveUp = [s \in Sup |-> FALSE] /\ spec = [s \in Sup |-> Unstarted]
    /\ handler = NoHandler
    /\ supervised = {}
    /\ refused = [s \in Sup |-> {}]

-----------------------------------------------------------------------------
\* start(): the first n children of sp, spawned and enqueued in turn.
SpawnFirst(n, used) ==
    /\ phase = "idle" /\ nextPid + used <= MaxPid + 1
    /\ status' = [p \in Pid |-> IF p \in nextPid..(nextPid + n - 1)
                                THEN "Runnable" ELSE status[p]]
    /\ queues' = [queues EXCEPT !["Normal"] = @ \o [i \in 1..n |-> nextPid + i - 1]]
    /\ nextPid' = nextPid + used
    /\ UNCHANGED <<nextRef, mailbox, priority, trapExit, timeoutSet, links,
                   monitors, monitoredBy, advantage, deadLetters, outbound,
                   turnVars, callVars, bridgeVars, history, recent, gaveUp,
                   handler, refused>>

\* Supervisor::start_linked: every child is spawned, the handler registered.
StartSupervisor(s, sp) ==
    LET n == Len(sp.restarts)
        new(i) == nextPid + i - 1
    IN  /\ spec[s] = Unstarted /\ \A t \in 1..(s - 1) : spec[t] # Unstarted
        /\ SpawnFirst(n, n)
        /\ spec' = [spec EXCEPT ![s] = sp]
        /\ children' = [children EXCEPT ![s] = [i \in 1..n |-> [id |-> i, pid |-> new(i)]]]
        /\ supervised' = supervised \union {new(i) : i \in 1..n}

(***************************************************************************)
(* start(): the init of child n refuses, and `?` returns the error to the  *)
(* caller.  The children before it keep running, but nobody's: no exit     *)
(* handler was registered for them.                                        *)
(***************************************************************************)
StartFails(s, sp, n) ==
    /\ InitMayFail
    /\ spec[s] = Unstarted /\ \A t \in 1..(s - 1) : spec[t] # Unstarted
    /\ n \in 1..Len(sp.restarts)
    /\ SpawnFirst(n - 1, n)
    /\ UNCHANGED <<spec, children, supervised>>

\* The handlers run on the outermost termination only.
HandlersBegin ==
    /\ AtHandlers /\ handler.depth = 0
    /\ handler' = [NoHandler EXCEPT !.depth = Len(frames)]
    /\ UNCHANGED <<vars, children, recent, gaveUp, spec, supervised, refused>>

\* A termination nested in a handler finds the handler list taken.
NestedExit ==
    /\ handler.depth # 0 /\ Len(frames) > handler.depth
    /\ NoExitHandlers
    /\ UNCHANGED supVars

InHandler ==
    /\ AtHandlers /\ Len(frames) = handler.depth
    /\ handler.kill = << >> /\ handler.respawn = << >>
    /\ handler.sup <= NumSup

Here == handler.sup
IsChild(s, p) == \E i \in 1..Len(children[s]) : children[s][i].pid = p
ChildIndex(s, p) == CHOOSE i \in 1..Len(children[s]) : children[s][i].pid = p
NextSup == [handler EXCEPT !.sup = @ + 1]

\* restart policy of the child spec
ShouldRestart(s, id, reason) ==
    \/ spec[s].restarts[id] = "Permanent"
    \/ spec[s].restarts[id] = "Transient" /\ reason = "Custom"

ChildExit(s) == ~gaveUp[s] /\ IsChild(s, Top.pid)
DeadId(s) == children[s][ChildIndex(s, Top.pid)].id

\* Not a child of this supervisor, or the supervisor has given up.
IgnoreExit ==
    /\ InHandler /\ ~ChildExit(Here)
    /\ handler' = NextSup
    /\ UNCHANGED <<vars, children, recent, gaveUp, spec, supervised, refused>>

ForgetChild ==
    /\ InHandler /\ ChildExit(Here)
    /\ ~ShouldRestart(Here, DeadId(Here), Top.reason)
    /\ LET i == ChildIndex(Here, Top.pid)
           cs == children[Here]
       IN  children' = [children EXCEPT ![Here] =
                          SubSeq(cs, 1, i - 1) \o SubSeq(cs, i + 1, Len(cs))]
    /\ handler' = NextSup
    /\ UNCHANGED <<vars, recent, gaveUp, spec, supervised, refused>>

\* exceeds_max_restarts(): this restart and any of the earlier ones.
RestartCounted(n) ==
    /\ InHandler /\ ChildExit(Here)
    /\ ShouldRestart(Here, DeadId(Here), Top.reason)
    /\ n \in 1..(recent[Here] + 1)
    /\ recent' = [recent EXCEPT ![Here] = n]

GiveUp(n) ==
    /\ RestartCounted(n) /\ n > MaxRestarts
    /\ gaveUp' = [gaveUp EXCEPT ![Here] = TRUE]
    /\ handler' = NextSup
    /\ UNCHANGED <<vars, children, spec, supervised, refused>>

\* Faulty variant: the siblings are left running.
NoSiblings(hit) == << >>

\* The children among hit that the restart has to terminate first.
Siblings(hit) == Only(hit, [id : Nat, pid : Pid \ {Top.pid}])

(***************************************************************************)
(* restart_one, restart_all, restart_rest: the children concerned leave    *)
(* the list; those still alive are to be terminated, all to be respawned.  *)
(***************************************************************************)
Restart(n) ==
    /\ RestartCounted(n) /\ n <= MaxRestarts
    /\ LET i  == ChildIndex(Here, Top.pid)
           cs == children[Here]
           from == IF spec[Here].strategy = "OneForAll" THEN 1 ELSE i
           upto == IF spec[Here].strategy = "OneForOne" THEN i ELSE Len(cs)
           hit  == SubSeq(cs, from, upto)
           rest == Siblings(hit)
       IN  /\ children' = [children EXCEPT ![Here] =
                             SubSeq(cs, 1, from - 1) \o SubSeq(cs, upto + 1, Len(cs))]
           /\ handler' = [handler EXCEPT
                            !.kill = [k \in 1..Len(rest) |-> rest[k].pid],
                            !.respawn = [k \in 1..Len(hit) |-> hit[k].id],
                            !.at = IF spec[Here].strategy = "OneForOne" THEN i ELSE 0]
    /\ UNCHANGED <<vars, gaveUp, spec, supervised, refused>>

KillSibling ==
    /\ AtHandlers /\ Len(frames) = handler.depth /\ handler.kill # << >>
    /\ Remove(frames, Head(handler.kill), "Shutdown")
    /\ handler' = [handler EXCEPT !.kill = Tail(@)]
    /\ UNCHANGED <<turnVars, todo, shutting, children, recent, gaveUp, spec,
                   supervised, refused>>

ToRespawn ==
    /\ AtHandlers /\ Len(frames) = handler.depth
    /\ handler.kill = << >> /\ handler.respawn # << >>

AfterRespawn ==
    LET h == [handler EXCEPT !.respawn = Tail(@)]
    IN  IF h.respawn = << >> THEN [h EXCEPT !.sup = @ + 1, !.at = 0] ELSE h

\* The list entry of a child that is being spawned.
NewChild(id) == [id |-> id, pid |-> nextPid]

\* Faulty variant: the entry behind position k is overwritten.
InsertedOver(cs, k, c) == Append(SubSeq(cs, 1, k), c) \o SubSeq(cs, k + 2, Len(cs))

\* The list with c inserted behind position k.
Inserted(cs, k, c) == Append(SubSeq(cs, 1, k), c) \o SubSeq(cs, k + 1, Len(cs))

\* spawn_child(): spawn, enqueue, back into the list.
RespawnChild ==
    /\ ToRespawn /\ nextPid <= MaxPid
    /\ NewProcess("Normal", FALSE)
    /\ queues' = Enqueued(queues, "Normal", nextPid)
    /\ LET cs == children[Here]
           k  == IF handler.at = 0 THEN Len(cs) ELSE handler.at - 1
       IN  children' = [children EXCEPT ![Here] =
                          Inserted(cs, k, NewChild(Head(handler.respawn)))]
    /\ supervised' = supervised \union {nextPid}
    /\ handler' = AfterRespawn
    /\ UNCHANGED <<nextRef, mailbox, timeoutSet, links, monitors, monitoredBy,
                   advantage, deadLetters, outbound, turnVars, callVars,
                   bridgeVars, history, recent, gaveUp, spec, refused>>

\* spawn_child(): init refused, the child is dropped from the list.  The PID
\* is used up all the same.
RespawnRefused ==
    /\ InitMayFail /\ ToRespawn /\ nextPid <= MaxPid
    /\ nextPid' = nextPid + 1
    /\ refused' = [refused EXCEPT ![Here] = @ \union {Head(handler.respawn)}]
    /\ handler' = AfterRespawn
    /\ UNCHANGED <<nextRef, status, mailbox, priority, trapExit, timeoutSet,
                   links, monitors, monitoredBy, queueVars, deadLetters,
                   outbound, turnVars, callVars, bridgeVars, history, children,
                   recent, gaveUp, spec, supervised>>

HandlersEnd ==
    /\ AtHandlers /\ Len(frames) = handler.depth /\ handler.sup > NumSup
    /\ NoExitHandlers
    /\ handler' = NoHandler
    /\ UNCHANGED <<children, recent, gaveUp, spec, supervised, refused>>

HandlerStep ==
    \/ HandlersBegin \/ NestedExit \/ IgnoreExit \/ ForgetChild
    \/ \E n \in 1..(MaxRestarts + 1) : GiveUp(n) \/ Restart(n)
    \/ KillSibling \/ RespawnChild \/ RespawnRefused \/ HandlersEnd

SupNext ==
    \/ (HostStep \/ TickBegin \/ CallStep \/ BridgeStep) /\ UNCHANGED supVars
    \/ \E s \in Sup, sp \in Specs :
          StartSupervisor(s, sp) \/ \E n \in 1..Len(sp.restarts) : StartFails(s, sp, n)
    \/ HandlerStep

SupSpec == SupInit /\ [][SupNext]_allVars

-----------------------------------------------------------------------------
(***************************************************************************)
(* Between calls, a supervisor that has not given up has every Permanent   *)
(* child in its list unless its init refused a restart, each in a live     *)
(* process of its own, in the order of the specification: deaths by crash, *)
(* cancellation, cascade and by the supervisor's own restarts are all made *)
(* good before the call returns.                                           *)
(***************************************************************************)
PermanentChildrenRun ==
    phase = "idle" =>
      \A s \in Sup : spec[s] # Unstarted /\ ~gaveUp[s] =>
        /\ \A i \in 1..Len(children[s]) : children[s][i].pid \in Live
        /\ \A i, j \in 1..Len(children[s]) : i < j => children[s][i].id < children[s][j].id
        /\ \A id \in 1..Len(spec[s].restarts) \ refused[s] : spec[s].restarts[id] = "Permanent" =>
              \E i \in 1..Len(children[s]) : children[s][i].id = id

(***************************************************************************)
(* No child is leaked: between calls every live process that was spawned   *)
(* for a supervisor is on exactly one children list.                       *)
(***************************************************************************)
NoOrphanedChild ==
    phase = "idle" =>
      \A p \in supervised \intersect Live :
        Cardinality({s \in Sup : IsChild(s, p)}) = 1

(***************************************************************************)
(* The children lists are true: what should run runs, and what runs is on  *)
(* a list.                                                                 *)
(***************************************************************************)
ChildrenAccounted == PermanentChildrenRun /\ NoOrphanedChild

(***************************************************************************)
(* A restart leaves the siblings outside its strategy alone: as long as    *)
(* one handler runs, no live child leaves the list of a OneForOne          *)
(* supervisor.                                                             *)
(***************************************************************************)
OneForOneIsolates ==
    [][\A s \in Sup : spec[s].strategy = "OneForOne" =>
         \A i \in 1..Len(children[s]) :
           children[s][i].pid \in Live =>
             \E j \in 1..Len(children'[s]) : children'[s][j] = children[s][i]]_allVars

=============================================================================
