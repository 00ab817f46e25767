---------------------------- MODULE SupervisionProofs ----------------------------
(***************************************************************************)
(* Supervision trees for every number of supervisors, every specification  *)
(* of children, every number of restarts allowed and every behaviour of    *)
(* the processes beside them: the children lists are true between calls,   *)
(* and a OneForOne restart takes nobody else off its list.                 *)
(***************************************************************************)
EXTENDS TerminationProofs, Supervision, DataProofs, FiniteSetTheorems

-----------------------------------------------------------------------------
(* The inductive invariant.                                                *)

\* A call in progress knows its process as dead, and if it has others to see
\* to, as one there was.
CallsKnown ==
    /\ \A i \in 1..Len(frames) : frames[i].pid \notin Live
    /\ \A i \in 1..Len(frames) :
          frames[i].pid < nextPid \/ (Len(frames) = 1 /\ \A q \in Pid : ~Pends(frames[1], q))
    /\ \A i \in 1..Len(frames) : \A q \in Pid : Pends(frames[i], q) => q < nextPid

\* Nobody spawned a supervised process: it is the oldest of its family.
SupervisedAreRoots ==
    /\ \A p \in supervised : p < nextPid
    /\ \A p \in supervised : \A q \in Pid : p \in links[q] \/ q \in links[p] => p < q

Busy == handler.kill # << >> \/ handler.respawn # << >>

\* The handlers run for the outermost call, which has nothing left to do.
HandlerOK ==
    /\ handler.depth = 0 => handler = NoHandler
    /\ handler.depth # 0 =>
          /\ phase = "exit" /\ handler.depth \in 1..Len(frames)
          /\ ~frames[handler.depth].told /\ frames[handler.depth].links = {}
          /\ frames[handler.depth].cascade = << >>
    /\ Busy => /\ handler.depth # 0 /\ Here <= NumSup /\ spec[Here] # Unstarted
               /\ frames[handler.depth].pid \in supervised

\* The calls a handler makes go from parents to the children they spawned.
NestedDescend ==
    handler.depth # 0 =>
        \A i \in (handler.depth + 1)..Len(frames) : \A q \in Live :
            Pends(frames[i], q) => frames[i].pid < q /\ frames[i].pid \in links[q]

\* The entries of a list, in the order of the specification.
ListOK(s) ==
    /\ \A i \in 1..Len(children[s]) :
          children[s][i].id \in 1..Len(spec[s].restarts) /\ children[s][i].pid \in supervised
    /\ \A i, j \in 1..Len(children[s]) : i < j => children[s][i].id < children[s][j].id
    /\ spec[s] = Unstarted => children[s] = << >>

ListsApart ==
    \A s, t \in Sup : \A i \in 1..Len(children[s]), j \in 1..Len(children[t]) :
        children[s][i].pid = children[t][j].pid => s = t /\ i = j

\* Whoever is to be terminated is on no list any more.
KillOK ==
    \A k \in 1..Len(handler.kill) :
        handler.kill[k] \in supervised /\ \A s \in Sup : ~IsChild(s, handler.kill[k])

\* Whoever is to be respawned goes where the order of the specification has it.
RespawnOK ==
    handler.respawn # << >> =>
      LET cs == children[Here]
          ids == handler.respawn
      IN  /\ \A k \in 1..Len(ids) : ids[k] \in 1..Len(spec[Here].restarts)
          /\ \A k, l \in 1..Len(ids) : k < l => ids[k] < ids[l]
          /\ handler.at = 0 => \A i \in 1..Len(cs) : \A k \in 1..Len(ids) : cs[i].id < ids[k]
          /\ handler.at # 0 =>
                /\ Len(ids) = 1 /\ handler.at <= Len(cs) + 1
                /\ \A i \in 1..Len(cs) : IF i < handler.at THEN cs[i].id < ids[1] ELSE ids[1] < cs[i].id

Answers(s) == spec[s] # Unstarted /\ ~gaveUp[s]

\* Every Permanent child is on the list, or about to be.
Complete(s) ==
    \A id \in 1..Len(spec[s].restarts) \ refused[s] : spec[s].restarts[id] = "Permanent" =>
        \/ \E i \in 1..Len(children[s]) : children[s][i].id = id
        \/ s = Here /\ \E k \in 1..Len(handler.respawn) : handler.respawn[k] = id

\* The handler of s is still to hear of the call at position i.
HearsOf(s, i) ==
    \/ handler.depth = 0
    \/ i < handler.depth
    \/ i = handler.depth /\ (Here < s \/ (Here = s /\ ~Busy))

\* p is dead, and the handler of s is still to hear of it.
Awaits(s, p) == \E i \in 1..Len(frames) : frames[i].pid = p /\ ~frames[i].told /\ HearsOf(s, i)

Alive(s) == \A i \in 1..Len(children[s]) : children[s][i].pid \in Live \/ Awaits(s, children[s][i].pid)

\* Every live process spawned for a supervisor is on a list, or about to die.
Owned ==
    \A p \in supervised \intersect Live :
        (\E s \in Sup : IsChild(s, p)) \/ \E k \in 1..Len(handler.kill) : handler.kill[k] = p

SchedulerOK == TypeOK /\ CallOK /\ MonitorInv /\ LinksTree
CallsInv == CallsKnown /\ SupervisedAreRoots /\ HandlerOK /\ NestedDescend
ListsInv == (\A s \in Sup : ListOK(s)) /\ ListsApart /\ KillOK /\ RespawnOK
RunsInv == (\A s \in Sup : Answers(s) => Complete(s) /\ Alive(s)) /\ Owned
SupInv == SupTypeOK /\ SchedulerOK /\ CallsInv /\ ListsInv /\ RunsInv

-----------------------------------------------------------------------------
(* The scheduler's invariants, kept by the supervisors' own steps.         *)

\* The first n children of a specification are born.
LEMMA FirstBorn ==
    ASSUME TypeOK, NEW n \in Nat, NEW used \in Nat, n <= used, SpawnFirst(n, used)
    PROVE  /\ \A p \in nextPid..((nextPid + n) - 1) : p \in Pid
           /\ Live' = Live \union (nextPid..((nextPid + n) - 1))
           /\ nextPid' = nextPid + used /\ nextPid \in Nat /\ nextPid' \in 1..(MaxPid + 1)
<1>1. nextPid \in Nat \ {0} /\ MaxPid \in Nat /\ nextPid + used <= MaxPid + 1
  BY SchedulerAssumption DEF TypeOK, ProcTypeOK, SpawnFirst
<1>2. \A p \in nextPid..((nextPid + n) - 1) : p \in Pid
  BY <1>1 DEF Pid
<1>3. \A p \in Pid : status'[p] = IF p \in nextPid..((nextPid + n) - 1) THEN "Runnable" ELSE status[p]
  <2>1. status' = [p \in Pid |-> IF p \in nextPid..(nextPid + n - 1) THEN "Runnable" ELSE status[p]]
    BY DEF SpawnFirst
  <2>2. nextPid + n - 1 = (nextPid + n) - 1
    BY <1>1
  <2> QED BY <2>1, <2>2
<1>4. Live' = Live \union (nextPid..((nextPid + n) - 1))
  BY <1>2, <1>3 DEF Live
<1>5. nextPid' = nextPid + used
  BY DEF SpawnFirst
<1>6. nextPid' \in 1..(MaxPid + 1)
  BY <1>1, <1>5
<1> QED BY <1>1, <1>2, <1>4, <1>5, <1>6

LEMMA FirstTyped ==
    ASSUME TypeOK, CallOK, NEW n \in Nat, NEW used \in Nat, n <= used, SpawnFirst(n, used)
    PROVE  TypeOK' /\ CallOK'
<1>1. ProcTypeOK'
  <2>1. nextPid' \in 1..(MaxPid + 1)
    BY FirstBorn
  <2>2. status' \in [Pid -> Status]
    BY DEF SpawnFirst, TypeOK, ProcTypeOK, Status
  <2> QED BY <2>1, <2>2 DEF SpawnFirst, TypeOK, ProcTypeOK
<1>2. QueueTypeOK'
  <2>1. PICK new : new = [i \in 1..n |-> nextPid + i - 1]
    OBVIOUS
  <2>2. new \in Seq(Pid)
    <3>1. \A p \in nextPid..((nextPid + n) - 1) : p \in Pid
      BY FirstBorn
    <3>2. nextPid \in Nat
      BY FirstBorn
    <3>3. \A i \in 1..n : nextPid + i - 1 \in nextPid..((nextPid + n) - 1)
      BY <3>2
    <3>4. \A i \in 1..n : new[i] \in Pid
      BY <2>1, <3>1, <3>3
    <3> QED BY <2>1, <3>4
  <2>3. queues' = [queues EXCEPT !["Normal"] = @ \o new]
    BY <2>1 DEF SpawnFirst
  <2>4. queues["Normal"] \o new \in Seq(Pid)
    <3>1. queues["Normal"] \in Seq(Pid)
      BY DEF TypeOK, QueueTypeOK, Priority
    <3> QED BY <2>2, <3>1, ConcatProperties
  <2>5. queues' \in [Priority -> Seq(Pid)]
    BY <2>3, <2>4 DEF TypeOK, QueueTypeOK
  <2> QED BY <2>5 DEF SpawnFirst, TypeOK, QueueTypeOK
<1>3. BridgeTypeOK' /\ TurnTypeOK' /\ CallTypeOK' /\ HistoryTypeOK'
  BY DEF SpawnFirst, TypeOK, BridgeTypeOK, TurnTypeOK, CallTypeOK, HistoryTypeOK,
         bridgeVars, turnVars, callVars, history
<1>4. CallOK'
  BY DEF SpawnFirst, CallOK, InTurn, turnVars, callVars
<1> QED BY <1>1, <1>2, <1>3, <1>4 DEF TypeOK

LEMMA FirstSchedulerOK ==
    ASSUME SchedulerOK, NEW n \in Nat, NEW used \in Nat, n <= used, SpawnFirst(n, used)
    PROVE  SchedulerOK'
<1> USE DEF SchedulerOK
<1>1. TypeOK' /\ CallOK'
  BY FirstTyped
<1>2. /\ frames = << >> /\ frames' = << >> /\ phase = "idle" /\ phase' = "idle"
      /\ UNCHANGED <<monitors, monitoredBy, nextRef, frames, downSent, void, links, fate>>
  BY DEF SpawnFirst, MonitorInv, StackOK, callVars, history
<1>3. /\ Live' = Live \union (nextPid..((nextPid + n) - 1)) /\ nextPid' = nextPid + used /\ nextPid \in Nat
  BY FirstBorn
<1>4. SidesAgree' /\ RefsUnique' /\ RefsLive'
  BY <1>2, <1>3, MonitorsBirth DEF MonitorInv, Owed
<1>5. StackOK'
  BY <1>2 DEF StackOK, InTurn
<1>6. LinksTree'
  <2>1. \A p \in Live' \ Live : nextPid <= p /\ p < nextPid'
    BY <1>3
  <2>2. nextPid' \in Nat /\ nextPid <= nextPid'
    BY <1>3
  <2> QED BY <1>2, <1>3, <2>1, <2>2, TreeKept
<1> QED BY <1>1, <1>4, <1>5, <1>6 DEF MonitorInv

\* A sibling is terminated from inside the handler.
LEMMA KillKept ==
    ASSUME SchedulerOK, SupTypeOK, KillSibling
    PROVE  SchedulerOK'
<1> USE DEF SchedulerOK
<1>0. /\ phase = "exit" /\ frames # << >> /\ Top.links = {} /\ Top.downs = {}
      /\ Head(handler.kill) \in Pid /\ Remove(frames, Head(handler.kill), "Shutdown")
      /\ UNCHANGED <<turnVars, todo, shutting>>
  BY DEF KillSibling, AtHandlers, Notified, CallOK, SupTypeOK
<1>1. PICK p \in Pid : Remove(frames, p, "Shutdown")
  BY <1>0
<1>2. "Shutdown" \in Reason /\ frames \in Seq(Frame)
  BY DEF Reason, TypeOK, CallTypeOK
<1>3. TypeOK'
  <2>1. ProcTypeOK' /\ QueueTypeOK' /\ BridgeTypeOK' /\ HistoryTypeOK' /\ phase' = "exit" /\ frames' \in Seq(Frame)
    BY <1>1, <1>2, RemoveType
  <2>2. TurnTypeOK' /\ CallTypeOK'
    BY <1>0, <2>1 DEF TypeOK, TurnTypeOK, CallTypeOK, turnVars, Phase
  <2> QED BY <2>1, <2>2 DEF TypeOK
<1>4. CallOK'
  <2>1. phase' = "exit" /\ frames' # << >>
    BY <1>1, <1>2, RemoveType
  <2> QED BY <1>0, <2>1 DEF CallOK, InTurn, turnVars
<1>5. MonitorInv'
  <2>1. \A r, w : ~Owed(r, w)
    BY <1>0 DEF Owed
  <2>2. \A i \in 1..Len(frames) : frames[i].links = {} /\ frames[i].downs = {}
    <3>1. Len(frames) \in Nat \ {0} /\ Top = frames[Len(frames)]
      BY <1>0, BelowFacts DEF TypeOK
    <3>2. \A i \in 1..Len(frames) : i \in 1..(Len(frames) - 1) \/ i = Len(frames)
      BY <3>1
    <3> QED BY <1>0, <3>1, <3>2 DEF MonitorInv, StackOK
  <2> QED BY <1>1, <1>2, <2>1, <2>2, MonitorsRemove DEF MonitorInv
<1>6. LinksTree'
  BY <1>1, <1>2, TreeRemove
<1> QED BY <1>3, <1>4, <1>5, <1>6

\* A child is spawned, or used up a PID, from inside the handler.
LEMMA RespawnKept ==
    ASSUME SchedulerOK, SupTypeOK, RespawnChild \/ RespawnRefused
    PROVE  /\ SchedulerOK'
           /\ nextPid \in Pid /\ nextPid' = nextPid + 1
           /\ Live' = IF RespawnChild THEN Live \union {nextPid} ELSE Live
<1> USE DEF SchedulerOK
<1>0. /\ phase = "exit" /\ frames # << >> /\ Top.links = {} /\ Top.downs = {} /\ nextPid <= MaxPid
      /\ UNCHANGED <<monitors, monitoredBy, nextRef, links, turnVars, callVars, bridgeVars, history>>
  BY DEF RespawnChild, RespawnRefused, ToRespawn, AtHandlers, Notified, CallOK
<1>1. nextPid \in Pid /\ nextPid \in Nat
  BY <1>0, SchedulerAssumption DEF Pid, TypeOK, ProcTypeOK
<1>2. /\ nextPid' = nextPid + 1
      /\ Live' = IF RespawnChild THEN Live \union {nextPid} ELSE Live
  <2>1. CASE RespawnChild
    <3>1. NewProcess("Normal", FALSE)
      BY <2>1 DEF RespawnChild
    <3>2. Live' = Live \union {nextPid}
      BY <1>1, <3>1, NewProcessLive DEF TypeOK
    <3> QED BY <2>1, <3>1, <3>2 DEF NewProcess
  <2>2. CASE RespawnRefused /\ ~RespawnChild
    BY <2>2 DEF RespawnRefused, Live
  <2> QED BY <2>1, <2>2
<1>3. TypeOK'
  <2>1. ProcTypeOK'
    <3>1. CASE RespawnChild
      <4>1. "Normal" \in Priority /\ FALSE \in BOOLEAN /\ NewProcess("Normal", FALSE)
        BY <3>1 DEF RespawnChild, Priority
      <4> QED BY <1>0, <3>1, <4>1, NewProcessType DEF RespawnChild, TypeOK, ProcTypeOK
    <3>2. CASE RespawnRefused
      BY <1>0, <1>1, <1>2, <3>2, SchedulerAssumption DEF RespawnRefused, TypeOK, ProcTypeOK, Pid
    <3> QED BY <3>1, <3>2
  <2>2. QueueTypeOK'
    <3>1. "Normal" \in Priority
      BY DEF Priority
    <3>2. Enqueued(queues, "Normal", nextPid) \in [Priority -> Seq(Pid)]
      BY <1>1, <3>1, EnqueuedType DEF TypeOK, QueueTypeOK
    <3> QED BY <3>2 DEF RespawnChild, RespawnRefused, TypeOK, QueueTypeOK, queueVars
  <2>3. BridgeTypeOK' /\ TurnTypeOK' /\ CallTypeOK' /\ HistoryTypeOK'
    BY <1>0 DEF TypeOK, BridgeTypeOK, TurnTypeOK, CallTypeOK, HistoryTypeOK, bridgeVars, turnVars, callVars, history
  <2> QED BY <2>1, <2>2, <2>3 DEF TypeOK
<1>4. CallOK'
  BY <1>0 DEF CallOK, InTurn, turnVars, callVars
<1>5. MonitorInv'
  <2>1. \A r, w : ~Owed(r, w)
    BY <1>0 DEF Owed
  <2>2. Live \subseteq Live' /\ UNCHANGED <<frames, phase, downSent, void>>
    BY <1>0, <1>2 DEF callVars, history
  <2>3. SidesAgree' /\ RefsUnique' /\ RefsLive'
    BY <1>0, <2>1, <2>2, MonitorsBirth DEF MonitorInv
  <2>4. StackOK'
    BY <1>0, <2>2 DEF MonitorInv, StackOK, InTurn
  <2> QED BY <2>3, <2>4 DEF MonitorInv
<1>6. LinksTree'
  <2>1. \A p \in Live' \ Live : nextPid <= p /\ p < nextPid'
    BY <1>1, <1>2
  <2>2. nextPid' \in Nat /\ nextPid <= nextPid' /\ Live \subseteq Live' /\ UNCHANGED fate
    BY <1>0, <1>1, <1>2 DEF history
  <2> QED BY <1>0, <2>1, <2>2, TreeKept
<1> QED BY <1>1, <1>2, <1>3, <1>4, <1>5, <1>6


-----------------------------------------------------------------------------
(* What a step does to the open calls.                                     *)

\* Nobody dies, and whoever is born takes a fresh PID.
Births ==
    /\ nextPid \in Nat /\ nextPid' \in Nat /\ nextPid <= nextPid'
    /\ Live \subseteq Live' /\ \A p \in Live' : p \in Live \/ (nextPid <= p /\ p < nextPid')

\* A link made by a step joins a process that was there and one that was not.
LinksGrow ==
    \A p, q \in Pid : q \in links'[p] =>
        \/ q \in links[p]
        \/ p < nextPid /\ nextPid <= q
        \/ q < nextPid /\ nextPid <= p

\* The calls stay as they are.
Still ==
    /\ frames' = frames /\ (phase' = "exit" <=> phase = "exit")
    /\ Births /\ LinksGrow /\ ((Live' = Live /\ links' = links) \/ frames = << >>)

\* A call with nothing to do.
Bare(f) == f.links = {} /\ f.cascade = << >>

\* The same call, with no more to do than before.
Shrinks(f, g) ==
    /\ g.pid = f.pid /\ (Bare(f) => Bare(g))
    /\ \A q : Pends(g, q) => Pends(f, q)

\* Nobody is born and nobody dies.
Same == UNCHANGED <<links, nextPid>> /\ Live' = Live

\* The innermost call does something.
Moved ==
    /\ Same /\ phase = "exit" /\ phase' = "exit" /\ Len(frames') = Len(frames)
    /\ \A i \in 1..Len(frames) : Shrinks(frames[i], frames'[i])
    /\ \A i \in 1..Len(frames) : i # Len(frames) => frames'[i].told = frames[i].told

\* The innermost call returns.
Returned ==
    /\ Same /\ phase = "exit" /\ Len(frames') = Len(frames) - 1 /\ Len(frames) >= 1
    /\ Len(frames) > 1 => phase' = "exit"
    /\ \A i \in 1..Len(frames') : frames'[i] = frames[i]
    /\ frames[Len(frames)].told

\* A call for p begins, inside the ones that are open.
Pushed(p) ==
    /\ UNCHANGED nextPid /\ Live' = Live \ {p} /\ phase' = "exit"
    /\ links'[p] = {} /\ \A q \in Pid \ {p} : links'[q] = links[q]
    /\ Len(frames') = Len(frames) + 1
    /\ \A i \in 1..Len(frames) : Shrinks(frames[i], frames'[i]) /\ frames'[i].told = frames[i].told
    /\ frames'[Len(frames) + 1].pid = p /\ ~frames'[Len(frames) + 1].told
    /\ \A q : Pends(frames'[Len(frames) + 1], q) <=> q \in links[p]

\* terminate_process(), called from inside the calls fs.
LEMMA RemovePushed ==
    ASSUME TypeOK, NEW p \in Pid, NEW reason \in Reason, NEW fs \in Seq(Frame), Remove(fs, p, reason),
           Len(fs) = Len(frames),
           \A i \in 1..Len(frames) : Shrinks(frames[i], fs[i]) /\ fs[i].told = frames[i].told
    PROVE  Pushed(p)
<1>1. /\ Live' = Live \ {p} /\ phase' = "exit" /\ UNCHANGED nextPid
      /\ links'[p] = {} /\ \A q \in Pid \ {p} : links'[q] = links[q]
      /\ Len(fs) \in Nat /\ Len(frames') = Len(fs) + 1
      /\ \A i \in 1..Len(fs) : frames'[i] = fs[i]
      /\ frames'[Len(fs) + 1] = Top'
      /\ Top'.pid = p /\ Top'.links = links[p] /\ Top'.cascade = << >>
  BY RemoveFacts
<1>2. ~Top'.told
  <2>1. PICK f : frames' = Append(fs, f) /\ f.told = FALSE
    BY DEF Remove
  <2>2. Append(fs, f)[Len(fs) + 1] = f
    OBVIOUS
  <2> QED BY <1>1, <2>1, <2>2
<1>3. \A q : Pends(Top', q) <=> q \in links[p]
  BY <1>1 DEF Pends
<1>4. \A i \in 1..Len(frames) : Shrinks(frames[i], frames'[i]) /\ frames'[i].told = frames[i].told
  BY <1>1
<1> QED BY <1>1, <1>2, <1>3, <1>4 DEF Pushed

\* A call that does nothing shrinks.
LEMMA ShrinksSame == \A f : Shrinks(f, f)
  BY DEF Shrinks

\* The frame on top is replaced.
LEMMA TopMoved ==
    ASSUME TypeOK, frames # << >>, NEW f \in Frame, frames' = Append(Below, f), Shrinks(Top, f),
           Same, phase = "exit", phase' = "exit"
    PROVE  Moved
<1>1. /\ Below \in Seq(Frame)
      /\ Len(frames) \in Nat \ {0} /\ Len(Below) = Len(frames) - 1
      /\ \A i \in 1..(Len(frames) - 1) : Below[i] = frames[i]
      /\ Top = frames[Len(frames)]
  BY BelowFacts DEF TypeOK
<1>2. /\ Len(frames') = Len(Below) + 1
      /\ \A i \in 1..Len(Below) : frames'[i] = Below[i]
      /\ frames'[Len(Below) + 1] = f
  BY <1>1, PushedTop
<1>3. Len(frames') = Len(frames) /\ frames'[Len(frames)] = f
  BY <1>1, <1>2
<1>4. \A i \in 1..Len(frames) : i # Len(frames) => frames'[i] = frames[i]
  BY <1>1, <1>2
<1>5. \A i \in 1..Len(frames) : Shrinks(frames[i], frames'[i])
  BY <1>1, <1>3, <1>4, ShrinksSame
<1> QED BY <1>3, <1>4, <1>5 DEF Moved

\* Steps that leave links, monitors and open terminations alone.
LEMMA CalmStill ==
    ASSUME TypeOK, Calm
    PROVE  Still
<1>1. nextPid \in Nat /\ nextPid' \in Nat /\ nextPid <= nextPid'
  BY DEF TypeOK, ProcTypeOK, Calm
<1>2. LinksGrow
  BY DEF Calm, LinksGrow
<1> QED BY <1>1, <1>2 DEF Still, Births, Calm

\* Monitors.
LEMMA MonitorStill ==
    ASSUME TypeOK,
           \/ \E w, t \in Pid : HostMonitor(w, t)
           \/ \E w, t \in Pid, r \in Ref : HostDemonitor(w, r, t)
    PROVE  Still
<1>1. UNCHANGED <<status, links, frames, phase, nextPid>>
  BY DEF HostMonitor, HostDemonitor, callVars
<1>2. nextPid \in Nat
  BY DEF TypeOK, ProcTypeOK
<1>3. LinksGrow
  BY <1>1 DEF LinksGrow
<1>4. Live' = Live
  BY <1>1 DEF Live
<1>5. Births
  BY <1>1, <1>2, <1>4 DEF Births
<1> QED BY <1>1, <1>3, <1>4, <1>5 DEF Still

\* A process is spawned, by the host or by a turn.
LEMMA SpawnStill ==
    ASSUME TypeOK, CallOK, StackOK, LinksTree,
           \/ FlushSpawn
           \/ \E c \in HostPriorities, t \in HostTraps : HostSpawn(c, t)
    PROVE  Still
<1>1. nextPid \in Pid /\ frames = << >> /\ UNCHANGED <<frames, fate>>
  <2>1. CASE FlushSpawn
    BY <2>1, SchedulerAssumption
    DEF FlushSpawn, StackOK, CallOK, TypeOK, ProcTypeOK, TurnTypeOK, Pid, history
  <2>2. CASE \E c \in HostPriorities, t \in HostTraps : HostSpawn(c, t)
    BY <2>2, SchedulerAssumption DEF HostSpawn, HostCall, StackOK, TypeOK, ProcTypeOK, Pid, callVars, history
  <2> QED BY <2>1, <2>2
<1>2. PICK c, t : NewProcess(c, t)
  BY DEF FlushSpawn, HostSpawn
<1>3. Live' = Live \union {nextPid} /\ nextPid' = nextPid + 1
  BY <1>1, <1>2, NewProcessLive DEF NewProcess, TypeOK
<1>4. phase # "exit" /\ phase' # "exit"
  BY DEF FlushSpawn, HostSpawn, HostCall, callVars
<1>5. Births
  <2>1. nextPid \in Nat
    BY DEF TypeOK, ProcTypeOK
  <2> QED BY <1>3, <2>1 DEF Births
<1>6. LinksGrow
  <2>1. CASE links' = links
    BY <2>1 DEF LinksGrow
  <2>2. CASE \E x \in Live : links' = [links EXCEPT ![x] = @ \union {nextPid},
                                                    ![nextPid] = @ \union {x}]
    <3>1. PICK x \in Live : links' = [links EXCEPT ![x] = @ \union {nextPid}, ![nextPid] = @ \union {x}]
      BY <2>2
    <3>2. /\ x < nextPid
          /\ \A p, q \in Pid :
                q \in links'[p] <=> q \in links[p] \/ (p = x /\ q = nextPid) \/ (p = nextPid /\ q = x)
      BY <1>1, <1>3, <3>1, TreeLinked
    <3>3. nextPid <= nextPid
      BY DEF TypeOK, ProcTypeOK
    <3> QED BY <3>2, <3>3 DEF LinksGrow
  <2>3. links' = links \/ \E x \in Live : links' = [links EXCEPT ![x] = @ \union {nextPid},
                                                                 ![nextPid] = @ \union {x}]
    BY DEF FlushSpawn, HostSpawn, StackOK, InTurn
  <2> QED BY <2>1, <2>2, <2>3
<1> QED BY <1>1, <1>4, <1>5, <1>6 DEF Still

\* Whether the exit handlers have run is the same for every call.
KeepsTold == \A i \in 1..Len(frames) : frames'[i].told = frames[i].told

\* The frame on top is replaced, and has heard as much as before.
LEMMA TopKeeps ==
    ASSUME TypeOK, frames # << >>, NEW f \in Frame, frames' = Append(Below, f), f.told = Top.told
    PROVE  KeepsTold
<1>1. /\ Below \in Seq(Frame)
      /\ Len(frames) \in Nat \ {0} /\ Len(Below) = Len(frames) - 1
      /\ \A i \in 1..(Len(frames) - 1) : Below[i] = frames[i]
      /\ Top = frames[Len(frames)]
  BY BelowFacts DEF TypeOK
<1>2. /\ \A i \in 1..Len(Below) : frames'[i] = Below[i]
      /\ frames'[Len(Below) + 1] = f
  BY <1>1, PushedTop
<1> QED BY <1>1, <1>2 DEF KeepsTold

\* A linked process is notified: it leaves the links, and may join the cascade.
LEMMA LinkMoved ==
    ASSUME TypeOK, CallOK, NEW q \in Pid, NotifyLink(q)
    PROVE  Moved /\ KeepsTold
<1> DEFINE f == [Top EXCEPT !.links = @ \ {q}, !.cascade = IF TakenAlong(q) THEN Append(@, q) ELSE @]
<1>0. frames # << >> /\ Top \in Frame /\ q \in Top.links
  BY TopType DEF CallOK, NotifyLink, IsLeast, TypeOK
<1>1. frames' = Append(Below, f) /\ phase = "exit" /\ phase' = "exit" /\ UNCHANGED <<links, nextPid>>
  BY DEF NotifyLink, TerminateFrame
<1>2. PICK casc \in Seq(Pid) : casc = IF TakenAlong(q) THEN Append(Top.cascade, q) ELSE Top.cascade
  <2>1. (IF TakenAlong(q) THEN Append(Top.cascade, q) ELSE Top.cascade) \in Seq(Pid)
    BY <1>0 DEF Frame
  <2> QED BY <2>1
<1>3. f = [Top EXCEPT !.links = Top.links \ {q}, !.cascade = casc]
  BY <1>2
<1>4. f \in Frame /\ f.pid = Top.pid /\ f.links = Top.links \ {q} /\ f.cascade = casc /\ f.told = Top.told
  BY <1>0, <1>3 DEF Frame
<1>5. Live' = Live
  BY SendCalm DEF NotifyLink, TypeOK, Live
<1> HIDE DEF f
<1>6. ASSUME NEW x, Pends(f, x) PROVE Pends(Top, x)
  <2>1. CASE x \in f.links
    BY <1>4, <2>1 DEF Pends
  <2>2. CASE \E k \in 1..Len(casc) : casc[k] = x
    <3>1. CASE casc = Top.cascade
      BY <2>2, <3>1 DEF Pends
    <3>2. CASE casc = Append(Top.cascade, q)
      <4>1. PICK s \in Seq(Pid) : s = Top.cascade
        BY <1>0 DEF Frame
      <4>2. PICK k \in 1..Len(casc) : casc[k] = x
        BY <2>2
      <4>3. (k \in 1..Len(s) /\ s[k] = x) \/ x = q
        BY <3>2, <4>1, <4>2
      <4> QED BY <1>0, <4>1, <4>3 DEF Pends
    <3> QED BY <1>2, <3>1, <3>2
  <2> QED BY <1>4, <1>6, <2>1, <2>2 DEF Pends
<1>7. Shrinks(Top, f)
  BY <1>0, <1>4, <1>6 DEF Shrinks, Bare
<1>8. Same
  BY <1>1, <1>5 DEF Same
<1> QED BY <1>0, <1>1, <1>4, <1>7, <1>8, TopMoved, TopKeeps

\* A watcher is sent its DOWN.
LEMMA DownMoved ==
    ASSUME TypeOK, CallOK, NEW r \in Ref, NEW q \in Pid, NotifyDown(r, q)
    PROVE  Moved /\ KeepsTold
<1> DEFINE f == [Top EXCEPT !.downs = @ \ {<<r, q>>}]
<1>0. frames # << >> /\ Top \in Frame
  BY TopType DEF CallOK, NotifyDown, TypeOK
<1>1. frames' = Append(Below, f) /\ phase = "exit" /\ phase' = "exit" /\ UNCHANGED <<links, nextPid>>
  BY DEF NotifyDown, TerminateFrame
<1>2. f \in Frame /\ f.pid = Top.pid /\ f.links = Top.links /\ f.cascade = Top.cascade /\ f.told = Top.told
  BY <1>0 DEF Frame
<1>3. Live' = Live
  BY SendCalm DEF NotifyDown, TypeOK
<1> HIDE DEF f
<1>4. Shrinks(Top, f)
  BY <1>2 DEF Shrinks, Bare, Pends
<1>5. Same
  BY <1>1, <1>3 DEF Same
<1> QED BY <1>0, <1>1, <1>2, <1>4, <1>5, TopMoved, TopKeeps

\* The exit handlers have run, or there were none.
LEMMA ToldMoved ==
    ASSUME TypeOK, CallOK, NoExitHandlers
    PROVE  Moved
<1> DEFINE f == [Top EXCEPT !.told = TRUE]
<1>0. frames # << >> /\ Top \in Frame
  BY TopType DEF CallOK, NoExitHandlers, AtHandlers, TypeOK
<1>1. frames' = Append(Below, f) /\ phase = "exit" /\ phase' = "exit" /\ UNCHANGED <<links, nextPid, status>>
  BY DEF NoExitHandlers, AtHandlers, procVars
<1>2. f \in Frame /\ f.pid = Top.pid /\ f.links = Top.links /\ f.cascade = Top.cascade
  BY <1>0 DEF Frame
<1>3. Live' = Live
  BY <1>1 DEF Live
<1> HIDE DEF f
<1>4. Shrinks(Top, f)
  BY <1>2 DEF Shrinks, Bare, Pends
<1>5. Same
  BY <1>1, <1>3 DEF Same
<1> QED BY <1>0, <1>1, <1>2, <1>4, <1>5, TopMoved

\* A call returns.
LEMMA FinishReturned ==
    ASSUME TypeOK, CallOK, NEW b \in BOOLEAN, FinishTermination(b)
    PROVE  Returned
<1>0. frames # << >> /\ frames' = Below /\ phase = "exit" /\ Top.told
  BY DEF CallOK, FinishTermination
<1>1. UNCHANGED <<links, nextPid, status>>
  BY DEF FinishTermination, procVars
<1>2. Live' = Live
  BY <1>1 DEF Live
<1>3. /\ Below \in Seq(Frame)
      /\ Len(frames) \in Nat \ {0} /\ Len(Below) = Len(frames) - 1
      /\ \A i \in 1..(Len(frames) - 1) : Below[i] = frames[i]
      /\ Top = frames[Len(frames)]
  BY <1>0, BelowFacts DEF TypeOK
<1>4. Len(frames) > 1 => Below # << >>
  BY <1>3
<1>5. Len(frames) > 1 => phase' = "exit"
  BY <1>4 DEF FinishTermination
<1>6. Same
  BY <1>1, <1>2 DEF Same
<1> QED BY <1>0, <1>3, <1>5, <1>6 DEF Returned

\* terminate_process() is called for p by no other call of it.
LEMMA OutermostPushed ==
    ASSUME TypeOK, NEW p \in Pid, NEW reason \in Reason, frames = << >>, Remove(<< >>, p, reason)
    PROVE  Pushed(p)
<1>1. << >> \in Seq(Frame)
  OBVIOUS
<1>2. PICK fs \in Seq(Frame) : Len(fs) = Len(frames) /\ Remove(fs, p, reason)
  BY <1>1
<1>3. \A i \in 1..Len(frames) : Shrinks(frames[i], fs[i]) /\ fs[i].told = frames[i].told
  <2>1. \A i : i \notin 1..Len(frames)
    OBVIOUS
  <2> QED BY <2>1
<1> QED BY <1>2, <1>3, RemovePushed

\* The recursive call.
LEMMA CascadePushed ==
    ASSUME TypeOK, CallOK, Cascade
    PROVE  \E p \in Pid : Pushed(p) /\ frames # << >> /\ Pends(frames[Len(frames)], p)
<1> DEFINE p == Head(Top.cascade)
           f == [Top EXCEPT !.cascade = Tail(@)]
           fs == Append(Below, f)
<1>0. /\ frames # << >> /\ Top.links = {} /\ Top.cascade # << >>
      /\ p \in Pid /\ Top.reason \in Reason
      /\ fs \in Seq(Frame) /\ Remove(fs, p, Top.reason)
  BY CascadeFacts
<1>1. /\ Top \in Frame /\ Below \in Seq(Frame)
      /\ Len(frames) \in Nat \ {0} /\ Len(Below) = Len(frames) - 1
      /\ \A i \in 1..(Len(frames) - 1) : Below[i] = frames[i]
      /\ Top = frames[Len(frames)]
  BY <1>0, BelowFacts DEF TypeOK
<1>2. /\ f.pid = Top.pid /\ f.links = Top.links /\ f.told = Top.told /\ f.cascade = Tail(Top.cascade)
  BY <1>1 DEF Frame
<1>3. PICK s \in Seq(Pid) : s = Top.cascade /\ s # << >>
  BY <1>0, <1>1 DEF Frame
<1>4. /\ p = s[1] /\ 1 \in 1..Len(s) /\ Len(Tail(s)) = Len(s) - 1
      /\ \A k \in 1..Len(Tail(s)) : Tail(s)[k] = s[k + 1] /\ k + 1 \in 1..Len(s)
  BY <1>3
<1> HIDE DEF p, f
<1>5. Shrinks(Top, f)
  <2>1. \A q : Pends(f, q) => Pends(Top, q)
    BY <1>2, <1>3, <1>4 DEF Pends
  <2> QED BY <1>0, <1>2, <2>1 DEF Shrinks, Bare
<1>6. /\ Len(fs) = Len(frames)
      /\ \A i \in 1..Len(frames) : fs[i] = IF i = Len(frames) THEN f ELSE frames[i]
  BY <1>0, <1>1
<1> HIDE DEF fs
<1>7. \A i \in 1..Len(frames) : Shrinks(frames[i], fs[i]) /\ fs[i].told = frames[i].told
  BY <1>1, <1>2, <1>5, <1>6, ShrinksSame
<1>8. Pushed(p)
  BY <1>0, <1>6, <1>7, RemovePushed
<1>9. Pends(frames[Len(frames)], p)
  BY <1>1, <1>3, <1>4 DEF Pends
<1> QED BY <1>0, <1>8, <1>9

\* What the scheduler does, the exit handlers apart.
SchedulerStep == HostStep \/ TickBegin \/ CallStep \/ BridgeStep

\* Every step of the scheduler is of one of these kinds.
LEMMA SchedulerEffect ==
    ASSUME SchedulerOK, SchedulerStep
    PROVE  \/ Still
           \/ Moved /\ KeepsTold
           \/ Returned
           \/ \E p \in Pid : Pushed(p) /\ (frames = << >> \/ Pends(frames[Len(frames)], p))
<1> USE DEF SchedulerOK
<1>0. StackOK
  BY DEF MonitorInv
<1>1. CASE \/ StopCurrent \/ Cascade
           \/ \E p \in Pid, reason \in Reasons : HostTerminate(p, reason)
           \/ \E p \in Pid : ShutdownTerminate(p)
  <2>1. CASE Cascade
    BY <2>1, CascadePushed
  <2>2. CASE \E p \in Pid, reason \in Reason : frames = << >> /\ Remove(<< >>, p, reason)
    BY <2>2, OutermostPushed
  <2> QED BY <1>0, <1>1, <2>1, <2>2, Removals
<1>2. CASE HostStep
  BY <1>0, <1>1, <1>2, CalmHost, CalmStill, MonitorStill, SpawnStill DEF HostStep
<1>3. CASE TickBegin \/ BridgeStep
  BY <1>0, <1>3, CalmHost, CalmStill
<1>4. CASE CallStep
  BY <1>0, <1>1, <1>4, CalmTick, CalmTurn, CalmStill, SpawnStill, LinkMoved, DownMoved, FinishReturned DEF CallStep
<1> QED BY <1>2, <1>3, <1>4 DEF SchedulerStep

-----------------------------------------------------------------------------
(* The open calls.                                                         *)

LEMMA PidNat == \A p \in Pid : p \in Nat \ {0}
  BY SchedulerAssumption DEF Pid

\* A call is read in the next state as it is there.
LEMMA PendsNext == \A i, q : Pends(frames[i], q)' <=> Pends(frames'[i], q)
  BY DEF Pends

LEMMA FramesTyped ==
    ASSUME TypeOK
    PROVE  /\ frames \in Seq(Frame) /\ Len(frames) \in Nat
           /\ \A i \in 1..Len(frames) : frames[i] \in Frame /\ frames[i].pid \in Pid
           /\ \A p \in Pid : links[p] \subseteq Pid
           /\ Live \subseteq Pid /\ nextPid \in Nat
<1>1. frames \in Seq(Frame) /\ Len(frames) \in Nat /\ \A i \in 1..Len(frames) : frames[i] \in Frame
  BY DEF TypeOK, CallTypeOK
<1>2. \A i \in 1..Len(frames) : frames[i].pid \in Pid
  BY <1>1 DEF Frame
<1>3. (\A p \in Pid : links[p] \subseteq Pid) /\ Live \subseteq Pid /\ nextPid \in Nat
  BY DEF TypeOK, ProcTypeOK, Live
<1> QED BY <1>1, <1>2, <1>3

LEMMA KnownStill ==
    ASSUME SchedulerOK, CallsKnown, frames' = frames, Births,
           Live' = Live \/ \A i \in 1..Len(frames) : frames[i].pid < nextPid
    PROVE  CallsKnown'
<1>0. /\ \A i \in 1..Len(frames) : frames[i].pid \in Pid
      /\ nextPid \in Nat /\ nextPid' \in Nat /\ nextPid <= nextPid'
      /\ \A p \in Pid : p \in Nat
  BY FramesTyped, PidNat DEF SchedulerOK, Births
<1>1. \A i \in 1..Len(frames) : frames[i].pid \notin Live'
  BY <1>0 DEF CallsKnown, Births
<1>2. \A i \in 1..Len(frames) :
        frames[i].pid < nextPid' \/ (Len(frames) = 1 /\ \A q \in Pid : ~Pends(frames[1], q))
  BY <1>0 DEF CallsKnown
<1>3. \A i \in 1..Len(frames) : \A q \in Pid : Pends(frames[i], q) => q < nextPid'
  BY <1>0 DEF CallsKnown
<1> QED BY <1>1, <1>2, <1>3, PendsNext DEF CallsKnown

LEMMA KnownMoved ==
    ASSUME SchedulerOK, CallsKnown, Moved
    PROVE  CallsKnown'
<1>1. \A i \in 1..Len(frames) :
         /\ frames'[i].pid = frames[i].pid
         /\ \A q \in Pid : Pends(frames'[i], q) => Pends(frames[i], q)
  BY DEF Moved, Shrinks
<1>2. nextPid' = nextPid /\ Live' = Live /\ Len(frames') = Len(frames)
  BY DEF Moved, Same
<1>3. \A i \in 1..Len(frames') : frames'[i].pid \notin Live'
  BY <1>1, <1>2 DEF CallsKnown
<1>4. \A i \in 1..Len(frames') :
        frames'[i].pid < nextPid' \/ (Len(frames') = 1 /\ \A q \in Pid : ~Pends(frames'[1], q))
  BY <1>1, <1>2 DEF CallsKnown
<1>5. \A i \in 1..Len(frames') : \A q \in Pid : Pends(frames'[i], q) => q < nextPid'
  BY <1>1, <1>2 DEF CallsKnown
<1> QED BY <1>3, <1>4, <1>5, PendsNext DEF CallsKnown

LEMMA KnownReturned ==
    ASSUME SchedulerOK, CallsKnown, Returned
    PROVE  CallsKnown'
<1>0. Len(frames) \in Nat
  BY FramesTyped DEF SchedulerOK
<1>1. /\ nextPid' = nextPid /\ Live' = Live /\ Len(frames') = Len(frames) - 1
      /\ \A i \in 1..Len(frames') : frames'[i] = frames[i] /\ i \in 1..Len(frames)
  BY <1>0 DEF Returned, Same
<1>2. \A i \in 1..Len(frames') : frames'[i].pid \notin Live'
  BY <1>1 DEF CallsKnown
<1>3. \A i \in 1..Len(frames') : frames'[i].pid < nextPid'
  <2>1. Len(frames) = 1 => \A i : i \notin 1..Len(frames')
    BY <1>1
  <2> QED BY <1>1, <2>1 DEF CallsKnown
<1>4. \A i \in 1..Len(frames') : \A q \in Pid : Pends(frames'[i], q) => q < nextPid'
  BY <1>1 DEF CallsKnown
<1> QED BY <1>2, <1>3, <1>4, PendsNext DEF CallsKnown

\* What a call begun inside others is for was there.
LEMMA KnownPushed ==
    ASSUME SchedulerOK, CallsKnown, NEW p \in Pid, Pushed(p),
           \/ frames = << >>
           \/ Pends(frames[Len(frames)], p)
           \/ p < nextPid /\ \A i \in 1..Len(frames) : frames[i].pid < nextPid
    PROVE  CallsKnown'
<1>0. /\ Len(frames) \in Nat /\ \A q \in Pid : links[q] \subseteq Pid /\ q \in Nat
      /\ nextPid \in Nat
  BY FramesTyped, PidNat DEF SchedulerOK
<1>1. /\ nextPid' = nextPid /\ Live' = Live \ {p} /\ Len(frames') = Len(frames) + 1
      /\ \A i \in 1..Len(frames) :
            /\ frames'[i].pid = frames[i].pid
            /\ \A q \in Pid : Pends(frames'[i], q) => Pends(frames[i], q)
      /\ frames'[Len(frames) + 1].pid = p
      /\ \A q : Pends(frames'[Len(frames) + 1], q) <=> q \in links[p]
  BY DEF Pushed, Shrinks
<1>2. \A i \in 1..Len(frames') : i \in 1..Len(frames) \/ i = Len(frames) + 1
  BY <1>0, <1>1
<1>3. \A i \in 1..Len(frames') : frames'[i].pid \notin Live'
  BY <1>1, <1>2 DEF CallsKnown
<1>4. \A q \in Pid : q \in links[p] => q < nextPid
  BY DEF SchedulerOK, LinksTree
<1>5. \A i \in 1..Len(frames') : \A q \in Pid : Pends(frames'[i], q) => q < nextPid'
  BY <1>1, <1>2, <1>4 DEF CallsKnown
<1>6. \A i \in 1..Len(frames') :
        frames'[i].pid < nextPid' \/ (Len(frames') = 1 /\ \A q \in Pid : ~Pends(frames'[1], q))
  <2>1. CASE frames = << >>
    <3>1. Len(frames) = 0 /\ Len(frames') = 1 /\ \A i \in 1..Len(frames') : i = 1
      BY <1>1, <2>1
    <3>2. CASE p < nextPid
      BY <1>1, <3>1, <3>2
    <3>3. CASE ~(p < nextPid)
      <4>1. p >= nextPid
        BY <1>0, <3>3
      <4>2. links[p] = {}
        BY <4>1 DEF SchedulerOK, LinksTree
      <4> QED BY <1>1, <3>1, <4>2
    <3> QED BY <3>2, <3>3
  <2>2. CASE frames # << >> /\ Pends(frames[Len(frames)], p)
    <3>1. Len(frames) \in 1..Len(frames)
      BY <1>0, <2>2, FramesTyped DEF SchedulerOK
    <3>2. p < nextPid
      BY <2>2, <3>1 DEF CallsKnown
    <3>3. \A i \in 1..Len(frames) : frames[i].pid < nextPid
      BY <2>2, <3>1 DEF CallsKnown
    <3> QED BY <1>1, <1>2, <3>2, <3>3
  <2>3. CASE p < nextPid /\ \A i \in 1..Len(frames) : frames[i].pid < nextPid
    BY <1>1, <1>2, <2>3
  <2> QED BY <2>1, <2>2, <2>3
<1> QED BY <1>3, <1>5, <1>6, PendsNext DEF CallsKnown

\* A process that is not there has no links.
LEMMA UnbornUnlinked ==
    ASSUME SchedulerOK, NEW p \in Pid, p >= nextPid
    PROVE  links[p] = {} /\ \A q \in Pid : p \notin links[q]
<1>1. nextPid \in Nat /\ p \in Nat /\ p \notin Live
  BY FramesTyped, PidNat DEF SchedulerOK, LinksTree
<1>2. \A q \in Pid : p \notin links[q]
  BY <1>1 DEF SchedulerOK, LinksTree
<1>3. links[p] = {}
  BY <1>1 DEF SchedulerOK, LinksTree
<1> QED BY <1>2, <1>3

\* Whoever is spawned for a supervisor is a root, and stays one.
LEMMA RootsStill ==
    ASSUME SchedulerOK, SupervisedAreRoots, LinksGrow, nextPid' \in Nat, nextPid <= nextPid',
           supervised \subseteq Pid, supervised' \subseteq Pid,
           \A p \in supervised' : p \in supervised \/ (nextPid <= p /\ p < nextPid' /\ links' = links)
    PROVE  SupervisedAreRoots'
<1>0. nextPid \in Nat /\ \A p \in Pid : p \in Nat
  BY FramesTyped, PidNat DEF SchedulerOK
<1>1. \A p \in supervised' : p < nextPid'
  BY <1>0 DEF SupervisedAreRoots
<1>2. ASSUME NEW p \in supervised', NEW q \in Pid, p \in links'[q] \/ q \in links'[p]
      PROVE  p < q
  <2>1. CASE p \in supervised
    <3>1. p < nextPid /\ p \in Pid
      BY <2>1 DEF SupervisedAreRoots
    <3>2. CASE p \in links[q] \/ q \in links[p]
      BY <2>1, <3>2 DEF SupervisedAreRoots
    <3>3. CASE ~(p \in links[q] \/ q \in links[p])
      <4>1. nextPid <= q
        BY <1>0, <1>2, <3>1, <3>3 DEF LinksGrow
      <4> QED BY <1>0, <3>1, <4>1
    <3> QED BY <3>2, <3>3
  <2>2. CASE p \notin supervised
    <3>1. p >= nextPid /\ links' = links /\ p \in Pid
      BY <1>0, <2>2
    <3> QED BY <1>2, <3>1, UnbornUnlinked
  <2> QED BY <2>1, <2>2
<1> QED BY <1>1, <1>2 DEF SupervisedAreRoots

LEMMA RootsPushed ==
    ASSUME SchedulerOK, SupervisedAreRoots, supervised \subseteq Pid, supervised' = supervised,
           NEW c \in Pid, Pushed(c)
    PROVE  SupervisedAreRoots'
<1>1. nextPid' = nextPid /\ \A q \in Pid : links'[q] \subseteq links[q]
  BY DEF Pushed
<1>2. \A p \in supervised : p < nextPid'
  BY <1>1 DEF SupervisedAreRoots
<1>3. \A p \in supervised : \A q \in Pid : p \in links'[q] \/ q \in links'[p] => p < q
  BY <1>1 DEF SupervisedAreRoots
<1> QED BY <1>2, <1>3 DEF SupervisedAreRoots

\* The part of HandlerOK that is about the open calls, for a given depth.
AtRest(f) == ~f.told /\ f.links = {} /\ f.cascade = << >>

LEMMA RestBare ==
    ASSUME NEW f, NEW g, AtRest(f), Shrinks(f, g), g.told = f.told
    PROVE  AtRest(g)
  BY DEF AtRest, Shrinks, Bare

\* Nobody waits for a call that has nothing to do.
LEMMA RestPendsNone ==
    ASSUME NEW f, AtRest(f), NEW q
    PROVE  ~Pends(f, q)
  BY DEF AtRest, Pends

\* The calls below the handlers' and the one they run for, from step to step.
BottomKept ==
    handler.depth # 0 =>
        /\ phase' = "exit" /\ handler.depth \in 1..Len(frames')
        /\ frames'[handler.depth].pid = frames[handler.depth].pid
        /\ AtRest(frames'[handler.depth])

LEMMA HandlerKept ==
    ASSUME HandlerOK, BottomKept, UNCHANGED supVars
    PROVE  HandlerOK'
<1>1. handler' = handler /\ spec' = spec /\ supervised' = supervised
  BY DEF supVars
<1>2. Busy' <=> Busy
  BY <1>1 DEF Busy
<1>3. handler'.depth = 0 => handler' = NoHandler
  BY <1>1 DEF HandlerOK
<1>4. handler'.depth # 0 =>
        /\ phase' = "exit" /\ handler'.depth \in 1..Len(frames')
        /\ ~frames'[handler'.depth].told /\ frames'[handler'.depth].links = {}
        /\ frames'[handler'.depth].cascade = << >>
  BY <1>1 DEF BottomKept, AtRest
<1>5. Busy' => /\ handler'.depth # 0 /\ handler'.sup <= NumSup /\ spec'[handler'.sup] # Unstarted
               /\ frames'[handler'.depth].pid \in supervised'
  BY <1>1, <1>2 DEF BottomKept, HandlerOK, Here
<1> QED BY <1>3, <1>4, <1>5 DEF HandlerOK, Here

LEMMA BottomStill ==
    ASSUME HandlerOK, frames' = frames, phase' = "exit" <=> phase = "exit"
    PROVE  BottomKept
  BY DEF HandlerOK, BottomKept, AtRest

LEMMA BottomMoved ==
    ASSUME SchedulerOK, HandlerOK, Moved,
           KeepsTold \/ handler.depth = 0 \/ Len(frames) > handler.depth
    PROVE  BottomKept
<1> SUFFICES ASSUME handler.depth # 0 PROVE BottomKept
  BY DEF BottomKept
<1>1. handler.depth \in 1..Len(frames) /\ AtRest(frames[handler.depth])
  BY DEF HandlerOK, AtRest
<1>2. /\ phase' = "exit" /\ Len(frames') = Len(frames)
      /\ Shrinks(frames[handler.depth], frames'[handler.depth])
  BY <1>1 DEF Moved
<1>3. frames'[handler.depth].told = frames[handler.depth].told
  BY <1>1, FramesTyped DEF Moved, KeepsTold, SchedulerOK
<1>4. AtRest(frames'[handler.depth])
  BY <1>1, <1>2, <1>3, RestBare
<1> QED BY <1>1, <1>2, <1>4 DEF BottomKept, Shrinks

LEMMA BottomReturned ==
    ASSUME SchedulerOK, HandlerOK, Returned
    PROVE  BottomKept
<1> SUFFICES ASSUME handler.depth # 0 PROVE BottomKept
  BY DEF BottomKept
<1>0. Len(frames) \in Nat
  BY FramesTyped DEF SchedulerOK
<1>1. handler.depth \in 1..Len(frames) /\ AtRest(frames[handler.depth])
  BY DEF HandlerOK, AtRest
<1>2. handler.depth # Len(frames)
  BY <1>1 DEF AtRest, Returned
<1>3. handler.depth \in 1..Len(frames') /\ Len(frames) > 1
  BY <1>0, <1>1, <1>2 DEF Returned
<1>4. frames'[handler.depth] = frames[handler.depth] /\ phase' = "exit"
  BY <1>3 DEF Returned
<1> QED BY <1>1, <1>3, <1>4 DEF BottomKept

LEMMA BottomPushed ==
    ASSUME SchedulerOK, HandlerOK, NEW p \in Pid, Pushed(p)
    PROVE  BottomKept
<1> SUFFICES ASSUME handler.depth # 0 PROVE BottomKept
  BY DEF BottomKept
<1>0. Len(frames) \in Nat
  BY FramesTyped DEF SchedulerOK
<1>1. handler.depth \in 1..Len(frames) /\ AtRest(frames[handler.depth])
  BY DEF HandlerOK, AtRest
<1>2. /\ phase' = "exit" /\ Len(frames') = Len(frames) + 1
      /\ Shrinks(frames[handler.depth], frames'[handler.depth])
      /\ frames'[handler.depth].told = frames[handler.depth].told
  BY <1>1 DEF Pushed
<1>3. handler.depth \in 1..Len(frames')
  BY <1>0, <1>1, <1>2
<1>4. AtRest(frames'[handler.depth])
  BY <1>1, <1>2, RestBare
<1> QED BY <1>2, <1>3, <1>4 DEF BottomKept, Shrinks


\* The calls above the handlers', from step to step.
LEMMA DescendStill ==
    ASSUME SchedulerOK, CallsKnown, NestedDescend, handler.depth \in Nat,
           UNCHANGED <<handler, frames, links>>, Births
    PROVE  NestedDescend'
<1> SUFFICES ASSUME handler.depth # 0, NEW i \in (handler.depth + 1)..Len(frames), NEW q \in Live',
                    Pends(frames[i], q)
             PROVE  frames[i].pid < q /\ frames[i].pid \in links[q]
  BY PendsNext DEF NestedDescend
<1>1. i \in 1..Len(frames) /\ q \in Pid
  BY FramesTyped DEF SchedulerOK, Live
<1>2. q < nextPid /\ q \in Nat /\ nextPid \in Nat
  BY <1>1, PidNat, FramesTyped DEF CallsKnown, SchedulerOK
<1>3. q \in Live
  BY <1>2 DEF Births
<1> QED BY <1>3 DEF NestedDescend

LEMMA DescendMoved ==
    ASSUME SchedulerOK, NestedDescend, UNCHANGED handler, handler.depth \in Nat, Moved
    PROVE  NestedDescend'
<1> SUFFICES ASSUME handler.depth # 0, NEW i \in (handler.depth + 1)..Len(frames), NEW q \in Live,
                    Pends(frames'[i], q)
             PROVE  frames'[i].pid < q /\ frames'[i].pid \in links[q]
  BY PendsNext DEF NestedDescend, Moved, Same
<1>1. i \in 1..Len(frames)
  BY FramesTyped DEF SchedulerOK
<1>2. frames'[i].pid = frames[i].pid /\ Pends(frames[i], q)
  BY <1>1 DEF Moved, Shrinks
<1> QED BY <1>2 DEF NestedDescend

LEMMA DescendReturned ==
    ASSUME SchedulerOK, NestedDescend, UNCHANGED handler, handler.depth \in Nat, Returned
    PROVE  NestedDescend'
<1> SUFFICES ASSUME handler.depth # 0, NEW i \in (handler.depth + 1)..Len(frames'), NEW q \in Live,
                    Pends(frames'[i], q)
             PROVE  frames'[i].pid < q /\ frames'[i].pid \in links[q]
  BY PendsNext DEF NestedDescend, Returned, Same
<1>1. Len(frames') = Len(frames) - 1 /\ Len(frames) \in Nat
  BY FramesTyped DEF SchedulerOK, Returned
<1>2. i \in 1..Len(frames') /\ i \in (handler.depth + 1)..Len(frames)
  BY <1>1
<1>3. frames'[i] = frames[i]
  BY <1>2 DEF Returned
<1> QED BY <1>2, <1>3 DEF NestedDescend

\* A call begun above the handlers' is for a child of the one above it, or for
\* a root: whoever waits for it in turn is its child.
LEMMA DescendPushed ==
    ASSUME SchedulerOK, CallsKnown, NestedDescend, handler'.depth = handler.depth, handler.depth \in Nat,
           NEW p \in Pid, Pushed(p),
           handler.depth # 0 =>
              \/ \A q \in Pid : q \in links[p] => p < q
              \/ Len(frames) > handler.depth /\ Pends(frames[Len(frames)], p)
    PROVE  NestedDescend'
<1> SUFFICES ASSUME handler.depth # 0, NEW i \in (handler.depth + 1)..Len(frames'), NEW q \in Live',
                    Pends(frames'[i], q)
             PROVE  frames'[i].pid < q /\ frames'[i].pid \in links'[q]
  BY PendsNext DEF NestedDescend
<1>1. Len(frames') = Len(frames) + 1 /\ Len(frames) \in Nat
  BY FramesTyped DEF SchedulerOK, Pushed
<1>2. q \in Live /\ q # p /\ links'[q] = links[q] /\ q \in Pid
  BY DEF Pushed, Live
<1>3. CASE i \in 1..Len(frames)
  <2>1. i \in (handler.depth + 1)..Len(frames)
    BY <1>1, <1>3
  <2>2. frames'[i].pid = frames[i].pid /\ Pends(frames[i], q)
    BY <1>3 DEF Pushed, Shrinks
  <2> QED BY <1>2, <2>1, <2>2 DEF NestedDescend
<1>4. CASE i = Len(frames) + 1
  <2>1. frames'[i].pid = p /\ q \in links[p]
    BY <1>4 DEF Pushed
  <2>2. p \in Live
    BY <2>1 DEF SchedulerOK, LinksTree
  <2>3. p \in links[q]
    BY <1>2, <2>1, <2>2 DEF SchedulerOK, LinksTree
  <2>4. p < q
    <3>1. CASE Len(frames) > handler.depth /\ Pends(frames[Len(frames)], p)
      <4> DEFINE t == frames[Len(frames)].pid
      <4>1. Len(frames) \in (handler.depth + 1)..Len(frames) /\ Len(frames) \in 1..Len(frames)
        BY <1>1, <3>1
      <4>2. t < p /\ t \in links[p] /\ t \notin Live /\ t \in Pid
        BY <2>2, <3>1, <4>1, FramesTyped DEF NestedDescend, CallsKnown, SchedulerOK
      <4>3. q # t
        BY <1>2, <4>2
      <4>4. ~(q < p)
        BY <1>2, <2>1, <4>2, <4>3 DEF SchedulerOK, LinksTree
      <4>5. p \in Nat /\ q \in Nat
        BY <1>2, PidNat
      <4> QED BY <1>2, <4>4, <4>5
    <3>2. CASE \A x \in Pid : x \in links[p] => p < x
      BY <1>2, <2>1, <3>2
    <3> QED BY <3>1, <3>2
  <2> QED BY <1>2, <2>1, <2>3, <2>4
<1> QED BY <1>1, <1>3, <1>4

\* All that is known of the calls, over the scheduler's own steps.
LEMMA CallsScheduler ==
    ASSUME SchedulerOK, SupTypeOK, CallsInv, SchedulerStep, UNCHANGED supVars
    PROVE  CallsInv'
<1>0. /\ handler' = handler /\ supervised' = supervised /\ supervised \subseteq Pid
      /\ handler.depth \in Nat /\ Len(frames) \in Nat
  BY FramesTyped DEF supVars, SupTypeOK, SchedulerOK
<1>1. CASE Still
  <2>1. CallsKnown'
    <3>1. Live' = Live \/ \A i \in 1..Len(frames) : frames[i].pid < nextPid
      <4>1. frames = << >> => \A i : i \notin 1..Len(frames)
        OBVIOUS
      <4> QED BY <1>1, <4>1 DEF Still
    <3> QED BY <1>1, <3>1, KnownStill DEF CallsInv, Still
  <2>2. SupervisedAreRoots'
    BY <1>0, <1>1, RootsStill DEF CallsInv, Still, Births
  <2>3. HandlerOK'
    BY <1>1, BottomStill, HandlerKept DEF CallsInv, Still
  <2>4. NestedDescend'
    <3>1. CASE frames = << >>
      <4>1. handler.depth = 0
        BY <3>1 DEF CallsInv, HandlerOK
      <4> QED BY <1>0, <4>1 DEF NestedDescend
    <3>2. CASE Live' = Live /\ links' = links
      BY <1>0, <1>1, <3>2, DescendStill DEF CallsInv, Still
    <3> QED BY <1>1, <3>1, <3>2 DEF Still
  <2> QED BY <2>1, <2>2, <2>3, <2>4 DEF CallsInv
<1>2. CASE Moved /\ KeepsTold
  <2>1. CallsKnown' /\ NestedDescend'
    BY <1>0, <1>2, KnownMoved, DescendMoved DEF CallsInv
  <2>2. HandlerOK'
    BY <1>2, BottomMoved, HandlerKept DEF CallsInv
  <2>3. SupervisedAreRoots'
    BY <1>0, <1>2 DEF CallsInv, SupervisedAreRoots, Moved, Same
  <2> QED BY <2>1, <2>2, <2>3 DEF CallsInv
<1>3. CASE Returned
  <2>1. CallsKnown' /\ NestedDescend'
    BY <1>0, <1>3, KnownReturned, DescendReturned DEF CallsInv
  <2>2. HandlerOK'
    BY <1>3, BottomReturned, HandlerKept DEF CallsInv
  <2>3. SupervisedAreRoots'
    BY <1>0, <1>3 DEF CallsInv, SupervisedAreRoots, Returned, Same
  <2> QED BY <2>1, <2>2, <2>3 DEF CallsInv
<1>4. ASSUME NEW p \in Pid, Pushed(p), frames = << >> \/ Pends(frames[Len(frames)], p)
      PROVE  CallsInv'
  <2>1. CallsKnown'
    BY <1>4, KnownPushed DEF CallsInv
  <2>2. HandlerOK'
    BY <1>4, BottomPushed, HandlerKept DEF CallsInv
  <2>3. SupervisedAreRoots'
    BY <1>0, <1>4, RootsPushed DEF CallsInv
  <2>4. handler.depth # 0 => Len(frames) > handler.depth /\ Pends(frames[Len(frames)], p)
    <3>1. ASSUME handler.depth # 0 PROVE Len(frames) > handler.depth /\ Pends(frames[Len(frames)], p)
      <4>1. handler.depth \in 1..Len(frames) /\ AtRest(frames[handler.depth])
        BY <3>1 DEF CallsInv, HandlerOK, AtRest
      <4>2. frames # << >>
        BY <4>1
      <4>3. Len(frames) # handler.depth
        BY <1>4, <4>1, <4>2, RestPendsNone
      <4> QED BY <1>0, <1>4, <4>1, <4>2, <4>3
    <3> QED BY <3>1
  <2>5. NestedDescend'
    BY <1>0, <1>4, <2>4, DescendPushed DEF CallsInv
  <2> QED BY <2>1, <2>2, <2>3, <2>5 DEF CallsInv
<1> QED BY <1>1, <1>2, <1>3, <1>4, SchedulerEffect

-----------------------------------------------------------------------------
(* Lists.                                                                  *)

\* What is left of a list when what stands between two positions is taken out.
Cut(s, a, b, t) ==
    /\ Len(t) = Len(s) - ((b - a) - 1)
    /\ \A j \in 1..Len(t) : t[j] = IF j <= a THEN s[j] ELSE s[j + ((b - a) - 1)]

LEMMA CutFacts ==
    ASSUME NEW A, NEW s \in Seq(A), NEW a \in Nat, NEW b \in Nat, a < b, b <= Len(s) + 1,
           NEW t, t = SubSeq(s, 1, a) \o SubSeq(s, b, Len(s))
    PROVE  t \in Seq(A) /\ Cut(s, a, b, t)
<1>1. PICK N \in Nat : N = Len(s) /\ b <= N + 1
  OBVIOUS
<1>2. \A j \in 1..N : s[j] \in A
  BY <1>1, ElementOfSeq
<1>3. PICK p : p = SubSeq(s, 1, a)
  OBVIOUS
<1>4. p \in Seq(A) /\ Len(p) = a /\ \A j \in 1..a : p[j] = s[j]
  <2>1. 1 \in Int /\ a \in Int /\ \A j \in 1..a : j \in 1..N
    BY <1>1
  <2>2. p \in Seq(A) /\ Len(p) = IF 1 <= a THEN a - 1 + 1 ELSE 0
    BY <1>2, <1>3, <2>1, SubSeqProperties
  <2>3. \A j \in 1..((a - 1) + 1) : p[j] = s[(1 + j) - 1]
    BY <1>3, <2>1, SliceElements
  <2>4. \A j \in 1..a : j \in 1..((a - 1) + 1) /\ (1 + j) - 1 = j
    OBVIOUS
  <2> QED BY <2>2, <2>3, <2>4
<1>5. PICK q : q = SubSeq(s, b, N)
  OBVIOUS
<1>m. PICK M \in Nat : M = (N - b) + 1
  BY <1>1
<1>6. q \in Seq(A) /\ Len(q) = M /\ \A j \in 1..M : q[j] = s[(b + j) - 1]
  <2>1. b \in Int /\ N \in Int /\ b <= N + 1 /\ b >= 1 /\ \A j \in b..N : j \in 1..N
    BY <1>1
  <2>2. q \in Seq(A) /\ Len(q) = IF b <= N THEN N - b + 1 ELSE 0
    BY <1>2, <1>5, <2>1, SubSeqProperties
  <2>3. \A j \in 1..((N - b) + 1) : q[j] = s[(b + j) - 1]
    BY <1>5, <2>1, SliceElements
  <2> QED BY <1>m, <2>1, <2>2, <2>3
<1>7. t = p \o q
  BY <1>1, <1>3, <1>5
<1>8. t \in Seq(A) /\ Len(t) = a + M
  BY <1>4, <1>6, <1>7, ConcatProperties
<1>9. \A j \in 1..Len(t) : t[j] = IF j <= a THEN p[j] ELSE q[j - a]
  <2>1. \A j \in 1..(Len(p) + Len(q)) : (p \o q)[j] = IF j <= Len(p) THEN p[j] ELSE q[j - Len(p)]
    BY <1>4, <1>6, ConcatProperties
  <2> QED BY <1>4, <1>6, <1>7, <1>8, <2>1
<1>10. Len(t) = N - ((b - a) - 1)
  <2>1. a + M = N - ((b - a) - 1)
    BY <1>m
  <2> QED BY <1>8, <2>1
<1>11. ASSUME NEW j \in 1..Len(t) PROVE t[j] = IF j <= a THEN s[j] ELSE s[j + ((b - a) - 1)]
  <2>1. CASE j <= a
    BY <1>4, <1>9, <1>11, <2>1
  <2>2. CASE ~(j <= a)
    <3>0. j \in 1..(a + M)
      BY <1>8, <1>11
    <3>1. j \in Nat /\ j - a \in 1..M /\ (b + (j - a)) - 1 = j + ((b - a) - 1)
      BY <2>2, <3>0
    <3>2. t[j] = q[j - a]
      BY <1>9, <1>11, <2>2
    <3> QED BY <1>6, <2>2, <3>1, <3>2
  <2> QED BY <2>1, <2>2
<1> QED BY <1>1, <1>8, <1>10, <1>11 DEF Cut

\* A list with an entry more.
Longer(s, k, c, t) ==
    /\ Len(t) = Len(s) + 1
    /\ \A j \in 1..Len(t) : t[j] = IF j <= k THEN s[j] ELSE IF j = k + 1 THEN c ELSE s[j - 1]

LEMMA InsertedFacts ==
    ASSUME NEW A, NEW s \in Seq(A), NEW k \in Nat, k <= Len(s), NEW c \in A, NEW t, t = Inserted(s, k, c)
    PROVE  t \in Seq(A) /\ Longer(s, k, c, t)
<1>1. PICK N \in Nat : N = Len(s) /\ k <= N
  OBVIOUS
<1>2. \A j \in 1..N : s[j] \in A
  BY <1>1, ElementOfSeq
<1>3. PICK p : p = SubSeq(s, 1, k)
  OBVIOUS
<1>4. p \in Seq(A) /\ Len(p) = k /\ \A j \in 1..k : p[j] = s[j]
  <2>1. 1 \in Int /\ k \in Int /\ \A j \in 1..k : j \in 1..N
    BY <1>1
  <2>2. p \in Seq(A) /\ Len(p) = IF 1 <= k THEN k - 1 + 1 ELSE 0
    BY <1>2, <1>3, <2>1, SubSeqProperties
  <2>3. \A j \in 1..((k - 1) + 1) : p[j] = s[(1 + j) - 1]
    BY <1>3, <2>1, SliceElements
  <2>4. \A j \in 1..k : j \in 1..((k - 1) + 1) /\ (1 + j) - 1 = j
    OBVIOUS
  <2> QED BY <2>2, <2>3, <2>4
<1>5. PICK q : q = SubSeq(s, k + 1, N)
  OBVIOUS
<1>m. PICK M \in Nat : M = N - k
  <2>1. N - k \in Nat
    BY <1>1
  <2> QED BY <2>1
<1>6. q \in Seq(A) /\ Len(q) = M /\ \A j \in 1..M : q[j] = s[k + j]
  <2>1. k + 1 \in Int /\ N \in Int /\ k <= N /\ \A j \in (k + 1)..N : j \in 1..N
    BY <1>1
  <2>2. q \in Seq(A) /\ Len(q) = IF k + 1 <= N THEN N - (k + 1) + 1 ELSE 0
    BY <1>2, <1>5, <2>1, SubSeqProperties
  <2>3. \A j \in 1..((N - (k + 1)) + 1) : q[j] = s[((k + 1) + j) - 1]
    BY <1>5, <2>1, SliceElements
  <2>4. \A j \in 1..(N - k) : j \in 1..((N - (k + 1)) + 1) /\ ((k + 1) + j) - 1 = k + j
    BY <2>1
  <2> QED BY <1>m, <2>1, <2>2, <2>3, <2>4
<1>7. PICK r : r = Append(p, c)
  OBVIOUS
<1>8. r \in Seq(A) /\ Len(r) = k + 1 /\ r[k + 1] = c /\ \A j \in 1..k : r[j] = s[j]
  BY <1>4, <1>7
<1>9. t = r \o q
  BY <1>1, <1>3, <1>5, <1>7 DEF Inserted
<1>10. t \in Seq(A) /\ Len(t) = (k + 1) + M
  <2>1. r \o q \in Seq(A) /\ Len(r \o q) = Len(r) + Len(q)
    BY <1>6, <1>8, ConcatProperties
  <2> QED BY <1>6, <1>8, <1>9, <2>1
<1>11. \A j \in 1..Len(t) : t[j] = IF j <= k + 1 THEN r[j] ELSE q[j - (k + 1)]
  BY <1>6, <1>8, <1>9, ConcatProperties
<1>12. ASSUME NEW j \in 1..Len(t) PROVE t[j] = IF j <= k THEN s[j] ELSE IF j = k + 1 THEN c ELSE s[j - 1]
  <2>1. j \in Nat /\ j <= N + 1 /\ j >= 1
    BY <1>1, <1>10, <1>m
  <2>2. CASE j <= k
    BY <1>8, <1>11, <1>12, <2>1, <2>2
  <2>3. CASE j = k + 1
    BY <1>8, <1>11, <1>12, <2>1, <2>3
  <2>4. CASE ~(j <= k + 1)
    <3>1. j - (k + 1) \in 1..M /\ k + (j - (k + 1)) = j - 1 /\ ~(j <= k) /\ j # k + 1
      BY <1>1, <1>m, <2>1, <2>4
    <3>2. t[j] = q[j - (k + 1)]
      BY <1>11, <1>12, <2>4
    <3> QED BY <1>6, <3>1, <3>2
  <2> QED BY <2>1, <2>2, <2>3, <2>4
<1> QED BY <1>1, <1>10, <1>12, <1>m DEF Longer

\* Nothing in the set is left out.
AllKept(t, s, S) == \A a \in 1..Len(s) : s[a] \in S => \E i \in 1..Len(t) : t[i] = s[a]

LEMMA OnlyAll ==
    ASSUME NEW A, NEW s \in Seq(A), NEW S
    PROVE  AllKept(Only(s, S), s, S)
<1> DEFINE H == {u \in Seq(A) : AllKept(Only(u, S), u, S)}
<1>1. << >> \in H
  <2>1. \A i : i \notin 1..Len(<< >>)
    OBVIOUS
  <2>2. AllKept(Only(<< >>, S), << >>, S)
    BY <2>1 DEF AllKept
  <2> QED BY <2>2, EmptySeq
<1>2. ASSUME NEW u \in Seq(A), NEW e \in A, u \in H PROVE Append(u, e) \in H
  <2>0. PICK v, k, q : v = Append(u, e) /\ k = Only(u, S) /\ q = Only(v, S)
    OBVIOUS
  <2>1. v \in Seq(A) /\ Len(v) = Len(u) + 1 /\ v[Len(u) + 1] = e /\ \A i \in 1..Len(u) : v[i] = u[i]
    BY <2>0, AppendProperties
  <2>2. AllKept(k, u, S)
    BY <1>2, <2>0
  <2>3. q = IF e \in S THEN Append(k, e) ELSE k
    BY <2>0, OnlyAppend
  <2>4. k \in Seq(A \cap S)
    BY <2>0, OnlyType
  <2>5. PICK M \in Nat, N \in Nat : M = Len(k) /\ N = Len(u)
    BY <2>4
  <2>6. e \in S => Len(q) = M + 1 /\ q[M + 1] = e /\ \A i \in 1..M : q[i] = k[i]
    BY <2>3, <2>4, <2>5, AppendProperties
  <2>7. ASSUME NEW a \in 1..Len(v), v[a] \in S PROVE \E i \in 1..Len(q) : q[i] = v[a]
    <3>1. CASE a = N + 1
      <4>1. e \in S /\ v[a] = e /\ M + 1 \in 1..(M + 1)
        BY <2>1, <2>5, <2>7, <3>1
      <4> QED BY <2>6, <4>1
    <3>2. CASE a \in 1..N
      <4>1. v[a] = u[a]
        BY <2>1, <2>5, <3>2
      <4>2. PICK i \in 1..M : k[i] = v[a]
        BY <2>2, <2>5, <2>7, <3>2, <4>1 DEF AllKept
      <4>3. i \in 1..Len(q) /\ q[i] = k[i]
        BY <2>3, <2>5, <2>6, <4>2
      <4> QED BY <4>2, <4>3
    <3>3. a = N + 1 \/ a \in 1..N
      BY <2>1, <2>5, <2>7
    <3> QED BY <3>1, <3>2, <3>3
  <2>8. AllKept(q, v, S)
    BY <2>7 DEF AllKept
  <2> QED BY <2>0, <2>1, <2>8
<1>3. GrowsIn(A, H)
  BY <1>1, <1>2 DEF GrowsIn
<1> HIDE DEF H
<1>4. s \in H
  BY <1>3, ByAppending
<1> QED BY <1>4 DEF H

\* The elements between two positions.
LEMMA SliceFacts ==
    ASSUME NEW A, NEW s \in Seq(A), NEW a \in 1..Len(s), NEW b \in a..Len(s), NEW t, t = SubSeq(s, a, b)
    PROVE  /\ t \in Seq(A) /\ Len(t) = (b - a) + 1
           /\ \A k \in 1..Len(t) : t[k] = s[(a + k) - 1] /\ (a + k) - 1 \in a..b
<1>1. PICK N \in Nat : N = Len(s)
  OBVIOUS
<1>2. a \in Int /\ b \in Int /\ a <= b /\ \A j \in a..b : j \in 1..N
  BY <1>1
<1>3. \A j \in a..b : s[j] \in A
  BY <1>1, <1>2, ElementOfSeq
<1>4. t \in Seq(A) /\ Len(t) = IF a <= b THEN b - a + 1 ELSE 0
  BY <1>2, <1>3, SubSeqProperties
<1>5. Len(t) = (b - a) + 1
  BY <1>2, <1>4
<1>6. \A k \in 1..((b - a) + 1) : t[k] = s[(a + k) - 1]
  BY <1>2, SliceElements
<1>7. \A k \in 1..((b - a) + 1) : (a + k) - 1 \in a..b
  BY <1>2
<1> QED BY <1>4, <1>5, <1>6, <1>7

-----------------------------------------------------------------------------
(* What the handlers' steps do to the lists.                               *)

Entry == [id : Nat, pid : Pid]

\* u, of length M, is s, of length N, without the elements from a to b.
Shifted(u, s, M, a, w) == \A j \in 1..M : u[j] = IF j <= a - 1 THEN s[j] ELSE s[j + w]

Apart(u, s, M, N, a, b) ==
    /\ \A j \in 1..M : \E i \in 1..N : u[j] = s[i] /\ ((i < a /\ j < a /\ i = j) \/ (b < i /\ a <= j))
    /\ \A j, k \in 1..M : j < k => \E i, l \in 1..N : i < l /\ u[j] = s[i] /\ u[k] = s[l]
    /\ \A i \in 1..N : i < a \/ b < i => \E j \in 1..M : u[j] = s[i]
    /\ M >= a - 1 /\ (b = N => M = a - 1)

LeavesOut(u, s, a, b) == Apart(u, s, Len(u), Len(s), a, b)

LEMMA CutApart ==
    ASSUME NEW s, NEW u, NEW N \in Nat, NEW a \in Nat \ {0}, NEW b \in Nat, a <= b, b <= N,
           NEW M \in Nat, NEW w \in Nat, M = N - w, w = (b - a) + 1,
           Shifted(u, s, M, a, w)
    PROVE  Apart(u, s, M, N, a, b)
<1>0. \A j \in 1..M : u[j] = IF j <= a - 1 THEN s[j] ELSE s[j + w]
  BY DEF Shifted
<1>x. w + a = b + 1
  OBVIOUS
<1>6. \A j \in 1..M : j <= a - 1 => j < a /\ j \in 1..N
  OBVIOUS
<1>7. \A j \in 1..M : ~(j <= a - 1) => a <= j /\ j + w \in 1..N /\ b < j + w
  <2> SUFFICES ASSUME NEW j \in 1..M, ~(j <= a - 1) PROVE a <= j /\ j + w \in 1..N /\ b < j + w
    OBVIOUS
  <2>1. j \in Nat /\ j >= 1 /\ j <= M
    OBVIOUS
  <2>2. a <= j
    BY <2>1
  <2>3. j + w >= 1 /\ j + w <= N /\ j + w \in Nat
    BY <2>1
  <2>4. b < j + w
    BY <1>x, <2>1, <2>2
  <2> QED BY <2>2, <2>3, <2>4
<1>8. \A j \in 1..M : \E i \in 1..N : u[j] = s[i] /\ ((i < a /\ j < a /\ i = j) \/ (b < i /\ a <= j))
  BY <1>0, <1>6, <1>7
<1>9. ASSUME NEW j \in 1..M, NEW k \in 1..M, j < k
      PROVE  \E i, l \in 1..N : i < l /\ u[j] = s[i] /\ u[k] = s[l]
  <2>1. CASE k <= a - 1
    <3>1. j <= a - 1
      BY <1>9, <2>1
    <3> QED BY <1>0, <1>6, <1>9, <2>1, <3>1
  <2>2. CASE ~(k <= a - 1) /\ j <= a - 1
    <3>1. j < k + w
      BY <1>9
    <3> QED BY <1>0, <1>6, <1>7, <1>9, <2>2, <3>1
  <2>3. CASE ~(k <= a - 1) /\ ~(j <= a - 1)
    <3>1. j + w < k + w
      BY <1>9
    <3> QED BY <1>0, <1>7, <1>9, <2>3, <3>1
  <2> QED BY <2>1, <2>2, <2>3
<1>10. ASSUME NEW i \in 1..N, i < a \/ b < i PROVE \E j \in 1..M : u[j] = s[i]
  <2>1. CASE i < a
    <3>1. i \in Nat /\ i >= 1 /\ i <= a - 1
      BY <2>1
    <3>2. a - 1 <= M
      OBVIOUS
    <3>3. i \in 1..M
      BY <3>1, <3>2
    <3> QED BY <1>0, <3>1, <3>3
  <2>2. CASE b < i
    <3>1. PICK m \in Int : m = i - w /\ m + w = i
      BY <2>2
    <3>2. m >= a /\ m <= M
      BY <1>x, <2>2, <3>1
    <3>3. m \in 1..M /\ ~(m <= a - 1)
      BY <3>1, <3>2
    <3> QED BY <1>0, <3>1, <3>3
  <2> QED BY <1>10, <2>1, <2>2
<1>11. M >= a - 1 /\ (b = N => M = a - 1)
  OBVIOUS
<1> QED BY <1>8, <1>9, <1>10, <1>11 DEF Apart

LEMMA CutLeavesOut ==
    ASSUME NEW A, NEW s \in Seq(A), NEW a \in 1..Len(s), NEW b \in a..Len(s),
           NEW u, u = SubSeq(s, 1, a - 1) \o SubSeq(s, b + 1, Len(s))
    PROVE  u \in Seq(A) /\ LeavesOut(u, s, a, b)
<1>0. PICK N \in Nat : N = Len(s)
  OBVIOUS
<1>1. /\ a \in Nat \ {0} /\ b \in Nat /\ a <= b /\ b <= N
      /\ a - 1 \in Nat /\ b + 1 \in Nat /\ a - 1 < b + 1 /\ b + 1 <= N + 1
  BY <1>0
<1>2. u \in Seq(A) /\ Cut(s, a - 1, b + 1, u)
  BY <1>0, <1>1, CutFacts
<1>3. PICK w \in Nat : w = ((b + 1) - (a - 1)) - 1 /\ w = (b - a) + 1
  <2>1. (b - a) + 1 \in Nat
    BY <1>1
  <2> QED BY <1>1, <2>1
<1>4. PICK M \in Nat : M = Len(u) /\ M = N - w
  <2>1. N - w \in Nat
    BY <1>1, <1>3
  <2>2. Len(u) = N - w
    BY <1>0, <1>2, <1>3 DEF Cut
  <2> QED BY <2>1, <2>2
<1>5. Shifted(u, s, M, a, w)
  <2>1. \A j \in 1..M : u[j] = IF j <= a - 1 THEN s[j] ELSE s[j + w]
    BY <1>2, <1>3, <1>4 DEF Cut
  <2> QED BY <2>1 DEF Shifted
<1>6. Apart(u, s, M, N, a, b)
  BY <1>1, <1>3, <1>4, <1>5, CutApart
<1>7. LeavesOut(u, s, a, b)
  BY <1>0, <1>4, <1>6 DEF LeavesOut
<1> QED BY <1>2, <1>7

LEMMA SupTyped ==
    ASSUME SupTypeOK
    PROVE  /\ \A s \in Sup : children[s] \in Seq(Entry) /\ Len(children[s]) \in Nat
           /\ \A s \in Sup : \A i \in 1..Len(children[s]) :
                 children[s][i] \in Entry /\ children[s][i].pid \in Pid /\ children[s][i].id \in Nat
           /\ handler.depth \in Nat /\ handler.at \in Nat
           /\ handler.sup \in 1..(NumSup + 1) /\ handler.kill \in Seq(Pid) /\ handler.respawn \in Seq(Nat)
           /\ NumSup \in Nat /\ MaxRestarts \in Nat
           /\ supervised \subseteq Pid
<1>1. \A s \in Sup : children[s] \in Seq(Entry) /\ Len(children[s]) \in Nat
  <2>1. children \in [Sup -> Seq(Entry)]
    BY DEF SupTypeOK, Entry
  <2> QED BY <2>1
<1>2. \A s \in Sup : \A i \in 1..Len(children[s]) : children[s][i] \in Entry
  BY <1>1
<1>3. \A e \in Entry : e.pid \in Pid /\ e.id \in Nat
  BY DEF Entry
<1>4. /\ handler.depth \in Nat /\ handler.at \in Nat
      /\ handler.sup \in 1..(NumSup + 1) /\ handler.kill \in Seq(Pid) /\ handler.respawn \in Seq(Nat)
      /\ supervised \subseteq Pid
  BY DEF SupTypeOK
<1> QED BY <1>1, <1>2, <1>3, <1>4, SupervisionAssumption

\* The record of the handlers' progress, field by field.
HandlerIs(h, depth, sup, kill, respawn, at) ==
    /\ h.depth = depth /\ h.sup = sup /\ h.kill = kill /\ h.respawn = respawn /\ h.at = at

HandlerType == [depth : Nat, sup : 1..(NumSup + 1), kill : Seq(Pid), respawn : Seq(Nat), at : Nat]

LEMMA NoHandlerTyped ==
    ASSUME NEW n \in Nat
    PROVE  /\ NoHandler \in HandlerType /\ HandlerIs(NoHandler, 0, 1, << >>, << >>, 0)
           /\ [NoHandler EXCEPT !.depth = n] \in HandlerType
           /\ HandlerIs([NoHandler EXCEPT !.depth = n], n, 1, << >>, << >>, 0)
<1>1. << >> \in Seq(Pid) /\ << >> \in Seq(Nat) /\ 1 \in 1..(NumSup + 1)
  BY SupervisionAssumption
<1> QED BY <1>1 DEF NoHandler, HandlerType, HandlerIs

LEMMA NextSupTyped ==
    ASSUME SupTypeOK, handler.sup <= NumSup
    PROVE  /\ NextSup \in HandlerType
           /\ HandlerIs(NextSup, handler.depth, handler.sup + 1, handler.kill, handler.respawn, handler.at)
<1>1. handler \in HandlerType
  BY DEF SupTypeOK, HandlerType
<1>2. handler.sup + 1 \in 1..(NumSup + 1)
  BY <1>1, SupervisionAssumption DEF HandlerType
<1> QED BY <1>1, <1>2 DEF NextSup, HandlerType, HandlerIs

LEMMA AfterRespawnTyped ==
    ASSUME SupTypeOK, handler.sup <= NumSup, handler.respawn # << >>
    PROVE  /\ AfterRespawn \in HandlerType
           /\ IF Tail(handler.respawn) = << >>
              THEN HandlerIs(AfterRespawn, handler.depth, handler.sup + 1, handler.kill, << >>, 0)
              ELSE HandlerIs(AfterRespawn, handler.depth, handler.sup, handler.kill,
                             Tail(handler.respawn), handler.at)
<1>1. handler \in HandlerType /\ handler.respawn \in Seq(Nat)
  BY DEF SupTypeOK, HandlerType
<1>2. handler.sup + 1 \in 1..(NumSup + 1)
  BY <1>1, SupervisionAssumption DEF HandlerType
<1>3. PICK tl \in Seq(Nat) : tl = Tail(handler.respawn)
  <2>1. Tail(handler.respawn) \in Seq(Nat)
    BY <1>1
  <2> QED BY <2>1
<1>4. AfterRespawn = IF tl = << >>
                     THEN [handler EXCEPT !.respawn = tl, !.sup = handler.sup + 1, !.at = 0]
                     ELSE [handler EXCEPT !.respawn = tl]
  BY <1>1, <1>3 DEF AfterRespawn, HandlerType
<1>5. CASE tl = << >>
  BY <1>1, <1>2, <1>3, <1>4, <1>5 DEF HandlerType, HandlerIs
<1>6. CASE tl # << >>
  BY <1>1, <1>3, <1>4, <1>6 DEF HandlerType, HandlerIs
<1> QED BY <1>3, <1>5, <1>6

LEMMA ChildHit ==
    ASSUME SupTypeOK, NEW s \in Sup, NEW p, IsChild(s, p)
    PROVE  /\ ChildIndex(s, p) \in 1..Len(children[s]) /\ children[s][ChildIndex(s, p)].pid = p
<1>1. \E i \in 1..Len(children[s]) : children[s][i].pid = p
  BY DEF IsChild
<1> QED BY <1>1 DEF ChildIndex

\* The list of s becomes cs, and no other changes.
ListBecomes(s, cs) ==
    /\ children' \in [Sup -> Seq(Entry)] /\ children'[s] = cs
    /\ \A t \in Sup : t # s => children'[t] = children[t]

LEMMA ListSet ==
    ASSUME SupTypeOK, NEW s \in Sup, NEW cs \in Seq(Entry), children' = [children EXCEPT ![s] = cs]
    PROVE  ListBecomes(s, cs)
<1>1. children \in [Sup -> Seq(Entry)]
  BY DEF SupTypeOK, Entry
<1> QED BY <1>1 DEF ListBecomes

LEMMA HereTyped ==
    ASSUME SupTypeOK, Here <= NumSup
    PROVE  Here \in Sup /\ Here \in Nat /\ children[Here] \in Seq(Entry)
<1>1. Here \in 1..(NumSup + 1) /\ NumSup \in Nat
  BY SupTyped DEF Here
<1>2. Here \in Sup /\ Here \in Nat
  BY <1>1 DEF Sup
<1> QED BY <1>2, SupTyped

\* A child that is not restarted leaves the list.
Forgotten(i) ==
    /\ i \in 1..Len(children[Here]) /\ children[Here][i].pid = Top.pid
    /\ ListBecomes(Here, children'[Here]) /\ LeavesOut(children'[Here], children[Here], i, i)
    /\ spec[Here].restarts[children[Here][i].id] # "Permanent"

LEMMA ForgetEffect ==
    ASSUME SupTypeOK, ForgetChild
    PROVE  \E i \in Nat : Forgotten(i)
<1>1. Here <= NumSup /\ IsChild(Here, Top.pid) /\ ~ShouldRestart(Here, DeadId(Here), Top.reason)
  BY DEF ForgetChild, InHandler, ChildExit, Here
<1>2. Here \in Sup /\ children[Here] \in Seq(Entry)
  BY <1>1, HereTyped
<1>3. PICK i \in 1..Len(children[Here]) : i = ChildIndex(Here, Top.pid) /\ children[Here][i].pid = Top.pid
  BY <1>1, <1>2, ChildHit
<1>4. PICK cs \in Seq(Entry) : cs = children[Here]
  BY <1>2
<1>5. PICK u : u = SubSeq(cs, 1, i - 1) \o SubSeq(cs, i + 1, Len(cs))
  OBVIOUS
<1>6. children' = [children EXCEPT ![Here] = u]
  BY <1>3, <1>4, <1>5 DEF ForgetChild
<1>7. i \in 1..Len(cs) /\ i \in i..Len(cs)
  BY <1>3, <1>4
<1>8. u \in Seq(Entry) /\ LeavesOut(u, cs, i, i)
  BY <1>5, <1>7, CutLeavesOut
<1>9. ListBecomes(Here, u)
  BY <1>2, <1>6, <1>8, ListSet
<1>10. spec[Here].restarts[children[Here][i].id] # "Permanent"
  BY <1>1, <1>3 DEF ShouldRestart, DeadId
<1>11. children'[Here] = u
  BY <1>9 DEF ListBecomes
<1> QED BY <1>3, <1>4, <1>8, <1>9, <1>10, <1>11 DEF Forgotten

\* The children from a to b are restarted, the dead one at i among them.
Restarted(i, a, b) ==
    /\ i \in 1..Len(children[Here]) /\ a \in 1..i /\ b \in i..Len(children[Here])
    /\ children[Here][i].pid = Top.pid
    /\ ListBecomes(Here, children'[Here]) /\ LeavesOut(children'[Here], children[Here], a, b)
    /\ handler'.at = 0 => b = Len(children[Here])
    /\ handler'.at # 0 => a = i /\ b = i /\ handler'.at = i
    /\ spec[Here].strategy = "OneForOne" => handler'.at # 0

Listed(ks, cs, a, b) ==
    /\ \A k \in 1..Len(ks) : \E j \in a..b : cs[j].pid = ks[k]
    /\ \A j \in a..b : cs[j].pid # Top.pid => \E k \in 1..Len(ks) : ks[k] = cs[j].pid

Renewed(ids, cs, a, b) ==
    /\ Len(ids) = (b - a) + 1
    /\ \A k \in 1..Len(ids) : ids[k] = cs[(a + k) - 1].id /\ (a + k) - 1 \in a..b

LEMMA SiblingsListed ==
    ASSUME NEW cs \in Seq(Entry), NEW a \in 1..Len(cs), NEW b \in a..Len(cs), NEW hit, hit = SubSeq(cs, a, b),
           NEW ks, ks = [k \in 1..Len(Siblings(hit)) |-> Siblings(hit)[k].pid]
    PROVE  ks \in Seq(Pid) /\ Listed(ks, cs, a, b)
<1>0. hit \in Seq(Entry) /\ Len(hit) = (b - a) + 1 /\ Len(hit) \in Nat
      /\ \A k \in 1..Len(hit) : hit[k] = cs[(a + k) - 1] /\ (a + k) - 1 \in a..b
  BY SliceFacts
<1>1. PICK S : S = [id : Nat, pid : Pid \ {Top.pid}]
  OBVIOUS
<1>2. PICK rest : rest = Only(hit, S) /\ rest = Siblings(hit)
  BY <1>1 DEF Siblings
<1>3. rest \in Seq(Entry \cap S) /\ StandsIn(rest, hit) /\ AllKept(rest, hit, S)
  BY <1>0, <1>2, OnlyType, OnlyInOrder, OnlyAll
<1>4. Len(rest) \in Nat /\ DOMAIN rest = 1..Len(rest) /\ DOMAIN hit = 1..Len(hit)
      /\ \A k \in 1..Len(rest) : rest[k] \in Entry
  BY <1>0, <1>3
<1>5. \A e \in Entry : e.pid \in Pid /\ (e.pid # Top.pid => e \in S)
  BY <1>1 DEF Entry
<1>6. Len(ks) = Len(rest) /\ DOMAIN ks = 1..Len(rest) /\ \A k \in 1..Len(rest) : ks[k] = rest[k].pid
  BY <1>2, <1>4
<1>7. ks \in Seq(Pid)
  <2>1. \A k \in 1..Len(rest) : rest[k].pid \in Pid
    BY <1>4, <1>5
  <2>2. ks = [k \in 1..Len(rest) |-> rest[k].pid]
    BY <1>2
  <2> QED BY <1>4, <2>1, <2>2
<1>8. ASSUME NEW k \in 1..Len(ks) PROVE \E j \in a..b : cs[j].pid = ks[k]
  <2>1. k \in DOMAIN rest /\ ks[k] = rest[k].pid
    BY <1>4, <1>6
  <2>2. PICK m \in DOMAIN hit : rest[k] = hit[m]
    BY <1>3, <2>1 DEF StandsIn
  <2> QED BY <1>0, <1>4, <2>1, <2>2
<1>9. ASSUME NEW j \in a..b, cs[j].pid # Top.pid PROVE \E k \in 1..Len(ks) : ks[k] = cs[j].pid
  <2>1. PICK m \in 1..Len(hit) : m = (j - a) + 1 /\ (a + m) - 1 = j
    <3>1. (j - a) + 1 \in 1..((b - a) + 1) /\ (a + ((j - a) + 1)) - 1 = j
      OBVIOUS
    <3> QED BY <1>0, <3>1
  <2>2. hit[m] = cs[j] /\ hit[m] \in Entry
    BY <1>0, <2>1
  <2>3. hit[m] \in S
    BY <1>5, <1>9, <2>2
  <2>4. PICK k \in 1..Len(rest) : rest[k] = hit[m]
    BY <1>3, <2>3 DEF AllKept
  <2> QED BY <1>6, <2>2, <2>4
<1> QED BY <1>7, <1>8, <1>9 DEF Listed

LEMMA SeqOf ==
    ASSUME NEW S, NEW n \in Nat, NEW f \in [1..n -> S]
    PROVE  f \in Seq(S)
BY SeqDef

LEMMA HitRenewed ==
    ASSUME NEW cs \in Seq(Entry), NEW a \in 1..Len(cs), NEW b \in a..Len(cs), NEW hit, hit = SubSeq(cs, a, b),
           NEW ids, ids = [k \in 1..Len(hit) |-> hit[k].id]
    PROVE  ids \in Seq(Nat) /\ Renewed(ids, cs, a, b)
<1>1. hit \in Seq(Entry) /\ Len(hit) = (b - a) + 1 /\ Len(hit) \in Nat
      /\ \A k \in 1..Len(hit) : hit[k] = cs[(a + k) - 1] /\ (a + k) - 1 \in a..b
  BY SliceFacts
<1>2. \A k \in 1..Len(hit) : hit[k] \in Entry
  BY <1>1
<1>3. \A k \in 1..Len(hit) : hit[k].id \in Nat
  BY <1>2 DEF Entry
<1>4. ids \in Seq(Nat) /\ Len(ids) = Len(hit) /\ \A k \in 1..Len(hit) : ids[k] = hit[k].id
  <2>1. DOMAIN ids = 1..Len(hit) /\ \A k \in 1..Len(hit) : ids[k] = hit[k].id
    OBVIOUS
  <2>2. ids \in Seq(Nat)
    <3>1. PICK n \in Nat : n = Len(hit)
      BY <1>1
    <3>2. ids \in [1..n -> Nat]
      BY <1>3, <3>1
    <3> QED BY <3>2, SeqOf
  <2>3. Len(ids) = Len(hit)
    <3>1. Len(ids) \in Nat /\ DOMAIN ids = 1..Len(ids)
      BY <2>2
    <3>2. \A m, n \in Nat : 1..m = 1..n => m = n
      OBVIOUS
    <3> QED BY <1>1, <2>1, <3>1, <3>2
  <2> QED BY <2>1, <2>2, <2>3
<1> QED BY <1>1, <1>4 DEF Renewed

LEMMA RestartEffect ==
    ASSUME SupTypeOK, NEW n, Restart(n)
    PROVE  \E i, a, b \in Nat :
              /\ Restarted(i, a, b)
              /\ Listed(handler'.kill, children[Here], a, b)
              /\ Renewed(handler'.respawn, children[Here], a, b)
              /\ handler' \in HandlerType /\ handler'.depth = handler.depth /\ handler'.sup = handler.sup
<1>1. Here <= NumSup /\ IsChild(Here, Top.pid)
  BY DEF Restart, RestartCounted, InHandler, ChildExit, Here
<1>2. Here \in Sup /\ children[Here] \in Seq(Entry)
  BY <1>1, HereTyped
<1>3. PICK i \in 1..Len(children[Here]) : i = ChildIndex(Here, Top.pid) /\ children[Here][i].pid = Top.pid
  BY <1>1, <1>2, ChildHit
<1>4. PICK cs \in Seq(Entry) : cs = children[Here]
  BY <1>2
<1>5. Len(cs) \in Nat /\ i \in 1..Len(cs) /\ i \in Nat
  BY <1>3, <1>4
<1>6. PICK a \in 1..i : a = IF spec[Here].strategy = "OneForAll" THEN 1 ELSE i
  BY <1>5
<1>7. PICK b \in i..Len(cs) : b = IF spec[Here].strategy = "OneForOne" THEN i ELSE Len(cs)
  BY <1>5
<1>8. PICK at \in Nat : at = IF spec[Here].strategy = "OneForOne" THEN i ELSE 0
  BY <1>5
<1>9. /\ at = 0 => b = Len(cs)
      /\ at # 0 => a = i /\ b = i /\ at = i
  BY <1>5, <1>6, <1>7, <1>8
<1>10. a \in 1..Len(cs) /\ b \in a..Len(cs) /\ a \in Nat /\ b \in Nat
  BY <1>5, <1>6, <1>7
<1>11. PICK u : u = SubSeq(cs, 1, a - 1) \o SubSeq(cs, b + 1, Len(cs))
  OBVIOUS
<1>12. PICK hit : hit = SubSeq(cs, a, b)
  OBVIOUS
<1>13. PICK ks : ks = [k \in 1..Len(Siblings(hit)) |-> Siblings(hit)[k].pid]
  OBVIOUS
<1>14. PICK ids : ids = [k \in 1..Len(hit) |-> hit[k].id]
  OBVIOUS
<1>15. children' = [children EXCEPT ![Here] = u]
  BY <1>3, <1>4, <1>6, <1>7, <1>11 DEF Restart
<1>16. handler' = [handler EXCEPT !.kill = ks, !.respawn = ids, !.at = at]
  <2> DEFINE dead == ChildIndex(Here, Top.pid)
             list == children[Here]
             first == IF spec[Here].strategy = "OneForAll" THEN 1 ELSE dead
             last == IF spec[Here].strategy = "OneForOne" THEN dead ELSE Len(list)
             concerned == SubSeq(list, first, last)
             others == Siblings(concerned)
  <2>1. handler' = [handler EXCEPT
                      !.kill = [k \in 1..Len(others) |-> others[k].pid],
                      !.respawn = [k \in 1..Len(concerned) |-> concerned[k].id],
                      !.at = IF spec[Here].strategy = "OneForOne" THEN dead ELSE 0]
    BY DEF Restart
  <2>2. first = a /\ last = b /\ list = cs /\ (IF spec[Here].strategy = "OneForOne" THEN dead ELSE 0) = at
    BY <1>3, <1>4, <1>6, <1>7, <1>8
  <2>3. concerned = hit /\ others = Siblings(hit)
    <3> HIDE DEF first, last, list
    <3> QED BY <1>12, <2>2
  <2>4. [k \in 1..Len(others) |-> others[k].pid] = ks /\ [k \in 1..Len(concerned) |-> concerned[k].id] = ids
    <3> HIDE DEF concerned, others
    <3> QED BY <1>13, <1>14, <2>3
  <2> HIDE DEF concerned, others
  <2> QED BY <2>1, <2>2, <2>4
<1>17. u \in Seq(Entry) /\ LeavesOut(u, cs, a, b)
  BY <1>10, <1>11, CutLeavesOut
<1>18. ListBecomes(Here, u)
  BY <1>2, <1>15, <1>17, ListSet
<1>19. children'[Here] = u
  BY <1>18 DEF ListBecomes
<1>20. ks \in Seq(Pid) /\ Listed(ks, cs, a, b)
  BY <1>10, <1>12, <1>13, SiblingsListed
<1>21. ids \in Seq(Nat) /\ Renewed(ids, cs, a, b)
  BY <1>10, <1>12, <1>14, HitRenewed
<1>22. handler \in HandlerType
  BY DEF SupTypeOK, HandlerType
<1>23. /\ handler' \in HandlerType /\ handler'.depth = handler.depth /\ handler'.sup = handler.sup
       /\ handler'.kill = ks /\ handler'.respawn = ids /\ handler'.at = at
  BY <1>8, <1>16, <1>20, <1>21, <1>22 DEF HandlerType
<1>25. spec[Here].strategy = "OneForOne" => handler'.at # 0
  BY <1>5, <1>8, <1>23
<1>24. Restarted(i, a, b)
  BY <1>3, <1>4, <1>6, <1>7, <1>9, <1>17, <1>18, <1>19, <1>23, <1>25 DEF Restarted
<1> QED BY <1>4, <1>5, <1>10, <1>20, <1>21, <1>23, <1>24

\* A child is back, or new, behind position k.
Replaced(k) ==
    /\ k \in Nat /\ k <= Len(children[Here])
    /\ k = IF handler.at = 0 THEN Len(children[Here]) ELSE handler.at - 1
    /\ ListBecomes(Here, children'[Here])
    /\ Longer(children[Here], k, NewChild(Head(handler.respawn)), children'[Here])

LEMMA RespawnEffect ==
    ASSUME SupTypeOK, SchedulerOK, HandlerOK, RespawnOK, RespawnChild
    PROVE  /\ \E k \in Nat : Replaced(k)
           /\ NewChild(Head(handler.respawn)) \in Entry
<1>1. handler.respawn # << >> /\ nextPid <= MaxPid
  BY DEF RespawnChild, ToRespawn
<1>2. Here <= NumSup
  BY <1>1 DEF HandlerOK, Busy
<1>3. Here \in Sup /\ children[Here] \in Seq(Entry)
  BY <1>2, HereTyped
<1>4. PICK cs \in Seq(Entry) : cs = children[Here]
  BY <1>3
<1>5. handler.at # 0 => handler.at <= Len(cs) + 1
  BY <1>1, <1>4 DEF RespawnOK
<1>6. handler.at \in Nat /\ Len(cs) \in Nat /\ handler.respawn \in Seq(Nat)
  BY SupTyped, <1>4
<1>7. PICK k \in Nat : k = (IF handler.at = 0 THEN Len(cs) ELSE handler.at - 1) /\ k <= Len(cs)
  BY <1>5, <1>6
<1>8. PICK c : c = NewChild(Head(handler.respawn))
  OBVIOUS
<1>9. c \in Entry
  <2>1. nextPid \in Pid
    BY <1>1, SchedulerAssumption DEF SchedulerOK, TypeOK, ProcTypeOK, Pid
  <2>2. Head(handler.respawn) \in Nat
    BY <1>1, <1>6
  <2> QED BY <1>8, <2>1, <2>2 DEF NewChild, Entry
<1>10. PICK u : u = Inserted(cs, k, c)
  OBVIOUS
<1>11. children' = [children EXCEPT ![Here] = u]
  BY <1>4, <1>7, <1>8, <1>10 DEF RespawnChild
<1>12. u \in Seq(Entry) /\ Longer(cs, k, c, u)
  BY <1>7, <1>9, <1>10, InsertedFacts
<1>13. ListBecomes(Here, u)
  BY <1>3, <1>11, <1>12, ListSet
<1>14. children'[Here] = u
  BY <1>13 DEF ListBecomes
<1>15. Replaced(k)
  BY <1>4, <1>7, <1>8, <1>12, <1>13, <1>14 DEF Replaced
<1> QED BY <1>8, <1>9, <1>15

\* A supervisor has started.
Started(s, sp) ==
    /\ spec' \in [Sup -> Specs \union {Unstarted}] /\ spec'[s] = sp
    /\ \A t \in Sup : t # s => spec'[t] = spec[t]
    /\ ListBecomes(s, children'[s]) /\ Len(children'[s]) = Len(sp.restarts)
    /\ \A i \in 1..Len(children'[s]) :
          /\ children'[s][i].id = i /\ children'[s][i].pid = (nextPid + i) - 1
          /\ nextPid <= children'[s][i].pid /\ children'[s][i].pid < nextPid'
          /\ children'[s][i].pid \in Live' \intersect supervised'
    /\ supervised \subseteq supervised' /\ supervised' \subseteq Pid
    /\ \A p \in supervised' : p \in supervised \/ \E i \in 1..Len(children'[s]) : children'[s][i].pid = p
    /\ UNCHANGED <<recent, gaveUp, handler, refused>>

LEMMA StartEffect ==
    ASSUME SupTypeOK, TypeOK, NEW s \in Sup, NEW sp \in Specs, StartSupervisor(s, sp)
    PROVE  Started(s, sp)
<1>1. PICK n \in Nat : n = Len(sp.restarts)
  <2>1. sp.restarts \in Seq({"Permanent", "Transient", "Temporary"})
    BY SupervisionAssumption
  <2> QED BY <2>1
<1>2. SpawnFirst(n, n)
  BY <1>1 DEF StartSupervisor
<1>3. /\ \A p \in nextPid..((nextPid + n) - 1) : p \in Pid
      /\ Live' = Live \union (nextPid..((nextPid + n) - 1))
      /\ nextPid' = nextPid + n /\ nextPid \in Nat
  BY <1>1, <1>2, FirstBorn
<1>4. PICK cs : cs = [i \in 1..n |-> [id |-> i, pid |-> (nextPid + i) - 1]]
  OBVIOUS
<1>5. \A i \in 1..n : (nextPid + i) - 1 \in nextPid..((nextPid + n) - 1) /\ i \in Nat
  BY <1>3
<1>6. \A i \in 1..n : cs[i] \in Entry
  BY <1>3, <1>4, <1>5 DEF Entry
<1>7. cs \in Seq(Entry) /\ Len(cs) = n
  <2>1. cs \in [1..n -> Entry]
    BY <1>4, <1>6
  <2> QED BY <2>1, SeqOf
<1>8. children' = [children EXCEPT ![s] = cs]
  <2>1. children' = [children EXCEPT ![s] =
                       [i \in 1..Len(sp.restarts) |-> [id |-> i, pid |-> nextPid + i - 1]]]
    BY DEF StartSupervisor
  <2>2. cs = [i \in 1..Len(sp.restarts) |-> [id |-> i, pid |-> nextPid + i - 1]]
    <3>1. \A i \in 1..n : (nextPid + i) - 1 = nextPid + i - 1
      BY <1>3
    <3> QED BY <1>1, <1>4, <3>1
  <2> QED BY <2>1, <2>2
<1>9. ListBecomes(s, cs)
  BY <1>7, <1>8, ListSet
<1>10. children'[s] = cs
  BY <1>9 DEF ListBecomes
<1>11. /\ spec' \in [Sup -> Specs \union {Unstarted}] /\ spec'[s] = sp
       /\ \A t \in Sup : t # s => spec'[t] = spec[t]
  BY DEF StartSupervisor, SupTypeOK
<1>12. supervised' = supervised \union {(nextPid + i) - 1 : i \in 1..n}
  <2>1. supervised' = supervised \union {nextPid + i - 1 : i \in 1..Len(sp.restarts)}
    BY DEF StartSupervisor
  <2>2. \A i \in 1..n : (nextPid + i) - 1 = nextPid + i - 1
    BY <1>3
  <2> QED BY <1>1, <2>1, <2>2
<1>13. supervised' \subseteq Pid
  BY <1>3, <1>5, <1>12 DEF SupTypeOK
<1>14. ASSUME NEW i \in 1..n
       PROVE  /\ cs[i].id = i /\ cs[i].pid = (nextPid + i) - 1
              /\ nextPid <= cs[i].pid /\ cs[i].pid < nextPid'
              /\ cs[i].pid \in Live' \intersect supervised'
  <2>1. cs[i].id = i /\ cs[i].pid = (nextPid + i) - 1
    BY <1>4
  <2>2. PICK p \in nextPid..((nextPid + n) - 1) : p = (nextPid + i) - 1
    BY <1>5
  <2>3. p \in Live' /\ p \in supervised'
    BY <1>3, <1>12, <2>2
  <2>4. nextPid <= p /\ p < nextPid'
    BY <1>3
  <2> QED BY <2>1, <2>2, <2>3, <2>4
<1>15. \A p \in supervised' : p \in supervised \/ \E i \in 1..n : cs[i].pid = p
  BY <1>12, <1>14
<1>16. UNCHANGED <<recent, gaveUp, handler, refused>>
  BY <1>2 DEF SpawnFirst
<1>17. \A i \in 1..Len(children'[s]) :
          /\ children'[s][i].id = i /\ children'[s][i].pid = (nextPid + i) - 1
          /\ nextPid <= children'[s][i].pid /\ children'[s][i].pid < nextPid'
          /\ children'[s][i].pid \in Live' \intersect supervised'
  BY <1>7, <1>10, <1>14
<1>18. \A p \in supervised' : p \in supervised \/ \E i \in 1..Len(children'[s]) : children'[s][i].pid = p
  BY <1>7, <1>10, <1>15
<1> QED BY <1>1, <1>7, <1>9, <1>10, <1>11, <1>12, <1>13, <1>16, <1>17, <1>18 DEF Started

\* Types, over every step.
LEMMA SupTyping ==
    ASSUME SupTypeOK, SchedulerOK, HandlerOK, RespawnOK, SupNext
    PROVE  SupTypeOK'
<1>0. /\ children \in [Sup -> Seq(Entry)] /\ recent \in [Sup -> 0..(MaxRestarts + 1)]
      /\ gaveUp \in [Sup -> BOOLEAN] /\ spec \in [Sup -> Specs \union {Unstarted}]
      /\ handler \in HandlerType /\ supervised \subseteq Pid /\ refused \in [Sup -> SUBSET Nat]
      /\ MaxRestarts \in Nat /\ NumSup \in Nat
  BY SupervisionAssumption DEF SupTypeOK, Entry, HandlerType
<1> DEFINE Typed ==
      /\ children' \in [Sup -> Seq(Entry)] /\ recent' \in [Sup -> 0..(MaxRestarts + 1)]
      /\ gaveUp' \in [Sup -> BOOLEAN] /\ spec' \in [Sup -> Specs \union {Unstarted}]
      /\ handler' \in HandlerType /\ supervised' \subseteq Pid /\ refused' \in [Sup -> SUBSET Nat]
<1> SUFFICES Typed
  BY DEF SupTypeOK, Entry, HandlerType
<1>1. ASSUME UNCHANGED supVars PROVE Typed
  BY <1>0, <1>1 DEF supVars
<1>2. ASSUME NEW s \in Sup, NEW sp \in Specs, StartSupervisor(s, sp) PROVE Typed
  <2>1. Started(s, sp)
    BY <1>2, StartEffect DEF SchedulerOK
  <2> QED BY <1>0, <2>1 DEF Started, ListBecomes
<1>3. ASSUME NEW s \in Sup, NEW sp \in Specs, NEW n \in 1..Len(sp.restarts), StartFails(s, sp, n)
      PROVE  Typed
  BY <1>0, <1>3 DEF StartFails, SpawnFirst
<1>4. ASSUME HandlersBegin PROVE Typed
  <2>1. Len(frames) \in Nat
    BY FramesTyped DEF SchedulerOK
  <2>2. handler' \in HandlerType
    BY <1>4, <2>1, NoHandlerTyped DEF HandlersBegin
  <2> QED BY <1>0, <1>4, <2>2 DEF HandlersBegin
<1>5. ASSUME handler' = NextSup, handler.sup <= NumSup PROVE handler' \in HandlerType
  BY <1>5, NextSupTyped
<1>6. ASSUME IgnoreExit PROVE Typed
  <2>1. handler' \in HandlerType
    BY <1>5, <1>6 DEF IgnoreExit, InHandler
  <2> QED BY <1>0, <1>6, <2>1 DEF IgnoreExit
<1>7. ASSUME ForgetChild PROVE Typed
  <2>1. handler' \in HandlerType
    BY <1>5, <1>7 DEF ForgetChild, InHandler
  <2>2. PICK i \in Nat : Forgotten(i)
    BY <1>7, ForgetEffect
  <2>3. children' \in [Sup -> Seq(Entry)]
    BY <2>2 DEF Forgotten, ListBecomes
  <2> QED BY <1>0, <1>7, <2>1, <2>3 DEF ForgetChild
<1>8. ASSUME NEW n \in 1..(MaxRestarts + 1), RestartCounted(n) PROVE recent' \in [Sup -> 0..(MaxRestarts + 1)]
  <2>1. n \in 0..(MaxRestarts + 1)
    BY <1>0
  <2> QED BY <1>0, <1>8, <2>1 DEF RestartCounted
<1>9. ASSUME NEW n \in 1..(MaxRestarts + 1), GiveUp(n) PROVE Typed
  <2>1. handler' \in HandlerType
    BY <1>5, <1>9 DEF GiveUp, RestartCounted, InHandler
  <2>2. recent' \in [Sup -> 0..(MaxRestarts + 1)]
    BY <1>8, <1>9 DEF GiveUp
  <2> QED BY <1>0, <1>9, <2>1, <2>2 DEF GiveUp
<1>10. ASSUME NEW n \in 1..(MaxRestarts + 1), Restart(n) PROVE Typed
  <2>1. PICK i, a, b \in Nat : Restarted(i, a, b) /\ handler' \in HandlerType
    BY <1>10, RestartEffect
  <2>2. recent' \in [Sup -> 0..(MaxRestarts + 1)]
    BY <1>8, <1>10 DEF Restart
  <2>3. children' \in [Sup -> Seq(Entry)]
    BY <2>1 DEF Restarted, ListBecomes
  <2> QED BY <1>0, <1>10, <2>1, <2>2, <2>3 DEF Restart
<1>11. ASSUME KillSibling PROVE Typed
  <2>1. handler.kill \in Seq(Pid) /\ handler.kill # << >>
    BY <1>11, SupTyped DEF KillSibling
  <2>2. Tail(handler.kill) \in Seq(Pid)
    BY <2>1
  <2>3. handler' \in HandlerType
    BY <1>0, <1>11, <2>2 DEF KillSibling, HandlerType
  <2> QED BY <1>0, <1>11, <2>3 DEF KillSibling
<1>12. ASSUME RespawnChild \/ RespawnRefused
       PROVE  handler' \in HandlerType /\ handler.sup <= NumSup /\ Here \in Sup /\ nextPid \in Pid
              /\ Head(handler.respawn) \in Nat
  <2>1. handler.respawn # << >> /\ handler' = AfterRespawn
    BY <1>12 DEF RespawnChild, RespawnRefused, ToRespawn
  <2>2. Here <= NumSup
    BY <2>1 DEF HandlerOK, Busy
  <2>3. handler' \in HandlerType
    BY <2>1, <2>2, AfterRespawnTyped DEF Here
  <2>4. handler.respawn \in Seq(Nat)
    BY SupTyped
  <2> QED BY <1>12, <2>1, <2>2, <2>3, <2>4, HereTyped, RespawnKept DEF Here
<1>13. ASSUME RespawnChild PROVE Typed
  <2>1. PICK k \in Nat : Replaced(k)
    BY <1>13, RespawnEffect
  <2>2. children' \in [Sup -> Seq(Entry)]
    BY <2>1 DEF Replaced, ListBecomes
  <2> QED BY <1>0, <1>12, <1>13, <2>2 DEF RespawnChild
<1>14. ASSUME RespawnRefused PROVE Typed
  BY <1>0, <1>12, <1>14 DEF RespawnRefused
<1>15. ASSUME HandlersEnd PROVE Typed
  <2>1. NoHandler \in HandlerType
    BY NoHandlerTyped
  <2> QED BY <1>0, <1>15, <2>1 DEF HandlersEnd
<1>16. ASSUME NestedExit PROVE Typed
  BY <1>1, <1>16 DEF NestedExit
<1> HIDE DEF Typed
<1> QED BY <1>1, <1>2, <1>3, <1>4, <1>6, <1>7, <1>9, <1>10, <1>11, <1>13, <1>14, <1>15, <1>16
    DEF SupNext, HandlerStep

-----------------------------------------------------------------------------
(* The open calls, over the steps of the handlers.                         *)

\* Steps that leave the scheduler alone.
LEMMA CallsUnmoved ==
    ASSUME CallsKnown, SupervisedAreRoots, UNCHANGED vars, supervised' = supervised
    PROVE  CallsKnown' /\ SupervisedAreRoots'
<1>1. UNCHANGED <<frames, nextPid, links, status, phase>> /\ Live' = Live
  BY DEF vars, procVars, callVars, Live
<1> QED BY <1>1 DEF CallsKnown, SupervisedAreRoots, Pends

LEMMA InHandlerFacts ==
    ASSUME SchedulerOK, HandlerOK, SupTypeOK, AtHandlers, Len(frames) = handler.depth
    PROVE  /\ handler.depth # 0 /\ phase = "exit" /\ frames # << >> /\ Top = frames[handler.depth]
           /\ Top.links = {} /\ Top.cascade = << >> /\ ~Top.told /\ Len(frames) \in Nat \ {0}
<1>1. frames # << >> /\ frames \in Seq(Frame)
  BY FramesTyped DEF AtHandlers, SchedulerOK, CallOK
<1>2. Len(frames) \in Nat \ {0}
  BY <1>1
<1> QED BY <1>1, <1>2 DEF AtHandlers, Notified, Top

\* The depth stays, and what is known of it.
LEMMA DepthKept ==
    ASSUME HandlerOK, NestedDescend, UNCHANGED vars, handler.depth # 0, handler'.depth = handler.depth
    PROVE  /\ NestedDescend'
           /\ handler'.depth # 0 /\ phase' = "exit" /\ handler'.depth \in 1..Len(frames')
           /\ ~frames'[handler'.depth].told /\ frames'[handler'.depth].links = {}
           /\ frames'[handler'.depth].cascade = << >>
           /\ frames' = frames
<1>1. UNCHANGED <<frames, links, phase>> /\ Live' = Live
  BY DEF vars, procVars, callVars, Live
<1> QED BY <1>1 DEF HandlerOK, NestedDescend, Pends

LEMMA CallsHandlersBegin ==
    ASSUME SchedulerOK, SupTypeOK, CallsInv, HandlersBegin
    PROVE  CallsInv'
<1>1. UNCHANGED vars /\ supervised' = supervised /\ AtHandlers
  BY DEF HandlersBegin
<1>2. frames # << >> /\ frames \in Seq(Frame) /\ phase = "exit"
  BY <1>1, FramesTyped DEF AtHandlers, SchedulerOK, CallOK
<1>3. PICK n \in Nat \ {0} : n = Len(frames)
  BY <1>2
<1>4. HandlerIs(handler', n, 1, << >>, << >>, 0)
  BY <1>3, NoHandlerTyped DEF HandlersBegin
<1>5. UNCHANGED <<frames, phase>>
  BY <1>1 DEF vars, callVars
<1>6. HandlerOK'
  <2>1. handler'.depth = n /\ handler'.kill = << >> /\ handler'.respawn = << >>
    BY <1>4 DEF HandlerIs
  <2>2. ~frames[n].told /\ frames[n].links = {} /\ frames[n].cascade = << >>
    BY <1>1, <1>3 DEF AtHandlers, Notified, Top
  <2>3. n \in 1..Len(frames) /\ n # 0
    BY <1>3
  <2> QED BY <1>2, <1>5, <2>1, <2>2, <2>3 DEF HandlerOK, Busy
<1>7. NestedDescend'
  <2>1. \A i : i \notin (n + 1)..Len(frames)
    BY <1>3
  <2> QED BY <1>4, <1>5, <2>1 DEF NestedDescend, HandlerIs
<1> QED BY <1>1, <1>6, <1>7, CallsUnmoved DEF CallsInv

\* The next supervisor is asked.
LEMMA CallsNextSup ==
    ASSUME SchedulerOK, SupTypeOK, CallsInv, InHandler, handler' = NextSup,
           UNCHANGED vars, supervised' = supervised
    PROVE  CallsInv'
<1>1. handler.depth # 0
  BY InHandlerFacts DEF InHandler, CallsInv
<1>2. HandlerIs(handler', handler.depth, handler.sup + 1, << >>, << >>, handler.at)
  BY NextSupTyped DEF InHandler
<1>3. handler'.depth = handler.depth /\ ~Busy'
  BY <1>2 DEF HandlerIs, Busy
<1>4. NestedDescend' /\ HandlerOK'
  BY <1>1, <1>3, DepthKept DEF CallsInv, HandlerOK
<1> QED BY <1>4, CallsUnmoved DEF CallsInv

LEMMA CallsRestart ==
    ASSUME SchedulerOK, SupTypeOK, CallsInv, ListsInv, NEW n, Restart(n)
    PROVE  CallsInv'
<1>1. UNCHANGED <<vars, supervised, spec>> /\ InHandler /\ Here <= NumSup
  BY DEF Restart, RestartCounted, InHandler, Here
<1>2. handler.depth # 0 /\ Top = frames[handler.depth]
  BY <1>1, InHandlerFacts DEF InHandler, CallsInv
<1>3. PICK i, a, b \in Nat : /\ Restarted(i, a, b)
                             /\ handler'.depth = handler.depth /\ handler'.sup = handler.sup
  BY RestartEffect
<1>4. i \in 1..Len(children[Here]) /\ children[Here][i].pid = Top.pid
  BY <1>3 DEF Restarted
<1>5. Here \in Sup /\ children[Here] \in Seq(Entry)
  BY <1>1, HereTyped
<1>6. ListOK(Here)
  BY <1>5 DEF ListsInv
<1>7. Top.pid \in supervised
  BY <1>4, <1>6 DEF ListOK
<1>8. spec[Here] # Unstarted
  <2>1. children[Here] # << >>
    BY <1>4
  <2> QED BY <1>6, <2>1 DEF ListOK
<1>9. /\ NestedDescend'
      /\ handler'.depth # 0 /\ phase' = "exit" /\ handler'.depth \in 1..Len(frames')
      /\ ~frames'[handler'.depth].told /\ frames'[handler'.depth].links = {}
      /\ frames'[handler'.depth].cascade = << >> /\ frames' = frames
  BY <1>1, <1>2, <1>3, DepthKept DEF CallsInv
<1>10. Here' = Here /\ spec'[Here'] # Unstarted /\ Here' <= NumSup /\ frames'[handler'.depth].pid \in supervised'
  BY <1>1, <1>2, <1>3, <1>7, <1>8, <1>9 DEF Here
<1>11. HandlerOK'
  BY <1>9, <1>10 DEF HandlerOK
<1> QED BY <1>1, <1>9, <1>11, CallsUnmoved DEF CallsInv

\* While a handler is at work, everyone being terminated was there.
LEMMA DeadKnown ==
    ASSUME SchedulerOK, SupTypeOK, CallsInv, Busy, Len(frames) = handler.depth
    PROVE  \A i \in 1..Len(frames) : frames[i].pid < nextPid
<1>1. handler.depth # 0 /\ frames[handler.depth].pid \in supervised /\ handler.depth \in 1..Len(frames)
  BY DEF CallsInv, HandlerOK
<1>2. frames[handler.depth].pid < nextPid
  BY <1>1 DEF CallsInv, SupervisedAreRoots
<1>3. ASSUME NEW i \in 1..Len(frames) PROVE frames[i].pid < nextPid
  <2>1. CASE Len(frames) = 1
    <3>1. i = handler.depth
      BY <2>1
    <3> QED BY <1>2, <3>1
  <2>2. CASE Len(frames) # 1
    BY <2>2 DEF CallsInv, CallsKnown
  <2> QED BY <2>1, <2>2
<1> QED BY <1>3

LEMMA KillPushed ==
    ASSUME SchedulerOK, SupTypeOK, CallsInv, ListsInv, KillSibling
    PROVE  \E p \in Pid :
              /\ p = Head(handler.kill) /\ Pushed(p) /\ p \in supervised /\ \A s \in Sup : ~IsChild(s, p)
              /\ handler'.kill = Tail(handler.kill) /\ handler' \in HandlerType
              /\ handler'.depth = handler.depth /\ handler'.sup = handler.sup
              /\ handler'.respawn = handler.respawn /\ handler'.at = handler.at
<1>1. handler.kill \in Seq(Pid) /\ handler.kill # << >>
  BY SupTyped DEF KillSibling
<1>2. PICK p \in Pid : p = Head(handler.kill) /\ p = handler.kill[1] /\ 1 \in 1..Len(handler.kill)
  BY <1>1
<1>3. p \in supervised /\ \A s \in Sup : ~IsChild(s, p)
  BY <1>2 DEF ListsInv, KillOK
<1>4. Pushed(p)
  <2>1. TypeOK /\ frames \in Seq(Frame) /\ "Shutdown" \in Reason
    BY FramesTyped DEF SchedulerOK, Reason
  <2>2. Remove(frames, p, "Shutdown")
    BY <1>2 DEF KillSibling
  <2>3. \A i \in 1..Len(frames) : Shrinks(frames[i], frames[i]) /\ frames[i].told = frames[i].told
    BY ShrinksSame
  <2> QED BY <2>1, <2>2, <2>3, RemovePushed
<1>5. Tail(handler.kill) \in Seq(Pid) /\ handler \in HandlerType
  BY <1>1 DEF SupTypeOK, HandlerType
<1>6. /\ handler'.kill = Tail(handler.kill) /\ handler' \in HandlerType
      /\ handler'.depth = handler.depth /\ handler'.sup = handler.sup
      /\ handler'.respawn = handler.respawn /\ handler'.at = handler.at
  BY <1>5 DEF KillSibling, HandlerType
<1> QED BY <1>2, <1>3, <1>4, <1>6

LEMMA CallsKill ==
    ASSUME SchedulerOK, SupTypeOK, CallsInv, ListsInv, KillSibling
    PROVE  CallsInv'
<1>1. PICK p \in Pid : /\ Pushed(p) /\ p \in supervised
                       /\ handler'.depth = handler.depth /\ handler'.sup = handler.sup
                       /\ handler'.respawn = handler.respawn
  BY KillPushed
<1>2. Busy /\ Len(frames) = handler.depth /\ handler.depth \in Nat /\ UNCHANGED <<supervised, spec>>
  BY SupTyped DEF KillSibling, Busy
<1>3. handler.depth # 0 /\ Here <= NumSup /\ spec[Here] # Unstarted /\ frames[handler.depth].pid \in supervised
  BY <1>2 DEF CallsInv, HandlerOK
<1>4. p < nextPid /\ \A q \in Pid : q \in links[p] => p < q
  BY <1>1 DEF CallsInv, SupervisedAreRoots
<1>5. CallsKnown'
  BY <1>1, <1>2, <1>4, DeadKnown, KnownPushed DEF CallsInv
<1>6. NestedDescend'
  BY <1>1, <1>2, <1>4, DescendPushed DEF CallsInv
<1>7. SupervisedAreRoots'
  <2>1. supervised \subseteq Pid
    BY SupTyped
  <2> QED BY <1>1, <1>2, <2>1, RootsPushed DEF CallsInv
<1>8. HandlerOK'
  <2>1. BottomKept
    BY <1>1, BottomPushed DEF CallsInv
  <2>2. /\ phase' = "exit" /\ handler'.depth \in 1..Len(frames')
        /\ frames'[handler'.depth].pid = frames[handler.depth].pid
        /\ ~frames'[handler'.depth].told /\ frames'[handler'.depth].links = {}
        /\ frames'[handler'.depth].cascade = << >>
    BY <1>1, <1>3, <2>1 DEF BottomKept, AtRest
  <2>3. Here' = Here
    BY <1>1 DEF Here
  <2> QED BY <1>1, <1>2, <1>3, <2>2, <2>3 DEF HandlerOK
<1> QED BY <1>5, <1>6, <1>7, <1>8 DEF CallsInv

\* What is left to respawn after one child.
LEMMA AfterRespawnFacts ==
    ASSUME SupTypeOK, HandlerOK, RespawnChild \/ RespawnRefused
    PROVE  /\ handler.respawn # << >> /\ handler.kill = << >> /\ handler' = AfterRespawn
           /\ Here <= NumSup /\ handler.depth # 0 /\ spec[Here] # Unstarted
           /\ handler'.kill = << >> /\ handler'.depth = handler.depth
           /\ IF Tail(handler.respawn) = << >>
              THEN Here' = Here + 1 /\ handler'.respawn = << >> /\ handler'.at = 0
              ELSE Here' = Here /\ handler'.respawn = Tail(handler.respawn) /\ handler'.at = handler.at
<1>1. handler.respawn # << >> /\ handler.kill = << >> /\ handler' = AfterRespawn
  BY DEF RespawnChild, RespawnRefused, ToRespawn
<1>2. Here <= NumSup /\ handler.depth # 0 /\ spec[Here] # Unstarted
  BY <1>1 DEF HandlerOK, Busy
<1>3. handler.sup <= NumSup
  BY <1>2 DEF Here
<1>4. CASE Tail(handler.respawn) = << >>
  <2>1. HandlerIs(handler', handler.depth, handler.sup + 1, handler.kill, << >>, 0)
    BY <1>1, <1>3, <1>4, AfterRespawnTyped
  <2> QED BY <1>1, <1>2, <1>4, <2>1 DEF HandlerIs, Here
<1>5. CASE Tail(handler.respawn) # << >>
  <2>1. HandlerIs(handler', handler.depth, handler.sup, handler.kill, Tail(handler.respawn), handler.at)
    BY <1>1, <1>3, <1>5, AfterRespawnTyped
  <2> QED BY <1>1, <1>2, <1>5, <2>1 DEF HandlerIs, Here
<1> QED BY <1>4, <1>5

LEMMA CallsRespawn ==
    ASSUME SchedulerOK, SupTypeOK, CallsInv, RespawnChild \/ RespawnRefused
    PROVE  CallsInv'
<1>1. /\ handler.respawn # << >> /\ handler' = AfterRespawn
      /\ Here <= NumSup /\ handler.depth # 0 /\ spec[Here] # Unstarted
      /\ handler'.kill = << >> /\ handler'.depth = handler.depth
      /\ handler'.respawn # << >> => Here' = Here
  BY AfterRespawnFacts DEF CallsInv
<1>2. Busy /\ Len(frames) = handler.depth
  BY <1>1 DEF Busy, RespawnChild, RespawnRefused, ToRespawn
<1>3. UNCHANGED <<frames, phase, links, spec>>
  BY DEF RespawnChild, RespawnRefused, callVars
<1>4. /\ nextPid \in Pid /\ nextPid' = nextPid + 1 /\ nextPid \in Nat
      /\ Live' = IF RespawnChild THEN Live \union {nextPid} ELSE Live
  BY RespawnKept, PidNat
<1>5. Births
  <2>1. nextPid' \in Nat /\ nextPid <= nextPid' /\ nextPid < nextPid'
    BY <1>4
  <2> QED BY <1>4, <2>1 DEF Births
<1>6. CallsKnown'
  BY <1>2, <1>3, <1>5, DeadKnown, KnownStill DEF CallsInv
<1>7. supervised \subseteq supervised' /\ supervised' \subseteq supervised \union {nextPid}
  BY DEF RespawnChild, RespawnRefused
<1>8. SupervisedAreRoots'
  <2>1. LinksGrow
    BY <1>3 DEF LinksGrow
  <2>2. \A p \in supervised' : p \in supervised \/ (nextPid <= p /\ p < nextPid' /\ links' = links)
    BY <1>3, <1>4, <1>7
  <2>3. supervised \subseteq Pid /\ supervised' \subseteq Pid
    BY <1>4, <1>7, SupTyped
  <2> QED BY <1>5, <2>1, <2>2, <2>3, RootsStill DEF CallsInv, Births
<1>9. HandlerOK'
  BY <1>1, <1>2, <1>3, <1>7 DEF CallsInv, HandlerOK, Busy
<1>10. NestedDescend'
  <2>1. Len(frames) \in Nat
    BY FramesTyped DEF SchedulerOK
  <2>2. \A i : i \notin (handler.depth + 1)..Len(frames)
    BY <1>2, <2>1
  <2> QED BY <1>1, <1>3, <2>2 DEF NestedDescend
<1> QED BY <1>6, <1>8, <1>9, <1>10 DEF CallsInv

\* The exit handlers have run, or found their list taken.
LEMMA CallsTold ==
    ASSUME SchedulerOK, SupTypeOK, CallsInv, NestedExit \/ HandlersEnd
    PROVE  CallsInv'
<1>1. Moved /\ supervised' = supervised /\ spec' = spec
  BY ToldMoved DEF NestedExit, HandlersEnd, SchedulerOK, supVars
<1>2. CallsKnown'
  BY <1>1, KnownMoved DEF CallsInv
<1>3. SupervisedAreRoots'
  BY <1>1 DEF CallsInv, SupervisedAreRoots, Moved, Same
<1>4. CASE NestedExit
  <2>1. UNCHANGED supVars /\ handler' = handler /\ Len(frames) > handler.depth
    BY <1>4 DEF NestedExit, supVars
  <2>2. HandlerOK'
    BY <1>1, <2>1, BottomMoved, HandlerKept DEF CallsInv
  <2>3. NestedDescend'
    BY <1>1, <2>1, SupTyped, DescendMoved DEF CallsInv
  <2> QED BY <1>2, <1>3, <2>2, <2>3 DEF CallsInv
<1>5. CASE HandlersEnd
  <2>1. handler' = NoHandler
    BY <1>5 DEF HandlersEnd
  <2>2. HandlerOK' /\ NestedDescend'
    BY <2>1 DEF HandlerOK, NestedDescend, Busy, NoHandler
  <2> QED BY <1>2, <1>3, <2>2 DEF CallsInv
<1> QED BY <1>4, <1>5

\* The first children are spawned.
LEMMA FirstBirths ==
    ASSUME SchedulerOK, NEW n \in Nat, NEW used \in Nat, n <= used, SpawnFirst(n, used)
    PROVE  /\ Births /\ UNCHANGED <<frames, links, phase, handler, gaveUp, refused>>
           /\ phase = "idle" /\ frames = << >>
<1>1. /\ Live' = Live \union (nextPid..((nextPid + n) - 1))
      /\ nextPid' = nextPid + used /\ nextPid \in Nat
  BY FirstBorn DEF SchedulerOK
<1>2. phase = "idle" /\ UNCHANGED <<frames, links, phase, handler, gaveUp, refused>>
  BY DEF SpawnFirst, callVars
<1>3. frames = << >>
  BY <1>2 DEF SchedulerOK, MonitorInv, StackOK
<1>4. nextPid' \in Nat /\ nextPid <= nextPid' /\ \A p \in nextPid..((nextPid + n) - 1) : nextPid <= p /\ p < nextPid'
  BY <1>1
<1>5. Births
  BY <1>1, <1>4 DEF Births
<1> QED BY <1>2, <1>3, <1>5

LEMMA CallsStart ==
    ASSUME SchedulerOK, SupTypeOK, CallsInv, Births, UNCHANGED <<frames, links, phase, handler>>,
           phase = "idle", frames = << >>, supervised' \subseteq Pid,
           \A p \in supervised' : p \in supervised \/ (nextPid <= p /\ p < nextPid')
    PROVE  CallsInv'
<1>1. \A i : i \notin 1..Len(frames)
  OBVIOUS
<1>2. CallsKnown'
  BY <1>1, KnownStill DEF CallsInv
<1>3. handler.depth = 0 /\ handler = NoHandler
  BY DEF CallsInv, HandlerOK
<1>4. ~Busy /\ NoHandler.depth = 0
  BY <1>3 DEF Busy, NoHandler
<1>5. HandlerOK' /\ NestedDescend'
  BY <1>3, <1>4 DEF HandlerOK, NestedDescend, Busy
<1>6. SupervisedAreRoots'
  <2>1. LinksGrow
    BY DEF LinksGrow
  <2> QED BY <2>1, SupTyped, RootsStill DEF CallsInv, Births
<1> QED BY <1>2, <1>5, <1>6 DEF CallsInv

LEMMA CallsStep ==
    ASSUME SchedulerOK, SupTypeOK, CallsInv, ListsInv, SupNext
    PROVE  CallsInv'
<1>1. ASSUME NEW s \in Sup, NEW sp \in Specs, StartSupervisor(s, sp) PROVE CallsInv'
  <2>1. Started(s, sp)
    BY <1>1, StartEffect DEF SchedulerOK
  <2>2. \A p \in supervised' : p \in supervised \/ (nextPid <= p /\ p < nextPid')
    BY <2>1 DEF Started
  <2>3. PICK n \in Nat : SpawnFirst(n, n)
    <3>1. sp.restarts \in Seq({"Permanent", "Transient", "Temporary"})
      BY SupervisionAssumption
    <3>2. Len(sp.restarts) \in Nat
      BY <3>1
    <3> QED BY <1>1, <3>2 DEF StartSupervisor
  <2>4. /\ Births /\ UNCHANGED <<frames, links, phase, handler>> /\ phase = "idle" /\ frames = << >>
    BY <2>3, FirstBirths
  <2> QED BY <2>1, <2>2, <2>4, CallsStart DEF Started
<1>2. ASSUME NEW s \in Sup, NEW sp \in Specs, NEW n \in 1..Len(sp.restarts), StartFails(s, sp, n)
      PROVE  CallsInv'
  <2>1. n \in Nat /\ n - 1 \in Nat /\ n - 1 <= n
    OBVIOUS
  <2>2. SpawnFirst(n - 1, n) /\ supervised' = supervised
    BY <1>2 DEF StartFails
  <2>3. /\ Births /\ UNCHANGED <<frames, links, phase, handler>> /\ phase = "idle" /\ frames = << >>
    BY <2>1, <2>2, FirstBirths
  <2> QED BY <2>2, <2>3, SupTyped, CallsStart
<1>3. CASE SchedulerStep /\ UNCHANGED supVars
  BY <1>3, CallsScheduler
<1>4. CASE HandlersBegin
  BY <1>4, CallsHandlersBegin
<1>5. CASE IgnoreExit
  BY <1>5, CallsNextSup DEF IgnoreExit
<1>6. CASE ForgetChild
  BY <1>6, CallsNextSup DEF ForgetChild
<1>7. ASSUME NEW n, GiveUp(n) PROVE CallsInv'
  BY <1>7, CallsNextSup DEF GiveUp, RestartCounted
<1>8. ASSUME NEW n, Restart(n) PROVE CallsInv'
  BY <1>8, CallsRestart
<1>9. CASE KillSibling
  BY <1>9, CallsKill
<1>10. CASE RespawnChild \/ RespawnRefused
  BY <1>10, CallsRespawn
<1>11. CASE NestedExit \/ HandlersEnd
  BY <1>11, CallsTold
<1> QED BY <1>1, <1>2, <1>3, <1>4, <1>5, <1>6, <1>7, <1>8, <1>9, <1>10, <1>11
    DEF SupNext, HandlerStep, SchedulerStep

-----------------------------------------------------------------------------
(* The lists.                                                              *)

\* u has nothing c has not, in the same order.
Within(u, c) ==
    /\ \A j \in 1..Len(u) : \E i \in 1..Len(c) : u[j] = c[i]
    /\ \A j, k \in 1..Len(u) : j < k => \E i, l \in 1..Len(c) : i < l /\ u[j] = c[i] /\ u[k] = c[l]

ListsShrink == \A t \in Sup : children'[t] \in Seq(Entry) /\ Within(children'[t], children[t])

ListsAre == (\A s \in Sup : ListOK(s)) /\ ListsApart

LEMMA LeftWithin ==
    ASSUME SupTypeOK, NEW s \in Sup, ListBecomes(s, children'[s]), NEW a, NEW b,
           LeavesOut(children'[s], children[s], a, b)
    PROVE  ListsShrink
<1>1. ASSUME NEW t \in Sup PROVE children'[t] \in Seq(Entry) /\ Within(children'[t], children[t])
  <2>1. children'[t] \in Seq(Entry)
    BY DEF ListBecomes
  <2>2. CASE t = s
    BY <2>1, <2>2 DEF LeavesOut, Apart, Within
  <2>3. CASE t # s
    <3>1. children'[t] = children[t]
      BY <2>3 DEF ListBecomes
    <3> QED BY <2>1, <3>1 DEF Within
  <2> QED BY <2>2, <2>3
<1> QED BY <1>1 DEF ListsShrink

LEMMA ListsFewer ==
    ASSUME SupTypeOK, ListsAre, ListsShrink, UNCHANGED <<spec, supervised>>
    PROVE  ListsAre' /\ \A s \in Sup : \A p : IsChild(s, p)' => IsChild(s, p)
<1>1. ASSUME NEW s \in Sup PROVE ListOK(s)'
  <2>1. PICK c \in Seq(Entry) : c = children[s]
    BY SupTyped
  <2>2. PICK u \in Seq(Entry) : u = children'[s] /\ Within(u, c)
    BY <2>1 DEF ListsShrink
  <2>3. ListOK(s)
    BY DEF ListsAre
  <2>4. \A i \in 1..Len(c) : c[i].id \in 1..Len(spec[s].restarts) /\ c[i].pid \in supervised
    BY <2>1, <2>3 DEF ListOK
  <2>5. \A i, j \in 1..Len(c) : i < j => c[i].id < c[j].id
    BY <2>1, <2>3 DEF ListOK
  <2>6. \A i \in 1..Len(u) : u[i].id \in 1..Len(spec[s].restarts) /\ u[i].pid \in supervised
    BY <2>2, <2>4 DEF Within
  <2>7. \A i, j \in 1..Len(u) : i < j => u[i].id < u[j].id
    <3>1. ASSUME NEW i \in 1..Len(u), NEW j \in 1..Len(u), i < j PROVE u[i].id < u[j].id
      <4>1. PICK m, l \in 1..Len(c) : m < l /\ u[i] = c[m] /\ u[j] = c[l]
        BY <2>2, <3>1 DEF Within
      <4>2. c[m].id < c[l].id
        BY <2>5, <4>1
      <4> QED BY <4>1, <4>2
    <3> QED BY <3>1
  <2>8. spec[s] = Unstarted => u = << >>
    <3>1. ASSUME spec[s] = Unstarted PROVE u = << >>
      <4>1. c = << >>
        BY <2>1, <2>3, <3>1 DEF ListOK
      <4>2. \A i : i \notin 1..Len(c)
        BY <4>1
      <4>3. \A j : j \notin 1..Len(u)
        BY <2>2, <4>2 DEF Within
      <4>4. Len(u) \in Nat
        BY <2>2
      <4>5. Len(u) = 0
        BY <4>3, <4>4
      <4> QED BY <4>5, EmptySeq
    <3> QED BY <3>1
  <2> QED BY <2>2, <2>6, <2>7, <2>8 DEF ListOK
<1>2. ASSUME NEW s \in Sup, NEW p, IsChild(s, p)' PROVE IsChild(s, p)
  <2>1. PICK j \in 1..Len(children'[s]) : children'[s][j].pid = p
    BY <1>2 DEF IsChild
  <2>2. PICK i \in 1..Len(children[s]) : children'[s][j] = children[s][i]
    BY <2>1 DEF ListsShrink, Within
  <2> QED BY <2>1, <2>2 DEF IsChild
<1>3. ASSUME NEW s \in Sup, NEW t \in Sup, NEW i \in 1..Len(children'[s]), NEW j \in 1..Len(children'[t]),
             children'[s][i].pid = children'[t][j].pid
      PROVE  s = t /\ i = j
  <2>1. PICK k \in 1..Len(children[s]) : children'[s][i] = children[s][k]
    BY DEF ListsShrink, Within
  <2>2. PICK l \in 1..Len(children[t]) : children'[t][j] = children[t][l]
    BY DEF ListsShrink, Within
  <2>3. s = t
    BY <1>3, <2>1, <2>2 DEF ListsAre, ListsApart
  <2>4. PICK u \in Seq(Entry) : u = children'[s]
    BY DEF ListsShrink
  <2>5. i \in 1..Len(u) /\ j \in 1..Len(u) /\ u[i].pid = u[j].pid /\ Within(u, children[s])
    BY <1>3, <2>3, <2>4 DEF ListsShrink
  <2>6. \A x, y \in 1..Len(u) : x < y => u[x].pid # u[y].pid
    <3>1. ASSUME NEW x \in 1..Len(u), NEW y \in 1..Len(u), x < y PROVE u[x].pid # u[y].pid
      <4>1. PICK m, n \in 1..Len(children[s]) : m < n /\ u[x] = children[s][m] /\ u[y] = children[s][n]
        BY <2>5, <3>1 DEF Within
      <4>2. m # n
        BY <4>1
      <4> QED BY <4>1, <4>2 DEF ListsAre, ListsApart
    <3> QED BY <3>1
  <2>7. ~(i < j) /\ ~(j < i)
    BY <2>5, <2>6
  <2>8. i \in Int /\ j \in Int
    OBVIOUS
  <2> QED BY <2>3, <2>7, <2>8
<1>4. ListsApart'
  BY <1>3 DEF ListsApart
<1> QED BY <1>1, <1>2, <1>4 DEF ListsAre

\* Nothing happens to the lists.
LEMMA ListsSame ==
    ASSUME ListsAre, children' = children, spec' = spec, supervised \subseteq supervised'
    PROVE  ListsAre' /\ \A s, p : IsChild(s, p)' <=> IsChild(s, p)
<1>1. \A s, p : IsChild(s, p)' <=> IsChild(s, p)
  BY DEF IsChild
<1>2. \A s \in Sup : ListOK(s)'
  BY DEF ListsAre, ListOK
<1>3. ListsApart'
  BY DEF ListsAre, ListsApart
<1> QED BY <1>1, <1>2, <1>3 DEF ListsAre

\* There is nobody to terminate and nobody to respawn.
LEMMA NothingToDo ==
    ASSUME ListsAre', handler'.kill = << >>, handler'.respawn = << >>
    PROVE  ListsInv'
<1>1. \A k : k \notin 1..Len(handler'.kill)
  OBVIOUS
<1>2. KillOK' /\ RespawnOK'
  BY <1>1 DEF KillOK, RespawnOK
<1> QED BY <1>2 DEF ListsInv, ListsAre

LEMMA ListsUnmoved ==
    ASSUME ListsInv, UNCHANGED <<children, spec, supervised, handler>>
    PROVE  ListsInv'
<1>1. ListsAre' /\ \A s, p : IsChild(s, p)' <=> IsChild(s, p)
  BY ListsSame DEF ListsInv, ListsAre
<1>2. KillOK'
  BY <1>1 DEF ListsInv, KillOK
<1>3. RespawnOK'
  BY DEF ListsInv, RespawnOK, Here
<1> QED BY <1>1, <1>2, <1>3 DEF ListsInv, ListsAre

LEMMA ListsForget ==
    ASSUME SupTypeOK, ListsInv, ForgetChild
    PROVE  ListsInv'
<1>1. PICK i \in Nat : Forgotten(i)
  BY ForgetEffect
<1>2. UNCHANGED <<spec, supervised>> /\ Here <= NumSup
  BY DEF ForgetChild, InHandler, Here
<1>3. ListsShrink
  BY <1>1, <1>2, HereTyped, LeftWithin DEF Forgotten
<1>4. ListsAre'
  BY <1>2, <1>3, ListsFewer DEF ListsInv, ListsAre
<1>5. handler'.kill = << >> /\ handler'.respawn = << >>
  <2>1. HandlerIs(handler', handler.depth, handler.sup + 1, << >>, << >>, handler.at)
    BY NextSupTyped DEF ForgetChild, InHandler
  <2> QED BY <2>1 DEF HandlerIs
<1> QED BY <1>4, <1>5, NothingToDo

\* Who is to be respawned stands behind those who stay, or where the dead one
\* stood.
LEMMA ListsRestart ==
    ASSUME SupTypeOK, ListsInv, NEW n, Restart(n)
    PROVE  ListsInv'
<1>1. PICK i, a, b \in Nat : /\ Restarted(i, a, b)
                             /\ Listed(handler'.kill, children[Here], a, b)
                             /\ Renewed(handler'.respawn, children[Here], a, b)
                             /\ handler' \in HandlerType
                             /\ handler'.depth = handler.depth /\ handler'.sup = handler.sup
  BY RestartEffect
<1>2. UNCHANGED <<spec, supervised>> /\ Here <= NumSup /\ Here' = Here
  BY <1>1 DEF Restart, RestartCounted, InHandler, Here
<1>3. Here \in Sup
  BY <1>2, HereTyped
<1>4. ListsShrink
  BY <1>1, <1>3, LeftWithin DEF Restarted
<1>5. ListsAre' /\ \A s \in Sup : \A p : IsChild(s, p)' => IsChild(s, p)
  BY <1>2, <1>4, ListsFewer DEF ListsInv, ListsAre
<1>6. PICK c \in Seq(Entry) : c = children[Here]
  BY <1>2, HereTyped
<1>7. PICK u \in Seq(Entry) : u = children'[Here]
  BY <1>3, <1>4 DEF ListsShrink
<1>8. LeavesOut(u, c, a, b) /\ i \in 1..Len(c) /\ a \in 1..i /\ b \in i..Len(c)
  BY <1>1, <1>6, <1>7 DEF Restarted
<1>9. \A j \in 1..Len(u) : \E m \in 1..Len(c) : u[j] = c[m] /\ ((m < a /\ j < a /\ m = j) \/ (b < m /\ a <= j))
  BY <1>8 DEF LeavesOut, Apart
<1>10. ListOK(Here) /\ ListsApart
  BY <1>3 DEF ListsInv
<1>11. /\ \A m \in 1..Len(c) : c[m].id \in 1..Len(spec[Here].restarts) /\ c[m].pid \in supervised
       /\ \A m, l \in 1..Len(c) : m < l => c[m].id < c[l].id
  BY <1>6, <1>10 DEF ListOK
<1>12. \A m, l \in 1..Len(c) : c[m].pid = c[l].pid => m = l
  BY <1>3, <1>6, <1>10 DEF ListsApart
<1>13. \A j \in a..b : j \in 1..Len(c)
  BY <1>8
<1>14. KillOK'
  <2>1. ASSUME NEW k \in 1..Len(handler'.kill)
        PROVE  /\ handler'.kill[k] \in supervised'
               /\ \A s \in Sup : \A m \in 1..Len(children'[s]) : children'[s][m].pid # handler'.kill[k]
    <3>1. PICK j \in a..b : c[j].pid = handler'.kill[k]
      BY <1>1, <1>6 DEF Listed
    <3>2. c[j].pid \in supervised
      BY <1>11, <1>13
    <3>3. ASSUME NEW s \in Sup, NEW x \in 1..Len(children'[s]), children'[s][x].pid = c[j].pid PROVE FALSE
      <4>1. PICK m \in 1..Len(children[s]) : children[s][m].pid = c[j].pid
        <5>1. Within(children'[s], children[s])
          BY <1>4 DEF ListsShrink
        <5>2. PICK m \in 1..Len(children[s]) : children'[s][x] = children[s][m]
          BY <5>1 DEF Within
        <5> QED BY <3>3, <5>2
      <4>2. s = Here
        BY <1>3, <1>6, <1>10, <1>13, <4>1 DEF ListsApart
      <4>3. x \in 1..Len(u) /\ u[x].pid = c[j].pid
        BY <1>7, <3>3, <4>2
      <4>4. PICK l \in 1..Len(c) : u[x] = c[l] /\ (l < a \/ b < l)
        BY <1>9, <4>3
      <4>5. l = j
        BY <1>12, <1>13, <4>3, <4>4
      <4> QED BY <4>4, <4>5
    <3> QED BY <1>2, <3>1, <3>2, <3>3
  <2> QED BY <2>1 DEF KillOK, IsChild
<1>15. PICK ids \in Seq(Nat) : ids = handler'.respawn
  BY <1>1 DEF HandlerType
<1>16. /\ Len(ids) = (b - a) + 1
       /\ \A k \in 1..Len(ids) : ids[k] = c[(a + k) - 1].id /\ (a + k) - 1 \in a..b
  BY <1>1, <1>6, <1>15 DEF Renewed
<1>17. \A k \in 1..Len(ids) : ids[k] \in 1..Len(spec[Here].restarts)
  BY <1>11, <1>13, <1>16
<1>18. ASSUME NEW k \in 1..Len(ids), NEW l \in 1..Len(ids), k < l PROVE ids[k] < ids[l]
  <2>1. (a + k) - 1 < (a + l) - 1
    BY <1>18
  <2>2. (a + k) - 1 \in 1..Len(c) /\ (a + l) - 1 \in 1..Len(c)
    BY <1>13, <1>16
  <2>3. c[(a + k) - 1].id < c[(a + l) - 1].id
    BY <1>11, <2>1, <2>2
  <2> QED BY <1>16, <2>3
<1>19. ASSUME handler'.at = 0, NEW j \in 1..Len(u), NEW k \in 1..Len(ids) PROVE u[j].id < ids[k]
  <2>1. b = Len(c)
    BY <1>1, <1>6, <1>19 DEF Restarted
  <2>2. PICK m \in 1..Len(c) : u[j] = c[m] /\ m < a
    BY <1>9, <2>1
  <2>3. PICK l \in a..b : l = (a + k) - 1 /\ ids[k] = c[l].id
    BY <1>16
  <2>4. l \in 1..Len(c) /\ m < l
    BY <1>13, <2>2, <2>3
  <2>5. c[m].id < c[l].id
    BY <1>11, <2>4
  <2> QED BY <2>2, <2>3, <2>5
<1>20. ASSUME handler'.at # 0
       PROVE  /\ Len(ids) = 1 /\ handler'.at <= Len(u) + 1
              /\ \A j \in 1..Len(u) : IF j < handler'.at THEN u[j].id < ids[1] ELSE ids[1] < u[j].id
  <2>1. a = i /\ b = i /\ handler'.at = i
    BY <1>1, <1>20 DEF Restarted
  <2>2. Len(ids) = 1
    BY <1>16, <2>1
  <2>3. ids[1] = c[i].id
    <3>1. 1 \in 1..Len(ids) /\ (a + 1) - 1 = i
      BY <2>1, <2>2
    <3> QED BY <1>16, <3>1
  <2>4. Len(u) >= a - 1 /\ Len(u) \in Nat
    BY <1>7, <1>8 DEF LeavesOut, Apart
  <2>5. i <= Len(u) + 1
    BY <2>1, <2>4
  <2>6. ASSUME NEW j \in 1..Len(u) PROVE IF j < i THEN u[j].id < c[i].id ELSE c[i].id < u[j].id
    <3>1. PICK m \in 1..Len(c) : u[j] = c[m] /\ ((m < i /\ j < i /\ m = j) \/ (i < m /\ i <= j))
      BY <1>9, <2>1
    <3>2. CASE m < i /\ j < i
      BY <1>8, <1>11, <3>1, <3>2
    <3>3. CASE i < m /\ i <= j
      <4>1. c[i].id < c[m].id /\ ~(j < i)
        BY <1>8, <1>11, <3>3
      <4> QED BY <3>1, <4>1
    <3> QED BY <3>1, <3>2, <3>3
  <2> QED BY <2>1, <2>2, <2>3, <2>5, <2>6
<1>21. RespawnOK'
  BY <1>2, <1>7, <1>15, <1>17, <1>18, <1>19, <1>20 DEF RespawnOK
<1> QED BY <1>5, <1>14, <1>21 DEF ListsInv, ListsAre

LEMMA ListsKill ==
    ASSUME SchedulerOK, SupTypeOK, CallsInv, ListsInv, KillSibling
    PROVE  ListsInv'
<1>1. /\ handler'.kill = Tail(handler.kill) /\ handler'.sup = handler.sup
      /\ handler'.respawn = handler.respawn /\ handler'.at = handler.at
  BY KillPushed
<1>2. UNCHANGED <<children, spec, supervised>>
  BY DEF KillSibling
<1>3. ListsAre' /\ \A s, p : IsChild(s, p)' <=> IsChild(s, p)
  BY <1>2, ListsSame DEF ListsInv, ListsAre
<1>4. PICK ks \in Seq(Pid) : ks = handler.kill /\ ks # << >>
  BY SupTyped DEF KillSibling
<1>5. Len(Tail(ks)) \in Nat /\ \A k \in 1..Len(Tail(ks)) : Tail(ks)[k] = ks[k + 1] /\ k + 1 \in 1..Len(ks)
  BY <1>4
<1>6. KillOK'
  <2>1. \A k \in 1..Len(ks) : ks[k] \in supervised /\ \A s \in Sup : ~IsChild(s, ks[k])
    BY <1>4 DEF ListsInv, KillOK
  <2>2. \A k \in 1..Len(Tail(ks)) : Tail(ks)[k] \in supervised /\ \A s \in Sup : ~IsChild(s, Tail(ks)[k])
    BY <1>5, <2>1
  <2> QED BY <1>1, <1>2, <1>4, <2>2 DEF KillOK, IsChild
<1>7. RespawnOK'
  BY <1>1, <1>2 DEF ListsInv, RespawnOK, Here
<1> QED BY <1>3, <1>6, <1>7 DEF ListsInv, ListsAre

\* u is c with e behind position k.
Grown(u, c, k, e) ==
    /\ \A j \in 1..Len(u) :
          \/ j <= k /\ j \in 1..Len(c) /\ u[j] = c[j]
          \/ j = k + 1 /\ u[j] = e
          \/ k + 1 < j /\ \E i \in 1..Len(c) : j = i + 1 /\ k < i /\ u[j] = c[i]
    /\ \A i \in 1..Len(c) : \E j \in 1..Len(u) : u[j] = c[i]
    /\ \E j \in 1..Len(u) : u[j] = e

LEMMA LongerGrown ==
    ASSUME NEW c, NEW u, NEW k \in Nat, NEW n \in Nat, n = Len(c), k <= n, NEW e, Longer(c, k, e, u)
    PROVE  Grown(u, c, k, e)
<1>1. Len(u) = n + 1
  BY DEF Longer
<1>2. \A j \in 1..(n + 1) : u[j] = IF j <= k THEN c[j] ELSE IF j = k + 1 THEN e ELSE c[j - 1]
  BY <1>1 DEF Longer
<1>3. ASSUME NEW j \in 1..(n + 1)
      PROVE  \/ j <= k /\ j \in 1..n /\ u[j] = c[j]
             \/ j = k + 1 /\ u[j] = e
             \/ k + 1 < j /\ \E i \in 1..n : j = i + 1 /\ k < i /\ u[j] = c[i]
  <2>1. CASE j <= k
    BY <1>2, <2>1
  <2>2. CASE j = k + 1
    BY <1>2, <2>2
  <2>3. CASE k + 1 < j
    <3>1. j - 1 \in 1..n /\ j = (j - 1) + 1 /\ k < j - 1
      BY <2>3
    <3>2. u[j] = c[j - 1]
      BY <1>2, <2>3
    <3> QED BY <2>3, <3>1, <3>2
  <2> QED BY <2>1, <2>2, <2>3
<1>4. ASSUME NEW i \in 1..n PROVE \E j \in 1..(n + 1) : u[j] = c[i]
  <2>1. CASE i <= k
    BY <1>2, <2>1
  <2>2. CASE k < i
    <3>1. PICK j \in 1..(n + 1) : j = i + 1 /\ j - 1 = i /\ ~(j <= k) /\ j # k + 1
      BY <2>2
    <3>2. u[j] = c[j - 1]
      BY <1>2, <3>1
    <3> QED BY <3>1, <3>2
  <2> QED BY <2>1, <2>2
<1>5. k + 1 \in 1..(n + 1) /\ u[k + 1] = e
  BY <1>2
<1> QED BY <1>1, <1>3, <1>4, <1>5 DEF Grown

\* The child that is back stands in its place.
LEMMA ListsGrown ==
    ASSUME SupTypeOK, ListsAre, SupervisedAreRoots, NEW s \in Sup, NEW k \in Nat, NEW e \in Entry,
           ListBecomes(s, children'[s]), Grown(children'[s], children[s], k, e),
           spec' = spec, supervised \subseteq supervised', e.pid \in supervised', e.pid = nextPid, nextPid \in Nat,
           e.id \in 1..Len(spec[s].restarts), spec[s] # Unstarted,
           \A i \in 1..Len(children[s]) : IF i <= k THEN children[s][i].id < e.id ELSE e.id < children[s][i].id
    PROVE  ListsAre'
<1>1. PICK c \in Seq(Entry) : c = children[s]
  BY SupTyped
<1>2. PICK u \in Seq(Entry) : u = children'[s]
  BY DEF ListBecomes
<1>3. \A j \in 1..Len(u) :
          \/ j <= k /\ j \in 1..Len(c) /\ u[j] = c[j]
          \/ j = k + 1 /\ u[j] = e
          \/ k + 1 < j /\ \E i \in 1..Len(c) : j = i + 1 /\ k < i /\ u[j] = c[i]
  BY <1>1, <1>2 DEF Grown
<1>4. ListOK(s)
  BY DEF ListsAre
<1>5. /\ \A i \in 1..Len(c) : c[i].id \in 1..Len(spec[s].restarts) /\ c[i].pid \in supervised
      /\ \A i, j \in 1..Len(c) : i < j => c[i].id < c[j].id
  BY <1>1, <1>4 DEF ListOK
<1>6. \A i \in 1..Len(c) : IF i <= k THEN c[i].id < e.id ELSE e.id < c[i].id
  BY <1>1
<1>7. \A i \in 1..Len(u) : u[i].id \in 1..Len(spec[s].restarts) /\ u[i].pid \in supervised'
  BY <1>3, <1>5
<1>8. ASSUME NEW i \in 1..Len(u), NEW j \in 1..Len(u), i < j PROVE u[i].id < u[j].id
  <2>1. CASE i <= k
    <3>1. i \in 1..Len(c) /\ u[i] = c[i]
      BY <1>3, <2>1
    <3>2. CASE j <= k
      BY <1>3, <1>5, <1>8, <3>1, <3>2
    <3>3. CASE j = k + 1
      BY <1>3, <1>6, <2>1, <3>1, <3>3
    <3>4. CASE k + 1 < j
      <4>1. PICK l \in 1..Len(c) : j = l + 1 /\ k < l /\ u[j] = c[l]
        BY <1>3, <3>4
      <4>2. i < l
        BY <2>1, <4>1
      <4> QED BY <1>5, <3>1, <4>1, <4>2
    <3> QED BY <3>2, <3>3, <3>4
  <2>2. CASE i = k + 1
    <3>1. k + 1 < j /\ u[i] = e
      BY <1>3, <1>8, <2>2
    <3>2. PICK l \in 1..Len(c) : j = l + 1 /\ k < l /\ u[j] = c[l]
      BY <1>3, <3>1
    <3>3. ~(l <= k)
      BY <3>2
    <3> QED BY <1>6, <3>1, <3>2, <3>3
  <2>3. CASE k + 1 < i
    <3>0. ~(i <= k) /\ i # k + 1
      BY <2>3
    <3>1. PICK m \in 1..Len(c) : i = m + 1 /\ k < m /\ u[i] = c[m]
      BY <1>3, <3>0
    <3>2. k + 1 < j
      BY <1>8, <2>3
    <3>3. PICK l \in 1..Len(c) : j = l + 1 /\ k < l /\ u[j] = c[l]
      BY <1>3, <3>2
    <3>4. m < l
      BY <1>8, <3>1, <3>3
    <3> QED BY <1>5, <3>1, <3>3, <3>4
  <2> QED BY <2>1, <2>2, <2>3
<1>9. ASSUME NEW t \in Sup PROVE ListOK(t)'
  <2>1. CASE t = s
    BY <1>2, <1>7, <1>8, <2>1 DEF ListOK
  <2>2. CASE t # s
    <3>1. children'[t] = children[t] /\ ListOK(t)
      BY <2>2 DEF ListBecomes, ListsAre
    <3> QED BY <3>1 DEF ListOK
  <2> QED BY <2>1, <2>2
<1>10. \A t \in Sup : \A i \in 1..Len(children[t]) : children[t][i].pid # e.pid
  <2>1. ASSUME NEW t \in Sup, NEW i \in 1..Len(children[t]) PROVE children[t][i].pid # e.pid
    <3>1. ListOK(t)
      BY DEF ListsAre
    <3>2. children[t][i].pid \in supervised
      BY <3>1 DEF ListOK
    <3>3. children[t][i].pid < nextPid
      BY <3>2 DEF SupervisedAreRoots
    <3>4. children[t][i].pid \in Nat
      BY <2>1, SupTyped, PidNat
    <3> QED BY <3>3, <3>4
  <2> QED BY <2>1
<1>11. ASSUME NEW t \in Sup, t # s, NEW i \in 1..Len(u), NEW j \in 1..Len(children[t]) PROVE u[i].pid # children[t][j].pid
  <2>1. CASE u[i] = e
    BY <1>10, <2>1
  <2>2. CASE u[i] # e
    <3>1. PICK l \in 1..Len(c) : u[i] = c[l]
      BY <1>3, <2>2
    <3> QED BY <1>1, <1>11, <3>1 DEF ListsAre, ListsApart
  <2> QED BY <2>1, <2>2
<1>12. ASSUME NEW i \in 1..Len(u), NEW j \in 1..Len(u), u[i].pid = u[j].pid PROVE i = j
  <2>1. \A l, m \in 1..Len(c) : c[l].pid = c[m].pid => l = m
    BY <1>1 DEF ListsAre, ListsApart
  <2>2. \A l \in 1..Len(c) : c[l].pid # e.pid
    BY <1>1, <1>10
  <2>3. \A x \in 1..Len(u) : x # k + 1 => \E l \in 1..Len(c) : u[x] = c[l]
    BY <1>3
  <2>4. CASE i = k + 1 \/ j = k + 1
    <3>1. u[i] = e \/ u[j] = e
      BY <1>3, <2>4
    <3>2. i = k + 1 /\ j = k + 1
      BY <1>12, <2>2, <2>3, <2>4, <3>1, <1>3
    <3> QED BY <3>2
  <2>5. CASE i # k + 1 /\ j # k + 1
    <3>1. ASSUME NEW x \in 1..Len(u), x # k + 1
          PROVE  \E l \in 1..Len(c) : u[x] = c[l] /\ ((x <= k /\ l = x /\ l <= k) \/ (k + 1 < x /\ x = l + 1 /\ k < l))
      BY <1>3, <3>1
    <3>2. PICK l \in 1..Len(c) : u[i] = c[l] /\ ((i <= k /\ l = i /\ l <= k) \/ (k + 1 < i /\ i = l + 1 /\ k < l))
      BY <2>5, <3>1
    <3>3. PICK m \in 1..Len(c) : u[j] = c[m] /\ ((j <= k /\ m = j /\ m <= k) \/ (k + 1 < j /\ j = m + 1 /\ k < m))
      BY <2>5, <3>1
    <3>4. l = m
      BY <1>12, <2>1, <3>2, <3>3
    <3> QED BY <3>2, <3>3, <3>4
  <2> QED BY <2>4, <2>5
<1>13. ASSUME NEW x \in Sup, NEW t \in Sup, NEW i \in 1..Len(children'[x]), NEW j \in 1..Len(children'[t]),
              children'[x][i].pid = children'[t][j].pid
       PROVE  x = t /\ i = j
  <2>1. \A r \in Sup : r # s => children'[r] = children[r]
    BY DEF ListBecomes
  <2>2. CASE x = s /\ t = s
    BY <1>2, <1>12, <1>13, <2>2
  <2>3. CASE x = s /\ t # s
    BY <1>2, <1>11, <1>13, <2>1, <2>3
  <2>4. CASE x # s /\ t = s
    <3>1. j \in 1..Len(u) /\ children'[t] = u /\ i \in 1..Len(children[x]) /\ children'[x] = children[x]
      BY <1>2, <2>1, <2>4
    <3>2. u[j].pid # children[x][i].pid
      BY <1>11, <2>4, <3>1
    <3> QED BY <1>13, <3>1, <3>2
  <2>5. CASE x # s /\ t # s
    <3>1. children'[x] = children[x] /\ children'[t] = children[t]
      BY <2>1, <2>5
    <3>2. i \in 1..Len(children[x]) /\ j \in 1..Len(children[t]) /\ children[x][i].pid = children[t][j].pid
      BY <1>13, <3>1
    <3> QED BY <3>2 DEF ListsAre, ListsApart
  <2> QED BY <2>2, <2>3, <2>4, <2>5
<1>14. ListsApart'
  BY <1>13 DEF ListsApart
<1> QED BY <1>9, <1>14 DEF ListsAre

\* What is left to respawn stays in order.
LEMMA TailOrder ==
    ASSUME NEW ids \in Seq(Nat), ids # << >>, NEW N \in Nat,
           \A k \in 1..Len(ids) : ids[k] \in 1..N,
           \A k, l \in 1..Len(ids) : k < l => ids[k] < ids[l]
    PROVE  /\ Tail(ids) \in Seq(Nat) /\ Len(Tail(ids)) \in Nat /\ ids[1] = Head(ids) /\ 1 \in 1..Len(ids)
           /\ \A k \in 1..Len(Tail(ids)) : Tail(ids)[k] \in 1..N /\ ids[1] < Tail(ids)[k]
           /\ \A k \in 1..Len(Tail(ids)) : \E l \in 1..Len(ids) : Tail(ids)[k] = ids[l]
           /\ \A k, l \in 1..Len(Tail(ids)) : k < l => Tail(ids)[k] < Tail(ids)[l]
           /\ Len(ids) = 1 => Tail(ids) = << >>
<1>1. PICK tl \in Seq(Nat) : tl = Tail(ids)
  BY HeadTailProperties
<1>2. PICK n \in Nat : n = Len(tl) /\ Len(ids) = n + 1
  BY <1>1
<1>3. \A k \in 1..n : tl[k] = ids[k + 1] /\ k + 1 \in 1..(n + 1) /\ 1 < k + 1
  BY <1>1, <1>2
<1>4. 1 \in 1..(n + 1)
  OBVIOUS
<1>5. \A k \in 1..n : tl[k] \in 1..N /\ ids[1] < tl[k]
  BY <1>2, <1>3, <1>4
<1>6. ASSUME NEW k \in 1..n, NEW l \in 1..n, k < l PROVE tl[k] < tl[l]
  <2>1. k + 1 < l + 1
    BY <1>6
  <2> QED BY <1>2, <1>3, <2>1
<1>7. n = 0 => tl = << >>
  BY <1>2, EmptySeq
<1>8. \A k \in 1..n : \E l \in 1..(n + 1) : tl[k] = ids[l]
  BY <1>3
<1>9. ids[1] = Head(ids)
  OBVIOUS
<1>10. Len(ids) = 1 => n = 0
  BY <1>2
<1> QED BY <1>1, <1>2, <1>4, <1>5, <1>6, <1>7, <1>8, <1>9, <1>10

\* A child of the front of the list of those to respawn has been seen to.
LEMMA RespawnRest ==
    ASSUME SupTypeOK, HandlerOK, ListsInv, RespawnChild \/ RespawnRefused, spec' = spec,
           NEW u \in Seq(Entry), u = children'[Here],
           \A j \in 1..Len(u) : u[j].id = Head(handler.respawn) \/ \E i \in 1..Len(children[Here]) : u[j] = children[Here][i]
    PROVE  KillOK' /\ RespawnOK'
<1>1. /\ handler.respawn # << >> /\ Here <= NumSup /\ spec[Here] # Unstarted /\ handler'.kill = << >>
      /\ IF Tail(handler.respawn) = << >>
         THEN Here' = Here + 1 /\ handler'.respawn = << >> /\ handler'.at = 0
         ELSE Here' = Here /\ handler'.respawn = Tail(handler.respawn) /\ handler'.at = handler.at
  BY AfterRespawnFacts
<1>2. KillOK'
  <2>1. \A k : k \notin 1..Len(handler'.kill)
    BY <1>1
  <2> QED BY <2>1 DEF KillOK
<1>3. CASE Tail(handler.respawn) = << >>
  BY <1>1, <1>2, <1>3 DEF RespawnOK
<1>4. CASE Tail(handler.respawn) # << >>
  <2>1. PICK ids \in Seq(Nat) : ids = handler.respawn
    BY SupTyped
  <2>2. PICK N \in Nat : N = Len(spec[Here].restarts)
    <3>1. spec[Here] \in Specs \union {Unstarted}
      BY <1>1, HereTyped DEF SupTypeOK
    <3>2. spec[Here].restarts \in Seq({"Permanent", "Transient", "Temporary"})
      BY <1>1, <3>1, SupervisionAssumption
    <3> QED BY <3>2
  <2>3. /\ \A k \in 1..Len(ids) : ids[k] \in 1..N
        /\ \A k, l \in 1..Len(ids) : k < l => ids[k] < ids[l]
        /\ handler.at = 0 => \A i \in 1..Len(children[Here]) : \A k \in 1..Len(ids) : children[Here][i].id < ids[k]
        /\ handler.at # 0 => Len(ids) = 1
    BY <1>1, <2>1, <2>2 DEF ListsInv, RespawnOK
  <2>4. PICK tl \in Seq(Nat) : tl = Tail(ids)
    BY <1>1, <2>1, <2>3, TailOrder
  <2>5. /\ \A k \in 1..Len(tl) : tl[k] \in 1..N /\ ids[1] < tl[k]
        /\ \A k \in 1..Len(tl) : \E l \in 1..Len(ids) : tl[k] = ids[l]
        /\ \A k, l \in 1..Len(tl) : k < l => tl[k] < tl[l]
        /\ ids[1] = Head(ids)
        /\ Len(ids) = 1 => tl = << >>
    <3>1. ids # << >>
      BY <1>1, <2>1
    <3> QED BY <2>3, <2>4, <3>1, TailOrder
  <2>6. handler.at = 0
    BY <1>4, <2>1, <2>3, <2>4, <2>5
  <2>7. handler'.respawn = tl /\ handler'.at = 0 /\ Here' = Here
    BY <1>1, <1>4, <2>1, <2>4, <2>6
  <2>8. ASSUME NEW j \in 1..Len(u), NEW k \in 1..Len(tl) PROVE u[j].id < tl[k]
    <3>1. CASE u[j].id = Head(handler.respawn)
      BY <2>1, <2>5, <3>1
    <3>2. ASSUME NEW i \in 1..Len(children[Here]), u[j] = children[Here][i] PROVE u[j].id < tl[k]
      <4>1. PICK l \in 1..Len(ids) : tl[k] = ids[l]
        BY <2>5
      <4>2. children[Here][i].id < ids[l]
        BY <2>3, <2>6
      <4> QED BY <3>2, <4>1, <4>2
    <3> QED BY <3>1, <3>2
  <2>9. RespawnOK'
    BY <2>2, <2>5, <2>7, <2>8 DEF RespawnOK
  <2> QED BY <1>2, <2>9
<1> QED BY <1>3, <1>4

LEMMA ListsRespawn ==
    ASSUME SchedulerOK, SupTypeOK, CallsInv, ListsInv, RespawnChild
    PROVE  ListsInv'
<1>1. HandlerOK /\ RespawnOK /\ SupervisedAreRoots /\ ListsAre
  BY DEF CallsInv, ListsInv, ListsAre
<1>2. PICK k \in Nat : Replaced(k)
  BY <1>1, RespawnEffect
<1>3. PICK e \in Entry : e = NewChild(Head(handler.respawn))
  BY <1>1, RespawnEffect
<1>4. handler.respawn # << >> /\ Here <= NumSup /\ spec[Here] # Unstarted
  BY <1>1, AfterRespawnFacts
<1>5. Here \in Sup /\ children[Here] \in Seq(Entry)
  BY <1>4, HereTyped
<1>6. k <= Len(children[Here]) /\ Len(children[Here]) \in Nat
      /\ k = (IF handler.at = 0 THEN Len(children[Here]) ELSE handler.at - 1)
  BY <1>2, <1>5 DEF Replaced
<1>7. ListBecomes(Here, children'[Here]) /\ Grown(children'[Here], children[Here], k, e)
  BY <1>2, <1>3, <1>6, LongerGrown DEF Replaced
<1>8. e.pid = nextPid /\ e.id = Head(handler.respawn) /\ e.pid \in supervised' /\ supervised \subseteq supervised'
      /\ UNCHANGED spec /\ nextPid \in Nat
  BY <1>3, RespawnKept, PidNat DEF NewChild, RespawnChild
<1>9. PICK ids \in Seq(Nat) : ids = handler.respawn
  BY SupTyped
<1>10. 1 \in 1..Len(ids) /\ ids[1] = e.id
  BY <1>4, <1>8, <1>9
<1>11. e.id \in 1..Len(spec[Here].restarts)
  BY <1>1, <1>4, <1>9, <1>10 DEF RespawnOK
<1>12. ASSUME NEW i \in 1..Len(children[Here])
       PROVE  IF i <= k THEN children[Here][i].id < e.id ELSE e.id < children[Here][i].id
  <2>1. CASE handler.at = 0
    <3>1. children[Here][i].id < ids[1]
      BY <1>1, <1>4, <1>9, <1>10, <2>1 DEF RespawnOK
    <3>2. i <= k
      BY <1>6, <2>1
    <3> QED BY <1>10, <3>1, <3>2
  <2>2. CASE handler.at # 0
    <3>1. IF i < handler.at THEN children[Here][i].id < ids[1] ELSE ids[1] < children[Here][i].id
      BY <1>1, <1>4, <1>9, <2>2 DEF RespawnOK
    <3>2. i < handler.at <=> i <= k
      <4>1. handler.at \in Nat /\ k = handler.at - 1
        BY <1>6, <2>2, SupTyped
      <4> QED BY <4>1
    <3> QED BY <1>10, <3>1, <3>2
  <2> QED BY <2>1, <2>2
<1>13. ListsAre'
  BY <1>1, <1>5, <1>7, <1>8, <1>11, <1>12, <1>4, ListsGrown
<1>14. PICK u \in Seq(Entry) : u = children'[Here]
  BY <1>5, <1>7 DEF ListBecomes
<1>15. \A j \in 1..Len(u) : u[j].id = Head(handler.respawn) \/ \E i \in 1..Len(children[Here]) : u[j] = children[Here][i]
  BY <1>7, <1>8, <1>14 DEF Grown
<1>16. KillOK' /\ RespawnOK'
  BY <1>1, <1>8, <1>14, <1>15, RespawnRest
<1> QED BY <1>13, <1>16 DEF ListsInv, ListsAre

LEMMA ListsRefused ==
    ASSUME SupTypeOK, CallsInv, ListsInv, RespawnRefused
    PROVE  ListsInv'
<1>1. HandlerOK /\ UNCHANGED <<children, spec, supervised>>
  BY DEF CallsInv, RespawnRefused
<1>2. ListsAre'
  BY <1>1, ListsSame DEF ListsInv, ListsAre
<1>3. Here <= NumSup
  BY <1>1, AfterRespawnFacts
<1>4. PICK u \in Seq(Entry) : u = children'[Here] /\ u = children[Here]
  BY <1>1, <1>3, HereTyped
<1>5. KillOK' /\ RespawnOK'
  BY <1>1, <1>4, RespawnRest
<1> QED BY <1>2, <1>5 DEF ListsInv, ListsAre

\* The first list of a supervisor.
LEMMA ListsStart ==
    ASSUME SupTypeOK, CallsInv, ListsInv, phase = "idle", NEW s \in Sup, NEW sp \in Specs, Started(s, sp),
           nextPid \in Nat, spec[s] = Unstarted
    PROVE  ListsInv'
<1>1. PICK u \in Seq(Entry) : u = children'[s]
  BY DEF Started, ListBecomes
<1>2. /\ spec'[s] = sp /\ Len(u) = Len(sp.restarts) /\ Len(u) \in Nat
      /\ \A i \in 1..Len(u) :
            /\ u[i].id = i /\ u[i].pid = (nextPid + i) - 1 /\ nextPid <= u[i].pid
            /\ u[i].pid \in supervised'
      /\ \A t \in Sup : t # s => spec'[t] = spec[t] /\ children'[t] = children[t]
      /\ supervised \subseteq supervised' /\ handler' = handler
  BY <1>1 DEF Started, ListBecomes
<1>3. spec'[s] = Unstarted => u = << >>
  <2>1. ASSUME spec'[s] = Unstarted PROVE u = << >>
    <3>1. Len(u) = 0
      BY <1>2, <2>1 DEF Unstarted
    <3> QED BY <1>1, <3>1
  <2> QED BY <2>1
<1>4. ASSUME NEW t \in Sup PROVE ListOK(t)'
  <2>1. CASE t = s
    <3>1. \A i, j \in 1..Len(u) : i < j => u[i].id < u[j].id
      BY <1>2
    <3>2. \A i \in 1..Len(u) : u[i].id \in 1..Len(sp.restarts) /\ u[i].pid \in supervised'
      BY <1>2
    <3> QED BY <1>1, <1>2, <1>3, <2>1, <3>1, <3>2 DEF ListOK
  <2>2. CASE t # s
    <3>1. children'[t] = children[t] /\ spec'[t] = spec[t] /\ ListOK(t)
      BY <1>2, <2>2 DEF ListsInv
    <3> QED BY <1>2, <3>1 DEF ListOK
  <2> QED BY <2>1, <2>2
<1>5. \A t \in Sup : \A i \in 1..Len(children[t]) : children[t][i].pid < nextPid /\ children[t][i].pid \in Nat
  <2>1. ASSUME NEW t \in Sup, NEW i \in 1..Len(children[t]) PROVE children[t][i].pid < nextPid /\ children[t][i].pid \in Nat
    <3>1. ListOK(t)
      BY DEF ListsInv
    <3>2. children[t][i].pid \in supervised
      BY <3>1 DEF ListOK
    <3> QED BY <3>2, SupTyped, PidNat DEF CallsInv, SupervisedAreRoots
  <2> QED BY <2>1
<1>6. ASSUME NEW t \in Sup, t # s, NEW i \in 1..Len(u), NEW j \in 1..Len(children[t]) PROVE u[i].pid # children[t][j].pid
  <2>1. PICK p, q : p = u[i].pid /\ q = children[t][j].pid
    OBVIOUS
  <2>2. q < nextPid /\ q \in Nat
    BY <1>5, <2>1
  <2>3. nextPid <= p
    BY <1>2, <2>1
  <2> QED BY <2>1, <2>2, <2>3
<1>7. ASSUME NEW i \in 1..Len(u), NEW j \in 1..Len(u), u[i].pid = u[j].pid PROVE i = j
  <2>1. (nextPid + i) - 1 = (nextPid + j) - 1
    BY <1>2, <1>7
  <2> QED BY <1>2, <2>1
<1>8. ASSUME NEW x \in Sup, NEW t \in Sup, NEW i \in 1..Len(children'[x]), NEW j \in 1..Len(children'[t]),
              children'[x][i].pid = children'[t][j].pid
       PROVE  x = t /\ i = j
  <2>1. CASE x = s /\ t = s
    BY <1>1, <1>7, <1>8, <2>1
  <2>2. CASE x = s /\ t # s
    <3>1. i \in 1..Len(u) /\ children'[x] = u /\ j \in 1..Len(children[t]) /\ children'[t] = children[t]
      BY <1>1, <1>2, <2>2
    <3>2. u[i].pid # children[t][j].pid
      BY <1>6, <2>2, <3>1
    <3> QED BY <1>8, <3>1, <3>2
  <2>3. CASE x # s /\ t = s
    <3>1. j \in 1..Len(u) /\ children'[t] = u /\ i \in 1..Len(children[x]) /\ children'[x] = children[x]
      BY <1>1, <1>2, <2>3
    <3>2. u[j].pid # children[x][i].pid
      BY <1>6, <2>3, <3>1
    <3> QED BY <1>8, <3>1, <3>2
  <2>4. CASE x # s /\ t # s
    <3>1. children'[x] = children[x] /\ children'[t] = children[t]
      BY <1>2, <2>4
    <3>2. i \in 1..Len(children[x]) /\ j \in 1..Len(children[t]) /\ children[x][i].pid = children[t][j].pid
      BY <1>8, <3>1
    <3> QED BY <3>2 DEF ListsInv, ListsApart
  <2> QED BY <2>1, <2>2, <2>3, <2>4
<1>9. ListsApart'
  BY <1>8 DEF ListsApart
<1>10. ListsAre'
  BY <1>4, <1>9 DEF ListsAre
<1>11. handler'.kill = << >> /\ handler'.respawn = << >>
  <2>1. handler = NoHandler
    BY DEF CallsInv, HandlerOK
  <2> QED BY <1>2, <2>1 DEF NoHandler
<1> QED BY <1>10, <1>11, NothingToDo

LEMMA ListsStep ==
    ASSUME SchedulerOK, SupTypeOK, CallsInv, ListsInv, SupNext
    PROVE  ListsInv'
<1>0. handler.sup <= NumSup /\ handler' = NextSup => handler'.kill = handler.kill /\ handler'.respawn = handler.respawn
  BY NextSupTyped DEF HandlerIs
<1>1. ASSUME UNCHANGED <<children, spec, supervised>>, handler'.kill = << >>, handler'.respawn = << >> PROVE ListsInv'
  <2>1. ListsAre'
    BY <1>1, ListsSame DEF ListsInv, ListsAre
  <2> QED BY <1>1, <2>1, NothingToDo
<1>2. ASSUME NEW s \in Sup, NEW sp \in Specs, StartSupervisor(s, sp) PROVE ListsInv'
  <2>1. Started(s, sp) /\ nextPid \in Nat
    BY <1>2, StartEffect, FramesTyped DEF SchedulerOK
  <2>2. phase = "idle" /\ spec[s] = Unstarted
    BY <1>2 DEF StartSupervisor, SpawnFirst
  <2> QED BY <2>1, <2>2, ListsStart
<1>3. ASSUME NEW s \in Sup, NEW sp \in Specs, NEW n \in 1..Len(sp.restarts), StartFails(s, sp, n)
      PROVE  ListsInv'
  BY <1>3, ListsUnmoved DEF StartFails, SpawnFirst
<1>4. CASE UNCHANGED supVars
  BY <1>4, ListsUnmoved DEF supVars
<1>5. CASE HandlersBegin
  <2>1. HandlerIs(handler', Len(frames), 1, << >>, << >>, 0)
    BY <1>5, FramesTyped, NoHandlerTyped DEF HandlersBegin, SchedulerOK
  <2> QED BY <1>1, <1>5, <2>1 DEF HandlersBegin, HandlerIs
<1>6. CASE IgnoreExit
  BY <1>0, <1>1, <1>6 DEF IgnoreExit, InHandler
<1>7. CASE ForgetChild
  BY <1>7, ListsForget
<1>8. ASSUME NEW n, GiveUp(n) PROVE ListsInv'
  BY <1>0, <1>1, <1>8 DEF GiveUp, RestartCounted, InHandler
<1>9. ASSUME NEW n, Restart(n) PROVE ListsInv'
  BY <1>9, ListsRestart
<1>10. CASE KillSibling
  BY <1>10, ListsKill
<1>11. CASE RespawnChild
  BY <1>11, ListsRespawn
<1>12. CASE RespawnRefused
  BY <1>12, ListsRefused
<1>13. CASE HandlersEnd
  BY <1>1, <1>13 DEF HandlersEnd, NoHandler
<1>14. CASE NestedExit
  BY <1>4, <1>14 DEF NestedExit
<1> QED BY <1>2, <1>3, <1>4, <1>5, <1>6, <1>7, <1>8, <1>9, <1>10, <1>11, <1>12, <1>13, <1>14
    DEF SupNext, HandlerStep

-----------------------------------------------------------------------------
(* Who runs.                                                               *)

\* What a handler was to hear of, it still is.
AwaitsLast == \A s \in Sup : \A p \in Pid : Awaits(s, p) => Awaits(s, p)'

\* A supervised process that dies is awaited by every handler.
DeadAwaited == \A p \in supervised \intersect Live : p \in Live' \/ \A s \in Sup : Awaits(s, p)'

NoneBorn == \A p \in supervised : p \in Live' => p \in Live

LEMMA AliveLasts ==
    ASSUME SupTypeOK, AwaitsLast, DeadAwaited, NEW s \in Sup, ListOK(s), Alive(s), children'[s] = children[s]
    PROVE  Alive(s)'
<1>1. ASSUME NEW i \in 1..Len(children[s])
      PROVE  children[s][i].pid \in Live' \/ Awaits(s, children[s][i].pid)'
  <2>1. PICK p \in Pid : p = children[s][i].pid
    BY SupTyped
  <2>2. p \in supervised
    BY <2>1 DEF ListOK
  <2>3. CASE p \in Live
    BY <2>1, <2>2, <2>3 DEF DeadAwaited
  <2>4. CASE Awaits(s, p)
    <3>1. Awaits(s, p)'
      BY <2>4 DEF AwaitsLast
    <3>2. Awaits(s, children[s][i].pid)'
      BY <2>1, <3>1
    <3> QED BY <3>2
  <2> QED BY <2>1, <2>3, <2>4 DEF Alive
<1> QED BY <1>1 DEF Alive

LEMMA OwnedLasts ==
    ASSUME NoneBorn, Owned, UNCHANGED <<children, supervised>>,
           \A k \in 1..Len(handler.kill) : handler.kill[k] \in Live' =>
              \E l \in 1..Len(handler'.kill) : handler'.kill[l] = handler.kill[k]
    PROVE  Owned'
<1>1. ASSUME NEW p \in supervised', p \in Live'
      PROVE  (\E s \in Sup : IsChild(s, p)') \/ \E k \in 1..Len(handler'.kill) : handler'.kill[k] = p
  <2>1. p \in supervised \intersect Live
    BY <1>1 DEF NoneBorn
  <2>2. CASE \E s \in Sup : IsChild(s, p)
    BY <2>2 DEF IsChild
  <2>3. CASE \E k \in 1..Len(handler.kill) : handler.kill[k] = p
    BY <1>1, <2>3
  <2> QED BY <2>1, <2>2, <2>3 DEF Owned
<1> QED BY <1>1 DEF Owned

\* Nothing happens to the lists, and nobody comes back.
LEMMA RunsQuiet ==
    ASSUME SupTypeOK, ListsInv, RunsInv, UNCHANGED <<children, spec, refused, gaveUp, supervised>>,
           handler'.respawn = handler.respawn, handler.respawn = << >> \/ Here' = Here,
           \A k \in 1..Len(handler.kill) : handler.kill[k] \in Live' =>
              \E l \in 1..Len(handler'.kill) : handler'.kill[l] = handler.kill[k],
           AwaitsLast, DeadAwaited, NoneBorn
    PROVE  RunsInv'
<1>1. ASSUME NEW s \in Sup, Answers(s)' PROVE Complete(s)' /\ Alive(s)'
  <2>1. Answers(s)
    BY <1>1 DEF Answers
  <2>2. Complete(s) /\ Alive(s) /\ ListOK(s)
    BY <2>1 DEF RunsInv, ListsInv
  <2>3. Complete(s)'
    <3>1. CASE Here' = Here
      BY <2>2, <3>1 DEF Complete
    <3>2. CASE handler.respawn = << >>
      <4>1. \A k : k \notin 1..Len(handler.respawn)
        BY <3>2
      <4> QED BY <2>2, <4>1 DEF Complete
    <3> QED BY <3>1, <3>2
  <2> QED BY <2>2, <2>3, AliveLasts
<1>2. Owned'
  BY OwnedLasts DEF RunsInv
<1> QED BY <1>1, <1>2 DEF RunsInv

\* Nothing happens to the handlers and their lists.
LEMMA RunsOver ==
    ASSUME SupTypeOK, ListsInv, RunsInv, UNCHANGED <<children, spec, refused, gaveUp, supervised>>,
           UNCHANGED handler, AwaitsLast, DeadAwaited, NoneBorn
    PROVE  RunsInv'
BY RunsQuiet DEF Here

\* The steps of the scheduler.
LEMMA NoneBornStill ==
    ASSUME SchedulerOK, SupTypeOK, CallsInv, Births
    PROVE  NoneBorn
<1>1. ASSUME NEW p \in supervised, p \in Live' PROVE p \in Live
  <2>1. p \in Pid /\ p < nextPid
    BY <1>1, SupTyped DEF CallsInv, SupervisedAreRoots
  <2>2. p \in Nat /\ nextPid \in Nat
    BY <2>1, PidNat DEF Births
  <2> QED BY <1>1, <2>1, <2>2 DEF Births
<1> QED BY <1>1 DEF NoneBorn

LEMMA RunsStill ==
    ASSUME SchedulerOK, SupTypeOK, CallsInv, ListsInv, RunsInv, Births, UNCHANGED frames,
           UNCHANGED <<children, spec, refused, gaveUp, supervised, handler>>
    PROVE  RunsInv'
<1>1. AwaitsLast
  BY DEF AwaitsLast, Awaits, HearsOf, Here, Busy
<1>2. DeadAwaited
  BY DEF DeadAwaited, Births
<1> QED BY <1>1, <1>2, NoneBornStill, RunsOver

LEMMA AwaitsMoved ==
    ASSUME SchedulerOK, SupTypeOK, Moved, NEW s \in Sup, NEW p \in Pid, Awaits(s, p),
           KeepsTold \/ (Len(frames) > handler.depth /\ handler.depth # 0)
    PROVE  \E i \in 1..Len(frames) :
              i \in 1..Len(frames') /\ frames'[i].pid = p /\ ~frames'[i].told /\ HearsOf(s, i)
<1>1. PICK i \in 1..Len(frames) : frames[i].pid = p /\ ~frames[i].told /\ HearsOf(s, i)
  BY DEF Awaits
<1>2. i \in 1..Len(frames') /\ frames'[i].pid = frames[i].pid
  BY DEF Moved, Shrinks
<1>3. frames'[i].told = frames[i].told
  <2>1. CASE KeepsTold
    BY <2>1 DEF KeepsTold
  <2>2. CASE Len(frames) > handler.depth /\ handler.depth # 0
    <3>1. i <= handler.depth
      BY <1>1, <2>2, SupTyped DEF HearsOf
    <3>2. i # Len(frames)
      BY <2>2, <3>1, SupTyped, FramesTyped DEF SchedulerOK
    <3> QED BY <3>2 DEF Moved
  <2> QED BY <2>1, <2>2
<1> QED BY <1>1, <1>2, <1>3

LEMMA RunsMoved ==
    ASSUME SchedulerOK, SupTypeOK, CallsInv, ListsInv, RunsInv, Moved,
           UNCHANGED <<children, spec, refused, gaveUp, supervised, handler>>,
           KeepsTold \/ (Len(frames) > handler.depth /\ handler.depth # 0)
    PROVE  RunsInv'
<1>1. \A s, i : HearsOf(s, i) => HearsOf(s, i)'
  BY DEF HearsOf, Here, Busy
<1>2. AwaitsLast
  BY <1>1, AwaitsMoved DEF AwaitsLast, Awaits
<1>3. DeadAwaited /\ NoneBorn
  BY DEF DeadAwaited, NoneBorn, Moved, Same
<1> QED BY <1>2, <1>3, RunsOver

LEMMA RunsReturned ==
    ASSUME SchedulerOK, SupTypeOK, CallsInv, ListsInv, RunsInv, Returned,
           UNCHANGED <<children, spec, refused, gaveUp, supervised, handler>>
    PROVE  RunsInv'
<1>1. \A s, i : HearsOf(s, i) => HearsOf(s, i)'
  BY DEF HearsOf, Here, Busy
<1>2. ASSUME NEW s \in Sup, NEW p \in Pid, Awaits(s, p) PROVE Awaits(s, p)'
  <2>1. PICK i \in 1..Len(frames) : frames[i].pid = p /\ ~frames[i].told /\ HearsOf(s, i)
    BY <1>2 DEF Awaits
  <2>2. i # Len(frames)
    BY <2>1 DEF Returned
  <2>3. i \in 1..Len(frames') /\ frames'[i] = frames[i]
    BY <2>2, FramesTyped DEF Returned, SchedulerOK
  <2> QED BY <1>1, <2>1, <2>3 DEF Awaits
<1>3. DeadAwaited /\ NoneBorn
  BY DEF DeadAwaited, NoneBorn, Returned, Same
<1> QED BY <1>2, <1>3, RunsOver DEF AwaitsLast

\* A supervised process is the child of nobody that dies above a handler.
LEMMA ChildNotNested ==
    ASSUME SchedulerOK, SupTypeOK, CallsInv, NEW c \in supervised, c \in Live,
           frames = << >> \/ Pends(frames[Len(frames)], c)
    PROVE  handler.depth = 0
<1> SUFFICES ASSUME handler.depth # 0 PROVE FALSE
  OBVIOUS
<1>1. handler.depth \in 1..Len(frames) /\ AtRest(frames[handler.depth]) /\ Len(frames) \in Nat
  BY FramesTyped DEF CallsInv, HandlerOK, AtRest, SchedulerOK
<1>2. Pends(frames[Len(frames)], c) /\ Len(frames) # handler.depth
  <2>1. frames # << >>
    BY <1>1
  <2> QED BY <1>1, <2>1, RestPendsNone
<1>3. Len(frames) \in (handler.depth + 1)..Len(frames) /\ Len(frames) \in 1..Len(frames)
  BY <1>1, <1>2
<1>4. PICK d : d = frames[Len(frames)].pid
  OBVIOUS
<1>5. d < c /\ d \in links[c]
  BY <1>2, <1>3, <1>4 DEF CallsInv, NestedDescend
<1>6. c \in Pid /\ d \in Pid
  BY <1>3, <1>4, SupTyped, FramesTyped DEF SchedulerOK
<1>7. c < d
  BY <1>5, <1>6 DEF CallsInv, SupervisedAreRoots
<1> QED BY <1>5, <1>6, <1>7, PidNat

LEMMA AwaitsPushed ==
    ASSUME SchedulerOK, NEW c \in Pid, Pushed(c), NEW s \in Sup, NEW p \in Pid, Awaits(s, p),
           \A i : HearsOf(s, i) => HearsOf(s, i)'
    PROVE  Awaits(s, p)'
<1>1. PICK i \in 1..Len(frames) : frames[i].pid = p /\ ~frames[i].told /\ HearsOf(s, i)
  BY DEF Awaits
<1>2. frames'[i].pid = p /\ ~frames'[i].told
  BY <1>1 DEF Pushed, Shrinks
<1>3. i \in 1..Len(frames')
  BY FramesTyped DEF Pushed, SchedulerOK
<1> QED BY <1>1, <1>2, <1>3 DEF Awaits

LEMMA RunsPushed ==
    ASSUME SchedulerOK, SupTypeOK, CallsInv, ListsInv, RunsInv, NEW c \in Pid, Pushed(c),
           frames = << >> \/ Pends(frames[Len(frames)], c),
           UNCHANGED <<children, spec, refused, gaveUp, supervised, handler>>
    PROVE  RunsInv'
<1>1. \A s, i : HearsOf(s, i) => HearsOf(s, i)'
  BY DEF HearsOf, Here, Busy
<1>2. AwaitsLast
  BY <1>1, AwaitsPushed DEF AwaitsLast
<1>3. ASSUME NEW p \in supervised, p \in Live PROVE p \in Live' \/ \A s \in Sup : Awaits(s, p)'
  <2>1. CASE p # c
    BY <1>3, <2>1 DEF Pushed
  <2>2. CASE p = c
    <3>1. handler'.depth = 0
      BY <1>3, <2>2, ChildNotNested
    <3>2. Len(frames) + 1 \in 1..Len(frames')
      BY FramesTyped DEF Pushed, SchedulerOK
    <3>3. frames'[Len(frames) + 1].pid = p /\ ~frames'[Len(frames) + 1].told
      BY <2>2 DEF Pushed
    <3>4. \A s : HearsOf(s, Len(frames) + 1)'
      BY <3>1 DEF HearsOf
    <3>5. \A s \in Sup : \E i \in 1..Len(frames') : frames'[i].pid = p /\ ~frames'[i].told /\ HearsOf(s, i)'
      <4>1. PICK n : n = Len(frames) + 1
        OBVIOUS
      <4>2. \A s : HearsOf(s, n)'
        BY <3>1 DEF HearsOf
      <4> QED BY <3>2, <3>3, <4>1, <4>2
    <3> QED BY <3>5 DEF Awaits
  <2> QED BY <2>1, <2>2
<1>4. NoneBorn
  BY DEF NoneBorn, Pushed
<1> QED BY <1>2, <1>3, <1>4, RunsOver DEF DeadAwaited

LEMMA RunsScheduler ==
    ASSUME SchedulerOK, SupTypeOK, CallsInv, ListsInv, RunsInv, SchedulerStep, UNCHANGED supVars
    PROVE  RunsInv'
<1>1. UNCHANGED <<children, spec, refused, gaveUp, supervised, handler>>
  BY DEF supVars
<1>2. CASE Still
  BY <1>1, <1>2, RunsStill DEF Still
<1>3. CASE Moved /\ KeepsTold
  BY <1>1, <1>3, RunsMoved
<1>4. CASE Returned
  BY <1>1, <1>4, RunsReturned
<1>5. ASSUME NEW p \in Pid, Pushed(p), frames = << >> \/ Pends(frames[Len(frames)], p) PROVE RunsInv'
  BY <1>1, <1>5, RunsPushed
<1> QED BY <1>2, <1>3, <1>4, <1>5, SchedulerEffect

\* A handler step that leaves the calls alone: who has been heard of is the
\* dead process itself, by the supervisor at work.
LEMMA AwaitsPast ==
    ASSUME SchedulerOK, SupTypeOK, CallsInv, AtHandlers, Len(frames) = handler.depth,
           UNCHANGED frames, handler'.depth = handler.depth,
           Here' = Here \/ (Here' = Here + 1 /\ ~Busy'), Here <= NumSup,
           NEW s \in Sup, NEW p, Awaits(s, p), s # Here \/ p # Top.pid \/ Busy
    PROVE  Awaits(s, p)'
<1>1. PICK i \in 1..Len(frames) : frames[i].pid = p /\ ~frames[i].told /\ HearsOf(s, i)
  BY DEF Awaits
<1>2. handler.depth # 0 /\ Top = frames[handler.depth] /\ Here \in Nat /\ s \in Nat
  BY InHandlerFacts, HereTyped DEF CallsInv, Sup
<1>3. CASE i < handler.depth
  <2>1. HearsOf(s, i)'
    BY <1>3 DEF HearsOf
  <2> QED BY <1>1, <2>1 DEF Awaits
<1>4. CASE i = handler.depth
  <2>1. Here < s
    BY <1>1, <1>2, <1>4, SupTyped DEF HearsOf
  <2>2. Here' < s \/ (Here' = s /\ ~Busy')
    BY <1>2, <2>1
  <2>3. HearsOf(s, i)'
    BY <1>4, <2>2 DEF HearsOf
  <2> QED BY <1>1, <2>3 DEF Awaits
<1> QED BY <1>1, <1>2, <1>3, <1>4 DEF HearsOf

\* The list of s may be shorter, and whoever is on it is alive or awaited.
LEMMA AliveWithin ==
    ASSUME SupTypeOK, NEW s \in Sup, Alive(s), Live' = Live,
           \A j \in 1..Len(children'[s]) : \E i \in 1..Len(children[s]) : children'[s][j] = children[s][i],
           \A p : Awaits(s, p) /\ (\E j \in 1..Len(children'[s]) : children'[s][j].pid = p) => Awaits(s, p)'
    PROVE  Alive(s)'
<1>1. ASSUME NEW j \in 1..Len(children'[s])
      PROVE  children'[s][j].pid \in Live' \/ Awaits(s, children[s][j].pid)'
  <2>1. PICK i \in 1..Len(children[s]) : children'[s][j] = children[s][i]
    OBVIOUS
  <2>2. PICK p : p = children[s][i].pid /\ p = children'[s][j].pid
    BY <2>1
  <2>3. CASE p \in Live
    BY <2>2, <2>3
  <2>4. CASE Awaits(s, p)
    <3>1. Awaits(s, p)'
      BY <2>2, <2>4
    <3>2. Awaits(s, children[s][j].pid)'
      BY <2>2, <3>1
    <3> QED BY <3>2
  <2> QED BY <2>2, <2>3, <2>4 DEF Alive
<1> QED BY <1>1 DEF Alive

LEMMA AlivePast ==
    ASSUME SchedulerOK, SupTypeOK, CallsInv, AtHandlers, Len(frames) = handler.depth,
           UNCHANGED frames, Live' = Live, handler'.depth = handler.depth,
           Here' = Here \/ (Here' = Here + 1 /\ ~Busy'), Here <= NumSup,
           NEW s \in Sup, Alive(s),
           \A j \in 1..Len(children'[s]) : \E i \in 1..Len(children[s]) : children'[s][j] = children[s][i],
           s # Here \/ Busy \/ \A j \in 1..Len(children'[s]) : children'[s][j].pid # Top.pid
    PROVE  Alive(s)'
<1>1. ASSUME NEW p, Awaits(s, p), \E j \in 1..Len(children'[s]) : children'[s][j].pid = p PROVE Awaits(s, p)'
  <2>1. s # Here \/ p # Top.pid \/ Busy
    BY <1>1
  <2> QED BY <1>1, <2>1, AwaitsPast
<1> QED BY <1>1, AliveWithin

LEMMA Unmoved ==
    ASSUME UNCHANGED vars
    PROVE  UNCHANGED <<frames, phase, nextPid>> /\ Live' = Live
BY DEF vars, procVars, callVars, Live

LEMMA RunsHandlersBegin ==
    ASSUME SchedulerOK, SupTypeOK, CallsInv, ListsInv, RunsInv, HandlersBegin
    PROVE  RunsInv'
<1>1. UNCHANGED <<frames, children, spec, refused, gaveUp, supervised>> /\ Live' = Live
  BY Unmoved DEF HandlersBegin
<1>2. handler = NoHandler /\ handler.depth = 0
  BY DEF HandlersBegin, CallsInv, HandlerOK
<1>3. PICK n \in Nat : n = Len(frames)
  BY FramesTyped DEF SchedulerOK
<1>4. HandlerIs(handler', n, 1, << >>, << >>, 0)
  BY <1>3, NoHandlerTyped DEF HandlersBegin
<1>5. handler'.depth = n /\ Here' = 1 /\ ~Busy' /\ handler'.kill = << >> /\ handler'.respawn = << >>
  BY <1>4 DEF HandlerIs, Busy, Here
<1>6. AwaitsLast
  <2>1. \A s \in Sup : 1 < s \/ 1 = s
    BY DEF Sup
  <2>2. \A i \in 1..n : i < n \/ i = n
    OBVIOUS
  <2>3. \A s \in Sup : \A i \in 1..n : HearsOf(s, i)'
    BY <1>5, <2>1, <2>2 DEF HearsOf
  <2> QED BY <1>1, <1>3, <2>3 DEF AwaitsLast, Awaits
<1>7. DeadAwaited /\ NoneBorn
  BY <1>1 DEF DeadAwaited, NoneBorn
<1>8. handler.kill = << >> /\ handler.respawn = << >>
  BY <1>2 DEF NoHandler
<1>9. \A k : k \notin 1..Len(handler.kill)
  BY <1>8
<1> QED BY <1>1, <1>5, <1>6, <1>7, <1>8, <1>9, RunsQuiet

\* The next supervisor is asked; the one asked before has dealt with the
\* death, or has no part in it.
LEMMA RunsNextSup ==
    ASSUME SchedulerOK, SupTypeOK, CallsInv, ListsInv, RunsInv, InHandler, handler' = NextSup,
           UNCHANGED <<frames, spec, refused, supervised>>, Live' = Live,
           \A s \in Sup : Answers(s)' => Answers(s),
           \A s \in Sup : \A j \in 1..Len(children'[s]) : \E i \in 1..Len(children[s]) : children'[s][j] = children[s][i],
           \A s \in Sup : Answers(s)' /\ s = Here =>
              \A j \in 1..Len(children'[s]) : children'[s][j].pid # Top.pid,
           \A s \in Sup : \A i \in 1..Len(children[s]) :
              \/ \E j \in 1..Len(children'[s]) : children'[s][j] = children[s][i]
              \/ /\ s = Here /\ children[s][i].pid \notin Live
                 /\ spec[s].restarts[children[s][i].id] # "Permanent"
    PROVE  RunsInv'
<1>1. AtHandlers /\ Len(frames) = handler.depth /\ Here <= NumSup /\ handler.kill = << >> /\ handler.respawn = << >>
  BY DEF InHandler, Here
<1>2. HandlerIs(handler', handler.depth, handler.sup + 1, << >>, << >>, handler.at)
  BY <1>1, NextSupTyped DEF Here
<1>3. handler'.depth = handler.depth /\ Here' = Here + 1 /\ ~Busy' /\ handler'.kill = << >>
  BY <1>2 DEF HandlerIs, Here, Busy
<1>4. ASSUME NEW s \in Sup, Answers(s)' PROVE Alive(s)'
  <2>1. Alive(s)
    BY <1>4 DEF RunsInv
  <2>2. s # Here \/ \A j \in 1..Len(children'[s]) : children'[s][j].pid # Top.pid
    BY <1>4
  <2>3. \A j \in 1..Len(children'[s]) : \E i \in 1..Len(children[s]) : children'[s][j] = children[s][i]
    OBVIOUS
  <2> QED BY <1>1, <1>3, <2>1, <2>2, <2>3, AlivePast
<1>5. \A k : k \notin 1..Len(handler.respawn) /\ k \notin 1..Len(handler.kill)
  BY <1>1
<1>6. ASSUME NEW s \in Sup, Answers(s)' PROVE Complete(s)'
  <2>1. Complete(s)
    BY <1>6 DEF RunsInv
  <2>2. ASSUME NEW id \in 1..Len(spec[s].restarts) \ refused[s], spec[s].restarts[id] = "Permanent"
        PROVE  \E j \in 1..Len(children'[s]) : children'[s][j].id = id
    <3>1. PICK i \in 1..Len(children[s]) : children[s][i].id = id
      BY <1>5, <2>1, <2>2 DEF Complete
    <3>2. PICK j \in 1..Len(children'[s]) : children'[s][j] = children[s][i]
      BY <2>2, <3>1
    <3> QED BY <3>1, <3>2
  <2> QED BY <2>2 DEF Complete
<1>7. Owned'
  <2>1. ASSUME NEW p \in supervised, p \in Live PROVE \E s \in Sup : IsChild(s, p)'
    <3>1. PICK s \in Sup : IsChild(s, p)
      BY <1>5, <2>1 DEF RunsInv, Owned
    <3>2. PICK i \in 1..Len(children[s]) : children[s][i].pid = p
      BY <3>1 DEF IsChild
    <3>3. PICK j \in 1..Len(children'[s]) : children'[s][j] = children[s][i]
      BY <2>1, <3>2
    <3> QED BY <3>2, <3>3 DEF IsChild
  <2> QED BY <2>1 DEF Owned
<1> QED BY <1>4, <1>6, <1>7 DEF RunsInv

LEMMA RunsIgnore ==
    ASSUME SchedulerOK, SupTypeOK, CallsInv, ListsInv, RunsInv, IgnoreExit \/ \E n : GiveUp(n)
    PROVE  RunsInv'
<1>1. /\ InHandler /\ handler' = NextSup
      /\ UNCHANGED <<frames, spec, refused, supervised, children>> /\ Live' = Live
  BY Unmoved DEF IgnoreExit, GiveUp, RestartCounted
<1>2. Here \in Sup
  BY <1>1, HereTyped DEF InHandler, Here
<1>3. ASSUME NEW s \in Sup, Answers(s)' PROVE Answers(s) /\ ~gaveUp[s]
  <2>1. CASE IgnoreExit
    BY <1>3, <2>1 DEF Answers, IgnoreExit
  <2>2. CASE \E n : GiveUp(n)
    <3>1. gaveUp' = [gaveUp EXCEPT ![Here] = TRUE] /\ gaveUp \in [Sup -> BOOLEAN]
      BY <2>2 DEF GiveUp, SupTypeOK
    <3>2. ~gaveUp'[s]
      BY <1>3 DEF Answers
    <3>3. ~gaveUp[s]
      BY <3>1, <3>2
    <3> QED BY <1>1, <1>3, <3>3 DEF Answers
  <2> QED BY <2>1, <2>2
<1>4. ASSUME NEW s \in Sup, Answers(s)', s = Here
      PROVE  \A j \in 1..Len(children'[s]) : children'[s][j].pid # Top.pid
  <2>1. CASE IgnoreExit
    <3>1. ~IsChild(s, Top.pid)
      BY <1>3, <1>4, <2>1 DEF IgnoreExit, ChildExit
    <3> QED BY <1>1, <3>1 DEF IsChild
  <2>2. CASE \E n : GiveUp(n)
    <3>1. gaveUp' = [gaveUp EXCEPT ![Here] = TRUE] /\ gaveUp \in [Sup -> BOOLEAN]
      BY <2>2 DEF GiveUp, SupTypeOK
    <3>2. ~gaveUp'[s]
      BY <1>4 DEF Answers
    <3> QED BY <1>2, <1>4, <3>1, <3>2
  <2> QED BY <2>1, <2>2
<1>5. /\ \A s \in Sup : \A j \in 1..Len(children'[s]) : \E i \in 1..Len(children[s]) : children'[s][j] = children[s][i]
      /\ \A s \in Sup : \A i \in 1..Len(children[s]) : \E j \in 1..Len(children'[s]) : children'[s][j] = children[s][i]
  BY <1>1
<1>6. \A s \in Sup : Answers(s)' => Answers(s)
  BY <1>3
<1> QED BY <1>1, <1>4, <1>5, <1>6, RunsNextSup

\* The dead process is not running.
LEMMA TopDead ==
    ASSUME SchedulerOK, CallsInv, phase = "exit"
    PROVE  Top.pid \notin Live
<1>1. frames # << >> /\ Len(frames) \in Nat
  BY FramesTyped DEF SchedulerOK, CallOK
<1>2. Len(frames) \in 1..Len(frames)
  <2>1. frames \in Seq(Frame)
    BY FramesTyped DEF SchedulerOK
  <2> QED BY <1>1, <2>1
<1> QED BY <1>2 DEF CallsInv, CallsKnown, Top

LEMMA RunsForget ==
    ASSUME SchedulerOK, SupTypeOK, CallsInv, ListsInv, RunsInv, ForgetChild
    PROVE  RunsInv'
<1>1. /\ InHandler /\ handler' = NextSup /\ phase = "exit" /\ Here <= NumSup
      /\ UNCHANGED <<frames, spec, refused, supervised, gaveUp>> /\ Live' = Live
  BY Unmoved DEF ForgetChild, InHandler, AtHandlers, Here
<1>2. PICK i \in Nat : Forgotten(i)
  BY ForgetEffect
<1>3. Here \in Sup /\ ListsShrink
  BY <1>1, <1>2, HereTyped, LeftWithin DEF Forgotten
<1>4. \A s \in Sup : Answers(s)' => Answers(s)
  BY <1>1 DEF Answers
<1>5. \A s \in Sup : \A j \in 1..Len(children'[s]) : \E m \in 1..Len(children[s]) : children'[s][j] = children[s][m]
  BY <1>3 DEF ListsShrink, Within
<1>6. PICK c \in Seq(Entry), u \in Seq(Entry) : c = children[Here] /\ u = children'[Here] /\ LeavesOut(u, c, i, i)
  BY <1>2, <1>3, SupTyped DEF Forgotten, ListsShrink
<1>7. i \in 1..Len(c) /\ c[i].pid = Top.pid /\ spec[Here].restarts[c[i].id] # "Permanent"
  BY <1>2, <1>6 DEF Forgotten
<1>8. \A l, m \in 1..Len(c) : c[l].pid = c[m].pid => l = m
  BY <1>3, <1>6 DEF ListsInv, ListsApart
<1>9. ASSUME NEW j \in 1..Len(u) PROVE u[j].pid # Top.pid
  <2>1. PICK m \in 1..Len(c) : u[j] = c[m] /\ (m < i \/ i < m)
    BY <1>6 DEF LeavesOut, Apart
  <2>2. m # i
    BY <2>1
  <2> QED BY <1>7, <1>8, <2>1, <2>2
<1>10. \A s \in Sup : Answers(s)' /\ s = Here =>
          \A j \in 1..Len(children'[s]) : children'[s][j].pid # Top.pid
  BY <1>6, <1>9
<1>11. ASSUME NEW s \in Sup, NEW m \in 1..Len(children[s])
       PROVE  \/ \E j \in 1..Len(children'[s]) : children'[s][j] = children[s][m]
              \/ /\ s = Here /\ children[s][m].pid \notin Live
                 /\ spec[s].restarts[children[s][m].id] # "Permanent"
  <2>1. CASE s # Here
    BY <1>2, <2>1 DEF Forgotten, ListBecomes
  <2>2. CASE s = Here /\ m # i
    <3>1. m \in 1..Len(c) /\ (m < i \/ i < m)
      BY <1>6, <1>7, <2>2
    <3> QED BY <1>6, <2>2, <3>1 DEF LeavesOut, Apart
  <2>3. CASE s = Here /\ m = i
    BY <1>1, <1>6, <1>7, <2>3, TopDead
  <2> QED BY <2>1, <2>2, <2>3
<1> QED BY <1>1, <1>4, <1>5, <1>10, <1>11, RunsNextSup

LEMMA RunsRestart ==
    ASSUME SchedulerOK, SupTypeOK, CallsInv, ListsInv, RunsInv, NEW n, Restart(n)
    PROVE  RunsInv'
<1>1. /\ AtHandlers /\ Len(frames) = handler.depth /\ handler.kill = << >> /\ handler.respawn = << >>
      /\ phase = "exit" /\ Here <= NumSup
      /\ UNCHANGED <<frames, spec, refused, supervised, gaveUp>> /\ Live' = Live
  BY Unmoved DEF Restart, RestartCounted, InHandler, AtHandlers, Here
<1>2. PICK i, a, b \in Nat : /\ Restarted(i, a, b)
                             /\ Listed(handler'.kill, children[Here], a, b)
                             /\ Renewed(handler'.respawn, children[Here], a, b)
                             /\ handler' \in HandlerType
                             /\ handler'.depth = handler.depth /\ handler'.sup = handler.sup
  BY RestartEffect
<1>3. Here \in Sup /\ ListsShrink /\ Here' = Here
  BY <1>1, <1>2, HereTyped, LeftWithin DEF Restarted, Here
<1>4. PICK c \in Seq(Entry), u \in Seq(Entry) : c = children[Here] /\ u = children'[Here] /\ LeavesOut(u, c, a, b)
  BY <1>2, <1>3, SupTyped DEF Restarted, ListsShrink
<1>5. i \in 1..Len(c) /\ c[i].pid = Top.pid /\ a \in 1..i /\ b \in i..Len(c)
  BY <1>2, <1>4 DEF Restarted
<1>6. \A l, m \in 1..Len(c) : c[l].pid = c[m].pid => l = m
  BY <1>3, <1>4 DEF ListsInv, ListsApart
<1>7. ASSUME NEW j \in 1..Len(u) PROVE u[j].pid # Top.pid
  <2>1. PICK m \in 1..Len(c) : u[j] = c[m] /\ (m < a \/ b < m)
    BY <1>4 DEF LeavesOut, Apart
  <2>2. m # i
    BY <1>5, <2>1
  <2> QED BY <1>5, <1>6, <2>1, <2>2
<1>8. ASSUME NEW s \in Sup, Alive(s) PROVE Alive(s)'
  <2>1. s # Here \/ \A j \in 1..Len(children'[s]) : children'[s][j].pid # Top.pid
    BY <1>4, <1>7
  <2>2. \A j \in 1..Len(children'[s]) : \E m \in 1..Len(children[s]) : children'[s][j] = children[s][m]
    BY <1>3 DEF ListsShrink, Within
  <2> QED BY <1>1, <1>2, <1>3, <1>8, <2>1, <2>2, AlivePast
<1>9. \A m \in 1..Len(c) : m < a \/ b < m \/ m \in a..b
  BY <1>5
<1>10. \A m \in 1..Len(c) : m < a \/ b < m => \E j \in 1..Len(u) : u[j] = c[m]
  BY <1>4 DEF LeavesOut, Apart
<1>11. ASSUME NEW m \in a..b PROVE \E k \in 1..Len(handler'.respawn) : handler'.respawn[k] = c[m].id
  <2>1. /\ Len(handler'.respawn) = (b - a) + 1
        /\ \A k \in 1..Len(handler'.respawn) : handler'.respawn[k] = c[(a + k) - 1].id
    BY <1>2, <1>4 DEF Renewed
  <2>2. PICK k \in 1..((b - a) + 1) : (a + k) - 1 = m
    <3>1. (m - a) + 1 \in 1..((b - a) + 1) /\ (a + ((m - a) + 1)) - 1 = m
      OBVIOUS
    <3> QED BY <3>1
  <2> QED BY <2>1, <2>2
<1>12. \A k : k \notin 1..Len(handler.respawn) /\ k \notin 1..Len(handler.kill)
  BY <1>1
<1>13. ASSUME NEW s \in Sup, Complete(s) PROVE Complete(s)'
  <2>1. ASSUME NEW id \in 1..Len(spec[s].restarts) \ refused[s], spec[s].restarts[id] = "Permanent"
        PROVE  \/ \E j \in 1..Len(children'[s]) : children'[s][j].id = id
               \/ s = Here /\ \E k \in 1..Len(handler'.respawn) : handler'.respawn[k] = id
    <3>1. PICK m \in 1..Len(children[s]) : children[s][m].id = id
      BY <1>12, <1>13, <2>1 DEF Complete
    <3>2. CASE s # Here
      BY <1>2, <3>1, <3>2 DEF Restarted, ListBecomes
    <3>3. CASE s = Here /\ m \in a..b
      <4>1. c[m].id = id
        BY <1>4, <3>1, <3>3
      <4> QED BY <1>11, <3>3, <4>1
    <3>4. CASE s = Here /\ (m < a \/ b < m)
      <4>1. c[m].id = id /\ m \in 1..Len(c)
        BY <1>4, <3>1, <3>4
      <4>2. PICK j \in 1..Len(u) : u[j] = c[m]
        BY <1>10, <3>4, <4>1
      <4> QED BY <1>4, <3>4, <4>1, <4>2
    <3> QED BY <1>4, <1>9, <3>1, <3>2, <3>3, <3>4
  <2> QED BY <1>1, <1>3, <2>1 DEF Complete
<1>14. Owned'
  <2>1. ASSUME NEW p \in supervised, p \in Live
        PROVE  (\E s \in Sup : IsChild(s, p)') \/ \E k \in 1..Len(handler'.kill) : handler'.kill[k] = p
    <3>1. PICK s \in Sup : IsChild(s, p)
      BY <1>12, <2>1 DEF RunsInv, Owned
    <3>2. PICK m \in 1..Len(children[s]) : children[s][m].pid = p
      BY <3>1 DEF IsChild
    <3>3. CASE s # Here
      <4>1. children'[s] = children[s]
        BY <1>2, <3>3 DEF Restarted, ListBecomes
      <4> QED BY <3>2, <4>1 DEF IsChild
    <3>4. CASE s = Here /\ m \in a..b
      <4>1. c[m].pid = p /\ p # Top.pid
        BY <1>1, <1>4, <2>1, <3>2, <3>4, TopDead
      <4> QED BY <1>2, <1>4, <3>4, <4>1 DEF Listed
    <3>5. CASE s = Here /\ (m < a \/ b < m)
      <4>1. c[m].pid = p /\ m \in 1..Len(c)
        BY <1>4, <3>2, <3>5
      <4>2. PICK j \in 1..Len(u) : u[j] = c[m]
        BY <1>10, <3>5, <4>1
      <4> QED BY <1>4, <3>5, <4>1, <4>2 DEF IsChild
    <3> QED BY <1>4, <1>9, <3>2, <3>3, <3>4, <3>5
  <2> QED BY <1>1, <2>1 DEF Owned
<1>15. \A s \in Sup : Answers(s)' => Answers(s)
  BY <1>1 DEF Answers
<1> QED BY <1>8, <1>13, <1>14, <1>15 DEF RunsInv

LEMMA RunsKill ==
    ASSUME SchedulerOK, SupTypeOK, CallsInv, ListsInv, RunsInv, KillSibling
    PROVE  RunsInv'
<1>1. PICK p \in Pid :
         /\ p = Head(handler.kill) /\ Pushed(p) /\ \A s \in Sup : ~IsChild(s, p)
         /\ handler'.kill = Tail(handler.kill)
         /\ handler'.depth = handler.depth /\ handler'.sup = handler.sup
         /\ handler'.respawn = handler.respawn
  BY KillPushed
<1>2. UNCHANGED <<children, spec, refused, gaveUp, supervised>> /\ handler.kill # << >> /\ Busy
  BY DEF KillSibling, Busy
<1>3. Here' = Here
  BY <1>1 DEF Here
<1>4. \A s, i : HearsOf(s, i) => HearsOf(s, i)'
  BY <1>1, <1>2, <1>3 DEF HearsOf
<1>5. AwaitsLast
  BY <1>1, <1>4, AwaitsPushed DEF AwaitsLast
<1>6. NoneBorn
  BY <1>1 DEF NoneBorn, Pushed
<1>7. ASSUME NEW s \in Sup, Alive(s) PROVE Alive(s)'
  <2>1. ASSUME NEW i \in 1..Len(children[s])
        PROVE  children[s][i].pid \in Live' \/ Awaits(s, children[s][i].pid)'
    <3>1. PICK q \in Pid : q = children[s][i].pid
      BY SupTyped
    <3>2. q # p
      BY <1>1, <3>1 DEF IsChild
    <3>3. CASE q \in Live
      BY <1>1, <3>1, <3>2, <3>3 DEF Pushed
    <3>4. CASE Awaits(s, q)
      <4>1. Awaits(s, q)'
        BY <1>5, <3>4 DEF AwaitsLast
      <4>2. Awaits(s, children[s][i].pid)'
        BY <1>2, <3>1, <4>1
      <4> QED BY <4>2
    <3> QED BY <1>7, <3>1, <3>3, <3>4 DEF Alive
  <2> QED BY <1>2, <2>1 DEF Alive
<1>8. ASSUME NEW s \in Sup, Answers(s)' PROVE Complete(s)' /\ Alive(s)'
  <2>1. Complete(s) /\ Alive(s)
    BY <1>2, <1>8 DEF Answers, RunsInv
  <2>2. Complete(s)'
    BY <1>1, <1>2, <1>3, <2>1 DEF Complete
  <2> QED BY <1>7, <2>1, <2>2
<1>9. PICK ks \in Seq(Pid) : ks = handler.kill
  BY SupTyped
<1>10. ASSUME NEW k \in 1..Len(ks), ks[k] # p PROVE \E l \in 1..Len(Tail(ks)) : Tail(ks)[l] = ks[k]
  <2>1. k # 1
    BY <1>1, <1>9, <1>10
  <2>2. k - 1 \in 1..Len(Tail(ks)) /\ Tail(ks)[k - 1] = ks[(k - 1) + 1] /\ (k - 1) + 1 = k
    BY <1>2, <1>9, <2>1
  <2> QED BY <2>2
<1>11. Owned'
  <2>1. p \notin Live'
    BY <1>1 DEF Pushed
  <2>2. \A k \in 1..Len(handler.kill) : handler.kill[k] \in Live' =>
           \E l \in 1..Len(handler'.kill) : handler'.kill[l] = handler.kill[k]
    BY <1>1, <1>9, <1>10, <2>1
  <2> QED BY <1>2, <1>6, <2>2, OwnedLasts DEF RunsInv
<1> QED BY <1>8, <1>11 DEF RunsInv

\* Who awaits whom, over a respawn.
LEMMA RespawnAwaits ==
    ASSUME SchedulerOK, SupTypeOK, CallsInv, RespawnChild \/ RespawnRefused, NEW s \in Sup, NEW p, Awaits(s, p)
    PROVE  Awaits(s, p)'
<1>1. /\ handler.respawn # << >> /\ Here <= NumSup
      /\ handler'.kill = << >> /\ handler'.depth = handler.depth
      /\ \/ Here' = Here + 1 /\ handler'.respawn = << >>
         \/ Here' = Here
  BY AfterRespawnFacts DEF CallsInv
<1>2. AtHandlers /\ Len(frames) = handler.depth /\ UNCHANGED frames
  BY DEF RespawnChild, RespawnRefused, ToRespawn, callVars
<1>3. Busy /\ (Here' = Here \/ (Here' = Here + 1 /\ ~Busy'))
  BY <1>1 DEF Busy
<1> QED BY <1>1, <1>2, <1>3, AwaitsPast

\* Whoever was to come back is back, or still to come, or was refused.
LEMMA RespawnComplete ==
    ASSUME SupTypeOK, HandlerOK, RespawnChild \/ RespawnRefused, NEW s \in Sup, Complete(s), spec' = spec,
           \A i \in 1..Len(children[s]) : \E j \in 1..Len(children'[s]) : children'[s][j] = children[s][i],
           refused[s] \subseteq refused'[s],
           s = Here => \/ Head(handler.respawn) \in refused'[s]
                       \/ \E j \in 1..Len(children'[s]) : children'[s][j].id = Head(handler.respawn)
    PROVE  Complete(s)'
<1>1. /\ handler.respawn # << >>
      /\ IF Tail(handler.respawn) = << >>
         THEN Here' = Here + 1 /\ handler'.respawn = << >> /\ handler'.at = 0
         ELSE Here' = Here /\ handler'.respawn = Tail(handler.respawn) /\ handler'.at = handler.at
  BY AfterRespawnFacts
<1>2. PICK ids \in Seq(Nat) : ids = handler.respawn
  BY SupTyped
<1>3. ASSUME NEW id \in 1..Len(spec[s].restarts) \ refused'[s], spec[s].restarts[id] = "Permanent"
      PROVE  \/ \E j \in 1..Len(children'[s]) : children'[s][j].id = id
             \/ s = Here' /\ \E k \in 1..Len(handler'.respawn) : handler'.respawn[k] = id
  <2>1. \/ \E i \in 1..Len(children[s]) : children[s][i].id = id
        \/ s = Here /\ \E k \in 1..Len(ids) : ids[k] = id
    BY <1>2, <1>3 DEF Complete
  <2>2. CASE \E i \in 1..Len(children[s]) : children[s][i].id = id
    BY <2>2
  <2>3. ASSUME s = Here, NEW k \in 1..Len(ids), ids[k] = id
        PROVE  \/ \E j \in 1..Len(children'[s]) : children'[s][j].id = id
               \/ s = Here' /\ \E l \in 1..Len(handler'.respawn) : handler'.respawn[l] = id
    <3>1. CASE k = 1
      <4>1. id = Head(handler.respawn)
        BY <1>1, <1>2, <2>3, <3>1
      <4> QED BY <1>3, <2>3, <4>1
    <3>2. CASE k # 1
      <4>1. k - 1 \in 1..Len(Tail(ids)) /\ Tail(ids)[k - 1] = ids[(k - 1) + 1] /\ (k - 1) + 1 = k
        BY <1>1, <1>2, <3>2
      <4>2. Tail(ids) # << >>
        <5>1. PICK tl : tl = Tail(ids)
          OBVIOUS
        <5>2. k - 1 \in 1..Len(tl)
          BY <4>1, <5>1
        <5>3. tl # << >>
          BY <5>2
        <5> QED BY <5>1, <5>3
      <4>3. Here' = Here /\ handler'.respawn = Tail(ids)
        BY <1>1, <1>2, <4>2
      <4> QED BY <2>3, <4>1, <4>3
    <3> QED BY <3>1, <3>2
  <2> QED BY <2>1, <2>2, <2>3
<1> QED BY <1>3 DEF Complete

LEMMA RunsRespawn ==
    ASSUME SchedulerOK, SupTypeOK, CallsInv, ListsInv, RunsInv, RespawnChild
    PROVE  RunsInv'
<1>1. HandlerOK /\ RespawnOK /\ ListsAre
  BY DEF CallsInv, ListsInv, ListsAre
<1>2. PICK k \in Nat : Replaced(k)
  BY <1>1, RespawnEffect
<1>3. PICK e \in Entry : e = NewChild(Head(handler.respawn))
  BY <1>1, RespawnEffect
<1>4. Here <= NumSup /\ handler.respawn # << >> /\ handler'.kill = << >> /\ handler.kill = << >>
  BY <1>1, AfterRespawnFacts
<1>5. Here \in Sup /\ children[Here] \in Seq(Entry)
  BY <1>4, HereTyped
<1>6. Len(children[Here]) \in Nat
  BY <1>5
<1>7. ListBecomes(Here, children'[Here]) /\ Grown(children'[Here], children[Here], k, e)
  BY <1>2, <1>3, <1>6, LongerGrown DEF Replaced
<1>8. e.pid = nextPid /\ e.id = Head(handler.respawn) /\ Live' = Live \union {nextPid}
  BY <1>3, RespawnKept DEF NewChild
<1>9. UNCHANGED <<spec, refused, gaveUp>> /\ supervised' = supervised \union {nextPid}
  BY DEF RespawnChild
<1>10. ASSUME NEW s \in Sup, NEW i \in 1..Len(children[s])
       PROVE  \E j \in 1..Len(children'[s]) : children'[s][j] = children[s][i]
  <2>1. CASE s = Here
    BY <1>7, <2>1 DEF Grown
  <2>2. CASE s # Here
    BY <1>7, <2>2 DEF ListBecomes
  <2> QED BY <2>1, <2>2
<1>11. ASSUME NEW s \in Sup, NEW j \in 1..Len(children'[s])
       PROVE  (s = Here /\ children'[s][j] = e) \/ \E i \in 1..Len(children[s]) : children'[s][j] = children[s][i]
  <2>1. CASE s = Here
    BY <1>7, <2>1 DEF Grown
  <2>2. CASE s # Here
    BY <1>7, <2>2 DEF ListBecomes
  <2> QED BY <2>1, <2>2
<1>12. ASSUME NEW s \in Sup, Complete(s) PROVE Complete(s)'
  <2>1. s = Here => \E j \in 1..Len(children'[s]) : children'[s][j].id = Head(handler.respawn)
    <3>1. \E j \in 1..Len(children'[Here]) : children'[Here][j] = e
      BY <1>7 DEF Grown
    <3> QED BY <1>8, <3>1
  <2>2. \A i \in 1..Len(children[s]) : \E j \in 1..Len(children'[s]) : children'[s][j] = children[s][i]
    BY <1>10
  <2> QED BY <1>1, <1>9, <1>12, <2>1, <2>2, RespawnComplete
<1>13. ASSUME NEW s \in Sup, Alive(s) PROVE Alive(s)'
  <2>1. ASSUME NEW j \in 1..Len(children'[s])
        PROVE  children'[s][j].pid \in Live' \/ Awaits(s, children[s][j].pid)'
    <3>1. CASE children'[s][j] = e
      BY <1>8, <3>1
    <3>2. ASSUME NEW i \in 1..Len(children[s]), children'[s][j] = children[s][i]
          PROVE  children'[s][j].pid \in Live' \/ Awaits(s, children[s][j].pid)'
      <4>1. PICK p : p = children[s][i].pid /\ p = children'[s][j].pid
        BY <3>2
      <4>2. CASE p \in Live
        BY <1>8, <4>1, <4>2
      <4>3. CASE Awaits(s, p)
        <5>1. Awaits(s, p)'
          BY <4>3, RespawnAwaits
        <5>2. Awaits(s, children[s][j].pid)'
          BY <4>1, <5>1
        <5> QED BY <5>2
      <4> QED BY <1>13, <4>1, <4>2, <4>3 DEF Alive
    <3> QED BY <1>11, <3>1, <3>2
  <2> QED BY <2>1 DEF Alive
<1>14. Owned'
  <2>1. ASSUME NEW p \in supervised', p \in Live' PROVE \E s \in Sup : IsChild(s, p)'
    <3>1. CASE p = nextPid
      <4>1. PICK j \in 1..Len(children'[Here]) : children'[Here][j] = e
        BY <1>7 DEF Grown
      <4>2. PICK s \in Sup : s = Here
        BY <1>5
      <4>3. IsChild(s, p)'
        BY <1>8, <3>1, <4>1, <4>2 DEF IsChild
      <4> QED BY <4>3
    <3>2. CASE p # nextPid
      <4>1. p \in supervised \intersect Live /\ \A k1 : k1 \notin 1..Len(handler.kill)
        BY <1>4, <1>8, <1>9, <2>1, <3>2
      <4>2. PICK s \in Sup : IsChild(s, p)
        BY <4>1 DEF RunsInv, Owned
      <4>3. PICK i \in 1..Len(children[s]) : children[s][i].pid = p
        BY <4>2 DEF IsChild
      <4>4. IsChild(s, p)'
        BY <1>10, <4>3 DEF IsChild
      <4> QED BY <4>4
    <3> QED BY <3>1, <3>2
  <2> QED BY <2>1 DEF Owned
<1>15. \A s \in Sup : Answers(s)' => Answers(s)
  BY <1>9 DEF Answers
<1> QED BY <1>12, <1>13, <1>14, <1>15 DEF RunsInv

LEMMA RunsRefused ==
    ASSUME SchedulerOK, SupTypeOK, CallsInv, ListsInv, RunsInv, RespawnRefused
    PROVE  RunsInv'
<1>1. HandlerOK
  BY DEF CallsInv
<1>2. Here <= NumSup /\ handler.respawn # << >> /\ handler.kill = << >>
  BY <1>1, AfterRespawnFacts
<1>3. UNCHANGED <<children, spec, gaveUp, supervised>> /\ Live' = Live
  BY DEF RespawnRefused, Live
<1>4. refused' = [refused EXCEPT ![Here] = @ \union {Head(handler.respawn)}] /\ refused \in [Sup -> SUBSET Nat]
  BY DEF RespawnRefused, SupTypeOK
<1>5. ASSUME NEW s \in Sup, Complete(s) PROVE Complete(s)'
  <2>1. refused[s] \subseteq refused'[s] /\ (s = Here => Head(handler.respawn) \in refused'[s])
    BY <1>4
  <2>2. \A i \in 1..Len(children[s]) : \E j \in 1..Len(children'[s]) : children'[s][j] = children[s][i]
    BY <1>3
  <2> QED BY <1>1, <1>3, <1>5, <2>1, <2>2, RespawnComplete
<1>6. AwaitsLast
  BY RespawnAwaits DEF AwaitsLast
<1>7. DeadAwaited /\ NoneBorn
  BY <1>3 DEF DeadAwaited, NoneBorn
<1>8. ASSUME NEW s \in Sup, Alive(s) PROVE Alive(s)'
  BY <1>3, <1>6, <1>7, <1>8, AliveLasts DEF ListsInv
<1>9. Owned'
  <2>1. \A k : k \notin 1..Len(handler.kill)
    BY <1>2
  <2> QED BY <1>3, <1>7, <2>1, OwnedLasts DEF RunsInv
<1>10. \A s \in Sup : Answers(s)' => Answers(s)
  BY <1>3 DEF Answers
<1> QED BY <1>5, <1>8, <1>9, <1>10 DEF RunsInv

LEMMA RunsHandlersEnd ==
    ASSUME SchedulerOK, SupTypeOK, CallsInv, ListsInv, RunsInv, HandlersEnd
    PROVE  RunsInv'
<1>1. /\ UNCHANGED <<children, spec, refused, gaveUp, supervised>> /\ handler' = NoHandler
      /\ Len(frames) = handler.depth /\ ~(Here <= NumSup) /\ AtHandlers
  BY SupTyped DEF HandlersEnd, Here
<1>2. Moved
  BY ToldMoved DEF HandlersEnd, SchedulerOK
<1>3. handler.kill = << >> /\ handler.respawn = << >>
  BY <1>1 DEF CallsInv, HandlerOK, Busy
<1>4. handler'.depth = 0 /\ handler'.kill = << >> /\ handler'.respawn = << >>
  BY <1>1 DEF NoHandler
<1>5. ASSUME NEW s \in Sup, NEW p \in Pid, Awaits(s, p) PROVE Awaits(s, p)'
  <2>1. PICK i \in 1..Len(frames) : frames[i].pid = p /\ ~frames[i].told /\ HearsOf(s, i)
    BY <1>5 DEF Awaits
  <2>2. handler.depth # 0
    BY <1>1, InHandlerFacts DEF CallsInv
  <2>3. ~(Here < s) /\ Here # s
    BY <1>1, SupTyped DEF Sup, Here
  <2>4. i # Len(frames)
    BY <1>1, <2>1, <2>2, <2>3 DEF HearsOf
  <2>5. frames'[i].pid = p /\ ~frames'[i].told /\ i \in 1..Len(frames')
    BY <1>2, <2>1, <2>4 DEF Moved, Shrinks
  <2>6. HearsOf(s, i)'
    BY <1>4 DEF HearsOf
  <2> QED BY <2>5, <2>6 DEF Awaits
<1>6. DeadAwaited /\ NoneBorn
  BY <1>2 DEF DeadAwaited, NoneBorn, Moved, Same
<1>7. \A k : k \notin 1..Len(handler.kill)
  BY <1>3
<1>8. AwaitsLast
  BY <1>5 DEF AwaitsLast
<1> QED BY <1>1, <1>3, <1>4, <1>6, <1>7, <1>8, RunsQuiet

LEMMA RunsStart ==
    ASSUME SchedulerOK, SupTypeOK, CallsInv, ListsInv, RunsInv, Births, UNCHANGED <<frames, phase>>,
           phase = "idle", NEW s \in Sup, NEW sp \in Specs, Started(s, sp), spec[s] = Unstarted
    PROVE  RunsInv'
<1>1. /\ spec'[s] = sp /\ Len(children'[s]) = Len(sp.restarts)
      /\ \A i \in 1..Len(children'[s]) : children'[s][i].id = i /\ children'[s][i].pid \in Live'
      /\ \A t \in Sup : t # s => spec'[t] = spec[t] /\ children'[t] = children[t]
      /\ UNCHANGED <<gaveUp, handler, refused>>
      /\ \A p \in supervised' : p \in supervised \/ \E i \in 1..Len(children'[s]) : children'[s][i].pid = p
  BY DEF Started, ListBecomes
<1>2. AwaitsLast
  BY <1>1 DEF AwaitsLast, Awaits, HearsOf, Here, Busy
<1>3. DeadAwaited /\ NoneBorn
  BY NoneBornStill DEF DeadAwaited, Births
<1>4. ASSUME NEW t \in Sup, Answers(t)' PROVE Complete(t)' /\ Alive(t)'
  <2>1. CASE t = s
    <3>1. Alive(s)'
      BY <1>1 DEF Alive
    <3>2. \A id \in 1..Len(sp.restarts) : \E i \in 1..Len(children'[s]) : children'[s][i].id = id
      BY <1>1
    <3>3. Complete(s)'
      BY <1>1, <3>2 DEF Complete
    <3> QED BY <2>1, <3>1, <3>3
  <2>2. CASE t # s
    <3>1. Complete(t) /\ Alive(t) /\ ListOK(t) /\ children'[t] = children[t] /\ spec'[t] = spec[t]
      BY <1>1, <1>4, <2>2 DEF Answers, RunsInv, ListsInv
    <3>2. Complete(t)'
      BY <1>1, <3>1 DEF Complete, Here
    <3> QED BY <1>2, <1>3, <3>1, <3>2, AliveLasts
  <2> QED BY <2>1, <2>2
<1>5. \A k : k \notin 1..Len(handler.kill)
  <2>1. handler.kill = << >>
    <3>1. handler = NoHandler
      BY DEF CallsInv, HandlerOK
    <3> QED BY <3>1 DEF NoHandler
  <2> QED BY <2>1
<1>6. Owned'
  <2>1. ASSUME NEW p \in supervised', p \in Live' PROVE \E t \in Sup : IsChild(t, p)'
    <3>1. CASE \E i \in 1..Len(children'[s]) : children'[s][i].pid = p
      <4>1. IsChild(s, p)'
        BY <3>1 DEF IsChild
      <4> QED BY <4>1
    <3>2. CASE p \in supervised
      <4>1. p \in Live
        BY <1>3, <2>1, <3>2 DEF NoneBorn
      <4>2. PICK t \in Sup : IsChild(t, p)
        BY <1>5, <3>2, <4>1 DEF RunsInv, Owned
      <4>3. t # s
        <5>1. children[s] = << >>
          BY DEF ListsInv, ListOK
        <5>2. \A i : i \notin 1..Len(children[s])
          BY <5>1
        <5> QED BY <4>2, <5>2 DEF IsChild
      <4>4. IsChild(t, p)'
        BY <1>1, <4>2, <4>3 DEF IsChild
      <4> QED BY <4>4
    <3> QED BY <1>1, <2>1, <3>1, <3>2
  <2> QED BY <2>1 DEF Owned
<1> QED BY <1>4, <1>6 DEF RunsInv

LEMMA RunsStep ==
    ASSUME SchedulerOK, SupTypeOK, CallsInv, ListsInv, RunsInv, SupNext
    PROVE  RunsInv'
<1>1. ASSUME NEW s \in Sup, NEW sp \in Specs, StartSupervisor(s, sp) PROVE RunsInv'
  <2>1. Started(s, sp) /\ spec[s] = Unstarted
    BY <1>1, StartEffect DEF SchedulerOK, StartSupervisor
  <2>2. PICK n \in Nat : SpawnFirst(n, n)
    <3>1. sp.restarts \in Seq({"Permanent", "Transient", "Temporary"})
      BY SupervisionAssumption
    <3>2. Len(sp.restarts) \in Nat
      BY <3>1
    <3> QED BY <1>1, <3>2 DEF StartSupervisor
  <2>3. Births /\ UNCHANGED <<frames, phase>> /\ phase = "idle"
    BY <2>2, FirstBirths
  <2> QED BY <2>1, <2>3, RunsStart
<1>2. ASSUME NEW s \in Sup, NEW sp \in Specs, NEW n \in 1..Len(sp.restarts), StartFails(s, sp, n)
      PROVE  RunsInv'
  <2>1. n \in Nat /\ n - 1 \in Nat /\ n - 1 <= n
    OBVIOUS
  <2>2. SpawnFirst(n - 1, n) /\ UNCHANGED <<children, spec, supervised>>
    BY <1>2 DEF StartFails
  <2>3. Births /\ UNCHANGED <<frames, handler, gaveUp, refused>>
    BY <2>1, <2>2, FirstBirths
  <2> QED BY <2>2, <2>3, RunsStill
<1>3. CASE SchedulerStep /\ UNCHANGED supVars
  BY <1>3, RunsScheduler
<1>4. CASE HandlersBegin
  BY <1>4, RunsHandlersBegin
<1>5. CASE IgnoreExit
  BY <1>5, RunsIgnore
<1>6. CASE ForgetChild
  BY <1>6, RunsForget
<1>7. ASSUME NEW n, GiveUp(n) PROVE RunsInv'
  BY <1>7, RunsIgnore
<1>8. ASSUME NEW n, Restart(n) PROVE RunsInv'
  BY <1>8, RunsRestart
<1>9. CASE KillSibling
  BY <1>9, RunsKill
<1>10. CASE RespawnChild
  BY <1>10, RunsRespawn
<1>11. CASE RespawnRefused
  BY <1>11, RunsRefused
<1>12. CASE HandlersEnd
  BY <1>12, RunsHandlersEnd
<1>13. CASE NestedExit
  <2>1. UNCHANGED <<children, spec, refused, gaveUp, supervised, handler>>
        /\ handler.depth # 0 /\ Len(frames) > handler.depth
    BY <1>13 DEF NestedExit, supVars
  <2>2. Moved
    BY <1>13, ToldMoved DEF NestedExit, SchedulerOK
  <2> QED BY <2>1, <2>2, RunsMoved
<1> QED BY <1>1, <1>2, <1>3, <1>4, <1>5, <1>6, <1>7, <1>8, <1>9, <1>10, <1>11, <1>12, <1>13
    DEF SupNext, HandlerStep, SchedulerStep

-----------------------------------------------------------------------------
(* All steps keep the invariant.                                           *)

LEMMA TreeCalm ==
    ASSUME TypeOK, LinksTree, Calm
    PROVE  LinksTree'
<1>1. nextPid' \in Nat /\ nextPid <= nextPid'
  BY DEF TypeOK, ProcTypeOK, Calm
<1> QED BY <1>1, TreeKept DEF Calm

LEMMA TreeSpawn ==
    ASSUME TypeOK, CallOK, StackOK, LinksTree,
           \/ FlushSpawn
           \/ \E c \in HostPriorities, t \in HostTraps : HostSpawn(c, t)
    PROVE  LinksTree'
<1> USE DEF turnVars, callVars, history
<1>1. nextPid \in Pid /\ UNCHANGED fate
  <2>1. CASE FlushSpawn
    BY <2>1, SchedulerAssumption
    DEF FlushSpawn, StackOK, CallOK, TypeOK, ProcTypeOK, TurnTypeOK, Pid
  <2>2. CASE \E c \in HostPriorities, t \in HostTraps : HostSpawn(c, t)
    BY <2>2, SchedulerAssumption DEF HostSpawn, HostCall, StackOK, TypeOK, ProcTypeOK, Pid
  <2> QED BY <2>1, <2>2
<1>2. PICK c, t : NewProcess(c, t)
  BY DEF FlushSpawn, HostSpawn
<1>3. Live' = Live \union {nextPid} /\ nextPid' = nextPid + 1
  BY <1>1, <1>2, NewProcessLive DEF NewProcess, TypeOK
<1>4. nextPid \in Nat /\ nextPid' \in Nat /\ nextPid <= nextPid' /\ nextPid < nextPid'
  BY <1>1, <1>3, SchedulerAssumption DEF Pid
<1>5. CASE links' = links
  BY <1>1, <1>3, <1>4, <1>5, TreeKept
<1>6. ASSUME NEW x \in Live,
             links' = [links EXCEPT ![x] = @ \union {nextPid}, ![nextPid] = @ \union {x}]
      PROVE  LinksTree'
  BY <1>1, <1>3, <1>6, TreeLinked
<1>7. \/ links' = links
      \/ \E x \in Live : links' = [links EXCEPT ![x] = @ \union {nextPid},
                                                ![nextPid] = @ \union {x}]
  BY DEF FlushSpawn, HostSpawn, StackOK, InTurn
<1> QED BY <1>5, <1>6, <1>7

\* Monitors, notifications and returns leave the links and the living alone.
LEMMA TreeSame ==
    ASSUME TypeOK, CallOK, LinksTree,
           \/ \E w, t \in Pid : HostMonitor(w, t)
           \/ \E w, t \in Pid, r \in Ref : HostDemonitor(w, r, t)
           \/ \E q \in Pid : NotifyLink(q)
           \/ \E r \in Ref, q \in Pid : NotifyDown(r, q)
           \/ NoExitHandlers
           \/ \E b \in BOOLEAN : FinishTermination(b)
    PROVE  LinksTree'
<1>1. ASSUME Live' = Live, UNCHANGED <<links, fate, nextPid>> PROVE LinksTree'
  BY <1>1 DEF LinksTree
<1>2. CASE \/ \E w, t \in Pid : HostMonitor(w, t)
           \/ \E w, t \in Pid, r \in Ref : HostDemonitor(w, r, t)
  BY <1>1, <1>2 DEF HostMonitor, HostDemonitor, callVars, history, Live
<1>3. ASSUME NEW q \in Pid, NotifyLink(q) PROVE LinksTree'
  <2>1. Live' = Live
    BY <1>3, SendCalm DEF NotifyLink, TypeOK, Live
  <2>2. UNCHANGED <<links, fate, nextPid>>
    BY <1>3 DEF NotifyLink, TerminateFrame
  <2> QED BY <1>1, <2>1, <2>2
<1>4. ASSUME NEW r \in Ref, NEW q \in Pid, NotifyDown(r, q) PROVE LinksTree'
  <2>1. Live' = Live
    BY <1>4, SendCalm DEF NotifyDown, TypeOK
  <2>2. UNCHANGED <<links, fate, nextPid>>
    BY <1>4 DEF NotifyDown, TerminateFrame
  <2> QED BY <1>1, <2>1, <2>2
<1>5. CASE NoExitHandlers
  BY <1>1, <1>5 DEF NoExitHandlers, procVars, history, Live
<1>6. ASSUME NEW b \in BOOLEAN, FinishTermination(b) PROVE LinksTree'
  BY <1>1, <1>6 DEF FinishTermination, procVars, history, Live
<1> QED BY <1>2, <1>3, <1>4, <1>5, <1>6

LEMMA TreeNext ==
    ASSUME TypeOK, CallOK, StackOK, LinksTree, Next
    PROVE  LinksTree'
<1>1. CASE \/ StopCurrent \/ Cascade
           \/ \E p \in Pid, reason \in Reasons : HostTerminate(p, reason)
           \/ \E p \in Pid : ShutdownTerminate(p)
  <2>1. ASSUME NEW p \in Pid, NEW reason \in Reason, Remove(<< >>, p, reason) PROVE LinksTree'
    <3>1. << >> \in Seq(Frame)
      OBVIOUS
    <3>2. PICK fs \in Seq(Frame) : Remove(fs, p, reason)
      BY <2>1, <3>1
    <3> QED BY <3>2, TreeRemove
  <2>2. CASE Cascade
    <3>1. PICK fs \in Seq(Frame), p \in Pid, reason \in Reason : Remove(fs, p, reason)
      BY <2>2, CascadeFacts
    <3> QED BY <3>1, TreeRemove
  <2> QED BY <1>1, <2>1, <2>2, Removals
<1>2. CASE HostStep
  BY <1>1, <1>2, CalmHost, TreeCalm, TreeSame, TreeSpawn DEF HostStep
<1>3. CASE TickBegin \/ BridgeStep
  BY <1>3, CalmHost, TreeCalm
<1>4. CASE NoExitHandlers
  BY <1>4, TreeSame
<1>5. CASE CallStep
  BY <1>1, <1>5, CalmTick, CalmTurn, TreeCalm, TreeSpawn, TreeSame DEF CallStep
<1> QED BY <1>2, <1>3, <1>4, <1>5 DEF Next

LEMMA SchedulerNext ==
    ASSUME SchedulerOK, Next
    PROVE  SchedulerOK'
<1>1. TypeOK' /\ CallOK'
  BY TypedHostStep, TypedCallStep, TickBeginTyped, NoExitHandlersTyped, RespondTyped
  DEF Next, BridgeStep, SchedulerOK
<1>2. MonitorInv'
  BY MonitorsNext DEF SchedulerOK
<1>3. LinksTree'
  BY TreeNext DEF SchedulerOK, MonitorInv
<1> QED BY <1>1, <1>2, <1>3 DEF SchedulerOK

\* The handler's own bookkeeping is none of the scheduler's.
LEMMA SchedulerIdle ==
    ASSUME SchedulerOK, UNCHANGED vars
    PROVE  SchedulerOK'
<1>1. TypeOK' /\ CallOK'
  BY TypedStutter DEF SchedulerOK
<1>2. MonitorInv'
  BY MonitorsNext DEF SchedulerOK
<1>3. LinksTree'
  BY DEF SchedulerOK, LinksTree, vars, procVars, history, Live
<1> QED BY <1>1, <1>2, <1>3 DEF SchedulerOK

LEMMA SchedulerKept ==
    ASSUME SchedulerOK, SupTypeOK, SupNext
    PROVE  SchedulerOK'
<1>1. ASSUME NEW s \in Sup, NEW sp \in Specs,
             StartSupervisor(s, sp) \/ \E n \in 1..Len(sp.restarts) : StartFails(s, sp, n)
      PROVE  SchedulerOK'
  <2>1. Len(sp.restarts) \in Nat
    <3>1. sp.restarts \in Seq({"Permanent", "Transient", "Temporary"})
      BY SupervisionAssumption
    <3> QED BY <3>1
  <2>2. CASE StartSupervisor(s, sp)
    <3>1. PICK n \in Nat : SpawnFirst(n, n)
      BY <2>1, <2>2 DEF StartSupervisor
    <3>2. n <= n
      OBVIOUS
    <3> QED BY <3>1, <3>2, FirstSchedulerOK
  <2>3. ASSUME NEW n \in 1..Len(sp.restarts), StartFails(s, sp, n) PROVE SchedulerOK'
    <3>1. n \in Nat /\ n - 1 \in Nat /\ n - 1 <= n
      BY <2>1
    <3>2. SpawnFirst(n - 1, n)
      BY <2>3 DEF StartFails
    <3> QED BY <3>1, <3>2, FirstSchedulerOK
  <2> QED BY <1>1, <2>2, <2>3
<1>2. CASE SchedulerStep \/ NestedExit \/ HandlersEnd
  BY <1>2, SchedulerNext DEF SchedulerStep, NestedExit, HandlersEnd, Next
<1>3. CASE HandlersBegin \/ IgnoreExit \/ ForgetChild \/ \E n : GiveUp(n) \/ Restart(n)
  BY <1>3, SchedulerIdle DEF HandlersBegin, IgnoreExit, ForgetChild, GiveUp, Restart
<1>4. CASE KillSibling \/ RespawnChild \/ RespawnRefused
  BY <1>4, KillKept, RespawnKept
<1> QED BY <1>1, <1>2, <1>3, <1>4 DEF SupNext, HandlerStep, SchedulerStep

LEMMA SupInvNext ==
    ASSUME SupInv, [SupNext]_allVars
    PROVE  SupInv'
<1>1. CASE SupNext
  <2>1. SchedulerOK'
    BY <1>1, SchedulerKept DEF SupInv
  <2>2. SupTypeOK'
    <3>1. HandlerOK /\ RespawnOK
      BY DEF SupInv, CallsInv, ListsInv
    <3> QED BY <1>1, <3>1, SupTyping DEF SupInv
  <2>3. CallsInv'
    BY <1>1, CallsStep DEF SupInv
  <2>4. ListsInv'
    BY <1>1, ListsStep DEF SupInv
  <2>5. RunsInv'
    BY <1>1, RunsStep DEF SupInv
  <2> QED BY <2>1, <2>2, <2>3, <2>4, <2>5 DEF SupInv
<1>2. CASE UNCHANGED allVars
  <2>1. UNCHANGED vars /\ UNCHANGED supVars
    BY <1>2 DEF allVars
  <2>2. SchedulerOK'
    BY <2>1, SchedulerIdle DEF SupInv
  <2>3. SupTypeOK'
    BY <2>1 DEF SupInv, SupTypeOK, supVars
  <2>4. UNCHANGED <<frames, phase, nextPid, links>> /\ Live' = Live
    BY <2>1 DEF vars, procVars, callVars, Live
  <2>5. CallsInv'
    BY <2>1, <2>4 DEF SupInv, CallsInv, CallsKnown, SupervisedAreRoots, HandlerOK, NestedDescend,
                      Busy, Pends, Here, supVars
  <2>6. ListsInv'
    BY <2>1, <2>4 DEF SupInv, ListsInv, ListOK, ListsApart, KillOK, RespawnOK, IsChild, Here, supVars
  <2>7. RunsInv'
    BY <2>1, <2>4 DEF SupInv, RunsInv, Answers, Complete, Alive, Owned, Awaits, HearsOf, Busy,
                      IsChild, Here, supVars
  <2> QED BY <2>2, <2>3, <2>5, <2>6, <2>7 DEF SupInv
<1> QED BY <1>1, <1>2

LEMMA SupInvInit == SupInit => SupInv
<1> SUFFICES ASSUME SupInit PROVE SupInv
  OBVIOUS
<1>1. Init
  BY DEF SupInit
<1>2. /\ frames = << >> /\ nextPid = 1 /\ Live = {} /\ phase = "idle"
      /\ \A p \in Pid : links[p] = {} /\ fate[p] = "None"
  BY <1>1 DEF Init, Live
<1>3. SchedulerOK
  <2>1. LinksTree
    BY <1>2 DEF LinksTree
  <2> QED BY <1>1, <2>1, TypedInit, MonitorsInit DEF SchedulerOK
<1>4. /\ handler = NoHandler /\ supervised = {}
      /\ \A s \in Sup : children[s] = << >> /\ spec[s] = Unstarted
  BY DEF SupInit
<1>5. /\ handler.depth = 0 /\ handler.kill = << >> /\ handler.respawn = << >>
  BY <1>4 DEF NoHandler
<1>6. SupTypeOK
  <2>1. << >> \in Seq([id : Nat, pid : Pid])
    OBVIOUS
  <2>2. handler \in HandlerType
    BY <1>4, NoHandlerTyped
  <2>3. MaxRestarts \in Nat
    BY SupervisionAssumption
  <2>4. 0 \in 0..(MaxRestarts + 1)
    BY <2>3
  <2> QED BY <2>1, <2>2, <2>4 DEF SupInit, SupTypeOK, HandlerType
<1>7. \A i : i \notin 1..Len(frames)
  BY <1>2
<1>8. CallsInv
  BY <1>4, <1>5, <1>7 DEF CallsInv, CallsKnown, SupervisedAreRoots, HandlerOK, NestedDescend, Busy
<1>9. \A s \in Sup : \A i : i \notin 1..Len(children[s])
  BY <1>4
<1>10. \A i : i \notin 1..Len(handler.kill)
  BY <1>5
<1>11. ListsInv
  BY <1>4, <1>5, <1>9, <1>10 DEF ListsInv, ListOK, ListsApart, KillOK, RespawnOK
<1>12. RunsInv
  BY <1>4 DEF RunsInv, Answers, Owned
<1> QED BY <1>3, <1>6, <1>8, <1>11, <1>12 DEF SupInv

\* Between calls nobody is awaited, respawned or about to die.
LEMMA AccountedByInv ==
    ASSUME SupInv
    PROVE  ChildrenAccounted
<1> SUFFICES ASSUME phase = "idle" PROVE ChildrenAccounted
  BY DEF ChildrenAccounted, PermanentChildrenRun, NoOrphanedChild
<1>1. frames = << >> /\ \A i : i \notin 1..Len(frames)
  BY DEF SupInv, SchedulerOK, MonitorInv, StackOK
<1>2. handler = NoHandler
  BY DEF SupInv, CallsInv, HandlerOK
<1>3. \A k : k \notin 1..Len(handler.kill) /\ k \notin 1..Len(handler.respawn)
  BY <1>2 DEF NoHandler
<1>4. ASSUME NEW s \in Sup, spec[s] # Unstarted, ~gaveUp[s]
      PROVE  /\ \A i \in 1..Len(children[s]) : children[s][i].pid \in Live
             /\ \A i, j \in 1..Len(children[s]) : i < j => children[s][i].id < children[s][j].id
             /\ \A id \in 1..Len(spec[s].restarts) \ refused[s] : spec[s].restarts[id] = "Permanent" =>
                   \E i \in 1..Len(children[s]) : children[s][i].id = id
  <2>1. Complete(s) /\ Alive(s)
    BY <1>4 DEF SupInv, RunsInv, Answers
  <2>2. \A i \in 1..Len(children[s]) : children[s][i].pid \in Live
    BY <1>1, <2>1 DEF Alive, Awaits
  <2>3. ListOK(s)
    BY DEF SupInv, ListsInv
  <2>4. \A i, j \in 1..Len(children[s]) : i < j => children[s][i].id < children[s][j].id
    BY <2>3 DEF ListOK
  <2>5. \A id \in 1..Len(spec[s].restarts) \ refused[s] : spec[s].restarts[id] = "Permanent" =>
           \E i \in 1..Len(children[s]) : children[s][i].id = id
    BY <1>3, <2>1 DEF Complete
  <2> QED BY <2>2, <2>4, <2>5
<1>5. ASSUME NEW p \in supervised \intersect Live
      PROVE  Cardinality({s \in Sup : IsChild(s, p)}) = 1
  <2>1. PICK s \in Sup : IsChild(s, p)
    BY <1>3 DEF SupInv, RunsInv, Owned
  <2>2. ASSUME NEW t \in Sup, IsChild(t, p) PROVE t = s
    <3>1. PICK i \in 1..Len(children[s]) : children[s][i].pid = p
      BY <2>1 DEF IsChild
    <3>2. PICK j \in 1..Len(children[t]) : children[t][j].pid = p
      BY <2>2 DEF IsChild
    <3>3. ListsApart
      BY DEF SupInv, ListsInv
    <3> QED BY <3>1, <3>2, <3>3 DEF ListsApart
  <2>3. {t \in Sup : IsChild(t, p)} = {s}
    BY <2>1, <2>2
  <2> QED BY <2>3, FS_Singleton
<1> QED BY <1>4, <1>5 DEF ChildrenAccounted, PermanentChildrenRun, NoOrphanedChild

-----------------------------------------------------------------------------
(* What a step may take off a list.                                        *)

\* No live child of a OneForOne supervisor leaves its list.
Stays(s, i) == \E j \in 1..Len(children'[s]) : children'[s][j] = children[s][i]

Isolates ==
    \A s \in Sup : spec[s].strategy = "OneForOne" =>
        \A i \in 1..Len(children[s]) : children[s][i].pid \in Live => Stays(s, i)

LEMMA StaysElsewhere ==
    ASSUME NEW s \in Sup, NEW t \in Sup, t # s, ListBecomes(s, children'[s])
    PROVE  \A i \in 1..Len(children[t]) : Stays(t, i)
BY DEF ListBecomes, Stays

\* Only the entry of the dead process is left out.
LEMMA StaysBeside ==
    ASSUME SchedulerOK, CallsInv, phase = "exit", NEW s \in Sup, NEW a \in Nat,
           children[s] \in Seq(Entry), a \in 1..Len(children[s]), children[s][a].pid = Top.pid,
           LeavesOut(children'[s], children[s], a, a)
    PROVE  \A i \in 1..Len(children[s]) : children[s][i].pid \in Live => Stays(s, i)
<1> SUFFICES ASSUME NEW i \in 1..Len(children[s]), children[s][i].pid \in Live PROVE Stays(s, i)
  OBVIOUS
<1>1. Top.pid \notin Live
  BY TopDead
<1>2. i # a
  BY <1>1
<1>3. i \in Nat /\ (i < a \/ a < i)
  BY <1>2
<1> QED BY <1>3 DEF LeavesOut, Apart, Stays

LEMMA IsolatesStep ==
    ASSUME SupInv, SupNext
    PROVE  Isolates
<1> USE DEF SupInv
<1>1. ASSUME children' = children PROVE Isolates
  BY <1>1 DEF Isolates, Stays
<1>2. ASSUME NEW s \in Sup, NEW sp \in Specs, StartSupervisor(s, sp) PROVE Isolates
  <2>1. ListBecomes(s, children'[s])
    BY <1>2, StartEffect DEF Started, SchedulerOK
  <2>2. spec[s].strategy # "OneForOne"
    BY <1>2 DEF StartSupervisor, Unstarted
  <2> QED BY <2>1, <2>2, StaysElsewhere DEF Isolates
<1>3. CASE ForgetChild
  <2>1. PICK i \in Nat : Forgotten(i)
    BY <1>3, ForgetEffect
  <2>2. phase = "exit" /\ Here \in Sup /\ children[Here] \in Seq(Entry)
    BY <1>3, HereTyped DEF ForgetChild, InHandler, AtHandlers, Here
  <2>3. \A k \in 1..Len(children[Here]) : children[Here][k].pid \in Live => Stays(Here, k)
    BY <2>1, <2>2, StaysBeside DEF Forgotten
  <2> QED BY <2>1, <2>2, <2>3, StaysElsewhere DEF Isolates, Forgotten
<1>4. ASSUME NEW n, Restart(n) PROVE Isolates
  <2>1. PICK i \in Nat, a \in Nat, b \in Nat : Restarted(i, a, b)
    BY <1>4, RestartEffect
  <2>2. phase = "exit" /\ Here \in Sup /\ children[Here] \in Seq(Entry)
    BY <1>4, HereTyped DEF Restart, RestartCounted, InHandler, AtHandlers, Here
  <2>3. ASSUME spec[Here].strategy = "OneForOne"
        PROVE  \A k \in 1..Len(children[Here]) : children[Here][k].pid \in Live => Stays(Here, k)
    <3>1. a = i /\ b = i
      BY <2>1, <2>3 DEF Restarted
    <3>2. LeavesOut(children'[Here], children[Here], i, i)
      BY <2>1, <3>1 DEF Restarted
    <3> QED BY <2>1, <2>2, <3>2, StaysBeside DEF Restarted
  <2>4. \A t \in Sup : t # Here => \A k \in 1..Len(children[t]) : Stays(t, k)
    BY <2>1, <2>2, StaysElsewhere DEF Restarted
  <2> QED BY <2>3, <2>4 DEF Isolates
<1>5. CASE RespawnChild
  <2>1. PICK k \in Nat : Replaced(k)
    BY <1>5, RespawnEffect DEF CallsInv, ListsInv
  <2>2. Here <= NumSup
    BY <1>5 DEF RespawnChild, ToRespawn, CallsInv, HandlerOK, Busy
  <2>3. Here \in Sup /\ children[Here] \in Seq(Entry)
    BY <2>2, HereTyped
  <2>4. PICK n \in Nat : n = Len(children[Here])
    BY <2>3
  <2>5. Grown(children'[Here], children[Here], k, NewChild(Head(handler.respawn)))
    BY <2>1, <2>4, LongerGrown DEF Replaced
  <2>6. \A i \in 1..Len(children[Here]) : Stays(Here, i)
    BY <2>5 DEF Grown, Stays
  <2> QED BY <2>1, <2>3, <2>6, StaysElsewhere DEF Isolates, Replaced
<1>6. CASE \/ SchedulerStep /\ UNCHANGED supVars
           \/ \E s \in Sup, sp \in Specs : \E n \in 1..Len(sp.restarts) : StartFails(s, sp, n)
           \/ HandlersBegin \/ NestedExit \/ IgnoreExit \/ \E n : GiveUp(n)
           \/ KillSibling \/ RespawnRefused \/ HandlersEnd
  BY <1>1, <1>6 DEF StartFails, HandlersBegin, NestedExit, IgnoreExit, GiveUp, KillSibling,
                    RespawnRefused, HandlersEnd, supVars
<1> QED BY <1>2, <1>3, <1>4, <1>5, <1>6 DEF SupNext, HandlerStep, SchedulerStep

-----------------------------------------------------------------------------
(***************************************************************************)
(* Supervisors of agent_rt/supervision.rs: whatever the processes beside   *)
(* them do, however many restarts are allowed and however deep the calls   *)
(* of terminate_process() made by a handler go, when the outermost call    *)
(* returns every Permanent child of a supervisor that has not given up     *)
(* runs, or was refused by its init, and no child runs on nobody's list.   *)
(***************************************************************************)
THEOREM ChildrenKept == SupSpec => []ChildrenAccounted
<1>1. SupInit => SupInv
  BY SupInvInit
<1>2. SupInv /\ [SupNext]_allVars => SupInv'
  BY SupInvNext
<1>3. SupInv => ChildrenAccounted
  BY AccountedByInv
<1> QED BY <1>1, <1>2, <1>3, PTL DEF SupSpec

(***************************************************************************)
(* restart_one() of agent_rt/supervision.rs: no step, of the handlers or   *)
(* of anybody else, takes a live child off the list of a OneForOne         *)
(* supervisor.                                                             *)
(***************************************************************************)
THEOREM SiblingsLeftAlone == SupSpec => OneForOneIsolates
<1>1. SupInit => SupInv
  BY SupInvInit
<1>2. SupInv /\ [SupNext]_allVars => SupInv'
  BY SupInvNext
<1>3. SupInv /\ [SupNext]_allVars => [Isolates]_allVars
  BY IsolatesStep
<1> QED BY <1>1, <1>2, <1>3, PTL DEF SupSpec, OneForOneIsolates, Isolates, Stays
=============================================================================
