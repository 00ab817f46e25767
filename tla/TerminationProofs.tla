------------------------- MODULE TerminationProofs -------------------------
(***************************************************************************)
(* What terminate_process() (agent_rt/scheduler.rs) does for the others:   *)
(* the monitors of the dead process are dissolved with one DOWN each, and  *)
(* its exit signal reaches every linked process exactly once, through any  *)
(* recursion.                                                              *)
(***************************************************************************)
EXTENDS AgentSchedulerProofs, SequenceTheorems

-----------------------------------------------------------------------------
(* The inductive invariants.                                               *)

\* Only the innermost call still notifies; the process of a turn is alive.
StackOK ==
    /\ phase # "exit" => frames = << >>
    /\ \A i \in 1..(Len(frames) - 1) : frames[i].links = {} /\ frames[i].downs = {}
    /\ InTurn => cur \in Live

\* A watcher of the process being terminated that still waits for its DOWN.
Owed(r, w) == frames # << >> /\ <<r, w>> \in Top.downs

\* The two sides of a monitor, or the one left and the DOWN that is owed.
SidesAgree ==
    /\ \A w, t \in Pid, r \in Ref :
          <<r, w>> \in monitoredBy[t] => w \in Live /\ t \in Live /\ <<r, t>> \in monitors[w]
    /\ \A w, t \in Pid, r \in Ref :
          <<r, t>> \in monitors[w] =>
             w \in Live /\ (<<r, w>> \in monitoredBy[t] \/ (Owed(r, w) /\ t = Top.pid))
    /\ \A w \in Pid, r \in Ref : Owed(r, w) => Top.pid \notin Live

\* A reference belongs to one monitor.
RefsUnique ==
    /\ \A r \in Ref, w, v, t, u \in Pid :
          <<r, t>> \in monitors[w] /\ <<r, u>> \in monitors[v] => w = v /\ t = u
    /\ \A r \in Ref, w, v, t \in Pid :
          Owed(r, w) /\ <<r, t>> \in monitors[v] => w = v /\ t = Top.pid
    /\ \A r \in Ref, w, v \in Pid : Owed(r, w) /\ Owed(r, v) => w = v

\* The life of a reference: unused, active or owed, and then void or answered.
InUse(r) == ActiveRef(r) \/ \E w \in Pid : Owed(r, w)

RefsLive ==
    \A r \in Ref :
        /\ r >= nextRef => ~InUse(r) /\ r \notin void /\ downSent[r] = 0
        /\ r < nextRef => InUse(r) \/ r \in void \/ downSent[r] = 1
        /\ r \in void => ~InUse(r) /\ downSent[r] = 0
        /\ downSent[r] \in {0, 1}
        /\ downSent[r] = 1 => ~InUse(r)

MonitorInv == StackOK /\ SidesAgree /\ RefsUnique /\ RefsLive

(***************************************************************************)
(* Links come from spawning alone: a process has at most one linked        *)
(* process older than itself, its parent, in its own list and among those  *)
(* that list it (a dead child stays in its parent's list).                 *)
(***************************************************************************)
LinksTree ==
    /\ \A p \in Pid : p >= nextPid => p \notin Live /\ fate[p] = "None"
    /\ \A p \in Live : fate[p] = "None"
    /\ \A p \in Pid : p \notin Live => links[p] = {}
    /\ \A p \in Pid : \A q \in links[p] : q < nextPid /\ q # p
    /\ \A p, q \in Live : q \in links[p] => p \in links[q]
    /\ \A p \in Pid : \A q, o \in links[p] : q < p /\ o < p => q = o
    /\ \A p, q, o \in Pid : p \in links[q] /\ p \in links[o] /\ q < p /\ o < p => q = o

\* Processes a call has still to notify or to take along.
Pends(f, q) == q \in f.links \/ \E k \in 1..Len(f.cascade) : f.cascade[k] = q

(***************************************************************************)
(* The open calls climb from child to parent and then descend: a parent is *)
(* pending only where the oldest process of the stack died.                *)
(***************************************************************************)
StackClimbs ==
    /\ \A i \in 1..Len(frames) : frames[i].pid \notin Live
    /\ \A i, j \in 1..Len(frames) : frames[i].pid = frames[j].pid => i = j
    /\ \A i \in 1..Len(frames) : \A q \in Live : Pends(frames[i], q) => frames[i].pid \in links[q]
    /\ \A i, j \in 1..Len(frames) : \A q \in Live :
          Pends(frames[i], q) /\ q < frames[i].pid => frames[i].pid <= frames[j].pid

\* A cascade lists the living, each once, and nobody still to be notified.
CleanFrame(f) ==
    \A k \in 1..Len(f.cascade) :
        /\ f.cascade[k] \in Live /\ f.cascade[k] \notin f.links
        /\ \A l \in 1..Len(f.cascade) : f.cascade[k] = f.cascade[l] => k = l

CascadesClean == \A i \in 1..Len(frames) : CleanFrame(frames[i])

\* Whoever must die with an abnormally dead process is pending there.
SignalsUnderway ==
    \A p \in Live : \A q \in links[p] :
        fate[q] \in {"Shutdown", "Custom"} /\ ~trapExit[p] =>
            \E i \in 1..Len(frames) :
                frames[i].pid = q /\ frames[i].reason # "Normal" /\ Pends(frames[i], p)

ExitInv == LinksTree /\ StackClimbs /\ CascadesClean /\ SignalsUnderway

-----------------------------------------------------------------------------
(* Steps that leave links, monitors and open terminations alone.           *)

Calm ==
    /\ UNCHANGED <<nextRef, links, monitors, monitoredBy, frames, fate, downSent, void, trapExit>>
    /\ Live' = Live /\ nextPid' \in {nextPid, nextPid + 1}
    /\ phase' = "exit" <=> phase = "exit"
    /\ InTurn' => cur' \in Live

\* Nobody dies and nobody is born by being sent a message.
LEMMA SendCalm ==
    ASSUME ProcTypeOK, NEW p \in Pid, NEW m, Send(p, m) \/ (p \in Live /\ DeliverAndWake(p, m))
    PROVE  Live' = Live
<1>1. CASE status' = status
  BY <1>1 DEF Live
<1>2. CASE status[p] = "Waiting" /\ status' = [status EXCEPT ![p] = "Runnable"]
  BY <1>2 DEF ProcTypeOK, Live
<1> QED BY <1>1, <1>2 DEF Send, DeliverAndWake

\* The host's calls and the bridge worker.
LEMMA CalmHost ==
    ASSUME TypeOK, CallOK, StackOK,
           \/ \E p \in Pid : HostSend(p) \/ HostSetReceiveTimeout(p) \/ HostEnqueue(p)
           \/ HostShutdown \/ DrainOutbound \/ TickBegin \/ BridgeStep
    PROVE  Calm
<1> USE DEF procVars, turnVars, callVars, history, Calm, InTurn
<1>1. ASSUME NEW p \in Pid, HostSend(p) PROVE Calm
  <2>1. Live' = Live
    BY <1>1, SendCalm DEF HostSend, TypeOK
  <2> QED BY <1>1, <2>1 DEF HostSend, SendFrame, HostCall
<1>2. ASSUME NEW p \in Pid, HostSetReceiveTimeout(p) \/ HostEnqueue(p) PROVE Calm
  BY <1>2 DEF HostSetReceiveTimeout, HostEnqueue, HostCall, Live
<1>3. CASE HostShutdown \/ DrainOutbound \/ TickBegin
  BY <1>3 DEF HostShutdown, DrainOutbound, TickBegin, HostCall, Live
<1>4. CASE BridgeStep
  <2>1. UNCHANGED <<procVars, turnVars, callVars, history>>
    BY <1>4 DEF BridgeStep, Respond
  <2> QED BY <2>1 DEF Live, StackOK
<1> QED BY <1>1, <1>2, <1>3, <1>4

\* tick() up to the turn, and graceful_shutdown().
LEMMA CalmTick ==
    ASSUME TypeOK, CallOK, StackOK,
           \/ DeliverResponse \/ ResponsesDrained \/ RetriesDone \/ TimeoutsFired
           \/ \E b \in BOOLEAN : RetryDestroy(b)
           \/ \E S \in SUBSET Pid : CollectTimeouts(S)
           \/ \E p \in Pid : FireTimeout(p)
           \/ SelectRunnable \/ SkipStaleEntry \/ NothingToRun
           \/ BridgeClosed \/ ShutdownDone
           \/ \E p \in Pid : ShutdownSkip(p)
    PROVE  Calm
<1> USE DEF procVars, turnVars, callVars, history, Calm, InTurn
<1>1. CASE DeliverResponse
  <2>1. Head(inbox) \in Pid
    BY <1>1 DEF DeliverResponse, TypeOK, BridgeTypeOK
  <2>2. Live' = Live
    BY <1>1, <2>1, SendCalm DEF DeliverResponse, TypeOK
  <2> QED BY <1>1, <2>2 DEF DeliverResponse, SendFrame
<1>2. ASSUME NEW p \in Pid, FireTimeout(p) PROVE Calm
  <2>1. Live' = Live
    BY <1>2, SendCalm DEF FireTimeout, TypeOK
  <2> QED BY <1>2, <2>1 DEF FireTimeout, SendFrame
<1>3. CASE \/ ResponsesDrained \/ RetriesDone \/ TimeoutsFired \/ BridgeClosed \/ ShutdownDone
           \/ SkipStaleEntry \/ NothingToRun
  BY <1>3
  DEF ResponsesDrained, RetriesDone, TimeoutsFired, BridgeClosed, ShutdownDone,
      SkipStaleEntry, NothingToRun, Live
<1>4. CASE \/ \E b \in BOOLEAN : RetryDestroy(b)
           \/ \E S \in SUBSET Pid : CollectTimeouts(S)
           \/ \E p \in Pid : ShutdownSkip(p)
  BY <1>4 DEF RetryDestroy, CollectTimeouts, ShutdownSkip, Live
<1>5. CASE SelectRunnable
  <2>1. Candidate \in Pid
    BY <1>5, TakeCandidateType DEF SelectRunnable, TypeOK, QueueTypeOK
  <2> QED BY <1>5, <2>1 DEF SelectRunnable, Live
<1> QED BY <1>1, <1>2, <1>3, <1>4, <1>5

\* A turn, its births and its end by Stop apart.
LEMMA CalmTurn ==
    ASSUME TypeOK, CallOK, StackOK,
           \/ OutOfReductions \/ MailboxEmpty \/ HandleContinue
           \/ \E p \in Pid : HandleSend(p)
           \/ \E k \in {"Stop", "Panic"}, reason \in Reasons : HandleStop(k, reason)
           \/ \E b \in BOOLEAN : HandleIo(b)
           \/ \E l, m \in BOOLEAN : HandleSpawn(l, m)
           \/ FlushSend \/ FlushSpawnRefused \/ NotifySpawn \/ AdmitSpawn \/ TickEnd
    PROVE  Calm
<1> USE DEF procVars, turnVars, callVars, history, Calm, InTurn
<1>0. cur \in Live /\ cur \in Pid
  BY DEF StackOK, Live, OutOfReductions, MailboxEmpty, HandleContinue, HandleSend, HandleStop, HandleIo,
         HandleSpawn, Handle, FlushSend, FlushSpawnRefused, NotifySpawn, AdmitSpawn, TickEnd
<1>1. CASE MailboxEmpty \/ \E b \in BOOLEAN : HandleIo(b)
  <2>1. status' = status \/ status' = [status EXCEPT ![cur] = "Waiting"]
    BY <1>1 DEF MailboxEmpty, HandleIo
  <2>2. Live' = Live
    BY <1>0, <2>1 DEF Live, TypeOK, ProcTypeOK
  <2> QED BY <1>0, <1>1, <2>2 DEF MailboxEmpty, HandleIo, Handle, HandleFrame
<1>2. CASE \/ HandleContinue
           \/ \E p \in Pid : HandleSend(p)
           \/ \E k \in {"Stop", "Panic"}, reason \in Reasons : HandleStop(k, reason)
           \/ \E l, m \in BOOLEAN : HandleSpawn(l, m)
  BY <1>0, <1>2 DEF HandleContinue, HandleSend, HandleStop, HandleSpawn, Handle, HandleFrame, Live
<1>3. CASE OutOfReductions \/ FlushSpawnRefused \/ AdmitSpawn \/ TickEnd
  BY <1>0, <1>3 DEF OutOfReductions, FlushSpawnRefused, AdmitSpawn, TickEnd, Live
<1>4. CASE FlushSend
  <2> DEFINE D == Pid \X Msg
  <2>1. sends \in Seq(D) /\ sends # << >>
    BY <1>4 DEF FlushSend, TypeOK, TurnTypeOK
  <2>2. Head(sends) \in D
    <3> HIDE DEF D
    <3> QED BY <2>1
  <2>3. Live' = Live
    BY <1>4, <2>2, SendCalm DEF FlushSend, TypeOK
  <2> QED BY <1>0, <1>4, <2>3 DEF FlushSend, SendFrame
<1>5. CASE NotifySpawn
  <2>1. Live' = Live
    BY <1>0, <1>5, SendCalm DEF NotifySpawn, TypeOK
  <2> QED BY <1>0, <1>5, <2>1 DEF NotifySpawn, SendFrame
<1> QED BY <1>1, <1>2, <1>3, <1>4, <1>5

-----------------------------------------------------------------------------
(* What the other steps do to the registry and to the open calls.          *)

\* registry.spawn adds one process.
LEMMA NewProcessLive ==
    ASSUME ProcTypeOK, nextPid \in Pid, NEW c, NEW t, NewProcess(c, t)
    PROVE  Live' = Live \union {nextPid}
  BY DEF NewProcess, ProcTypeOK, Live, Status

\* The frame on top after a frame was pushed.
LEMMA PushedTop ==
    ASSUME NEW fs \in Seq(Frame), NEW f \in Frame, frames' = Append(fs, f)
    PROVE  /\ frames' \in Seq(Frame) /\ Len(frames') = Len(fs) + 1 /\ Len(fs) \in Nat
           /\ frames' # << >> /\ Top' = f
           /\ \A i \in 1..Len(fs) : frames'[i] = fs[i]
           /\ frames'[Len(fs) + 1] = f
  BY DEF Top

\* What lies below the top.
LEMMA BelowFacts ==
    ASSUME CallTypeOK, frames # << >>
    PROVE  /\ Top \in Frame /\ Below \in Seq(Frame)
           /\ Len(frames) \in Nat \ {0} /\ Len(Below) = Len(frames) - 1
           /\ \A i \in 1..(Len(frames) - 1) : Below[i] = frames[i]
           /\ Top = frames[Len(frames)]
<1>1. frames \in Seq(Frame) /\ Len(frames) \in Nat \ {0}
  BY DEF CallTypeOK
<1>2. 1 \in Int /\ Len(frames) - 1 \in Int /\ \A i \in 1..(Len(frames) - 1) : frames[i] \in Frame
  BY <1>1
<1>3. /\ Len(Below) = IF 1 <= Len(frames) - 1 THEN Len(frames) - 1 - 1 + 1 ELSE 0
      /\ \A i \in 1..(Len(frames) - 1 - 1 + 1) : Below[i] = frames[1 + i - 1]
  BY <1>2, SubSeqProperties DEF Below
<1>4. Len(Below) = Len(frames) - 1
  <2>1. ASSUME NEW n \in Nat \ {0}
        PROVE  (IF 1 <= n - 1 THEN n - 1 - 1 + 1 ELSE 0) = n - 1
    OBVIOUS
  <2> QED BY <1>1, <1>3, <2>1
<1>5. ASSUME NEW i \in 1..(Len(frames) - 1) PROVE Below[i] = frames[i]
  <2>1. i \in 1..(Len(frames) - 1 - 1 + 1) /\ 1 + i - 1 = i
    BY <1>1
  <2> QED BY <1>3, <2>1
<1> QED BY <1>1, <1>4, <1>5, TopType DEF Top

\* terminate_process() up to the notifications.
LEMMA RemoveFacts ==
    ASSUME TypeOK, NEW fs \in Seq(Frame), NEW p \in Pid, NEW reason \in Reason,
           Remove(fs, p, reason)
    PROVE  /\ Live' = Live \ {p} /\ phase' = "exit" /\ UNCHANGED <<nextPid, nextRef, downSent>>
           /\ monitors'[p] = {} /\ \A q \in Pid \ {p} : monitors'[q] = monitors[q]
           /\ links'[p] = {} /\ \A q \in Pid \ {p} : links'[q] = links[q]
           /\ monitoredBy' = Purged(p)
           /\ void' = void \union {r \in Ref : \E t \in Pid \ {p} : <<r, t>> \in monitors[p]}
           /\ \A q \in Pid \ {p} : fate'[q] = fate[q]
           /\ p \in Live => fate'[p] = reason
           /\ p \notin Live => fate'[p] = fate[p]
           /\ Len(fs) \in Nat /\ Len(frames') = Len(fs) + 1 /\ frames' # << >>
           /\ \A i \in 1..Len(fs) : frames'[i] = fs[i]
           /\ frames'[Len(fs) + 1] = Top'
           /\ Top'.pid = p /\ Top'.reason = reason /\ Top'.links = links[p]
           /\ Top'.downs = monitoredBy[p] /\ Top'.cascade = << >>
<1> DEFINE f == [pid |-> p, reason |-> reason, links |-> links[p], downs |-> monitoredBy[p],
                 cascade |-> << >>, told |-> FALSE]
<1>1. f \in Frame
  BY DEF TypeOK, ProcTypeOK, Frame
<1>2. frames' = Append(fs, f)
  BY DEF Remove
<1>3. Live' = Live \ {p}
  BY DEF Remove, TypeOK, ProcTypeOK, Live
<1>4. /\ monitors'[p] = {} /\ \A q \in Pid \ {p} : monitors'[q] = monitors[q]
      /\ links'[p] = {} /\ \A q \in Pid \ {p} : links'[q] = links[q]
  BY DEF Remove, TypeOK, ProcTypeOK
<1>5. /\ \A q \in Pid \ {p} : fate'[q] = fate[q]
      /\ p \in Live => fate'[p] = reason
      /\ p \notin Live => fate'[p] = fate[p]
  BY DEF Remove, TypeOK, HistoryTypeOK
<1>6. /\ Len(fs) \in Nat /\ Len(frames') = Len(fs) + 1 /\ frames' # << >>
      /\ \A i \in 1..Len(fs) : frames'[i] = fs[i]
      /\ frames'[Len(fs) + 1] = f /\ Top' = f
  <2> HIDE DEF f
  <2> QED BY <1>1, <1>2, PushedTop
<1>7. /\ Top'.pid = p /\ Top'.reason = reason /\ Top'.links = links[p]
      /\ Top'.downs = monitoredBy[p] /\ Top'.cascade = << >>
  BY <1>6
<1> HIDE DEF f
<1> QED BY <1>3, <1>4, <1>5, <1>6, <1>7 DEF Remove

\* What a death writes into the history of fates.
FateIs(p, reason) ==
    /\ \A q \in Pid \ {p} : fate'[q] = fate[q]
    /\ p \in Live => fate'[p] = reason
    /\ p \notin Live => fate'[p] = fate[p]

LEMMA RemoveFate ==
    ASSUME TypeOK, NEW fs \in Seq(Frame), NEW p \in Pid, NEW reason \in Reason, Remove(fs, p, reason)
    PROVE  FateIs(p, reason)
  BY RemoveFacts DEF FateIs

\* The process a call of terminate_process() is for, and the calls it is in.
LEMMA Removals ==
    ASSUME TypeOK, CallOK, StackOK,
           \/ StopCurrent \/ Cascade
           \/ \E p \in Pid, reason \in Reasons : HostTerminate(p, reason)
           \/ \E p \in Pid : ShutdownTerminate(p)
    PROVE  \/ \E p \in Pid, reason \in Reason : frames = << >> /\ Remove(<< >>, p, reason)
           \/ Cascade
<1>1. CASE StopCurrent
  <2>1. cur \in Pid /\ frames = << >> /\ stop \in Reason
    BY <1>1 DEF StopCurrent, CallOK, InTurn, StackOK, TypeOK, TurnTypeOK
  <2> QED BY <1>1, <2>1 DEF StopCurrent
<1>2. CASE \E p \in Pid, reason \in Reasons : HostTerminate(p, reason)
  BY <1>2, SchedulerAssumption DEF HostTerminate, HostCall, StackOK
<1>3. CASE \E p \in Pid : ShutdownTerminate(p)
  BY <1>3 DEF ShutdownTerminate, StackOK, Reason
<1> QED BY <1>1, <1>2, <1>3

\* The recursive call.
LEMMA CascadeFacts ==
    ASSUME TypeOK, CallOK, Cascade
    PROVE  /\ frames # << >> /\ Top.links = {} /\ Top.downs = {} /\ Top.cascade # << >>
           /\ Head(Top.cascade) \in Pid /\ Top.reason \in Reason
           /\ Append(Below, [Top EXCEPT !.cascade = Tail(@)]) \in Seq(Frame)
           /\ Remove(Append(Below, [Top EXCEPT !.cascade = Tail(@)]), Head(Top.cascade), Top.reason)
<1>1. frames # << >>
  BY DEF Cascade, CallOK
<1>2. Top \in Frame /\ Below \in Seq(Frame)
  BY <1>1, TopType DEF TypeOK
<1>3. Top.cascade \in Seq(Pid) /\ Top.cascade # << >>
  BY <1>2 DEF Cascade, Frame
<1>4. [Top EXCEPT !.cascade = Tail(@)] \in Frame
  <2>1. Tail(Top.cascade) \in Seq(Pid)
    BY <1>3
  <2> QED BY <1>2, <2>1 DEF Frame
<1>5. Head(Top.cascade) \in Pid /\ Top.reason \in Reason
  BY <1>2, <1>3 DEF Frame
<1> QED BY <1>1, <1>2, <1>4, <1>5 DEF Cascade, Notified

-----------------------------------------------------------------------------
(* Monitors.                                                               *)

\* What no frame and no table changes keeps the monitors as they are.
LEMMA MonitorsCalm ==
    ASSUME MonitorInv, Calm
    PROVE  MonitorInv'
<1>1. \A r, w : Owed(r, w)' <=> Owed(r, w)
  BY DEF Calm, Owed, Top
<1>2. Top' = Top
  BY DEF Calm, Top
<1>3. StackOK'
  BY DEF Calm, MonitorInv, StackOK
<1>4. SidesAgree'
  BY <1>1, <1>2 DEF Calm, MonitorInv, SidesAgree
<1>5. RefsUnique'
  BY <1>1, <1>2 DEF Calm, MonitorInv, RefsUnique
<1>6. \A r \in Ref : InUse(r)' <=> InUse(r)
  BY <1>1 DEF Calm, InUse, ActiveRef
<1>7. RefsLive'
  BY <1>6 DEF Calm, MonitorInv, RefsLive
<1> QED BY <1>3, <1>4, <1>5, <1>7 DEF MonitorInv

\* monitor(), by the host or for a spawned child: the reference is new.
LEMMA MonitorsAdd ==
    ASSUME TypeOK, SidesAgree, RefsUnique, RefsLive, frames = << >>,
           NEW w \in Pid, NEW t \in Pid, AddMonitor(w, t),
           w \in Live', t \in Live', Live \subseteq Live',
           UNCHANGED <<frames, downSent, void>>
    PROVE  SidesAgree' /\ RefsUnique' /\ RefsLive'
<1>0. nextRef \in Ref /\ nextRef' = nextRef + 1
  BY SchedulerAssumption DEF AddMonitor, TypeOK, ProcTypeOK, Ref
<1>1. \A r, x : ~Owed(r, x) /\ ~Owed(r, x)'
  BY DEF Owed
<1>2. \A x, u \in Pid, r \in Ref :
         /\ <<r, u>> \in monitors'[x] <=> <<r, u>> \in monitors[x] \/ (r = nextRef /\ u = t /\ x = w)
         /\ <<r, x>> \in monitoredBy'[u] <=>
               <<r, x>> \in monitoredBy[u] \/ (r = nextRef /\ u = t /\ x = w)
  BY DEF AddMonitor, TypeOK, ProcTypeOK
<1>3. \A x, u \in Pid : <<nextRef, u>> \notin monitors[x]
  BY <1>0 DEF RefsLive, InUse, ActiveRef, Ref
<1>4. SidesAgree'
  BY <1>1, <1>2 DEF SidesAgree
<1>5. RefsUnique'
  <2>1. ASSUME NEW r \in Ref, NEW x \in Pid, NEW v \in Pid, NEW s \in Pid, NEW u \in Pid,
               <<r, s>> \in monitors'[x], <<r, u>> \in monitors'[v]
        PROVE  x = v /\ s = u
    <3>1. CASE r = nextRef
      <4>1. <<r, s>> \notin monitors[x] /\ <<r, u>> \notin monitors[v]
        BY <1>3, <3>1
      <4>2. s = t /\ x = w
        BY <1>2, <2>1, <4>1
      <4>3. u = t /\ v = w
        BY <1>2, <2>1, <4>1
      <4> QED BY <4>2, <4>3
    <3>2. CASE r # nextRef
      <4>1. <<r, s>> \in monitors[x] /\ <<r, u>> \in monitors[v]
        BY <1>2, <2>1, <3>2
      <4> QED BY <4>1 DEF RefsUnique
    <3> QED BY <3>1, <3>2
  <2> QED BY <1>1, <2>1 DEF RefsUnique
<1>6. ASSUME NEW r \in Ref
      PROVE  InUse(r)' <=> InUse(r) \/ r = nextRef
  BY <1>1, <1>2 DEF InUse, ActiveRef
<1>7. RefsLive'
  BY <1>0, <1>6 DEF RefsLive, Ref
<1> QED BY <1>4, <1>5, <1>7

\* demonitor() removes both sides.
LEMMA MonitorsDrop ==
    ASSUME TypeOK, MonitorInv, NEW w \in Pid, NEW r \in Ref, NEW t \in Pid, HostDemonitor(w, r, t)
    PROVE  MonitorInv'
<1> USE DEF turnVars, callVars
<1>0. frames = << >> /\ UNCHANGED <<frames, status, phase, cur, nextRef, downSent>>
      /\ ~InTurn /\ void' = void \union {r} /\ <<r, t>> \in monitors[w]
  BY DEF HostDemonitor, HostCall, MonitorInv, StackOK, InTurn
<1>1. \A s, x : ~Owed(s, x) /\ ~Owed(s, x)'
  BY <1>0 DEF Owed
<1>2. \A x, u \in Pid, s \in Ref :
         /\ <<s, u>> \in monitors'[x] <=> <<s, u>> \in monitors[x] /\ ~(s = r /\ u = t /\ x = w)
         /\ <<s, x>> \in monitoredBy'[u] <=>
               <<s, x>> \in monitoredBy[u] /\ ~(s = r /\ u = t /\ x = w)
  BY DEF HostDemonitor, TypeOK, ProcTypeOK
<1>3. \A x, u \in Pid : <<r, u>> \notin monitors'[x]
  BY <1>0, <1>2 DEF MonitorInv, RefsUnique
<1>4. SidesAgree'
  BY <1>0, <1>1, <1>2 DEF MonitorInv, SidesAgree, Live
<1>5. RefsUnique'
  <2>1. \A x, u \in Pid, s \in Ref : <<s, u>> \in monitors'[x] => <<s, u>> \in monitors[x]
    BY <1>2
  <2>2. RefsUnique
    BY DEF MonitorInv
  <2> QED BY <1>1, <2>1, <2>2 DEF RefsUnique
<1>6. InUse(r) /\ ~InUse(r)'
  BY <1>0, <1>1, <1>3 DEF InUse, ActiveRef
<1>7. ASSUME NEW s \in Ref, s # r
      PROVE  InUse(s)' <=> InUse(s)
  BY <1>1, <1>2, <1>7 DEF InUse, ActiveRef
<1>8. RefsLive'
  BY <1>0, <1>6, <1>7 DEF MonitorInv, RefsLive
<1>9. StackOK'
  BY <1>0 DEF MonitorInv, StackOK, InTurn
<1> QED BY <1>4, <1>5, <1>8, <1>9 DEF MonitorInv

\* terminate_process() dissolves the monitors of the process on both sides;
\* its watchers move into the frame.
LEMMA MonitorsRemove ==
    ASSUME TypeOK, SidesAgree, RefsUnique, RefsLive, \A r, w : ~Owed(r, w),
           NEW fs \in Seq(Frame), \A i \in 1..Len(fs) : fs[i].links = {} /\ fs[i].downs = {},
           NEW p \in Pid, NEW reason \in Reason, Remove(fs, p, reason)
    PROVE  MonitorInv'
<1>0. /\ Live' = Live \ {p} /\ phase' = "exit" /\ UNCHANGED <<nextRef, downSent>>
      /\ monitors'[p] = {} /\ \A q \in Pid \ {p} : monitors'[q] = monitors[q]
      /\ monitoredBy' = Purged(p)
      /\ void' = void \union {r \in Ref : \E t \in Pid \ {p} : <<r, t>> \in monitors[p]}
      /\ Len(fs) \in Nat /\ Len(frames') = Len(fs) + 1 /\ frames' # << >>
      /\ \A i \in 1..Len(fs) : frames'[i] = fs[i]
      /\ Top'.pid = p /\ Top'.downs = monitoredBy[p]
  BY RemoveFacts
<1>1. \A r, w : Owed(r, w)' <=> <<r, w>> \in monitoredBy[p]
  BY <1>0 DEF Owed
<1>2. \A w, t \in Pid, r \in Ref :
         <<r, w>> \in monitoredBy'[t] <=>
            t # p /\ <<r, w>> \in monitoredBy[t] /\ ~(w = p /\ <<r, t>> \in monitors[p])
  BY <1>0 DEF Purged
<1>3. \A w, t \in Pid, r \in Ref : <<r, t>> \in monitors'[w] <=> <<r, t>> \in monitors[w] /\ w # p
  BY <1>0
<1>4. StackOK'
  <2>1. ASSUME NEW i \in 1..(Len(frames') - 1)
        PROVE  frames'[i].links = {} /\ frames'[i].downs = {}
    BY <1>0
  <2> QED BY <1>0, <2>1 DEF StackOK, InTurn
<1>5. SidesAgree'
  <2>1. ASSUME NEW w \in Pid, NEW t \in Pid, NEW r \in Ref, <<r, w>> \in monitoredBy'[t]
        PROVE  w \in Live' /\ t \in Live' /\ <<r, t>> \in monitors'[w]
    BY <1>0, <1>2, <1>3, <2>1 DEF SidesAgree
  <2>2. ASSUME NEW w \in Pid, NEW t \in Pid, NEW r \in Ref, <<r, t>> \in monitors'[w]
        PROVE  w \in Live' /\ (<<r, w>> \in monitoredBy'[t] \/ (Owed(r, w)' /\ t = Top'.pid))
    <3>1. <<r, t>> \in monitors[w] /\ w # p /\ w \in Live /\ <<r, w>> \in monitoredBy[t]
      BY <1>3, <2>2 DEF SidesAgree
    <3> QED BY <1>0, <1>1, <1>2, <3>1
  <2> QED BY <1>0, <2>1, <2>2 DEF SidesAgree
<1>6. RefsUnique'
  <2>1. ASSUME NEW r \in Ref, NEW x \in Pid, NEW v \in Pid, NEW s \in Pid, NEW u \in Pid,
               <<r, s>> \in monitors'[x], <<r, u>> \in monitors'[v]
        PROVE  x = v /\ s = u
    BY <1>3, <2>1 DEF RefsUnique
  <2>2. ASSUME NEW r \in Ref, NEW x \in Pid, NEW v \in Pid, NEW u \in Pid,
               Owed(r, x)', <<r, u>> \in monitors'[v]
        PROVE  x = v /\ u = Top'.pid
    <3>1. <<r, p>> \in monitors[x] /\ <<r, u>> \in monitors[v]
      BY <1>1, <1>3, <2>2 DEF SidesAgree
    <3> QED BY <1>0, <3>1 DEF RefsUnique
  <2>3. ASSUME NEW r \in Ref, NEW x \in Pid, NEW v \in Pid, Owed(r, x)', Owed(r, v)'
        PROVE  x = v
    <3>1. <<r, p>> \in monitors[x] /\ <<r, p>> \in monitors[v]
      BY <1>1, <2>3 DEF SidesAgree
    <3> QED BY <3>1 DEF RefsUnique
  <2> QED BY <2>1, <2>2, <2>3 DEF RefsUnique
<1>7. ASSUME NEW r \in Ref
      PROVE  /\ InUse(r)' => InUse(r) /\ ~(\E t \in Pid \ {p} : <<r, t>> \in monitors[p])
             /\ InUse(r) => InUse(r)' \/ \E t \in Pid \ {p} : <<r, t>> \in monitors[p]
  <2>1. ASSUME NEW w \in Pid, NEW t \in Pid, <<r, t>> \in monitors'[w]
        PROVE  InUse(r) /\ \A u \in Pid : <<r, u>> \notin monitors[p]
    BY <1>3, <2>1 DEF InUse, ActiveRef, RefsUnique
  <2>2. ASSUME NEW w \in Pid, Owed(r, w)'
        PROVE  InUse(r) /\ \A u \in Pid \ {p} : <<r, u>> \notin monitors[p]
    <3>1. <<r, p>> \in monitors[w]
      BY <1>1, <2>2 DEF SidesAgree
    <3> QED BY <3>1 DEF InUse, ActiveRef, RefsUnique
  <2>3. ASSUME NEW w \in Pid, NEW t \in Pid, <<r, t>> \in monitors[w]
        PROVE  InUse(r)' \/ \E u \in Pid \ {p} : <<r, u>> \in monitors[p]
    <3>1. CASE w # p
      BY <1>3, <2>3, <3>1 DEF InUse, ActiveRef
    <3>2. CASE w = p /\ t = p
      <4>1. <<r, p>> \in monitoredBy[p]
        BY <2>3, <3>2 DEF SidesAgree
      <4> QED BY <1>1, <4>1 DEF InUse
    <3> QED BY <2>3, <3>1, <3>2
  <2> QED BY <2>1, <2>2, <2>3 DEF InUse, ActiveRef
<1>8. RefsLive'
  <2> SUFFICES ASSUME NEW r \in Ref
               PROVE  /\ r >= nextRef' => ~InUse(r)' /\ r \notin void' /\ downSent'[r] = 0
                      /\ r < nextRef' => InUse(r)' \/ r \in void' \/ downSent'[r] = 1
                      /\ r \in void' => ~InUse(r)' /\ downSent'[r] = 0
                      /\ downSent'[r] \in {0, 1}
                      /\ downSent'[r] = 1 => ~InUse(r)'
    BY DEF RefsLive
  <2> DEFINE Left == \E t \in Pid \ {p} : <<r, t>> \in monitors[p]
  <2>1. r \in void' <=> r \in void \/ Left
    BY <1>0
  <2>2. Left => InUse(r)
    BY DEF InUse, ActiveRef
  <2>3. (InUse(r)' => InUse(r) /\ ~Left) /\ (InUse(r) => InUse(r)' \/ Left)
    BY <1>7
  <2> HIDE DEF Left
  <2> QED BY <1>0, <2>1, <2>2, <2>3 DEF RefsLive
<1> QED BY <1>4, <1>5, <1>6, <1>8 DEF MonitorInv

\* The top frame moves on without its downs.
LEMMA MonitorsFrame ==
    ASSUME TypeOK, MonitorInv, frames # << >>, NEW f \in Frame, frames' = Append(Below, f),
           f.pid = Top.pid, f.downs = Top.downs, phase' = "exit", Live' = Live,
           UNCHANGED <<monitors, monitoredBy, nextRef, downSent, void>>
    PROVE  MonitorInv'
<1>0. /\ Len(Below) = Len(frames) - 1 /\ Len(frames) \in Nat \ {0}
      /\ \A i \in 1..(Len(frames) - 1) : Below[i] = frames[i]
      /\ Len(frames') = Len(Below) + 1 /\ frames' # << >> /\ Top' = f
      /\ \A i \in 1..Len(Below) : frames'[i] = Below[i]
  BY BelowFacts, PushedTop DEF TypeOK
<1>1. \A r, w : Owed(r, w)' <=> Owed(r, w)
  BY <1>0 DEF Owed
<1>2. Top'.pid = Top.pid
  BY <1>0
<1>3. StackOK'
  <2>1. \A i \in 1..(Len(frames') - 1) : frames'[i] = frames[i] /\ i \in 1..(Len(frames) - 1)
    BY <1>0
  <2> QED BY <1>0, <2>1 DEF MonitorInv, StackOK, InTurn
<1>4. SidesAgree'
  BY <1>1, <1>2 DEF MonitorInv, SidesAgree
<1>5. RefsUnique'
  BY <1>1, <1>2 DEF MonitorInv, RefsUnique
<1>6. \A r \in Ref : InUse(r)' <=> InUse(r)
  BY <1>1 DEF InUse, ActiveRef
<1>7. RefsLive'
  BY <1>6 DEF MonitorInv, RefsLive
<1> QED BY <1>3, <1>4, <1>5, <1>7 DEF MonitorInv

\* The notifications of links, and the exit handlers.
LEMMA MonitorsLink ==
    ASSUME TypeOK, CallOK, MonitorInv, (\E q \in Pid : NotifyLink(q)) \/ NoExitHandlers
    PROVE  MonitorInv'
<1>0. frames # << >> /\ Top \in Frame
  BY TopType DEF CallOK, NotifyLink, NoExitHandlers, AtHandlers, TypeOK
<1>1. ASSUME NEW q \in Pid, NotifyLink(q) PROVE MonitorInv'
  <2> DEFINE f == [Top EXCEPT !.links = @ \ {q}, !.cascade = IF TakenAlong(q) THEN Append(@, q) ELSE @]
  <2>1. frames' = Append(Below, f)
    BY <1>1 DEF NotifyLink
  <2>2. f \in Frame /\ f.pid = Top.pid /\ f.downs = Top.downs
    <3>1. (IF TakenAlong(q) THEN Append(Top.cascade, q) ELSE Top.cascade) \in Seq(Pid)
      BY <1>0 DEF Frame
    <3> QED BY <1>0, <3>1 DEF Frame
  <2>3. Live' = Live
    BY <1>1, SendCalm DEF NotifyLink, TypeOK, Live
  <2>4. phase' = "exit" /\ UNCHANGED <<monitors, monitoredBy, nextRef, downSent, void>>
    BY <1>1 DEF NotifyLink, TerminateFrame
  <2> HIDE DEF f
  <2> QED BY <1>0, <2>1, <2>2, <2>3, <2>4, MonitorsFrame
<1>2. CASE NoExitHandlers
  <2> DEFINE f == [Top EXCEPT !.told = TRUE]
  <2>1. frames' = Append(Below, f) /\ phase' = "exit"
    BY <1>2 DEF NoExitHandlers, AtHandlers
  <2>2. f \in Frame /\ f.pid = Top.pid /\ f.downs = Top.downs
    BY <1>0 DEF Frame
  <2>3. Live' = Live /\ UNCHANGED <<monitors, monitoredBy, nextRef, downSent, void>>
    BY <1>2 DEF NoExitHandlers, Live, procVars, history
  <2> HIDE DEF f
  <2> QED BY <1>0, <2>1, <2>2, <2>3, MonitorsFrame
<1> QED BY <1>1, <1>2

\* A watcher gets its DOWN, which was owed: the reference is answered.
LEMMA MonitorsDown ==
    ASSUME TypeOK, CallOK, MonitorInv, NEW r \in Ref, NEW q \in Pid, NotifyDown(r, q)
    PROVE  MonitorInv'
<1> DEFINE f == [Top EXCEPT !.downs = @ \ {<<r, q>>}]
<1>0. frames # << >> /\ Top \in Frame /\ Top.pid \in Pid /\ Owed(r, q)
  BY TopType DEF CallOK, NotifyDown, TypeOK, Frame, Owed
<1>1. f \in Frame /\ f.pid = Top.pid /\ f.downs = Top.downs \ {<<r, q>>}
  BY <1>0 DEF Frame
<1>2. frames' = Append(Below, f) /\ phase' = "exit" /\ UNCHANGED <<monitoredBy, nextRef, void>>
  BY DEF NotifyDown, TerminateFrame
<1>3. Live' = Live
  BY SendCalm DEF NotifyDown, TypeOK
<1>4. \A w, t \in Pid, s \in Ref :
         <<s, t>> \in monitors'[w] <=> <<s, t>> \in monitors[w] /\ ~(s = r /\ t = Top.pid /\ w = q)
  BY DEF NotifyDown, TypeOK, ProcTypeOK
<1>5. downSent'[r] = downSent[r] + 1 /\ \A s \in Ref \ {r} : downSent'[s] = downSent[s]
  BY DEF NotifyDown, TypeOK, HistoryTypeOK
<1> HIDE DEF f
<1>6. /\ Len(Below) = Len(frames) - 1 /\ Len(frames) \in Nat \ {0}
      /\ \A i \in 1..(Len(frames) - 1) : Below[i] = frames[i]
      /\ Len(frames') = Len(Below) + 1 /\ frames' # << >> /\ Top' = f
      /\ \A i \in 1..Len(Below) : frames'[i] = Below[i]
  BY <1>0, <1>1, <1>2, BelowFacts, PushedTop DEF TypeOK
<1>7. \A s, w : Owed(s, w)' <=> Owed(s, w) /\ ~(s = r /\ w = q)
  BY <1>0, <1>1, <1>6 DEF Owed
<1>8. Top'.pid = Top.pid
  BY <1>1, <1>6
<1>9. StackOK'
  <2>1. \A i \in 1..(Len(frames') - 1) : frames'[i] = frames[i] /\ i \in 1..(Len(frames) - 1)
    BY <1>6
  <2> QED BY <1>2, <2>1 DEF MonitorInv, StackOK, InTurn
<1>10. SidesAgree'
  <2>1. <<r, q>> \notin monitoredBy[Top.pid]
    BY <1>0 DEF MonitorInv, SidesAgree
  <2>2. ASSUME NEW w \in Pid, NEW t \in Pid, NEW s \in Ref, <<s, w>> \in monitoredBy'[t]
        PROVE  w \in Live' /\ t \in Live' /\ <<s, t>> \in monitors'[w]
    BY <1>2, <1>3, <1>4, <2>1, <2>2 DEF MonitorInv, SidesAgree
  <2>3. ASSUME NEW w \in Pid, NEW t \in Pid, NEW s \in Ref, <<s, t>> \in monitors'[w]
        PROVE  w \in Live' /\ (<<s, w>> \in monitoredBy'[t] \/ (Owed(s, w)' /\ t = Top'.pid))
    BY <1>2, <1>3, <1>4, <1>7, <1>8, <2>3 DEF MonitorInv, SidesAgree
  <2> QED BY <1>3, <1>7, <1>8, <2>2, <2>3 DEF MonitorInv, SidesAgree
<1>11. RefsUnique'
  BY <1>4, <1>7, <1>8 DEF MonitorInv, RefsUnique
<1>12. InUse(r) /\ ~InUse(r)'
  <2>1. \A w \in Pid : ~Owed(r, w)'
    BY <1>0, <1>7 DEF MonitorInv, RefsUnique
  <2>2. \A w, t \in Pid : <<r, t>> \notin monitors'[w]
    BY <1>0, <1>4 DEF MonitorInv, RefsUnique
  <2> QED BY <1>0, <2>1, <2>2 DEF InUse, ActiveRef
<1>13. ASSUME NEW s \in Ref, s # r PROVE InUse(s)' <=> InUse(s)
  BY <1>4, <1>7, <1>13 DEF InUse, ActiveRef
<1>14. RefsLive'
  BY <1>2, <1>5, <1>12, <1>13 DEF MonitorInv, RefsLive
<1> QED BY <1>9, <1>10, <1>11, <1>14 DEF MonitorInv

\* A call returns, with every DOWN sent.
LEMMA MonitorsFinish ==
    ASSUME TypeOK, CallOK, MonitorInv, NEW b \in BOOLEAN, FinishTermination(b)
    PROVE  MonitorInv'
<1>0. /\ frames # << >> /\ Top.downs = {} /\ frames' = Below
      /\ phase' # "exit" => Below = << >>
  BY DEF CallOK, FinishTermination, Notified
<1>1. Live' = Live /\ UNCHANGED <<monitors, monitoredBy, nextRef, downSent, void, cur>>
  BY DEF FinishTermination, Live, procVars, history, turnVars
<1>2. /\ Len(Below) = Len(frames) - 1 /\ Len(frames) \in Nat \ {0} /\ Below \in Seq(Frame)
      /\ \A i \in 1..(Len(frames) - 1) : Below[i] = frames[i]
  BY <1>0, BelowFacts DEF TypeOK
<1>3. \A r, w : ~Owed(r, w) /\ ~Owed(r, w)'
  <2>1. ASSUME Below # << >> PROVE Top'.downs = {}
    <3>1. Len(Below) \in 1..(Len(frames) - 1) /\ Top' = Below[Len(Below)]
      BY <1>0, <1>2, <2>1 DEF Top
    <3> QED BY <1>2, <3>1 DEF MonitorInv, StackOK
  <2> QED BY <1>0, <2>1 DEF Owed
<1>4. StackOK'
  <2>1. \A i \in 1..(Len(frames') - 1) : frames'[i] = frames[i] /\ i \in 1..(Len(frames) - 1)
    BY <1>0, <1>2
  <2>2. ~InTurn'
    BY DEF FinishTermination, InTurn
  <2> QED BY <1>0, <2>1, <2>2 DEF MonitorInv, StackOK
<1>5. SidesAgree'
  BY <1>1, <1>3 DEF MonitorInv, SidesAgree
<1>6. RefsUnique'
  BY <1>1, <1>3 DEF MonitorInv, RefsUnique
<1>7. \A r \in Ref : InUse(r)' <=> InUse(r)
  BY <1>1, <1>3 DEF InUse, ActiveRef
<1>8. RefsLive'
  BY <1>1, <1>7 DEF MonitorInv, RefsLive
<1> QED BY <1>4, <1>5, <1>6, <1>8 DEF MonitorInv


\* A birth without a monitor.
LEMMA MonitorsBirth ==
    ASSUME SidesAgree, RefsUnique, RefsLive, \A r, w : ~Owed(r, w), Live \subseteq Live',
           UNCHANGED <<monitors, monitoredBy, nextRef, frames, downSent, void>>
    PROVE  SidesAgree' /\ RefsUnique' /\ RefsLive'
<1>1. \A r, w : ~Owed(r, w) /\ ~Owed(r, w)'
  BY DEF Owed, Top
<1>2. SidesAgree'
  BY <1>1 DEF SidesAgree
<1>3. RefsUnique'
  BY <1>1 DEF RefsUnique
<1>4. \A r \in Ref : InUse(r)' <=> InUse(r)
  BY <1>1 DEF InUse, ActiveRef
<1>5. RefsLive'
  BY <1>4 DEF RefsLive
<1> QED BY <1>2, <1>3, <1>5

\* The steps that make a process or a monitor.
LEMMA MonitorsSpawn ==
    ASSUME TypeOK, CallOK, MonitorInv,
           \/ FlushSpawn
           \/ \E c \in HostPriorities, t \in HostTraps : HostSpawn(c, t)
           \/ \E w, t \in Pid : HostMonitor(w, t)
    PROVE  MonitorInv'
<1> USE DEF turnVars, callVars, history
<1>1. CASE FlushSpawn
  <2>0. /\ frames = << >> /\ UNCHANGED <<frames, downSent, void>>
        /\ cur \in Live /\ cur \in Pid /\ cur' = cur /\ phase' = "spawned"
    BY <1>1 DEF FlushSpawn, MonitorInv, StackOK, InTurn, CallOK
  <2>1. nextPid \in Pid
    BY <1>1, SchedulerAssumption DEF FlushSpawn, CallOK, TypeOK, ProcTypeOK, TurnTypeOK, Pid
  <2>2. Live' = Live \union {nextPid}
    BY <1>1, <2>1, NewProcessLive DEF FlushSpawn, TypeOK
  <2>3. SidesAgree' /\ RefsUnique' /\ RefsLive'
    <3>1. CASE Head(spawns).monitor
      <4>1. AddMonitor(cur, nextPid)
        BY <1>1, <3>1 DEF FlushSpawn
      <4> QED BY <2>0, <2>1, <2>2, <4>1, MonitorsAdd DEF MonitorInv
    <3>2. CASE ~Head(spawns).monitor
      <4>1. UNCHANGED <<monitors, monitoredBy, nextRef>>
        BY <1>1, <3>2 DEF FlushSpawn
      <4> QED BY <2>0, <2>2, <4>1, MonitorsBirth DEF MonitorInv, Owed
    <3> QED BY <3>1, <3>2
  <2>4. StackOK'
    BY <2>0, <2>2 DEF StackOK
  <2> QED BY <2>3, <2>4 DEF MonitorInv
<1>2. ASSUME NEW c \in HostPriorities, NEW t \in HostTraps, HostSpawn(c, t)
      PROVE  MonitorInv'
  <2>0. /\ frames = << >> /\ phase' = "idle" /\ nextPid \in Pid
        /\ UNCHANGED <<monitors, monitoredBy, nextRef, frames, downSent, void>>
    BY <1>2, SchedulerAssumption
    DEF HostSpawn, HostCall, MonitorInv, StackOK, TypeOK, ProcTypeOK, Pid
  <2>1. Live' = Live \union {nextPid}
    BY <1>2, <2>0, NewProcessLive DEF HostSpawn, TypeOK
  <2>2. SidesAgree' /\ RefsUnique' /\ RefsLive'
    BY <2>0, <2>1, MonitorsBirth DEF MonitorInv, Owed
  <2>3. StackOK'
    BY <2>0 DEF StackOK, InTurn
  <2> QED BY <2>2, <2>3 DEF MonitorInv
<1>3. ASSUME NEW w \in Pid, NEW t \in Pid, HostMonitor(w, t)
      PROVE  MonitorInv'
  <2>0. /\ frames = << >> /\ phase' = "idle" /\ Live' = Live /\ w \in Live /\ t \in Live
        /\ AddMonitor(w, t) /\ UNCHANGED <<frames, downSent, void>>
    BY <1>3 DEF HostMonitor, HostCall, MonitorInv, StackOK, Live
  <2>1. SidesAgree' /\ RefsUnique' /\ RefsLive'
    BY <2>0, MonitorsAdd DEF MonitorInv
  <2>2. StackOK'
    BY <2>0 DEF StackOK, InTurn
  <2> QED BY <2>1, <2>2 DEF MonitorInv
<1> QED BY <1>1, <1>2, <1>3

\* Every call of terminate_process(), the recursive ones too.
LEMMA MonitorsTerminate ==
    ASSUME TypeOK, CallOK, MonitorInv,
           \/ StopCurrent \/ Cascade
           \/ \E p \in Pid, reason \in Reasons : HostTerminate(p, reason)
           \/ \E p \in Pid : ShutdownTerminate(p)
    PROVE  MonitorInv'
<1>1. ASSUME NEW p \in Pid, NEW reason \in Reason, frames = << >>, Remove(<< >>, p, reason)
      PROVE  MonitorInv'
  <2>1. << >> \in Seq(Frame) /\ \A i \in 1..Len(<< >>) : << >>[i].links = {} /\ << >>[i].downs = {}
    OBVIOUS
  <2>2. \A r, w : ~Owed(r, w)
    BY <1>1 DEF Owed
  <2> QED BY <1>1, <2>1, <2>2, MonitorsRemove DEF MonitorInv
<1>2. CASE Cascade
  <2> DEFINE f == [Top EXCEPT !.cascade = Tail(@)]
             fs == Append(Below, f)
  <2>1. /\ frames # << >> /\ Top.links = {} /\ Top.downs = {}
        /\ Head(Top.cascade) \in Pid /\ Top.reason \in Reason
        /\ fs \in Seq(Frame) /\ Remove(fs, Head(Top.cascade), Top.reason)
    BY <1>2, CascadeFacts
  <2>2. f.links = {} /\ f.downs = {}
    BY <2>1, TopType DEF TypeOK, Frame
  <2>3. \A i \in 1..Len(fs) : fs[i].links = {} /\ fs[i].downs = {}
    <3>1. /\ Below \in Seq(Frame) /\ Len(Below) = Len(frames) - 1
          /\ \A i \in 1..(Len(frames) - 1) : Below[i] = frames[i]
      BY <2>1, BelowFacts DEF TypeOK
    <3>2. \A i \in 1..Len(Below) : Below[i].links = {} /\ Below[i].downs = {}
      BY <3>1 DEF MonitorInv, StackOK
    <3> HIDE DEF f
    <3> QED BY <2>2, <3>1, <3>2
  <2>4. \A r, w : ~Owed(r, w)
    BY <2>1 DEF Owed
  <2> HIDE DEF fs
  <2> QED BY <2>1, <2>3, <2>4, MonitorsRemove DEF MonitorInv
<1>3. StackOK
  BY DEF MonitorInv
<1> QED BY <1>1, <1>2, <1>3, Removals

\* Nothing else disturbs a monitor.
LEMMA MonitorsNext ==
    ASSUME TypeOK, CallOK, MonitorInv, [Next]_vars
    PROVE  MonitorInv'
<1>0. StackOK
  BY DEF MonitorInv
<1>1. CASE HostStep
  BY <1>0, <1>1, CalmHost, MonitorsCalm, MonitorsDrop, MonitorsSpawn, MonitorsTerminate DEF HostStep
<1>2. CASE TickBegin \/ BridgeStep
  BY <1>0, <1>2, CalmHost, MonitorsCalm
<1>3. CASE NoExitHandlers
  BY <1>3, MonitorsLink
<1>4. CASE CallStep
  BY <1>0, <1>4, CalmTick, CalmTurn, MonitorsCalm, MonitorsSpawn, MonitorsTerminate,
     MonitorsLink, MonitorsDown, MonitorsFinish DEF CallStep
<1>5. CASE UNCHANGED vars
  <2>1. Calm
    BY <1>0, <1>5 DEF vars, procVars, callVars, turnVars, history, Calm, StackOK, Live, InTurn
  <2> QED BY <2>1, MonitorsCalm
<1> QED BY <1>1, <1>2, <1>3, <1>4, <1>5 DEF Next

\* The inductive invariant gives what the runs check.
LEMMA MonitorsKeptByInv ==
    ASSUME TypeOK, MonitorInv
    PROVE  MonitorsKept
<1>1. \A r \in Ref, w \in Pid : Owed(r, w) => OwedDown(r, w, Top.pid)
  <2>1. frames # << >> => Len(frames) \in 1..Len(frames) /\ Top = frames[Len(frames)]
    BY BelowFacts DEF TypeOK
  <2> QED BY <2>1 DEF Owed, OwedDown
<1>2. MonitorsAgree
  BY <1>1 DEF MonitorInv, SidesAgree, MonitorsAgree
<1>3. ASSUME phase = "idle", NEW r \in Ref
      PROVE  InUse(r) <=> ActiveRef(r)
  BY <1>3 DEF MonitorInv, StackOK, InUse, Owed
<1>4. \A r \in 1..(nextRef - 1) : r \in Ref /\ r < nextRef
  BY SchedulerAssumption DEF TypeOK, ProcTypeOK, Ref
<1>5. \A r \in Ref : downSent[r] <= 1
  BY DEF MonitorInv, RefsLive
<1>6. ASSUME phase = "idle", NEW r \in 1..(nextRef - 1)
      PROVE  /\ ActiveRef(r) \/ r \in void \/ downSent[r] = 1
             /\ ~(ActiveRef(r) /\ (r \in void \/ downSent[r] = 1))
             /\ ~(r \in void /\ downSent[r] = 1)
  BY <1>3, <1>4, <1>6 DEF MonitorInv, RefsLive
<1> QED BY <1>2, <1>5, <1>6 DEF MonitorsKept, DownExactlyOnce

\* Nothing is monitored at the start.
LEMMA MonitorsInit == Init => MonitorInv
<1>1. ASSUME Init PROVE \A r, w : ~Owed(r, w)
  BY <1>1 DEF Init, Owed
<1>2. ASSUME Init PROVE \A r \in Ref : ~InUse(r)
  BY <1>1, <1>2 DEF Init, InUse, ActiveRef
<1>3. ASSUME Init PROVE StackOK
  BY <1>3 DEF Init, StackOK, InTurn
<1>4. ASSUME Init PROVE SidesAgree /\ RefsUnique
  <2>1. \A p \in Pid : monitors[p] = {} /\ monitoredBy[p] = {}
    BY <1>4 DEF Init
  <2> QED BY <1>1, <1>4, <2>1 DEF SidesAgree, RefsUnique
<1>5. ASSUME Init PROVE RefsLive
  <2>1. nextRef = 1 /\ void = {} /\ \A r \in Ref : downSent[r] = 0
    BY <1>5 DEF Init
  <2>2. \A r \in Ref : ~(r < 1)
    BY SchedulerAssumption DEF Ref
  <2> QED BY <1>2, <1>5, <2>1, <2>2 DEF RefsLive
<1> QED BY <1>3, <1>4, <1>5 DEF MonitorInv

(***************************************************************************)
(* Monitors in scheduler.rs, registry.rs and process.rs: whatever the      *)
(* order of monitor(), demonitor(), spawns with a monitor and deaths of    *)
(* either side, the two tables agree up to the DOWNs a termination in      *)
(* progress still owes, and every reference handed out is answered by one  *)
(* DOWN at the most and is never lost.                                     *)
(***************************************************************************)
THEOREM MonitorsHold == Spec => []MonitorsKept
<1>1. Init => MonitorInv
  BY MonitorsInit
<1>2. TypeOK /\ CallOK /\ MonitorInv /\ [Next]_vars => MonitorInv'
  BY MonitorsNext
<1>3. TypeOK /\ MonitorInv => MonitorsKept
  BY MonitorsKeptByInv
<1> QED BY <1>1, <1>2, <1>3, TypeCorrect, PTL DEF Spec


-----------------------------------------------------------------------------
(* Exit signals.                                                           *)

\* Births without links leave the forest as it is.
LEMMA TreeKept ==
    ASSUME TypeOK, LinksTree, UNCHANGED <<links, fate>>, nextPid' \in Nat, nextPid <= nextPid',
           Live \subseteq Live', \A p \in Live' \ Live : nextPid <= p /\ p < nextPid'
    PROVE  LinksTree'
<1>0. nextPid \in Nat /\ \A p \in Pid : p \in Nat
  BY SchedulerAssumption DEF TypeOK, ProcTypeOK, Pid
<1>1. \A p \in Pid : links[p] \subseteq Pid
  BY DEF TypeOK, ProcTypeOK
<1>2. \A p \in Live' : p \in Pid
  BY DEF Live
<1>3. ASSUME NEW p \in Pid, p >= nextPid' PROVE p \notin Live' /\ fate'[p] = "None"
  <2>1. p >= nextPid /\ ~(p < nextPid')
    BY <1>0, <1>3
  <2> QED BY <2>1 DEF LinksTree
<1>4. \A p \in Live' : fate'[p] = "None"
  BY <1>2 DEF LinksTree
<1>5. \A p \in Pid : p \notin Live' => links'[p] = {}
  BY DEF LinksTree
<1>6. \A p \in Pid : \A q \in links'[p] : q < nextPid' /\ q # p
  <2>1. \A q \in Pid : q < nextPid => q < nextPid'
    BY <1>0
  <2> QED BY <1>1, <2>1 DEF LinksTree
<1>7. ASSUME NEW p \in Live', NEW q \in Live', q \in links'[p] PROVE p \in links'[q]
  <2>1. p \in Pid /\ q \in Pid /\ p \in Nat /\ q \in Nat
    BY <1>0, <1>2
  <2>2. q < nextPid
    BY <1>7, <2>1 DEF LinksTree
  <2>3. q \in Live /\ p \in Live
    <3>1. q \in Live
      BY <1>0, <2>1, <2>2
    <3>2. p \notin Live => links[p] = {}
      BY <2>1 DEF LinksTree
    <3> QED BY <1>7, <3>1, <3>2
  <2> QED BY <1>7, <2>3 DEF LinksTree
<1>8. /\ \A p \in Pid : \A q, o \in links'[p] : q < p /\ o < p => q = o
      /\ \A p, q, o \in Pid : p \in links'[q] /\ p \in links'[o] /\ q < p /\ o < p => q = o
  BY DEF LinksTree
<1> QED BY <1>3, <1>4, <1>5, <1>6, <1>7, <1>8 DEF LinksTree

\* A step that changes neither the links nor the open calls.
LEMMA ExitCalm ==
    ASSUME TypeOK, ExitInv, Calm
    PROVE  ExitInv'
<1>1. nextPid' \in Nat /\ nextPid <= nextPid'
  BY DEF TypeOK, ProcTypeOK, Calm
<1>2. LinksTree'
  BY <1>1, TreeKept DEF ExitInv, Calm
<1>3. StackClimbs' /\ CascadesClean' /\ SignalsUnderway'
  BY DEF Calm, ExitInv, StackClimbs, CascadesClean, CleanFrame, SignalsUnderway, Pends
<1> QED BY <1>2, <1>3 DEF ExitInv

\* No living process is pending in two calls: they would both be for its
\* parent, or both for the oldest process of the stack.
LEMMA PendingOnce ==
    ASSUME TypeOK, LinksTree, StackClimbs, NEW q \in Live,
           NEW i \in 1..Len(frames), NEW j \in 1..Len(frames),
           Pends(frames[i], q), Pends(frames[j], q)
    PROVE  i = j
<1> DEFINE a == frames[i].pid
           b == frames[j].pid
<1>1. a \in links[q] /\ b \in links[q]
  BY DEF StackClimbs
<1>2. q \in Pid /\ q \in Int /\ a \in Int /\ b \in Int /\ a # q /\ b # q
  BY <1>1, SchedulerAssumption DEF Live, TypeOK, ProcTypeOK, Pid, LinksTree
<1>3. a < q /\ b < q => a = b
  BY <1>1, <1>2 DEF LinksTree
<1>4. (q < a => a <= b) /\ (q < b => b <= a)
  BY DEF StackClimbs
<1>5. a = b
  <2> HIDE DEF a, b
  <2> QED BY <1>2, <1>3, <1>4
<1> QED BY <1>5 DEF StackClimbs

\* The innermost call moves on: it drops someone it need not take along.
LEMMA ExitTop ==
    ASSUME TypeOK, ExitInv, frames # << >>, NEW f \in Frame, frames' = Append(Below, f),
           f.pid = Top.pid, f.reason = Top.reason, Live' = Live,
           UNCHANGED <<links, fate, trapExit, nextPid>>,
           \A q \in Live : Pends(f, q) => Pends(Top, q),
           \A q \in Live : Pends(Top, q) /\ ~trapExit[q] /\ Top.reason # "Normal" => Pends(f, q),
           CleanFrame(f)
    PROVE  ExitInv'
<1>0. /\ Len(frames) \in Nat \ {0} /\ Len(frames') = Len(frames)
      /\ \A i \in 1..Len(frames) : i # Len(frames) => frames'[i] = frames[i]
      /\ frames'[Len(frames)] = f /\ Top = frames[Len(frames)]
  <2>1. /\ Below \in Seq(Frame)
        /\ Len(frames) \in Nat \ {0} /\ Len(Below) = Len(frames) - 1
        /\ \A i \in 1..(Len(frames) - 1) : Below[i] = frames[i]
        /\ Top = frames[Len(frames)]
    BY BelowFacts DEF TypeOK
  <2>2. /\ Len(frames') = Len(Below) + 1
        /\ \A i \in 1..Len(Below) : frames'[i] = Below[i]
        /\ frames'[Len(Below) + 1] = f
    BY <2>1, PushedTop
  <2> QED BY <2>1, <2>2
<1>1. \A i \in 1..Len(frames) :
         /\ frames'[i].pid = frames[i].pid /\ frames'[i].reason = frames[i].reason
         /\ \A q \in Live : Pends(frames'[i], q) => Pends(frames[i], q)
         /\ \A q \in Live : Pends(frames[i], q) /\ ~trapExit[q] /\ frames[i].reason # "Normal" =>
                            Pends(frames'[i], q)
  BY <1>0
<1>2. LinksTree'
  BY DEF ExitInv, LinksTree
<1>3. StackClimbs'
  <2>1. \A i \in 1..Len(frames') : frames'[i].pid \notin Live'
    BY <1>0, <1>1 DEF ExitInv, StackClimbs
  <2>2. \A i, j \in 1..Len(frames') : frames'[i].pid = frames'[j].pid => i = j
    BY <1>0, <1>1 DEF ExitInv, StackClimbs
  <2>3. ASSUME NEW i \in 1..Len(frames'), NEW q \in Live', Pends(frames'[i], q)
        PROVE  frames'[i].pid \in links'[q]
    BY <1>0, <1>1, <2>3 DEF ExitInv, StackClimbs
  <2>4. ASSUME NEW i \in 1..Len(frames'), NEW j \in 1..Len(frames'), NEW q \in Live',
               Pends(frames'[i], q), q < frames'[i].pid
        PROVE  frames'[i].pid <= frames'[j].pid
    BY <1>0, <1>1, <2>4 DEF ExitInv, StackClimbs
  <2>5. \A i \in 1..Len(frames'), q \in Live' : Pends(frames[i], q)' <=> Pends(frames'[i], q)
    BY DEF Pends
  <2> QED BY <2>1, <2>2, <2>3, <2>4, <2>5 DEF StackClimbs
<1>4. CascadesClean'
  <2>1. \A i \in 1..Len(frames') : CleanFrame(frames[i])' <=> CleanFrame(frames'[i])
    BY DEF CleanFrame
  <2>2. \A i \in 1..Len(frames') : CleanFrame(frames'[i])
    BY <1>0 DEF ExitInv, CascadesClean
  <2> QED BY <2>1, <2>2 DEF CascadesClean
<1>5. SignalsUnderway'
  <2>1. ASSUME NEW p \in Live', NEW q \in links'[p], fate'[q] \in {"Shutdown", "Custom"}, ~trapExit'[p]
        PROVE  \E i \in 1..Len(frames') :
                  frames'[i].pid = q /\ frames'[i].reason # "Normal" /\ Pends(frames[i], p)'
    <3>1. PICK i \in 1..Len(frames) :
                  frames[i].pid = q /\ frames[i].reason # "Normal" /\ Pends(frames[i], p)
      BY <2>1 DEF ExitInv, SignalsUnderway
    <3>2. Pends(frames'[i], p) /\ i \in 1..Len(frames')
      BY <1>0, <1>1, <2>1, <3>1
    <3>3. Pends(frames[i], p)' <=> Pends(frames'[i], p)
      BY DEF Pends
    <3> QED BY <1>1, <3>1, <3>2, <3>3
  <2> QED BY <2>1 DEF SignalsUnderway
<1> QED BY <1>2, <1>3, <1>4, <1>5 DEF ExitInv


\* A linked process is notified: it leaves the list, and is taken along.
LEMMA ExitLink ==
    ASSUME TypeOK, CallOK, ExitInv, NEW q \in Pid, NotifyLink(q)
    PROVE  ExitInv'
<1> DEFINE cascade == IF TakenAlong(q) THEN Append(Top.cascade, q) ELSE Top.cascade
           f == [Top EXCEPT !.links = @ \ {q}, !.cascade = IF TakenAlong(q) THEN Append(@, q) ELSE @]
<1>0. frames # << >> /\ Top \in Frame /\ q \in Top.links /\ Top = frames[Len(frames)]
      /\ Len(frames) \in 1..Len(frames)
  BY BelowFacts DEF CallOK, NotifyLink, IsLeast, TypeOK
<1>1. frames' = Append(Below, f)
  BY DEF NotifyLink
<1>2. Top.cascade \in Seq(Pid) /\ cascade \in Seq(Pid)
  BY <1>0 DEF Frame
<1>3. /\ f \in Frame /\ f.pid = Top.pid /\ f.reason = Top.reason
      /\ f.links = Top.links \ {q} /\ f.cascade = cascade
  BY <1>0, <1>2 DEF Frame
<1>4. Live' = Live
  BY SendCalm DEF NotifyLink, TypeOK, Live
<1>5. UNCHANGED <<links, fate, trapExit, nextPid>>
  BY DEF NotifyLink, TerminateFrame
<1>6. /\ CleanFrame(Top)
      /\ \A k \in 1..Len(Top.cascade) : Top.cascade[k] # q
  BY <1>0 DEF ExitInv, CascadesClean, CleanFrame
<1>7. TakenAlong(q) => /\ Len(cascade) = Len(Top.cascade) + 1 /\ Len(Top.cascade) \in Nat
                       /\ \A k \in 1..Len(Top.cascade) : cascade[k] = Top.cascade[k]
                       /\ cascade[Len(Top.cascade) + 1] = q
  BY <1>2
<1>8. ~TakenAlong(q) => cascade = Top.cascade
  OBVIOUS
<1> HIDE DEF f, cascade
<1>9. \A x \in Live : Pends(f, x) <=> Pends(Top, x) /\ (x # q \/ TakenAlong(q))
  <2>1. CASE TakenAlong(q)
    BY <1>0, <1>3, <1>6, <1>7, <2>1 DEF Pends
  <2>2. CASE ~TakenAlong(q)
    BY <1>0, <1>3, <1>6, <1>8, <2>2 DEF Pends
  <2> QED BY <2>1, <2>2
<1>10. CleanFrame(f)
  <2>1. CASE TakenAlong(q)
    <3>1. q \in Live
      BY <2>1 DEF TakenAlong
    <3>2. ASSUME NEW k \in 1..Len(cascade)
          PROVE  /\ cascade[k] \in Live /\ cascade[k] \notin Top.links \ {q}
                 /\ \A l \in 1..Len(cascade) : cascade[k] = cascade[l] => k = l
      <4>1. \A l \in 1..Len(cascade) : l \in 1..Len(Top.cascade) \/ l = Len(Top.cascade) + 1
        BY <1>7, <2>1
      <4> QED BY <1>6, <1>7, <2>1, <3>1, <4>1 DEF CleanFrame
    <3> QED BY <1>3, <3>2 DEF CleanFrame
  <2>2. CASE ~TakenAlong(q)
    BY <1>3, <1>6, <1>8, <2>2 DEF CleanFrame
  <2> QED BY <2>1, <2>2
<1>11. \A x \in Live : Pends(Top, x) /\ ~trapExit[x] /\ Top.reason # "Normal" => Pends(f, x)
  BY <1>9 DEF TakenAlong
<1> QED BY <1>0, <1>1, <1>3, <1>4, <1>5, <1>9, <1>10, <1>11, ExitTop

\* DOWNs and exit handlers leave the lists alone.
LEMMA ExitDown ==
    ASSUME TypeOK, CallOK, ExitInv,
           (\E r \in Ref, q \in Pid : NotifyDown(r, q)) \/ NoExitHandlers
    PROVE  ExitInv'
<1>0. frames # << >> /\ Top \in Frame /\ Top = frames[Len(frames)] /\ Len(frames) \in 1..Len(frames)
  <2>1. frames # << >>
    BY DEF CallOK, NotifyDown, NoExitHandlers, AtHandlers
  <2> QED BY <2>1, BelowFacts DEF TypeOK
<1>1. CleanFrame(Top)
  BY <1>0 DEF ExitInv, CascadesClean
<1>2. ASSUME NEW f \in Frame, frames' = Append(Below, f), Live' = Live,
             UNCHANGED <<links, fate, trapExit, nextPid>>,
             f.pid = Top.pid, f.reason = Top.reason, f.links = Top.links, f.cascade = Top.cascade
      PROVE  ExitInv'
  <2>1. \A x \in Live : Pends(f, x) <=> Pends(Top, x)
    BY <1>2 DEF Pends
  <2>2. CleanFrame(f)
    BY <1>1, <1>2 DEF CleanFrame
  <2> QED BY <1>0, <1>2, <2>1, <2>2, ExitTop
<1>3. ASSUME NEW r \in Ref, NEW q \in Pid, NotifyDown(r, q) PROVE ExitInv'
  <2> DEFINE f == [Top EXCEPT !.downs = @ \ {<<r, q>>}]
  <2>1. /\ f \in Frame /\ f.pid = Top.pid /\ f.reason = Top.reason
        /\ f.links = Top.links /\ f.cascade = Top.cascade
    BY <1>0 DEF Frame
  <2>2. frames' = Append(Below, f) /\ UNCHANGED <<links, fate, trapExit, nextPid>>
    BY <1>3 DEF NotifyDown, TerminateFrame
  <2>3. Live' = Live
    BY <1>3, SendCalm DEF NotifyDown, TypeOK
  <2> HIDE DEF f
  <2> QED BY <1>2, <2>1, <2>2, <2>3
<1>4. CASE NoExitHandlers
  <2> DEFINE f == [Top EXCEPT !.told = TRUE]
  <2>1. /\ f \in Frame /\ f.pid = Top.pid /\ f.reason = Top.reason
        /\ f.links = Top.links /\ f.cascade = Top.cascade
    BY <1>0 DEF Frame
  <2>2. frames' = Append(Below, f) /\ UNCHANGED <<links, fate, trapExit, nextPid>> /\ Live' = Live
    BY <1>4 DEF NoExitHandlers, procVars, history, Live
  <2> HIDE DEF f
  <2> QED BY <1>2, <2>1, <2>2
<1> QED BY <1>3, <1>4

\* A call returns with nobody left to notify.
LEMMA ExitFinish ==
    ASSUME TypeOK, CallOK, ExitInv, NEW b \in BOOLEAN, FinishTermination(b)
    PROVE  ExitInv'
<1>0. frames # << >> /\ Top.links = {} /\ Top.cascade = << >> /\ frames' = Below
  BY DEF CallOK, FinishTermination, Notified
<1>1. Live' = Live /\ UNCHANGED <<links, fate, trapExit, nextPid>>
  BY DEF FinishTermination, Live, procVars, history
<1>2. /\ Len(frames) \in Nat \ {0} /\ Len(frames') = Len(frames) - 1
      /\ \A i \in 1..(Len(frames) - 1) : frames'[i] = frames[i]
      /\ Top = frames[Len(frames)]
  BY <1>0, BelowFacts DEF TypeOK
<1>3. \A i \in 1..Len(frames') : i \in 1..Len(frames) /\ frames'[i] = frames[i]
  BY <1>2
<1>4. \A q : ~Pends(frames[Len(frames)], q)
  BY <1>0, <1>2 DEF Pends
<1>5. LinksTree'
  BY <1>1 DEF ExitInv, LinksTree
<1>6. \A i \in 1..Len(frames'), q \in Live : Pends(frames[i], q)' <=> Pends(frames[i], q)
  BY <1>3 DEF Pends
<1>7. StackClimbs'
  BY <1>1, <1>3, <1>6 DEF ExitInv, StackClimbs
<1>8. CascadesClean'
  BY <1>1, <1>3 DEF ExitInv, CascadesClean, CleanFrame
<1>9. SignalsUnderway'
  <2>1. ASSUME NEW p \in Live, NEW q \in links[p], fate[q] \in {"Shutdown", "Custom"}, ~trapExit[p]
        PROVE  \E i \in 1..Len(frames') :
                  frames'[i].pid = q /\ frames'[i].reason # "Normal" /\ Pends(frames[i], p)'
    <3>1. PICK i \in 1..Len(frames) :
                  frames[i].pid = q /\ frames[i].reason # "Normal" /\ Pends(frames[i], p)
      BY <2>1 DEF ExitInv, SignalsUnderway
    <3>2. i \in 1..Len(frames')
      BY <1>2, <1>4, <3>1
    <3> QED BY <1>3, <1>6, <3>1, <3>2
  <2> QED BY <1>1, <2>1 DEF SignalsUnderway
<1> QED BY <1>5, <1>7, <1>8, <1>9 DEF ExitInv


\* Between calls there is nothing underway.
LEMMA ExitNoFrames ==
    ASSUME frames = << >>, UNCHANGED frames, LinksTree',
           \A p \in Live' : \A q \in links'[p] : fate'[q] \in {"Shutdown", "Custom"} => trapExit'[p]
    PROVE  ExitInv'
<1>1. \A i : i \notin 1..Len(frames')
  OBVIOUS
<1>2. StackClimbs' /\ CascadesClean'
  BY <1>1 DEF StackClimbs, CascadesClean
<1>3. SignalsUnderway'
  BY DEF SignalsUnderway
<1> QED BY <1>2, <1>3 DEF ExitInv

\* A birth with a link: the child is the youngest process.
LEMMA TreeLinked ==
    ASSUME TypeOK, LinksTree, UNCHANGED fate,
           nextPid \in Pid, nextPid' = nextPid + 1, Live' = Live \union {nextPid},
           NEW c \in Live,
           links' = [links EXCEPT ![c] = @ \union {nextPid}, ![nextPid] = @ \union {c}]
    PROVE  /\ LinksTree' /\ c \in Pid /\ c < nextPid
           /\ \A p, q \in Pid :
                q \in links'[p] <=> q \in links[p] \/ (p = c /\ q = nextPid) \/ (p = nextPid /\ q = c)
<1>0. /\ nextPid \in Int /\ nextPid \notin Live /\ fate[nextPid] = "None" /\ links[nextPid] = {}
      /\ \A p \in Pid : p \in Int /\ nextPid \notin links[p] /\ (p \in Live => p < nextPid)
  BY SchedulerAssumption DEF Pid, LinksTree
<1>1. /\ \A p \in Pid : p >= nextPid' => p >= nextPid /\ p # nextPid
      /\ \A p \in Pid : p < nextPid => p < nextPid'
      /\ nextPid < nextPid'
  BY <1>0
<1>2. /\ \A p \in Pid : p >= nextPid' => p \notin Live' /\ fate'[p] = "None"
      /\ \A p \in Live' : fate'[p] = "None"
  BY <1>0, <1>1 DEF LinksTree
<1>3. \A p \in Pid : \A q \in links[p] : q \in Pid /\ q < nextPid' /\ q # p
  <2>1. \A p \in Pid : links[p] \subseteq Pid
    BY DEF TypeOK, ProcTypeOK
  <2> QED BY <1>1, <2>1 DEF LinksTree
<1>4. c \in Pid /\ c # nextPid /\ c < nextPid /\ fate[c] = "None"
  BY <1>0 DEF Live, LinksTree
<1>5. /\ links'[c] = links[c] \union {nextPid} /\ links'[nextPid] = {c}
      /\ \A p \in Pid \ {c, nextPid} : links'[p] = links[p]
  BY <1>0, <1>4 DEF TypeOK, ProcTypeOK
<1>6. \A p, q \in Pid :
         q \in links'[p] <=> q \in links[p] \/ (p = c /\ q = nextPid) \/ (p = nextPid /\ q = c)
  <2> SUFFICES ASSUME NEW p \in Pid, NEW q \in Pid
               PROVE  q \in links'[p] <=> q \in links[p] \/ (p = c /\ q = nextPid) \/ (p = nextPid /\ q = c)
    OBVIOUS
  <2>1. CASE p = c
    BY <1>4, <1>5, <2>1
  <2>2. CASE p = nextPid
    BY <1>0, <1>4, <1>5, <2>2
  <2>3. CASE p \notin {c, nextPid}
    BY <1>5, <2>3
  <2> QED BY <2>1, <2>2, <2>3
<1>7. \A p \in Pid : links'[p] \subseteq Pid
  BY <1>4, <1>5 DEF TypeOK, ProcTypeOK
<1>8. LinksTree'
  <2>3. \A p \in Pid : p \notin Live' => links'[p] = {}
    BY <1>4, <1>5 DEF LinksTree
  <2>4. \A p \in Pid : \A q \in links'[p] : q < nextPid' /\ q # p
    BY <1>0, <1>1, <1>3, <1>4, <1>5
  <2>5. \A p, q \in Live' : q \in links'[p] => p \in links'[q]
    <3> SUFFICES ASSUME NEW p \in Live', NEW q \in Live', q \in links'[p] PROVE p \in links'[q]
      OBVIOUS
    <3>1. p \in Pid /\ q \in Pid
      BY DEF Live
    <3>2. CASE q \in links[p]
      <4>1. p \in Live /\ q # nextPid
        BY <1>0, <3>1, <3>2 DEF LinksTree
      <4>2. q \in Live
        BY <4>1
      <4>3. p \in links[q]
        BY <3>2, <4>1, <4>2 DEF LinksTree
      <4> QED BY <1>6, <3>1, <4>3
    <3>3. CASE q \notin links[p]
      BY <1>6, <3>1, <3>3
    <3> QED BY <3>2, <3>3
  <2>6. \A p \in Pid : \A q, o \in links'[p] : q < p /\ o < p => q = o
    <3>1. ASSUME NEW p \in Pid, NEW q \in Pid, NEW o \in Pid, q \in links'[p], o \in links'[p], q < p, o < p
          PROVE  q = o
      <4>1. CASE p = nextPid
        BY <1>5, <3>1, <4>1
      <4>2. CASE p # nextPid
        <5>0. p < nextPid => q # nextPid /\ o # nextPid
          BY <1>0, <3>1
        <5>1. q \in links[p] /\ o \in links[p]
          BY <1>0, <1>4, <1>6, <3>1, <4>2, <5>0
        <5> QED BY <3>1, <5>1 DEF LinksTree
      <4> QED BY <4>1, <4>2
    <3> QED BY <1>7, <3>1
  <2>7. \A p, q, o \in Pid : p \in links'[q] /\ p \in links'[o] /\ q < p /\ o < p => q = o
    BY <1>0, <1>4, <1>6 DEF LinksTree
  <2> QED BY <1>2, <2>3, <2>4, <2>5, <2>6, <2>7 DEF LinksTree
<1> QED BY <1>4, <1>6, <1>8

\* A birth: the child is linked to its parent or to nobody.
LEMMA ExitBirth ==
    ASSUME TypeOK, ExitInv, frames = << >>, UNCHANGED <<frames, fate>>,
           nextPid \in Pid, nextPid' = nextPid + 1, Live' = Live \union {nextPid},
           \A p \in Live : trapExit'[p] = trapExit[p],
           \/ links' = links
           \/ \E c \in Live : links' = [links EXCEPT ![c] = @ \union {nextPid},
                                                     ![nextPid] = @ \union {c}]
    PROVE  ExitInv'
<1>0. /\ nextPid \in Nat /\ nextPid' \in Nat /\ fate[nextPid] = "None" /\ links[nextPid] = {}
      /\ \A p \in Pid : nextPid \notin links[p]
  BY SchedulerAssumption DEF Pid, ExitInv, LinksTree
<1>1. \A p \in Live : \A q \in links[p] : fate[q] \in {"Shutdown", "Custom"} => trapExit[p]
  BY DEF ExitInv, SignalsUnderway
<1>2. CASE links' = links
  <2>1. LinksTree'
    BY <1>0, <1>2, TreeKept DEF ExitInv
  <2> QED BY <1>0, <1>1, <1>2, <2>1, ExitNoFrames
<1>3. ASSUME NEW c \in Live,
             links' = [links EXCEPT ![c] = @ \union {nextPid}, ![nextPid] = @ \union {c}]
      PROVE  ExitInv'
  <2>1. /\ LinksTree' /\ c \in Pid /\ fate[c] = "None"
        /\ \A p, q \in Pid :
             q \in links'[p] <=> q \in links[p] \/ (p = c /\ q = nextPid) \/ (p = nextPid /\ q = c)
    BY <1>3, TreeLinked DEF ExitInv, LinksTree
  <2>2. \A p \in Pid : links'[p] \subseteq Pid
    BY <1>3, <2>1 DEF TypeOK, ProcTypeOK
  <2>3. ASSUME NEW p \in Live', NEW q \in links'[p], fate'[q] \in {"Shutdown", "Custom"}
        PROVE  trapExit'[p]
    <3>1. p \in Pid /\ q \in Pid
      BY <2>2 DEF Live
    <3>2. q \in links[p]
      BY <1>0, <2>1, <2>3, <3>1
    <3>3. p \in Live
      BY <1>0, <3>1, <3>2
    <3> QED BY <1>1, <2>3, <3>2, <3>3
  <2> QED BY <2>1, <2>3, ExitNoFrames
<1> QED BY <1>2, <1>3

\* The steps that make a process or a monitor.
LEMMA ExitSpawn ==
    ASSUME TypeOK, CallOK, StackOK, ExitInv,
           \/ FlushSpawn
           \/ \E c \in HostPriorities, t \in HostTraps : HostSpawn(c, t)
    PROVE  ExitInv'
<1> USE DEF turnVars, callVars, history
<1>1. nextPid \in Pid /\ frames = << >> /\ UNCHANGED <<frames, fate>>
  <2>1. CASE FlushSpawn
    BY <2>1, SchedulerAssumption
    DEF FlushSpawn, StackOK, CallOK, TypeOK, ProcTypeOK, TurnTypeOK, Pid
  <2>2. CASE \E c \in HostPriorities, t \in HostTraps : HostSpawn(c, t)
    BY <2>2, SchedulerAssumption DEF HostSpawn, HostCall, StackOK, TypeOK, ProcTypeOK, Pid
  <2> QED BY <2>1, <2>2
<1>2. PICK c, t : NewProcess(c, t)
  BY DEF FlushSpawn, HostSpawn
<1>3. Live' = Live \union {nextPid} /\ nextPid' = nextPid + 1
  BY <1>1, <1>2, NewProcessLive DEF NewProcess, TypeOK
<1>4. nextPid \notin Live
  BY <1>1 DEF ExitInv, LinksTree, TypeOK, ProcTypeOK
<1>5. \A p \in Live : trapExit'[p] = trapExit[p]
  BY <1>2, <1>4 DEF NewProcess, TypeOK, ProcTypeOK, Live
<1>6. \/ links' = links
      \/ \E x \in Live : links' = [links EXCEPT ![x] = @ \union {nextPid},
                                                ![nextPid] = @ \union {x}]
  BY DEF FlushSpawn, HostSpawn, StackOK, InTurn
<1> QED BY <1>1, <1>3, <1>5, <1>6, ExitBirth

\* monitor() and demonitor() have nothing to do with links.
LEMMA ExitMonitors ==
    ASSUME ExitInv,
           \/ \E w, t \in Pid : HostMonitor(w, t)
           \/ \E w, t \in Pid, r \in Ref : HostDemonitor(w, r, t)
    PROVE  ExitInv'
<1>1. UNCHANGED <<status, links, frames, fate, trapExit, nextPid>>
  BY DEF HostMonitor, HostDemonitor, callVars, history
<1>2. LinksTree'
  BY <1>1 DEF ExitInv, LinksTree, Live
<1>3. StackClimbs' /\ CascadesClean' /\ SignalsUnderway'
  BY <1>1 DEF ExitInv, StackClimbs, CascadesClean, CleanFrame, SignalsUnderway, Pends, Live
<1> QED BY <1>2, <1>3 DEF ExitInv


\* What terminate_process() does to the links: the process is forgotten on
\* its own side only.
LEMMA TreeRemove ==
    ASSUME TypeOK, LinksTree, NEW p \in Pid, NEW reason \in Reason, NEW fs \in Seq(Frame),
           Remove(fs, p, reason)
    PROVE  LinksTree'
<1>1. /\ Live' = Live \ {p} /\ nextPid' = nextPid
      /\ links'[p] = {} /\ \A q \in Pid \ {p} : links'[q] = links[q]
      /\ \A q \in Pid \ {p} : fate'[q] = fate[q]
      /\ p \notin Live => fate'[p] = fate[p]
  BY RemoveFacts
<1>2. \A q \in Pid : links'[q] \subseteq links[q] /\ (q # p => links'[q] = links[q])
  BY <1>1
<1>3. \A q \in Live' : q \in Pid /\ q # p /\ q \in Live
  BY <1>1 DEF Live
<1>4. \A q \in Pid : q >= nextPid' => q \notin Live' /\ fate'[q] = "None"
  BY <1>1 DEF LinksTree
<1>5. \A q \in Live' : fate'[q] = "None"
  BY <1>1, <1>3 DEF LinksTree
<1>6. \A q \in Pid : q \notin Live' => links'[q] = {}
  BY <1>1 DEF LinksTree
<1>7. \A q \in Pid : \A o \in links'[q] : o < nextPid' /\ o # q
  BY <1>1, <1>2 DEF LinksTree
<1>8. \A q, o \in Live' : o \in links'[q] => q \in links'[o]
  BY <1>2, <1>3 DEF LinksTree
<1>9. \A x \in Pid : \A q, o \in links'[x] : q < x /\ o < x => q = o
  BY <1>2 DEF LinksTree
<1>10. \A x, q, o \in Pid : x \in links'[q] /\ x \in links'[o] /\ q < x /\ o < x => q = o
  BY <1>2 DEF LinksTree
<1> QED BY <1>4, <1>5, <1>6, <1>7, <1>8, <1>9, <1>10 DEF LinksTree

\* The new call waits for the linked processes, and they list its process.
LEMMA NewCall ==
    ASSUME TypeOK, LinksTree, NEW p \in Pid, NEW reason \in Reason, NEW fs \in Seq(Frame),
           Remove(fs, p, reason)
    PROVE  /\ \A q \in Live' : Pends(Top', q) <=> q \in links[p]
           /\ \A q \in Live' : p \in Live => (q \in links[p] <=> p \in links'[q])
           /\ \A q \in Live' : q \in links[p] => p \in links'[q]
           /\ CleanFrame(Top')
<1>1. /\ Live' = Live \ {p} /\ \A q \in Pid \ {p} : links'[q] = links[q]
      /\ Top'.links = links[p] /\ Top'.cascade = << >>
  BY RemoveFacts
<1>2. \A q \in Live' : q \in Pid /\ q # p /\ q \in Live
  BY <1>1 DEF Live
<1>3. \A q : Pends(Top', q) <=> q \in links[p]
  BY <1>1 DEF Pends
<1>4. CleanFrame(Top')
  BY <1>1 DEF CleanFrame
<1>5. \A q \in Live' : p \in Live => (q \in links[p] <=> p \in links'[q])
  BY <1>1, <1>2 DEF LinksTree
<1>6. p \notin Live => links[p] = {}
  BY DEF LinksTree
<1> QED BY <1>3, <1>4, <1>5, <1>6

\* terminate_process() called by the host, a turn or a shutdown.
LEMMA ExitRemove ==
    ASSUME TypeOK, ExitInv, NEW p \in Pid, NEW why \in Reason, frames = << >>,
           NEW fs \in Seq(Frame), Len(fs) = 0, Remove(fs, p, why)
    PROVE  ExitInv'
<1>0. LinksTree
  BY DEF ExitInv
<1>1. /\ Live' = Live \ {p}
      /\ \A q \in Pid \ {p} : links'[q] = links[q]
      /\ \A q \in Pid \ {p} : fate'[q] = fate[q]
      /\ p \in Live => fate'[p] = why
      /\ p \notin Live => fate'[p] = fate[p]
      /\ Top'.pid = p /\ Top'.reason = why
      /\ Len(frames') = Len(fs) + 1 /\ frames'[Len(fs) + 1] = Top'
  <2>1. Live' = Live \ {p} /\ \A q \in Pid \ {p} : links'[q] = links[q]
    BY RemoveFacts
  <2>2. /\ \A q \in Pid \ {p} : fate'[q] = fate[q]
        /\ p \in Live => fate'[p] = why
        /\ p \notin Live => fate'[p] = fate[p]
    <3>1. FateIs(p, why)
      BY RemoveFate
    <3> QED BY <3>1 DEF FateIs
  <2>3. Top'.pid = p /\ Top'.reason = why
    <3>1. Top'.pid = p
      BY RemoveFacts
    <3>2. Top'.reason = why
      <4>1. PICK f : frames' = Append(fs, f) /\ f.reason = why
        BY DEF Remove
      <4>2. Append(fs, f)[Len(fs) + 1] = f /\ Len(Append(fs, f)) = Len(fs) + 1
        OBVIOUS
      <4> QED BY <4>1, <4>2 DEF Top
    <3> QED BY <3>1, <3>2
  <2>4. Len(frames') = Len(fs) + 1 /\ frames'[Len(fs) + 1] = Top'
    BY RemoveFacts
  <2> QED BY <2>1, <2>2, <2>3, <2>4
<1>t. \A q \in Pid \ {p} : trapExit'[q] = trapExit[q]
  BY DEF Remove, TypeOK, ProcTypeOK
<1>2. 1..Len(frames') = {1} /\ frames'[1] = Top'
  BY <1>1
<1>3. LinksTree'
  BY <1>0, TreeRemove
<1>4. /\ \A q \in Live' : Pends(Top', q) <=> q \in links[p]
      /\ \A q \in Live' : p \in Live => (q \in links[p] <=> p \in links'[q])
      /\ \A q \in Live' : q \in links[p] => p \in links'[q]
      /\ CleanFrame(Top')
  BY <1>0, NewCall
<1>5. \A i \in 1..Len(frames'), q \in Live' : Pends(frames[i], q)' <=> q \in links[p]
  <2>1. \A i \in 1..Len(frames'), q \in Live' : Pends(frames[i], q)' <=> Pends(frames'[i], q)
    BY DEF Pends
  <2> QED BY <1>2, <1>4, <2>1
<1>6. StackClimbs'
  <2>1. p \in Int
    BY SchedulerAssumption DEF Pid
  <2> QED BY <1>1, <1>2, <1>4, <1>5, <2>1 DEF StackClimbs
<1>7. CascadesClean'
  <2>1. Top'.cascade = << >>
    BY <1>0, RemoveFacts
  <2> QED BY <1>2, <2>1 DEF CascadesClean, CleanFrame
<1>8. SignalsUnderway'
  <2>1. ASSUME NEW x \in Live', NEW q \in links'[x], fate'[q] \in {"Shutdown", "Custom"}, ~trapExit'[x]
        PROVE  \E i \in 1..Len(frames') :
                  frames'[i].pid = q /\ frames'[i].reason # "Normal" /\ Pends(frames[i], x)'
    <3>0. x \in Pid /\ x # p /\ x \in Live /\ q \in Pid
      BY <1>1 DEF Live, TypeOK, ProcTypeOK
    <3>1. ~(fate[q] \in {"Shutdown", "Custom"})
      <4>1. fate[q] \in {"Shutdown", "Custom"} => \E i \in 1..Len(frames) : TRUE
        BY <1>1, <1>t, <2>1, <3>0 DEF ExitInv, SignalsUnderway
      <4> QED BY <4>1
    <3>2. q = p /\ p \in Live /\ why \in {"Shutdown", "Custom"}
      BY <1>1, <2>1, <3>0, <3>1
    <3> QED BY <1>1, <1>2, <1>4, <1>5, <2>1, <3>2
  <2> QED BY <2>1 DEF SignalsUnderway
<1> QED BY <1>3, <1>6, <1>7, <1>8 DEF ExitInv


\* The recursive call: the process is taken off the list of the call it is
\* made from, and off nobody else's.
LEMMA ExitCascade ==
    ASSUME TypeOK, CallOK, ExitInv, Cascade
    PROVE  ExitInv'
<1> DEFINE p == Head(Top.cascade)
           f == [Top EXCEPT !.cascade = Tail(@)]
           fs == Append(Below, f)
           n == Len(frames)
<1>0. /\ frames # << >> /\ Top.links = {} /\ Top.cascade # << >>
      /\ p \in Pid /\ Top.reason \in Reason
      /\ fs \in Seq(Frame) /\ Remove(fs, p, Top.reason)
  BY CascadeFacts
<1>1. /\ Top \in Frame /\ Below \in Seq(Frame)
      /\ n \in Nat \ {0} /\ Len(Below) = n - 1
      /\ \A i \in 1..(n - 1) : Below[i] = frames[i]
      /\ Top = frames[n]
  BY <1>0, BelowFacts DEF TypeOK
<1>2. /\ f.pid = Top.pid /\ f.reason = Top.reason /\ f.links = {} /\ f.cascade = Tail(Top.cascade)
  BY <1>0, <1>1 DEF Frame
<1>3. /\ Top.cascade \in Seq(Pid) /\ Len(Top.cascade) \in Nat \ {0} /\ p = Top.cascade[1]
      /\ Len(f.cascade) = Len(Top.cascade) - 1
      /\ \A k \in 1..Len(f.cascade) : f.cascade[k] = Top.cascade[k + 1]
  <2>1. Top.cascade \in Seq(Pid)
    BY <1>1 DEF Frame
  <2> QED BY <1>0, <1>2, <2>1
<1>4. CleanFrame(Top) /\ LinksTree /\ StackClimbs
  BY <1>1 DEF ExitInv, CascadesClean
<1> HIDE DEF p, f
<1>5. p \in Live /\ Pends(Top, p)
  BY <1>3, <1>4 DEF CleanFrame, Pends
<1>6. /\ Len(fs) = n
      /\ \A i \in 1..n : fs[i] = IF i = n THEN f ELSE frames[i]
  BY <1>1, <1>0
<1> HIDE DEF fs
<1>7. /\ Live' = Live \ {p}
      /\ \A q \in Pid \ {p} : links'[q] = links[q]
      /\ \A q \in Pid \ {p} : fate'[q] = fate[q]
      /\ p \in Live => fate'[p] = Top.reason
      /\ p \notin Live => fate'[p] = fate[p]
      /\ Top'.pid = p /\ Top'.reason = Top.reason
      /\ Len(frames') = Len(fs) + 1 /\ frames'[Len(fs) + 1] = Top'
      /\ \A i \in 1..Len(fs) : frames'[i] = fs[i]
  BY <1>0, RemoveFacts
<1>t. \A q \in Pid \ {p} : trapExit'[q] = trapExit[q]
  BY <1>0 DEF Remove, TypeOK, ProcTypeOK
<1>8. /\ 1..Len(frames') = (1..n) \union {n + 1} /\ frames'[n + 1] = Top' /\ n + 1 \notin 1..n
      /\ \A i \in 1..n : frames'[i] = IF i = n THEN f ELSE frames[i]
  BY <1>1, <1>6, <1>7
<1>9. LinksTree'
  BY <1>0, <1>4, TreeRemove
<1>10. /\ \A q \in Live' : Pends(Top', q) <=> q \in links[p]
       /\ \A q \in Live' : q \in links[p] <=> p \in links'[q]
  BY <1>0, <1>4, <1>5, NewCall
<1>11. \A q \in Live' : Pends(f, q) <=> Pends(Top, q)
  <2>1. ASSUME NEW q \in Live', Pends(f, q) PROVE Pends(Top, q)
    <3>1. PICK k \in 1..Len(f.cascade) : f.cascade[k] = q
      BY <1>2, <2>1 DEF Pends
    <3>2. k + 1 \in 1..Len(Top.cascade) /\ Top.cascade[k + 1] = q
      BY <1>3, <3>1
    <3> QED BY <3>2 DEF Pends
  <2>2. ASSUME NEW q \in Live', Pends(Top, q) PROVE Pends(f, q)
    <3>1. PICK k \in 1..Len(Top.cascade) : Top.cascade[k] = q
      BY <1>0, <2>2 DEF Pends
    <3>2. k # 1
      BY <1>3, <1>7, <3>1
    <3>3. k - 1 \in 1..Len(f.cascade) /\ (k - 1) + 1 = k
      BY <1>3, <3>2
    <3>4. f.cascade[k - 1] = q
      BY <1>3, <3>1, <3>3
    <3> QED BY <3>3, <3>4 DEF Pends
  <2> QED BY <2>1, <2>2
<1>12. \A i \in 1..n : /\ frames'[i].pid = frames[i].pid /\ frames'[i].reason = frames[i].reason
                       /\ \A q \in Live' : Pends(frames'[i], q) <=> Pends(frames[i], q)
  BY <1>1, <1>2, <1>8, <1>11
<1>13. \A i \in 1..Len(frames'), q \in Live' : Pends(frames[i], q)' <=> Pends(frames'[i], q)
  BY DEF Pends
<1>14. /\ \A i \in 1..n : frames[i].pid \in Pid /\ frames[i].pid # p
       /\ \A q \in Live' : q \in Pid /\ q \in Live /\ q # p
       /\ Top.pid \in links[p] /\ Top.pid \notin Live /\ n \in 1..n
  <2>1. n \in 1..n /\ \A i \in 1..n : frames[i] \in Frame
    BY <1>1 DEF TypeOK, CallTypeOK
  <2> QED BY <1>1, <1>4, <1>5, <1>7, <2>1 DEF StackClimbs, Live, Frame
<1>15. StackClimbs'
  <2>1. \A i \in 1..Len(frames') : frames'[i].pid \notin Live'
    BY <1>4, <1>7, <1>8, <1>12 DEF StackClimbs
  <2>2. \A i, j \in 1..Len(frames') : frames'[i].pid = frames'[j].pid => i = j
    BY <1>4, <1>7, <1>8, <1>12, <1>14 DEF StackClimbs
  <2>3. ASSUME NEW i \in 1..Len(frames'), NEW q \in Live', Pends(frames'[i], q)
        PROVE  frames'[i].pid \in links'[q]
    <3>1. CASE i \in 1..n
      BY <1>4, <1>7, <1>12, <1>14, <2>3, <3>1 DEF StackClimbs
    <3>2. CASE i = n + 1
      BY <1>7, <1>8, <1>10, <2>3, <3>2
    <3> QED BY <1>8, <3>1, <3>2
  <2>4. ASSUME NEW i \in 1..Len(frames'), NEW j \in 1..Len(frames'), NEW q \in Live',
               Pends(frames'[i], q), q < frames'[i].pid
        PROVE  frames'[i].pid <= frames'[j].pid
    <3>0. /\ p \in Int /\ q \in Int /\ Top.pid \in Int /\ Top.pid # p
          /\ \A k \in 1..n : frames[k].pid \in Int
      BY <1>0, <1>1, <1>14, SchedulerAssumption DEF Pid
    <3>1. p < Top.pid => \A k \in 1..n : Top.pid <= frames[k].pid
      BY <1>1, <1>4, <1>5, <1>14 DEF StackClimbs
    <3>2. CASE i \in 1..n
      <4>1. Pends(frames[i], q) /\ q < frames[i].pid /\ \A k \in 1..n : frames[i].pid <= frames[k].pid
        BY <1>4, <1>12, <1>14, <2>4, <3>2 DEF StackClimbs
      <4>2. CASE j \in 1..n
        BY <1>12, <3>2, <4>1, <4>2
      <4>3. CASE j = n + 1
        <5>1. frames[i].pid <= Top.pid
          BY <1>1, <1>14, <4>1
        <5>2. ~(p < Top.pid)
          <6>1. SUFFICES ASSUME p < Top.pid PROVE FALSE
            OBVIOUS
          <6>2. frames[i].pid = Top.pid
            BY <3>0, <3>1, <3>2, <5>1, <6>1
          <6>3. Top.pid \in links[q] /\ q < Top.pid
            BY <1>4, <1>14, <3>2, <4>1, <6>2 DEF StackClimbs
          <6>4. q = p
            BY <1>0, <1>1, <1>4, <1>14, <3>0, <6>1, <6>2, <6>3, <3>2 DEF LinksTree
          <6> QED BY <1>14, <6>4
        <5>3. frames[i].pid <= p
          BY <3>0, <3>2, <5>1, <5>2
        <5> QED BY <1>7, <1>8, <1>12, <3>2, <4>3, <5>3
      <4> QED BY <1>8, <4>2, <4>3
    <3>3. CASE i = n + 1
      <4>1. q \in links[p] /\ q < p
        BY <1>7, <1>8, <1>10, <2>4, <3>3
      <4>2. p < Top.pid
        <5>1. Top.pid < p => q = Top.pid
          BY <1>0, <1>4, <1>14, <4>1 DEF LinksTree
        <5> QED BY <1>14, <3>0, <5>1
      <4>3. CASE j \in 1..n
        BY <1>7, <1>8, <1>12, <3>0, <3>1, <3>3, <4>2, <4>3
      <4>4. CASE j = n + 1
        BY <1>7, <1>8, <3>0, <3>3, <4>4
      <4> QED BY <1>8, <4>3, <4>4
    <3> QED BY <1>8, <3>2, <3>3
  <2> QED BY <1>13, <2>1, <2>2, <2>3, <2>4 DEF StackClimbs
<1>16. CascadesClean'
  <2>1. ASSUME NEW i \in 1..Len(frames'), NEW k \in 1..Len(frames'[i].cascade)
        PROVE  /\ frames'[i].cascade[k] \in Live' /\ frames'[i].cascade[k] \notin frames'[i].links
               /\ \A l \in 1..Len(frames'[i].cascade) :
                     frames'[i].cascade[k] = frames'[i].cascade[l] => k = l
    <3>1. CASE i = n
      <4>1. frames'[i] = f /\ k + 1 \in 1..Len(Top.cascade) /\ 1 \in 1..Len(Top.cascade)
        BY <1>1, <1>3, <1>8, <1>14, <2>1, <3>1
      <4>2. Top.cascade[k + 1] \in Live /\ Top.cascade[k + 1] # p
        <5>1. k + 1 # 1
          BY <1>3, <4>1
        <5> QED BY <1>3, <1>4, <4>1, <5>1 DEF CleanFrame
      <4>3. ASSUME NEW l \in 1..Len(f.cascade), f.cascade[k] = f.cascade[l] PROVE k = l
        <5>1. l + 1 \in 1..Len(Top.cascade) /\ Top.cascade[k + 1] = Top.cascade[l + 1]
          BY <1>3, <4>1, <4>3
        <5>2. k + 1 = l + 1
          BY <1>4, <4>1, <5>1 DEF CleanFrame
        <5> QED BY <2>1, <5>2
      <4> QED BY <1>2, <1>3, <1>7, <4>1, <4>2, <4>3
    <3>2. CASE i \in 1..n /\ i # n
      <4>1. frames'[i] = frames[i] /\ CleanFrame(frames[i])
        BY <1>8, <3>2 DEF ExitInv, CascadesClean
      <4>2. frames[i].cascade[k] # p
        <5>1. ~Pends(frames[i], p)
          BY <1>1, <1>4, <1>5, <1>14, <3>2, PendingOnce
        <5> QED BY <2>1, <4>1, <5>1 DEF Pends
      <4> QED BY <1>7, <4>1, <4>2 DEF CleanFrame
    <3>3. CASE i = n + 1
      <4>1. Top'.cascade = << >>
        BY <1>0, RemoveFacts
      <4> QED BY <1>8, <2>1, <3>3, <4>1
    <3> QED BY <1>8, <3>1, <3>2, <3>3
  <2> QED BY <2>1 DEF CascadesClean, CleanFrame
<1>17. SignalsUnderway'
  <2>1. ASSUME NEW x \in Live', NEW q \in links'[x], fate'[q] \in {"Shutdown", "Custom"}, ~trapExit'[x]
        PROVE  \E i \in 1..Len(frames') :
                  frames'[i].pid = q /\ frames'[i].reason # "Normal" /\ Pends(frames'[i], x)
    <3>0. x \in Live /\ x \in Pid /\ x # p /\ q \in links[x] /\ q \in Pid /\ ~trapExit[x]
      BY <1>7, <1>14, <1>t, <2>1 DEF TypeOK, ProcTypeOK
    <3>1. CASE q = p
      <4>1. Top.reason # "Normal"
        BY <1>5, <1>7, <2>1, <3>1
      <4>2. Pends(Top', x)
        BY <1>10, <2>1, <3>1
      <4> QED BY <1>7, <1>8, <3>1, <4>1, <4>2
    <3>2. CASE q # p
      <4>1. fate[q] \in {"Shutdown", "Custom"}
        BY <1>7, <2>1, <3>0, <3>2
      <4>2. PICK i \in 1..n : frames[i].pid = q /\ frames[i].reason # "Normal" /\ Pends(frames[i], x)
        BY <3>0, <4>1 DEF ExitInv, SignalsUnderway
      <4> QED BY <1>8, <1>12, <2>1, <4>2
    <3> QED BY <3>1, <3>2
  <2> QED BY <1>13, <2>1 DEF SignalsUnderway
<1> QED BY <1>9, <1>15, <1>16, <1>17 DEF ExitInv


\* All steps.
LEMMA ExitNext ==
    ASSUME TypeOK, CallOK, StackOK, ExitInv, [Next]_vars
    PROVE  ExitInv'
<1>1. ASSUME NEW p \in Pid, NEW reason \in Reason, frames = << >>, Remove(<< >>, p, reason)
      PROVE  ExitInv'
  <2>1. << >> \in Seq(Frame)
    OBVIOUS
  <2>2. PICK fs \in Seq(Frame) : Len(fs) = 0 /\ Remove(fs, p, reason)
    BY <1>1, <2>1
  <2> QED BY <1>1, <2>2, ExitRemove
<1>2. CASE \/ StopCurrent \/ Cascade
           \/ \E p \in Pid, reason \in Reasons : HostTerminate(p, reason)
           \/ \E p \in Pid : ShutdownTerminate(p)
  BY <1>1, <1>2, ExitCascade, Removals
<1>3. CASE HostStep
  BY <1>2, <1>3, CalmHost, ExitCalm, ExitMonitors, ExitSpawn DEF HostStep
<1>4. CASE TickBegin \/ BridgeStep
  BY <1>4, CalmHost, ExitCalm
<1>5. CASE NoExitHandlers
  BY <1>5, ExitDown
<1>6. CASE CallStep
  BY <1>2, <1>6, CalmTick, CalmTurn, ExitCalm, ExitSpawn, ExitLink, ExitDown, ExitFinish DEF CallStep
<1>7. CASE UNCHANGED vars
  <2>1. Calm
    BY <1>7 DEF vars, procVars, callVars, turnVars, history, Calm, StackOK, Live, InTurn
  <2> QED BY <2>1, ExitCalm
<1> QED BY <1>3, <1>4, <1>5, <1>6, <1>7 DEF Next

\* The inductive invariant gives what the runs check.
LEMMA ExitSignalsByInv ==
    ASSUME TypeOK, StackOK, ExitInv
    PROVE  ExitSignals
<1>1. ExitPropagated
  <2>1. phase = "idle" => \A i : i \notin 1..Len(frames)
    BY DEF StackOK
  <2> QED BY <2>1 DEF ExitInv, SignalsUnderway, ExitPropagated
<1>2. ASSUME NEW i \in 1..Len(frames), NEW j \in 1..Len(frames),
             NEW a \in 1..Len(frames[i].cascade), NEW b \in 1..Len(frames[j].cascade)
      PROVE  /\ frames[i].cascade[a] \in Live
             /\ frames[i].cascade[a] = frames[j].cascade[b] => i = j /\ a = b
  <2>1. CleanFrame(frames[i])
    BY DEF ExitInv, CascadesClean
  <2>2. frames[i].cascade[a] \in Live
    BY <2>1 DEF CleanFrame
  <2>3. ASSUME frames[i].cascade[a] = frames[j].cascade[b] PROVE i = j
    <3>1. Pends(frames[i], frames[i].cascade[a]) /\ Pends(frames[j], frames[i].cascade[a])
      BY <2>3 DEF Pends
    <3> QED BY <2>2, <3>1, PendingOnce DEF ExitInv
  <2> QED BY <2>1, <2>2, <2>3 DEF CleanFrame
<1> QED BY <1>1, <1>2 DEF ExitSignals, CascadeOnce

(***************************************************************************)
(* Exit signals of scheduler.rs: terminate_process() calls itself for the  *)
(* linked processes it takes along, while the calls above it still hold    *)
(* their own lists.  Whatever tree of links the spawns have made, no       *)
(* process is on two of the lists or is dead when its turn comes, and when *)
(* the outermost call returns nobody that should have died is left.        *)
(***************************************************************************)
THEOREM ExitsArrive == Spec => []ExitSignals
<1>1. Init => MonitorInv
  BY MonitorsInit
<1>2. Init => ExitInv
  <2> SUFFICES ASSUME Init PROVE ExitInv
    OBVIOUS
  <2>1. /\ frames = << >> /\ nextPid = 1 /\ Live = {}
        /\ \A p \in Pid : links[p] = {} /\ fate[p] = "None"
    BY DEF Init, Live
  <2>2. LinksTree
    BY <2>1 DEF LinksTree
  <2>3. \A i : i \notin 1..Len(frames)
    BY <2>1
  <2>4. StackClimbs /\ CascadesClean /\ SignalsUnderway
    BY <2>1, <2>3 DEF StackClimbs, CascadesClean, SignalsUnderway
  <2> QED BY <2>2, <2>4 DEF ExitInv
<1>3. TypeOK /\ CallOK /\ MonitorInv /\ [Next]_vars => MonitorInv'
  BY MonitorsNext
<1>4. TypeOK /\ CallOK /\ MonitorInv /\ ExitInv /\ [Next]_vars => ExitInv'
  BY ExitNext DEF MonitorInv
<1>5. TypeOK /\ MonitorInv /\ ExitInv => ExitSignals
  BY ExitSignalsByInv DEF MonitorInv
<1> QED BY <1>1, <1>2, <1>3, <1>4, <1>5, TypeCorrect, PTL DEF Spec
=============================================================================
