------------------------------ MODULE BeamScheduler ------------------------------
(***************************************************************************)
(* The scheduler of the BEAM emulator (emulator/scheduler.rs), its process *)
(* registry and mailboxes, and the VM loop that runs one time slice per    *)
(* tick (beam/vm_loop.rs).  A running process executes the opcodes of      *)
(* compiled code: the receive loop in the order the compiler lays it out,  *)
(* the others in any order.  Only the number of its catches is kept of a   *)
(* process's stack; BeamMachine has the stack itself.                      *)
(***************************************************************************)
EXTENDS Naturals, Sequences, FiniteSets, SequencesExt, Collections

CONSTANTS
    MaxBeamPids,   \* processes created
    MaxBeamMail,   \* messages delivered to one process
    MaxCatches,    \* catches active in one process
    NormalAdvantage, \* NORMAL_ADVANTAGE
    TableRoom        \* entries the HashMap of processes takes before it moves them to a larger
                     \* table: 3 in a new one
ASSUME BeamSchedulerAssumption ==
    /\ MaxBeamPids \in Nat \ {0} /\ MaxBeamMail \in Nat /\ MaxCatches \in Nat /\ NormalAdvantage \in Nat
    /\ TableRoom \in Nat \ {0}

Prio == {"Low", "Normal", "High"}
BeamPid == 0..(MaxBeamPids - 1)
NoPid == MaxBeamPids
NonValue == 0

VARIABLES
    bProc,       \* pid_to_proc: a process for each registered pid
    bQueue,      \* queue_low, queue_normal, queue_high
    bWaiting,    \* infinite_wait
    bAdvantage,  \* advantage_count
    bCurrent,    \* current
    bNextPid,    \* pid_counter
    bResult,     \* timeslice_result of the current process
    bStranded,   \* history: processes that waited although mail had come
    bPhase       \* "tick", "slice": the loop of dispatch runs, "stopped": tick returned false,
                 \* "halted": tick returned an error, "dangling": the current process was moved
                 \* while dispatch holds pointers to it
bVars == <<bProc, bQueue, bWaiting, bAdvantage, bCurrent, bNextPid, bResult, bStranded, bPhase>>

\* The n-th message delivered to a process is n; got is the last one it removed.
\* at is the opcode of the receive loop it stands at, or "code" outside of one.
NewProcess(prio) ==
    [prio |-> prio, catches |-> 0, inbox |-> << >>, read |-> 0, sent |-> 0,
     got |-> 0, at |-> "code"]

Registered == DOMAIN bProc
Self == bProc[bCurrent]

Enqueued(queues, pid) == [queues EXCEPT ![bProc[pid].prio] = Append(@, pid)]

-----------------------------------------------------------------------------
(* ProcessMailbox, on an inbox and its read index (from 0).                *)

\* step_over: past the received messages, round the end of the inbox; an inbox of
\* received messages is cleared.
StepOver(inbox, read) ==
    LET n == Len(inbox)
        turns == {k \in 0..(n - 1) : inbox[((read + k) % n) + 1] # NonValue}
    IN  IF n = 0 \/ turns = {} THEN [inbox |-> << >>, read |-> 0]
        ELSE [inbox |-> inbox, read |-> (read + (CHOOSE k \in turns : \A j \in turns : k <= j)) % n]

HaveUnread(p) == p.read < Len(p.inbox)

-----------------------------------------------------------------------------
(* tick: next_process ends the previous slice and picks the next process.  *)

\* Faulty variant: the advantage is given to the Low processes.
PickLow(queues) ==
    LET order == IF bAdvantage < NormalAdvantage THEN <<"High", "Low", "Normal">>
                 ELSE <<"High", "Normal", "Low">>
        ready == {i \in 1..3 : queues[order[i]] # << >>}
    IN  IF ready = {} THEN "None" ELSE order[CHOOSE i \in ready : \A j \in ready : i <= j]
\* next_process_pick_from_the_queues: the queue it takes the process from.
Pick(queues) ==
    LET order == IF bAdvantage < NormalAdvantage THEN <<"High", "Normal", "Low">>
                 ELSE <<"High", "Low", "Normal">>
        ready == {i \in 1..3 : queues[order[i]] # << >>}
    IN  IF ready = {} THEN "None" ELSE order[CHOOSE i \in ready : \A j \in ready : i <= j]

\* With a process its slice begins; without one tick returns false and the VM ends.
PickNext(queues) ==
    LET q == Pick(queues) IN
    /\ bResult' = "None"
    /\ IF q = "None"
       THEN /\ bCurrent' = NoPid /\ bQueue' = queues /\ bPhase' = "stopped"
            /\ bAdvantage' = IF bAdvantage < NormalAdvantage THEN bAdvantage + 1 ELSE 0
       ELSE /\ bCurrent' = Head(queues[q]) /\ bQueue' = [queues EXCEPT ![q] = Tail(@)]
            /\ bPhase' = "slice" /\ UNCHANGED bAdvantage

\* terminate_process: no name is unregistered, nobody is told.
Terminated == [p \in Registered \ {bCurrent} |-> bProc[p]]

\* Faulty variant: the process that used up its slice is forgotten.
TickYieldedLost ==
    /\ bResult \in {"None", "Yield"}
    /\ PickNext(IF bResult = "Yield" THEN bQueue ELSE Enqueued(bQueue, bCurrent))
    /\ UNCHANGED <<bProc, bWaiting, bNextPid, bStranded>>
TickYielded ==
    /\ bResult \in {"None", "Yield"}
    /\ PickNext(Enqueued(bQueue, bCurrent))
    /\ UNCHANGED <<bProc, bWaiting, bNextPid, bStranded>>

TickFinished ==
    /\ bResult = "Finished" \/ (bResult = "Exception" /\ Self.catches = 0)
    /\ bProc' = Terminated /\ bWaiting' = bWaiting \ {bCurrent}
    /\ PickNext(bQueue)
    /\ UNCHANGED <<bNextPid, bStranded>>

\* handle_process_exception with a catch on the stack: the same process goes on there,
\* and dispatch gives it the reductions of a new slice (swap_in).
TickCaught ==
    /\ bResult = "Exception" /\ Self.catches > 0
    /\ bProc' = [bProc EXCEPT ![bCurrent].at = "handler"]
    /\ bPhase' = "slice" /\ bResult' = "None"
    /\ UNCHANGED <<bQueue, bWaiting, bAdvantage, bCurrent, bNextPid, bStranded>>

\* A slice may end between loop_rec, which found the inbox empty, and wait, and a message
\* come: such a process is neither queued nor waiting.
TickWaits ==
    /\ bResult = "InfiniteWait"
    /\ bWaiting' = IF HaveUnread(Self) THEN bWaiting ELSE bWaiting \cup {bCurrent}
    /\ bStranded' = IF HaveUnread(Self) THEN bStranded \cup {bCurrent} ELSE bStranded
    /\ PickNext(bQueue)
    /\ UNCHANGED <<bProc, bNextPid>>

Tick ==
    /\ bPhase = "tick"
    /\ \/ /\ bCurrent = NoPid /\ PickNext(bQueue)
          /\ UNCHANGED <<bProc, bWaiting, bNextPid, bStranded>>
       \/ bCurrent # NoPid /\ (TickYielded \/ TickFinished \/ TickCaught \/ TickWaits)

-----------------------------------------------------------------------------
(* Opcodes of the running process.                                         *)

\* The loop of dispatch is left; the scheduler reads the result on the next tick.
EndSlice(result, at) ==
    /\ bProc' = [bProc EXCEPT ![bCurrent].at = at] /\ bPhase' = "tick" /\ bResult' = result
    /\ UNCHANGED <<bQueue, bWaiting, bAdvantage, bCurrent, bStranded>>
\* The opcode returned DispatchResult::Normal.
GoOn(p) ==
    /\ bProc' = [bProc EXCEPT ![bCurrent] = p]
    /\ UNCHANGED <<bQueue, bWaiting, bAdvantage, bCurrent, bNextPid, bResult, bStranded, bPhase>>

\* ctx.reductions has reached zero after an opcode.
OutOfReductions == EndSlice("Yield", Self.at) /\ UNCHANGED bNextPid

\* notify_new_incoming_message looks at current_queue, which no statement of the
\* emulator ever sets: it is Queue::None for a process in infinite_wait too.
CurrentQueue(pid) == "None"
Woken(pid) == CurrentQueue(pid) = "InfiniteWait"

Deliver(pid) ==
    [bProc[pid] EXCEPT !.inbox = Append(@, bProc[pid].sent + 1), !.sent = @ + 1]

\* send, and deliver_message of the receiver if it is registered.
Send(pid) ==
    /\ Self.at = "code" /\ pid \in Registered /\ bProc[pid].sent < MaxBeamMail
    /\ bProc' = [bProc EXCEPT ![pid] = Deliver(pid)]
    /\ bWaiting' = IF Woken(pid) THEN bWaiting \ {pid} ELSE bWaiting
    /\ bQueue' = IF Woken(pid) THEN Enqueued(bQueue, pid) ELSE bQueue
    /\ UNCHANGED <<bAdvantage, bCurrent, bNextPid, bResult, bStranded, bPhase>>

\* create_process and register_new_process.  In a full table the insertion moves every
\* process; curr_p and ctx of dispatch stay on the freed one, and what the rest of the
\* slice does is undefined: the model ends there.
Spawn(prio) ==
    /\ Self.at = "code" /\ bNextPid < MaxBeamPids
    /\ bProc' = [p \in Registered \cup {bNextPid} |->
                    IF p = bNextPid THEN NewProcess(prio) ELSE bProc[p]]
    /\ bQueue' = [bQueue EXCEPT ![prio] = Append(@, bNextPid)]
    /\ bNextPid' = bNextPid + 1
    /\ bPhase' = IF Cardinality(Registered) < TableRoom THEN bPhase ELSE "dangling"
    /\ UNCHANGED <<bWaiting, bAdvantage, bCurrent, bResult, bStranded>>

\* An opcode fails: a bad argument of a native function, a raise, no matching clause.
Raise == Self.at = "code" /\ EndSlice("Exception", "code") /\ UNCHANGED bNextPid

\* create_process of a function that does not exist: the pid is used up.
SpawnUndefined ==
    /\ Self.at = "code" /\ bNextPid < MaxBeamPids /\ bNextPid' = bNextPid + 1
    /\ EndSlice("Exception", "code")

\* An error that is no exception, such as a native function that is not implemented: dispatch
\* returns it, and the emulator ends with every process in it.
FatalError ==
    /\ Self.at = "code" /\ bPhase' = "halted"
    /\ UNCHANGED <<bProc, bQueue, bWaiting, bAdvantage, bCurrent, bNextPid, bResult, bStranded>>

Try == Self.at = "code" /\ Self.catches < MaxCatches /\ GoOn([Self EXCEPT !.catches = @ + 1])
TryEnd == Self.at = "code" /\ Self.catches > 0 /\ GoOn([Self EXCEPT !.catches = @ - 1])
\* try_case and catch_end, where an exception resumes.
TryCase ==
    /\ Self.at = "handler"
    /\ GoOn([Self EXCEPT !.catches = @ - 1, !.at = "code"])

\* return on an empty stack, which has no catch left.
Return ==
    Self.at = "code" /\ Self.catches = 0 /\ EndSlice("Finished", "code") /\ UNCHANGED bNextPid

\* The receive loop: loop_rec reads a message or falls to wait or wait_timeout.
Receive == Self.at = "code" /\ GoOn([Self EXCEPT !.at = "loop_rec"])
LoopRec ==
    /\ Self.at = "loop_rec"
    /\ GoOn([Self EXCEPT !.at = IF Self.inbox = << >> THEN "wait" ELSE "match"])
\* No clause matches: step_over, which stays where it is on a message not received.
LoopRecEnd ==
    /\ Self.at = "match"
    /\ LET m == StepOver(Self.inbox, Self.read)
       IN  GoOn([Self EXCEPT !.read = m.read, !.inbox = m.inbox, !.at = "loop_rec"])
\* remove_current: the message becomes a non-value and the index moves on.
RemoveMessage ==
    /\ Self.at = "match"
    /\ LET i == Self.read + 1
           m == StepOver([Self.inbox EXCEPT ![i] = NonValue], Self.read)
       IN  GoOn([Self EXCEPT !.got = Self.inbox[i], !.inbox = m.inbox, !.read = m.read, !.at = "code"])
\* wait, and wait_timeout with a time other than zero, which nothing ends.
Wait == Self.at = "wait" /\ EndSlice("InfiniteWait", "loop_rec") /\ UNCHANGED bNextPid
\* wait_timeout with zero falls through to timeout: reset_read_index.
Timeout == Self.at = "wait" /\ GoOn([Self EXCEPT !.read = 0, !.at = "code"])

Opcode ==
    \/ \E pid \in BeamPid : Send(pid)
    \/ \E prio \in Prio : Spawn(prio)
    \/ SpawnUndefined \/ Raise \/ FatalError \/ Try \/ TryEnd \/ TryCase \/ Return
    \/ Receive \/ LoopRec \/ LoopRecEnd \/ RemoveMessage \/ Wait \/ Timeout

\* run_emulator creates the root process and ticks.
BeamInit ==
    /\ bProc = [p \in {0} |-> NewProcess("Normal")]
    /\ bQueue = [q \in Prio |-> IF q = "Normal" THEN <<0>> ELSE << >>]
    /\ bWaiting = {} /\ bAdvantage = 0 /\ bCurrent = NoPid /\ bNextPid = 1
    /\ bResult = "None" /\ bStranded = {} /\ bPhase = "tick"

BeamNext == Tick \/ (bPhase = "slice" /\ (Opcode \/ OutOfReductions))

HighAlive == \E p \in Registered : bProc[p].prio = "High"
\* An error came out of dispatch, or its slice went on in freed memory.
CutShort == bPhase \in {"halted", "dangling"}

-----------------------------------------------------------------------------
(***************************************************************************)
(* Every registered process that is not stranded has one home: it is       *)
(* current, or stands once in the queue of its priority, or waits; and     *)
(* nothing but registered processes stands there.                          *)
(* dispatch and next_process_finalize_previous dereference the pids they   *)
(* find without looking, and a process with no home never runs again.      *)
(***************************************************************************)
OneHome ==
    /\ \A p \in Registered :
          LET homes == (IF p = bCurrent THEN {"current"} ELSE {})
                       \cup (IF p \in bWaiting THEN {"waiting"} ELSE {})
                       \cup {q \in Prio : p \in ToSet(bQueue[q])}
          IN  /\ Cardinality(homes) = 1 \/ (homes = {} /\ p \in bStranded)
              /\ homes \cap Prio \subseteq {bProc[p].prio}
    /\ \A q \in Prio : IsInjective(bQueue[q]) /\ ToSet(bQueue[q]) \subseteq Registered
    /\ bWaiting \subseteq Registered /\ bCurrent \in Registered \cup {NoPid}
    /\ bPhase = "slice" => bCurrent # NoPid

(***************************************************************************)
(* Mail is received once, in the order of delivery: the messages after the *)
(* last one received are in the inbox and no others, and the read index of *)
(* an inbox that is not empty stands at the oldest, through wrapping and   *)
(* clearing in step_over.                                                  *)
(***************************************************************************)
MailInOrder ==
    \A pid \in Registered :
        LET p == bProc[pid] IN
        /\ Only(p.inbox, Nat \ {NonValue}) = [i \in 1..(p.sent - p.got) |-> p.got + i]
        /\ p.inbox # << >> => HaveUnread(p) /\ p.inbox[p.read + 1] = p.got + 1

(***************************************************************************)
(* No process and no message is lost or doubled between the queues, the    *)
(* waiting set and the inboxes.                                            *)
(***************************************************************************)
NothingMislaid == OneHome /\ MailInOrder

(***************************************************************************)
(* A Normal process that is ready runs, unless a High one is alive, the    *)
(* emulator ends, a spawn moves the table under the running process, or    *)
(* the current process resumes after an exception: neither Low processes   *)
(* nor those that spin on a message they do not match keep it from running.*)
(***************************************************************************)
NormalRuns ==
    \A p \in BeamPid :
        p \in ToSet(bQueue["Normal"])
            ~> (bCurrent = p \/ HighAlive \/ CutShort
                \/ (bCurrent # NoPid /\ Self.at = "handler"))

(***************************************************************************)
(* "The logic may continue running same process if the reductions allow,   *)
(* after having been interrupted by an exception" (ScheduleHint): one      *)
(* process's exceptions do not keep a ready Normal process waiting.        *)
(***************************************************************************)
ThrowersYield ==
    \A p \in BeamPid :
        p \in ToSet(bQueue["Normal"]) ~> (bCurrent = p \/ HighAlive \/ CutShort)

(***************************************************************************)
(* "Checks whether the process was placed in one of waiting sets and wakes *)
(* it up" (notify_new_incoming_message): no waiting process has mail.      *)
(***************************************************************************)
WaitersHaveNoMail == \A p \in bWaiting : bProc[p].inbox = << >>
=============================================================================
