------------------------------ MODULE Behaviors ------------------------------
(***************************************************************************)
(* The generic behaviors (agent_rt/behaviors.rs): the dispatch of a        *)
(* message to a GenAgent and the handlers of an EventManager.  Callbacks   *)
(* belong to the user: whatever they return is possible.                   *)
(***************************************************************************)
EXTENDS Naturals, Sequences, Collections

CONSTANTS
    HandlerId,      \* ids of event handlers; several handlers may share one
    MaxHandlers,    \* bound: handlers installed
    MaxGenMessages  \* bound: messages dispatched and events

ASSUME BehaviorsAssumption == MaxHandlers \in Nat /\ MaxGenMessages \in Nat

VARIABLES
    gHandlers,  \* handlers, in the order they were added: id and serial number
    gAdded,     \* serial numbers given out
    gCalled,    \* history: the handlers the last notify() called
    gAsked,     \* history: those of them that asked to be removed
    gBefore,    \* history: gHandlers before the last notify()
    gOwn        \* messages dispatched to each callback

gVars == <<gHandlers, gAdded, gCalled, gAsked, gBefore, gOwn>>

Callbacks == {"request", "notify", "info"}
Handler == [id : HandlerId, nr : 0..MaxHandlers]

GenInit ==
    /\ gHandlers = << >> /\ gAdded = 0 /\ gCalled = << >> /\ gAsked = {} /\ gBefore = << >>
    /\ gOwn = [c \in Callbacks |-> 0]

Dispatched == gOwn["request"] + gOwn["notify"] + gOwn["info"]

(***************************************************************************)
(* dispatch_gen_agent_message: a message with $call goes to handle_request *)
(* even if it has $cast too; what the callbacks return is passed on, or,   *)
(* from handle_notify and handle_info, ignored, a Stop too.                *)
(***************************************************************************)
Dispatch(fields) ==
    LET callback == CASE "$call" \in fields -> "request"
                      [] "$call" \notin fields /\ "$cast" \in fields -> "notify"
                      [] OTHER -> "info"
    IN  /\ Dispatched < MaxGenMessages
        /\ gOwn' = [gOwn EXCEPT ![callback] = @ + 1]
        /\ UNCHANGED <<gHandlers, gAdded, gCalled, gAsked, gBefore>>

AddHandler(id) ==
    /\ gAdded < MaxHandlers /\ gAdded' = gAdded + 1
    /\ gHandlers' = Append(gHandlers, [id |-> id, nr |-> gAdded])
    /\ UNCHANGED <<gCalled, gAsked, gBefore, gOwn>>

\* All handlers with the id.
RemoveHandler(id) ==
    /\ gHandlers' = Only(gHandlers, {h \in Handler : h.id # id})
    /\ UNCHANGED <<gAdded, gCalled, gAsked, gBefore, gOwn>>

DropAt(s, i) == SubSeq(s, 1, i - 1) \o SubSeq(s, i + 1, Len(s))

\* Faulty variant: the indices are removed in ascending order.
RemovedUpwards(asked) ==
    LET after[i \in 0..Len(gHandlers)] ==
            IF i = 0 THEN gHandlers
            ELSE IF i \in asked THEN DropAt(after[i - 1], i) ELSE after[i - 1]
    IN  after[Len(gHandlers)]

\* The indices collected in the loop, removed from the last to the first.
Removed(asked) ==
    LET from[i \in 1..(Len(gHandlers) + 1)] ==
            IF i > Len(gHandlers) THEN gHandlers
            ELSE IF i \in asked THEN DropAt(from[i + 1], i) ELSE from[i + 1]
    IN  from[1]

Notify ==
    \E asked \in SUBSET DOMAIN gHandlers :
        /\ gHandlers' = Removed(asked)
        /\ gBefore' = gHandlers
        /\ gCalled' = [i \in DOMAIN gHandlers |-> gHandlers[i].nr]
        /\ gAsked' = {gHandlers[i].nr : i \in asked}
        /\ UNCHANGED <<gAdded, gOwn>>

GenNext ==
    \/ \E fields \in SUBSET {"$call", "$cast"} : Dispatch(fields)
    \/ \E id \in HandlerId : AddHandler(id) \/ RemoveHandler(id)
    \/ Notify

-----------------------------------------------------------------------------
(***************************************************************************)
(* An event reaches every handler once, and those that asked for it, and   *)
(* only those, are gone afterwards, in whatever positions they stand; the  *)
(* others keep their order.                                                *)
(***************************************************************************)
NotifyRemovesAskers ==
    [][gBefore' # gBefore \/ gAsked' # gAsked =>
         gHandlers' = Only(gBefore', {h \in Handler : h.nr \notin gAsked'})]_gVars
=============================================================================
