---------------------------- MODULE RateLimiter ----------------------------
(***************************************************************************)
(* The rate limiter of the bridge's HTTP requests (rate_limiter.rs): a     *)
(* sliding window of timestamps for each provider behind one mutex.  Time  *)
(* is counted in ticks; a timestamp is its age, which stops at the window. *)
(* A thread asks once, in acquire_blocking: it sleeps as long as it is     *)
(* told and tries again.                                                   *)
(***************************************************************************)
EXTENDS Naturals, FiniteSets, Sequences

CONSTANTS
    Provider,    \* hosts
    RlThread,    \* blocking threads, one request each
    RlLimits,    \* limits that may be set: [max, window]
    MaxSets      \* bound: calls of set_limit and set_default_limit

ASSUME RateLimiterAssumption ==
    /\ \A l \in RlLimits : l.max \in Nat /\ l.window \in Nat \ {0}
    /\ MaxSets \in Nat

VARIABLES
    rlLimit,     \* providers: limit and the ages of the timestamps
    rlDefault,   \* default_limit
    rlThread,    \* of each thread: what it asks for, its place, its sleep
    rlPoisoned,  \* a thread panicked while it held the mutex
    rlSets,      \* calls of set_limit, for the bound
    rlGrants     \* history: ages of the permits since the limit was set

rlVars == <<rlLimit, rlDefault, rlThread, rlPoisoned, rlSets, rlGrants>>

NoLimit == [max |-> 0, window |-> 0]
NoSleep == [for |-> "none", at |-> "new", sleep |-> 0]

RlInit ==
    /\ rlLimit = << >> /\ rlDefault = NoLimit
    /\ rlThread = [t \in RlThread |-> NoSleep]
    /\ rlPoisoned = FALSE /\ rlSets = 0
    /\ rlGrants = [p \in Provider |-> << >>]

Fresh(l) == [max |-> l.max, window |-> l.window, ages |-> << >>]
WithLimit(p, v) == [q \in DOMAIN rlLimit \union {p} |-> IF q = p THEN v ELSE rlLimit[q]]

\* set_limit replaces what the window held.
SetLimit(p, l) ==
    /\ rlSets < MaxSets /\ ~rlPoisoned
    /\ rlSets' = rlSets + 1
    /\ rlLimit' = WithLimit(p, Fresh(l))
    /\ rlGrants' = [rlGrants EXCEPT ![p] = << >>]
    /\ UNCHANGED <<rlDefault, rlThread, rlPoisoned>>

SetDefaultLimit(l) ==
    /\ rlSets < MaxSets /\ ~rlPoisoned
    /\ rlSets' = rlSets + 1
    /\ rlDefault' = l
    /\ UNCHANGED <<rlLimit, rlThread, rlPoisoned, rlGrants>>

\* The timestamps the loop pops from the front: it stops at the first one
\* that is still inside the window.
Expired(ages, window) == {i \in 1..Len(ages) : \A j \in 1..i : ages[j] >= window}
Behind(ages, k) == SubSeq(ages, k + 1, Len(ages))

\* Faulty variant: a timestamp expires one tick early.
EvictedEarly(l) == Behind(l.ages, Cardinality(Expired(l.ages, l.window - 1)))

Evicted(l) == Behind(l.ages, Cardinality(Expired(l.ages, l.window)))

Become(t, at, sleep) ==
    rlThread' = [rlThread EXCEPT ![t].at = at, ![t].sleep = sleep]

\* try_acquire, called with the mutex free.  A limit of zero finds no oldest
\* timestamp: the unwrap() panics and poisons the mutex.
TryAcquire(t, p) ==
    LET known == p \in DOMAIN rlLimit
        limit == IF known THEN rlLimit[p] ELSE Fresh(rlDefault)
        ages == Evicted(limit)
    IN  CASE ~known /\ rlDefault = NoLimit ->
               Become(t, "granted", 0) /\ UNCHANGED <<rlLimit, rlPoisoned, rlGrants>>
          [] (known \/ rlDefault # NoLimit) /\ Len(ages) < limit.max ->
               /\ rlLimit' = WithLimit(p, [limit EXCEPT !.ages = Append(ages, 0)])
               /\ rlGrants' = [rlGrants EXCEPT ![p] = Append(@, 0)]
               /\ Become(t, "granted", 0) /\ UNCHANGED rlPoisoned
          [] (known \/ rlDefault # NoLimit) /\ Len(ages) >= limit.max /\ ages # << >> ->
               /\ rlLimit' = WithLimit(p, [limit EXCEPT !.ages = ages])
               /\ Become(t, "asleep", limit.window - Head(ages))
               /\ UNCHANGED <<rlPoisoned, rlGrants>>
          [] OTHER ->
               /\ rlPoisoned' = TRUE /\ Become(t, "panicked", 0)
               /\ rlLimit' = WithLimit(p, limit) /\ UNCHANGED rlGrants

\* acquire_blocking: the first attempt, or the next one after the sleep.
Acquire(t) ==
    /\ rlThread[t].at = "asking" \/ (rlThread[t].at = "asleep" /\ rlThread[t].sleep = 0)
    /\ IF rlPoisoned THEN Become(t, "panicked", 0) /\ UNCHANGED <<rlLimit, rlPoisoned, rlGrants>>
       ELSE TryAcquire(t, rlThread[t].for)
    /\ UNCHANGED <<rlDefault, rlSets>>

Ask(t, p) ==
    /\ rlThread[t].at = "new"
    /\ rlThread' = [rlThread EXCEPT ![t].at = "asking", ![t].for = p]
    /\ UNCHANGED <<rlLimit, rlDefault, rlPoisoned, rlSets, rlGrants>>

Older(ages, window) == [i \in DOMAIN ages |-> IF ages[i] < window THEN ages[i] + 1 ELSE window]

RlTick ==
    /\ rlLimit' = [p \in DOMAIN rlLimit |->
                     [rlLimit[p] EXCEPT !.ages = Older(@, rlLimit[p].window)]]
    /\ rlGrants' = [p \in Provider |->
                     IF p \in DOMAIN rlLimit THEN Older(rlGrants[p], rlLimit[p].window)
                     ELSE rlGrants[p]]
    /\ rlThread' = [t \in RlThread |->
                     [rlThread[t] EXCEPT !.sleep = IF @ > 0 THEN @ - 1 ELSE 0]]
    /\ UNCHANGED <<rlDefault, rlPoisoned, rlSets>>

RlNext ==
    \/ \E p \in Provider, l \in RlLimits : SetLimit(p, l)
    \/ \E l \in RlLimits : SetDefaultLimit(l)
    \/ \E t \in RlThread : Acquire(t) \/ \E p \in Provider : Ask(t, p)
    \/ RlTick

-----------------------------------------------------------------------------
(***************************************************************************)
(* No window of a provider's limit contains more than max_requests         *)
(* permits, counted from when the limit was set, however many threads      *)
(* sleep and wake up together.                                             *)
(***************************************************************************)
WindowRespected ==
    \A p \in DOMAIN rlLimit :
        Cardinality({i \in DOMAIN rlGrants[p] : rlGrants[p][i] < rlLimit[p].window})
            <= rlLimit[p].max

(***************************************************************************)
(* A thread that is told to wait gets its permit once the others have had  *)
(* theirs, or fails because a limit of zero poisoned the limiter: the wait *)
(* it is told is never zero for ever, nor too short for ever.              *)
(***************************************************************************)
WaitersEnd ==
    \A t \in RlThread : (rlThread[t].at = "asleep") ~> (rlThread[t].at \in {"granted", "panicked"})
=============================================================================
