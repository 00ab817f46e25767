----------------------------- MODULE AgentsProofs -----------------------------
(***************************************************************************)
(* What runs agents beside the scheduler, for every value of the           *)
(* constants: the ready queues, the rate limiter, the I/O bridge, the      *)
(* agent workers on top of it, and the MCP client.                         *)
(***************************************************************************)
EXTENDS MCAgents, FiniteSetTheorems, SequenceTheorems,
        WellFoundedInduction, TLAPS

-----------------------------------------------------------------------------
(* The ready queues.                                                       *)

\* Enqueueing keeps the queues queues of PIDs (scheduler.rs enqueue).
LEMMA EnqueuedType ==
    ASSUME NEW qs \in [Priority -> Seq(Pid)], NEW c \in Priority, NEW p \in Pid
    PROVE  Enqueued(qs, c, p) \in [Priority -> Seq(Pid)]
  BY DEF Enqueued

\* Taking the head of a queue that has one keeps them so.
LEMMA PoppedType ==
    ASSUME NEW qs \in [Priority -> Seq(Pid)], NEW c \in Priority, qs[c] # << >>
    PROVE  Popped(qs, c) \in [Priority -> Seq(Pid)]
  BY DEF Popped

\* next_runnable() takes from a queue that has an entry, if any queue has.
LEMMA NextClassNonEmpty ==
    ASSUME NEW qs \in [Priority -> Seq(Pid)], NEW adv \in 0..NormalAdvantage,
           ~NothingQueued(qs)
    PROVE  NextClass(qs, adv) \in Priority /\ qs[NextClass(qs, adv)] # << >>
  BY NormalAdvantageAssumption DEF NextClass, LowHasTurn, NothingQueued, Priority

\* advantage_count stays between 0 and NORMAL_ADVANTAGE.
LEMMA NextAdvantageType ==
    ASSUME NEW qs, NEW adv \in 0..NormalAdvantage
    PROVE  NextAdvantage(qs, adv) \in 0..NormalAdvantage
  BY NormalAdvantageAssumption DEF NextAdvantage

-----------------------------------------------------------------------------
\* The queues and the advantage count keep their types (scheduler.rs enqueue
\* and next_runnable).
THEOREM TypeCorrect == Spec => []TypeOK
<1>1. Init => TypeOK
  BY NormalAdvantageAssumption DEF Init, TypeOK, EmptyQueues
<1>2. TypeOK /\ [Next]_vars => TypeOK'
  <2> SUFFICES ASSUME TypeOK, [Next]_vars PROVE TypeOK'
    OBVIOUS
  <2>1. ASSUME NEW c \in Priority, NEW p \in Pid, Enqueue(c, p) PROVE TypeOK'
    BY <2>1, EnqueuedType DEF Enqueue, TypeOK
  <2>2. CASE Take
    <3> DEFINE c == NextClass(queues, advantage)
    <3>1. c \in Priority /\ queues[c] # << >>
      BY <2>2, NextClassNonEmpty DEF Take, TypeOK
    <3>2. queues' \in [Priority -> Seq(Pid)]
      BY <2>2, <3>1, PoppedType DEF Take, TypeOK
    <3>3. advantage' \in 0..NormalAdvantage
      BY <2>2, NextAdvantageType DEF Take, TypeOK
    <3>4. bypass' \in 0..NormalAdvantage
      BY <2>2, <3>1, NormalAdvantageAssumption DEF Take, TypeOK, Priority
    <3> QED BY <3>2, <3>3, <3>4 DEF TypeOK
  <2>3. CASE UNCHANGED vars
    BY <2>3 DEF TypeOK, vars
  <2> QED BY <2>1, <2>2, <2>3 DEF Next
<1> QED BY <1>1, <1>2, PTL DEF Spec

\* BypassCounted is inductive: a Normal entry is only taken past a Low one
\* when the advantage count, which counts it, is still below the limit.
LEMMA BypassCountedInvariant == Spec => []BypassCounted
<1>1. Init => BypassCounted
  BY NormalAdvantageAssumption DEF Init, BypassCounted
<1>2. TypeOK /\ BypassCounted /\ [Next]_vars => BypassCounted'
  <2> SUFFICES ASSUME TypeOK, BypassCounted, [Next]_vars PROVE BypassCounted'
    OBVIOUS
  <2>1. ASSUME NEW c \in Priority, NEW p \in Pid, Enqueue(c, p) PROVE BypassCounted'
    BY <2>1 DEF Enqueue, BypassCounted
  <2>2. CASE Take
    BY <2>2, NormalAdvantageAssumption
    DEF Take, BypassCounted, TypeOK, NextClass, NextAdvantage, LowHasTurn,
        NothingQueued, Priority
  <2>3. CASE UNCHANGED vars
    BY <2>3 DEF BypassCounted, vars
  <2> QED BY <2>1, <2>2, <2>3 DEF Next
<1> QED BY <1>1, <1>2, TypeCorrect, PTL DEF Spec

\* A queued Low process is passed over by fewer than NORMAL_ADVANTAGE Normal
\* ones in a row (next_runnable, scheduler.rs).
THEOREM LowServed == Spec => []LowBypassBounded
<1>1. BypassCounted => LowBypassBounded
  BY DEF BypassCounted, LowBypassBounded
<1> QED BY <1>1, BypassCountedInvariant, PTL

-----------------------------------------------------------------------------
(* The rate limiter.                                                       *)

RlSpec == RlInit /\ [][RlNext]_rlVars

RlLimitType == [max : Nat, window : Nat \ {0}, ages : Seq(Nat)]

RlThreadType == [for : Provider \union {"none"}, at : {"new", "asking", "asleep", "granted", "panicked"},
                 sleep : Int]

RlTypeOK ==
    /\ DOMAIN rlLimit \subseteq Provider
    /\ \A p \in DOMAIN rlLimit : rlLimit[p] \in RlLimitType
    /\ rlDefault.max \in Nat /\ (rlDefault # NoLimit => rlDefault.window \in Nat \ {0})
    /\ rlGrants \in [Provider -> Seq(Nat)]
    /\ rlThread \in [RlThread -> RlThreadType]
    /\ \A t \in RlThread : rlThread[t].at # "new" => rlThread[t].for \in Provider

\* The timestamps kept are the last permits, and the others are too old.
Remembered(ages, grants, window) ==
    /\ Len(ages) <= Len(grants)
    /\ \A i \in 1..Len(ages) : ages[i] = grants[Len(grants) - Len(ages) + i]
    /\ \A i \in 1..(Len(grants) - Len(ages)) : grants[i] >= window

RlInv ==
    /\ \A p \in DOMAIN rlLimit :
          /\ Remembered(rlLimit[p].ages, rlGrants[p], rlLimit[p].window)
          /\ Len(rlLimit[p].ages) <= rlLimit[p].max
    /\ \A p \in Provider \ DOMAIN rlLimit : rlGrants[p] = << >>

\* The loop pops the timestamps it finds expired, from the first one on.
LEMMA ExpiredPrefix ==
    ASSUME NEW ages \in Seq(Nat), NEW window \in Nat
    PROVE  /\ Cardinality(Expired(ages, window)) \in 0..Len(ages)
           /\ \A i \in 1..Cardinality(Expired(ages, window)) : ages[i] >= window
<1> DEFINE E == Expired(ages, window)
           k == Cardinality(E)
<1>1. Len(ages) \in Nat /\ 1 \in Int /\ Len(ages) \in Int
  OBVIOUS
<1>2. IsFiniteSet(1..Len(ages)) /\ Cardinality(1..Len(ages)) = Len(ages)
  <2>1. \A n \in Nat : (IF 1 > n THEN 0 ELSE n - 1 + 1) = n
    OBVIOUS
  <2> QED BY <1>1, <2>1, FS_Interval
<1>3. E \subseteq 1..Len(ages)
  BY DEF Expired
<1>4. IsFiniteSet(E) /\ k \in Nat /\ k <= Len(ages)
  BY <1>2, <1>3, FS_Subset, FS_CardinalityType
<1>5. ASSUME NEW i \in 1..k PROVE ages[i] >= window
  <2>0. i \in 1..Len(ages) /\ i - 1 \in Nat /\ i - 1 \in Int /\ i - 1 < i
    BY <1>1, <1>4
  <2>1. SUFFICES ASSUME i \notin E PROVE FALSE
    BY <2>0 DEF Expired
  <2>2. E \subseteq 1..(i - 1)
    <3>1. ASSUME NEW j \in E, j >= i PROVE FALSE
      <4>1. j \in 1..Len(ages) /\ \A l \in 1..j : ages[l] >= window
        BY DEF Expired
      <4>2. \A l \in 1..i : l \in 1..j
        BY <1>1, <2>0, <3>1, <4>1
      <4> QED BY <2>0, <2>1, <4>1, <4>2 DEF Expired
    <3> QED BY <1>1, <1>3, <2>0, <3>1
  <2>3. IsFiniteSet(1..(i - 1)) /\ Cardinality(1..(i - 1)) = i - 1
    <3>1. \A n \in Nat : (IF 1 > n THEN 0 ELSE n - 1 + 1) = n
      OBVIOUS
    <3> QED BY <1>1, <2>0, <3>1, FS_Interval
  <2>4. k <= i - 1
    BY <2>2, <2>3, FS_Subset
  <2> QED BY <1>4, <2>0, <2>4
<1> QED BY <1>1, <1>4, <1>5


\* Popping expired timestamps forgets no permit that counts.
LEMMA RememberedBehind ==
    ASSUME NEW ages \in Seq(Nat), NEW grants \in Seq(Nat), NEW window \in Nat,
           Remembered(ages, grants, window),
           NEW k \in 0..Len(ages), \A i \in 1..k : ages[i] >= window
    PROVE  /\ Behind(ages, k) \in Seq(Nat) /\ Len(Behind(ages, k)) = Len(ages) - k
           /\ Remembered(Behind(ages, k), grants, window)
<1> DEFINE b == Behind(ages, k)
           n == Len(ages)
           m == Len(grants)
<1>0. n \in Nat /\ m \in Nat /\ n <= m /\ k \in Nat /\ k <= n
  BY DEF Remembered
<1>1. k + 1 \in Int /\ n \in Int /\ \A i \in (k + 1)..n : ages[i] \in Nat
  BY <1>0
<1>2. /\ b \in Seq(Nat) /\ Len(b) = (IF k + 1 <= n THEN n - (k + 1) + 1 ELSE 0)
      /\ \A i \in 1..(n - (k + 1) + 1) : b[i] = ages[k + 1 + i - 1]
  BY <1>1, SubSeqProperties DEF Behind
<1>3. Len(b) = n - k
  BY <1>0, <1>2
<1>4. \A i \in 1..(n - k) : b[i] = ages[k + i]
  <2>1. \A i \in 1..(n - k) : i \in 1..(n - (k + 1) + 1) /\ k + 1 + i - 1 = k + i
    BY <1>0
  <2> QED BY <1>2, <2>1
<1>5. ASSUME NEW i \in 1..(n - k) PROVE b[i] = grants[m - (n - k) + i]
  <2>1. k + i \in 1..n /\ m - n + (k + i) = m - (n - k) + i
    BY <1>0
  <2>2. ages[k + i] = grants[m - n + (k + i)]
    BY <2>1 DEF Remembered
  <2> QED BY <1>4, <2>1, <2>2
<1>6. ASSUME NEW i \in 1..(m - (n - k)) PROVE grants[i] >= window
  <2>1. CASE i <= m - n
    BY <1>0, <2>1 DEF Remembered
  <2>2. CASE i > m - n
    <3>1. i - (m - n) \in 1..n /\ i - (m - n) \in 1..k /\ m - n + (i - (m - n)) = i
      BY <1>0, <2>2
    <3>2. ages[i - (m - n)] = grants[m - n + (i - (m - n))]
      BY <3>1 DEF Remembered
    <3> QED BY <3>1, <3>2
  <2> QED BY <1>0, <2>1, <2>2
<1> HIDE DEF b
<1>7. Remembered(b, grants, window)
  BY <1>0, <1>3, <1>5, <1>6 DEF Remembered
<1> QED BY <1>2, <1>3, <1>7 DEF b

\* A permit is remembered as it is given.
LEMMA RememberedAppend ==
    ASSUME NEW ages \in Seq(Nat), NEW grants \in Seq(Nat), NEW window \in Nat,
           Remembered(ages, grants, window)
    PROVE  Remembered(Append(ages, 0), Append(grants, 0), window)
<1> DEFINE n == Len(ages)
           m == Len(grants)
<1>0. /\ n \in Nat /\ m \in Nat /\ n <= m
      /\ Len(Append(ages, 0)) = n + 1 /\ Len(Append(grants, 0)) = m + 1
  BY DEF Remembered
<1>1. ASSUME NEW i \in 1..(n + 1) PROVE Append(ages, 0)[i] = Append(grants, 0)[(m + 1) - (n + 1) + i]
  <2>1. (m + 1) - (n + 1) + i = m - n + i
    BY <1>0
  <2>2. CASE i = n + 1
    <3>1. m - n + i = m + 1
      BY <1>0, <2>2
    <3>2. Append(ages, 0)[n + 1] = 0 /\ Append(grants, 0)[m + 1] = 0
      OBVIOUS
    <3> QED BY <2>1, <2>2, <3>1, <3>2
  <2>3. CASE i \in 1..n
    <3>1. m - n + i \in 1..m /\ ages[i] = grants[m - n + i]
      BY <1>0, <2>3 DEF Remembered
    <3>2. /\ \A j \in 1..n : Append(ages, 0)[j] = ages[j]
          /\ \A j \in 1..m : Append(grants, 0)[j] = grants[j]
      OBVIOUS
    <3>3. Append(grants, 0)[m - n + i] = grants[m - n + i] /\ Append(ages, 0)[i] = ages[i]
      BY <2>3, <3>1, <3>2
    <3> QED BY <2>1, <3>1, <3>3
  <2>4. i = n + 1 \/ i \in 1..n
    BY <1>0
  <2> QED BY <2>2, <2>3, <2>4
<1>2. ASSUME NEW i \in 1..((m + 1) - (n + 1)) PROVE Append(grants, 0)[i] >= window
  <2>1. i \in 1..(m - n) /\ i \in 1..m
    BY <1>0
  <2> QED BY <2>1 DEF Remembered
<1>3. n + 1 <= m + 1
  BY <1>0
<1> QED BY <1>0, <1>1, <1>2, <1>3 DEF Remembered

\* Time passes for both alike.
LEMMA RememberedOlder ==
    ASSUME NEW ages \in Seq(Nat), NEW grants \in Seq(Nat), NEW window \in Nat,
           Remembered(ages, grants, window)
    PROVE  /\ Older(ages, window) \in Seq(Nat) /\ Len(Older(ages, window)) = Len(ages)
           /\ Older(grants, window) \in Seq(Nat)
           /\ Remembered(Older(ages, window), Older(grants, window), window)
<1>1. ASSUME NEW s \in Seq(Nat)
      PROVE  /\ Older(s, window) \in Seq(Nat) /\ Len(Older(s, window)) = Len(s)
             /\ \A i \in 1..Len(s) : Older(s, window)[i] = IF s[i] < window THEN s[i] + 1 ELSE window
  <2>1. Len(s) \in Nat /\ DOMAIN s = 1..Len(s) /\ \A i \in 1..Len(s) : s[i] \in Nat
    OBVIOUS
  <2>2. Older(s, window) \in [1..Len(s) -> Nat]
    BY <2>1 DEF Older
  <2>3. Older(s, window) \in Seq(Nat) /\ Len(Older(s, window)) = Len(s)
    <3>1. Older(s, window) \in Seq(Nat)
      BY <2>1, <2>2, SeqDef
    <3> QED BY <2>1, <2>2, <3>1, LenProperties
  <2> QED BY <2>1, <2>3 DEF Older
<1> DEFINE n == Len(ages)
           m == Len(grants)
           a == Older(ages, window)
           g == Older(grants, window)
<1>2. n \in Nat /\ m \in Nat /\ n <= m
  BY DEF Remembered
<1>3. /\ Len(a) = n /\ Len(g) = m
      /\ \A i \in 1..n : a[i] = IF ages[i] < window THEN ages[i] + 1 ELSE window
      /\ \A i \in 1..m : g[i] = IF grants[i] < window THEN grants[i] + 1 ELSE window
  BY <1>1
<1>4. ASSUME NEW i \in 1..n PROVE a[i] = g[m - n + i]
  <2>1. m - n + i \in 1..m /\ ages[i] = grants[m - n + i]
    BY <1>2 DEF Remembered
  <2> QED BY <1>3, <2>1
<1>5. ASSUME NEW i \in 1..(m - n) PROVE g[i] >= window
  <2>1. i \in 1..m /\ grants[i] >= window /\ grants[i] \in Nat
    BY <1>2 DEF Remembered
  <2> QED BY <1>3, <2>1
<1> QED BY <1>1, <1>2, <1>3, <1>4, <1>5 DEF Remembered


\* Replacing one provider's limit.
LEMMA RlReplaced ==
    ASSUME RlTypeOK, RlInv, NEW p \in Provider, NEW v \in RlLimitType, rlLimit' = WithLimit(p, v),
           NEW g \in Seq(Nat), rlGrants' = [rlGrants EXCEPT ![p] = g],
           Remembered(v.ages, g, v.window), Len(v.ages) <= v.max
    PROVE  /\ DOMAIN rlLimit' \subseteq Provider
           /\ \A q \in DOMAIN rlLimit' : rlLimit'[q] \in RlLimitType
           /\ rlGrants' \in [Provider -> Seq(Nat)]
           /\ RlInv'
<1>1. /\ DOMAIN rlLimit' = DOMAIN rlLimit \union {p}
      /\ rlLimit'[p] = v /\ \A q \in DOMAIN rlLimit \ {p} : rlLimit'[q] = rlLimit[q]
  BY DEF WithLimit
<1>2. rlGrants'[p] = g /\ \A q \in Provider \ {p} : rlGrants'[q] = rlGrants[q]
  BY DEF RlTypeOK
<1>3. rlGrants' \in [Provider -> Seq(Nat)]
  BY DEF RlTypeOK
<1>4. /\ DOMAIN rlLimit' \subseteq Provider
      /\ \A q \in DOMAIN rlLimit' : rlLimit'[q] \in RlLimitType
  BY <1>1 DEF RlTypeOK
<1>5. RlInv'
  BY <1>1, <1>2 DEF RlInv, RlTypeOK
<1> QED BY <1>3, <1>4, <1>5

\* A new limit has nothing to remember.
LEMMA FreshType ==
    ASSUME NEW l, l.max \in Nat, l.window \in Nat \ {0}
    PROVE  /\ Fresh(l) \in RlLimitType
           /\ Fresh(l).ages = << >> /\ Fresh(l).max = l.max /\ Fresh(l).window = l.window
           /\ Remembered(<< >>, << >>, l.window) /\ Len(<< >>) <= l.max
  BY DEF Fresh, RlLimitType, Remembered

\* A thread moves on.
LEMMA BecomeType ==
    ASSUME RlTypeOK, NEW t \in RlThread, NEW at \in {"granted", "asleep", "panicked"},
           NEW sleep \in Int, Become(t, at, sleep), rlThread[t].at # "new"
    PROVE  /\ rlThread' \in [RlThread -> RlThreadType]
           /\ \A u \in RlThread : rlThread'[u].at # "new" => rlThread'[u].for \in Provider
  BY DEF RlTypeOK, Become, RlThreadType

LEMMA RlAcquire ==
    ASSUME RlTypeOK, RlInv, NEW t \in RlThread, Acquire(t)
    PROVE  RlTypeOK' /\ RlInv'
<1> DEFINE p == rlThread[t].for
           limit == IF p \in DOMAIN rlLimit THEN rlLimit[p] ELSE Fresh(rlDefault)
           ages == Evicted(limit)
           known == p \in DOMAIN rlLimit \/ rlDefault # NoLimit
<1>0. p \in Provider /\ rlThread[t].at # "new" /\ UNCHANGED <<rlDefault, rlSets>>
  BY DEF Acquire, RlTypeOK
<1>1. known => /\ limit \in RlLimitType
               /\ Remembered(limit.ages, rlGrants[p], limit.window)
               /\ Len(limit.ages) <= limit.max
  <2>1. CASE p \in DOMAIN rlLimit
    BY <2>1 DEF RlTypeOK, RlInv
  <2>2. CASE p \notin DOMAIN rlLimit /\ rlDefault # NoLimit
    <3>1. rlGrants[p] = << >> /\ limit = Fresh(rlDefault)
      BY <1>0, <2>2 DEF RlInv
    <3>2. rlDefault.max \in Nat /\ rlDefault.window \in Nat \ {0}
      BY <2>2 DEF RlTypeOK
    <3> QED BY <3>1, <3>2, FreshType
  <2> QED BY <2>1, <2>2
<1> HIDE DEF limit
<1>2. ASSUME known
      PROVE  /\ limit.max \in Nat /\ limit.window \in Nat \ {0} /\ ages \in Seq(Nat)
             /\ rlGrants[p] \in Seq(Nat)
             /\ Remembered(ages, rlGrants[p], limit.window) /\ Len(ages) <= limit.max
  <2>1. /\ limit.max \in Nat /\ limit.window \in Nat \ {0} /\ limit.window \in Nat
        /\ limit.ages \in Seq(Nat) /\ rlGrants[p] \in Seq(Nat)
    BY <1>0, <1>1, <1>2 DEF RlLimitType, RlTypeOK
  <2> DEFINE k == Cardinality(Expired(limit.ages, limit.window))
  <2>2. k \in 0..Len(limit.ages) /\ \A i \in 1..k : limit.ages[i] >= limit.window
    BY <2>1, ExpiredPrefix
  <2> HIDE DEF k
  <2>3. /\ Behind(limit.ages, k) \in Seq(Nat) /\ Len(Behind(limit.ages, k)) = Len(limit.ages) - k
        /\ Remembered(Behind(limit.ages, k), rlGrants[p], limit.window)
    BY <1>1, <1>2, <2>1, <2>2, RememberedBehind
  <2>4. Len(limit.ages) - k <= limit.max
    <3>1. Len(limit.ages) \in Nat /\ Len(limit.ages) <= limit.max /\ limit.max \in Nat
      BY <1>1, <1>2, <2>1
    <3> QED BY <2>2, <3>1
  <2> QED BY <2>1, <2>3, <2>4 DEF Evicted, k
<1> HIDE DEF ages
<1>3. CASE rlPoisoned
  <2>1. Become(t, "panicked", 0) /\ UNCHANGED <<rlLimit, rlPoisoned, rlGrants>>
    BY <1>3 DEF Acquire
  <2>2. RlInv'
    BY <2>1 DEF RlInv
  <2> QED BY <1>0, <2>1, <2>2, BecomeType DEF RlTypeOK
<1>4. CASE ~rlPoisoned
  <2>0. TryAcquire(t, p)
    BY <1>4 DEF Acquire
  <2>1. CASE ~known
    <3>1. Become(t, "granted", 0) /\ UNCHANGED <<rlLimit, rlPoisoned, rlGrants>>
      BY <2>0, <2>1 DEF TryAcquire
    <3>2. RlInv'
      BY <3>1 DEF RlInv
    <3> QED BY <1>0, <3>1, <3>2, BecomeType DEF RlTypeOK
  <2>2. CASE known /\ Len(ages) < limit.max
    <3> DEFINE v == [limit EXCEPT !.ages = Append(ages, 0)]
    <3>1. /\ rlLimit' = WithLimit(p, v)
          /\ rlGrants' = [rlGrants EXCEPT ![p] = Append(rlGrants[p], 0)]
          /\ Become(t, "granted", 0)
      BY <1>2, <2>0, <2>2 DEF TryAcquire, limit, ages
    <3>2. /\ Append(ages, 0) \in Seq(Nat) /\ Append(rlGrants[p], 0) \in Seq(Nat)
          /\ Len(Append(ages, 0)) <= limit.max
      BY <1>2, <2>2
    <3>3. /\ v \in RlLimitType /\ v.ages = Append(ages, 0) /\ v.max = limit.max
          /\ v.window = limit.window
      BY <1>1, <2>2, <3>2 DEF RlLimitType
    <3>4. Remembered(Append(ages, 0), Append(rlGrants[p], 0), limit.window)
      BY <1>2, <2>2, RememberedAppend
    <3> HIDE DEF v
    <3>5. /\ DOMAIN rlLimit' \subseteq Provider
          /\ \A q \in DOMAIN rlLimit' : rlLimit'[q] \in RlLimitType
          /\ rlGrants' \in [Provider -> Seq(Nat)]
          /\ RlInv'
      BY <1>0, <3>1, <3>2, <3>3, <3>4, RlReplaced
    <3> QED BY <1>0, <3>1, <3>5, BecomeType DEF RlTypeOK
  <2>3. CASE known /\ Len(ages) >= limit.max /\ ages # << >>
    <3> DEFINE v == [limit EXCEPT !.ages = ages]
    <3>1. /\ rlLimit' = WithLimit(p, v) /\ UNCHANGED rlGrants
          /\ Become(t, "asleep", limit.window - Head(ages))
      BY <1>2, <2>0, <2>3 DEF TryAcquire, limit, ages
    <3>2. rlGrants' = [rlGrants EXCEPT ![p] = rlGrants[p]] /\ limit.window - Head(ages) \in Int
      BY <1>0, <1>2, <2>3, <3>1 DEF RlTypeOK
    <3>3. v \in RlLimitType /\ v.ages = ages /\ v.max = limit.max /\ v.window = limit.window
      BY <1>1, <1>2, <2>3 DEF RlLimitType
    <3> HIDE DEF v
    <3>4. /\ DOMAIN rlLimit' \subseteq Provider
          /\ \A q \in DOMAIN rlLimit' : rlLimit'[q] \in RlLimitType
          /\ rlGrants' \in [Provider -> Seq(Nat)]
          /\ RlInv'
      BY <1>0, <1>2, <2>3, <3>1, <3>2, <3>3, RlReplaced
    <3> QED BY <1>0, <3>1, <3>2, <3>4, BecomeType DEF RlTypeOK
  <2>4. CASE known /\ Len(ages) >= limit.max /\ ages = << >>
    <3>1. /\ rlLimit' = WithLimit(p, limit) /\ UNCHANGED rlGrants
          /\ Become(t, "panicked", 0)
      BY <1>2, <2>0, <2>4 DEF TryAcquire, limit, ages
    <3>2. rlGrants' = [rlGrants EXCEPT ![p] = rlGrants[p]]
      BY <1>0, <3>1 DEF RlTypeOK
    <3>3. /\ DOMAIN rlLimit' \subseteq Provider
          /\ \A q \in DOMAIN rlLimit' : rlLimit'[q] \in RlLimitType
          /\ rlGrants' \in [Provider -> Seq(Nat)]
          /\ RlInv'
      BY <1>0, <1>1, <1>2, <2>4, <3>1, <3>2, RlReplaced
    <3> QED BY <1>0, <3>1, <3>3, BecomeType DEF RlTypeOK
  <2>5. known => Len(ages) \in Nat /\ limit.max \in Nat
    BY <1>2
  <2> QED BY <2>1, <2>2, <2>3, <2>4, <2>5
<1> QED BY <1>3, <1>4


\* Limits are set, threads ask, time passes.
LEMMA RlOthers ==
    ASSUME RlTypeOK, RlInv,
           \/ \E p \in Provider, l \in RlLimits : SetLimit(p, l)
           \/ \E l \in RlLimits : SetDefaultLimit(l)
           \/ \E t \in RlThread, p \in Provider : Ask(t, p)
           \/ RlTick
    PROVE  RlTypeOK' /\ RlInv'
<1>1. ASSUME NEW p \in Provider, NEW l \in RlLimits, SetLimit(p, l) PROVE RlTypeOK' /\ RlInv'
  <2>1. l.max \in Nat /\ l.window \in Nat \ {0}
    BY RateLimiterAssumption
  <2>2. /\ Fresh(l) \in RlLimitType
        /\ Fresh(l).ages = << >> /\ Fresh(l).max = l.max /\ Fresh(l).window = l.window
        /\ Remembered(<< >>, << >>, l.window) /\ Len(<< >>) <= l.max
    BY <2>1, FreshType
  <2>3. << >> \in Seq(Nat) /\ rlLimit' = WithLimit(p, Fresh(l)) /\ rlGrants' = [rlGrants EXCEPT ![p] = << >>]
    BY <1>1 DEF SetLimit
  <2> DEFINE v == Fresh(l)
  <2>4. v \in RlLimitType /\ rlLimit' = WithLimit(p, v) /\ Remembered(v.ages, << >>, v.window)
        /\ Len(v.ages) <= v.max
    BY <2>2, <2>3
  <2> HIDE DEF v
  <2>5. /\ DOMAIN rlLimit' \subseteq Provider
        /\ \A q \in DOMAIN rlLimit' : rlLimit'[q] \in RlLimitType
        /\ rlGrants' \in [Provider -> Seq(Nat)]
        /\ RlInv'
    BY <2>3, <2>4, RlReplaced
  <2> QED BY <1>1, <2>5 DEF SetLimit, RlTypeOK
<1>2. ASSUME NEW l \in RlLimits, SetDefaultLimit(l) PROVE RlTypeOK' /\ RlInv'
  BY <1>2, RateLimiterAssumption DEF SetDefaultLimit, RlTypeOK, RlInv
<1>3. ASSUME NEW t \in RlThread, NEW p \in Provider, Ask(t, p) PROVE RlTypeOK' /\ RlInv'
  <2>1. /\ rlThread' \in [RlThread -> RlThreadType]
        /\ \A u \in RlThread : rlThread'[u].at # "new" => rlThread'[u].for \in Provider
    BY <1>3 DEF Ask, RlTypeOK, RlThreadType
  <2>2. UNCHANGED <<rlLimit, rlDefault, rlGrants>>
    BY <1>3 DEF Ask
  <2> QED BY <2>1, <2>2 DEF RlTypeOK, RlInv
<1>4. CASE RlTick
  <2>1. /\ rlThread' \in [RlThread -> RlThreadType]
        /\ \A u \in RlThread : rlThread'[u].at # "new" => rlThread'[u].for \in Provider
    <3>1. ASSUME NEW u \in RlThread
          PROVE  rlThread'[u] \in RlThreadType /\ rlThread'[u].at = rlThread[u].at
                 /\ rlThread'[u].for = rlThread[u].for
      <4> DEFINE n == IF rlThread[u].sleep > 0 THEN rlThread[u].sleep - 1 ELSE 0
      <4>1. rlThread[u] \in RlThreadType /\ rlThread'[u] = [rlThread[u] EXCEPT !.sleep = n]
        BY <1>4 DEF RlTick, RlTypeOK
      <4>2. n \in Int
        BY <4>1 DEF RlThreadType
      <4> HIDE DEF n
      <4> QED BY <4>1, <4>2 DEF RlThreadType
    <3>2. rlThread' = [u \in RlThread |-> rlThread'[u]]
      BY <1>4 DEF RlTick
    <3> QED BY <3>1, <3>2 DEF RlTypeOK
  <2>2. ASSUME NEW p \in DOMAIN rlLimit
        PROVE  /\ rlLimit'[p] \in RlLimitType /\ rlGrants'[p] \in Seq(Nat)
               /\ Remembered(rlLimit'[p].ages, rlGrants'[p], rlLimit'[p].window)
               /\ Len(rlLimit'[p].ages) <= rlLimit'[p].max
    <3> DEFINE l == rlLimit[p]
    <3>1. /\ l \in RlLimitType /\ l.ages \in Seq(Nat) /\ l.window \in Nat /\ rlGrants[p] \in Seq(Nat)
          /\ Remembered(l.ages, rlGrants[p], l.window) /\ Len(l.ages) <= l.max /\ p \in Provider
      BY DEF RlTypeOK, RlLimitType, RlInv
    <3>2. /\ rlLimit'[p] = [l EXCEPT !.ages = Older(l.ages, l.window)]
          /\ rlGrants'[p] = Older(rlGrants[p], l.window)
      BY <1>4, <3>1 DEF RlTick
    <3> HIDE DEF l
    <3>3. /\ Older(l.ages, l.window) \in Seq(Nat) /\ Len(Older(l.ages, l.window)) = Len(l.ages)
          /\ Older(rlGrants[p], l.window) \in Seq(Nat)
          /\ Remembered(Older(l.ages, l.window), Older(rlGrants[p], l.window), l.window)
      BY <3>1, RememberedOlder
    <3>4. /\ rlLimit'[p] \in RlLimitType /\ rlLimit'[p].ages = Older(l.ages, l.window)
          /\ rlLimit'[p].max = l.max /\ rlLimit'[p].window = l.window
      BY <3>1, <3>2, <3>3 DEF RlLimitType
    <3> QED BY <3>1, <3>2, <3>3, <3>4
  <2>3. /\ DOMAIN rlLimit' = DOMAIN rlLimit /\ rlDefault' = rlDefault
        /\ \A p \in Provider \ DOMAIN rlLimit : rlGrants'[p] = rlGrants[p]
        /\ DOMAIN rlGrants' = Provider /\ rlGrants' = [p \in Provider |-> rlGrants'[p]]
    BY <1>4 DEF RlTick
  <2>4. rlGrants' \in [Provider -> Seq(Nat)]
    BY <2>2, <2>3 DEF RlTypeOK
  <2>5. RlInv'
    BY <2>2, <2>3 DEF RlInv
  <2> QED BY <2>1, <2>2, <2>3, <2>4, <2>5 DEF RlTypeOK
<1> QED BY <1>1, <1>2, <1>3, <1>4

\* What is remembered and within the limit respects the window.
LEMMA RlWindow ==
    ASSUME RlTypeOK, RlInv
    PROVE  WindowRespected
<1> SUFFICES ASSUME NEW p \in DOMAIN rlLimit
             PROVE  Cardinality({i \in DOMAIN rlGrants[p] : rlGrants[p][i] < rlLimit[p].window})
                        <= rlLimit[p].max
  BY DEF WindowRespected
<1> DEFINE ages == rlLimit[p].ages
           grants == rlGrants[p]
           window == rlLimit[p].window
           n == Len(ages)
           m == Len(grants)
           S == {i \in DOMAIN grants : grants[i] < window}
<1>1. /\ ages \in Seq(Nat) /\ window \in Nat /\ grants \in Seq(Nat) /\ rlLimit[p].max \in Nat
      /\ Remembered(ages, grants, window) /\ n <= rlLimit[p].max
  BY DEF RlTypeOK, RlLimitType, RlInv
<1>2. n \in Nat /\ m \in Nat /\ n <= m /\ DOMAIN grants = 1..m
  BY <1>1 DEF Remembered
<1>3. S \subseteq (m - n + 1)..m
  <2>1. ASSUME NEW i \in 1..m, grants[i] < window PROVE i \in (m - n + 1)..m
    <3>1. i \notin 1..(m - n)
      BY <1>1, <1>2, <2>1 DEF Remembered
    <3> QED BY <1>2, <3>1
  <2> QED BY <1>2, <2>1
<1>4. IsFiniteSet((m - n + 1)..m) /\ Cardinality((m - n + 1)..m) = n
  <2>1. \A a, b \in Nat : b <= a => /\ a - b + 1 \in Int /\ a \in Int
                                   /\ (IF a - b + 1 > a THEN 0 ELSE a - (a - b + 1) + 1) = b
    OBVIOUS
  <2> QED BY <1>2, <2>1, FS_Interval
<1>5. Cardinality(S) <= n /\ Cardinality(S) \in Nat
  BY <1>3, <1>4, FS_Subset, FS_CardinalityType
<1> QED BY <1>1, <1>2, <1>5

(***************************************************************************)
(* The rate limiter (rate_limiter.rs): whatever limits are set, however    *)
(* many threads ask, sleep and wake up, and although a limit of zero       *)
(* poisons the mutex, no window of a provider's limit ever holds more than *)
(* max_requests permits.                                                   *)
(***************************************************************************)
THEOREM WindowsHold == RlSpec => []WindowRespected
<1>1. RlInit => RlTypeOK /\ RlInv
  BY DEF RlInit, RlTypeOK, RlInv, RlThreadType, NoSleep, NoLimit
<1>2. RlTypeOK /\ RlInv /\ [RlNext]_rlVars => RlTypeOK' /\ RlInv'
  <2>1. ASSUME RlTypeOK, RlInv, UNCHANGED rlVars PROVE RlTypeOK' /\ RlInv'
    BY <2>1 DEF RlTypeOK, RlInv, rlVars
  <2> QED BY <2>1, RlAcquire, RlOthers DEF RlNext
<1>3. RlTypeOK /\ RlInv => WindowRespected
  BY RlWindow
<1> QED BY <1>1, <1>2, <1>3, PTL DEF RlSpec


-----------------------------------------------------------------------------
(* Counting elements of a sequence.                                        *)

Hits(s, X) == {i \in 1..Len(s) : s[i] \in X}
HitCount(s, X) == Cardinality(Hits(s, X))

LEMMA HitsFinite ==
    ASSUME NEW S, NEW s \in Seq(S), NEW X
    PROVE  IsFiniteSet(Hits(s, X)) /\ HitCount(s, X) \in Nat
<1>1. Len(s) \in Nat /\ 1 \in Int /\ Len(s) \in Int
  BY LenProperties
<1>2. IsFiniteSet(1..Len(s))
  BY <1>1, FS_Interval
<1>3. Hits(s, X) \in SUBSET (1..Len(s))
  BY DEF Hits
<1>4. IsFiniteSet(Hits(s, X))
  BY <1>2, <1>3, FS_Subset
<1> QED BY <1>4, FS_CardinalityType DEF HitCount

LEMMA HitsEmpty ==
    ASSUME NEW S, NEW s \in Seq(S), NEW X, Len(s) = 0
    PROVE  HitCount(s, X) = 0
<1>1. Hits(s, X) = {}
  BY DEF Hits
<1> QED BY <1>1, FS_EmptySet DEF HitCount

LEMMA HitsAppend ==
    ASSUME NEW S, NEW s \in Seq(S), NEW e \in S, NEW X
    PROVE  /\ e \in X => HitCount(Append(s, e), X) = HitCount(s, X) + 1
           /\ e \notin X => HitCount(Append(s, e), X) = HitCount(s, X)
<1> DEFINE t == Append(s, e)
<1>1. Len(s) \in Nat /\ Len(t) = Len(s) + 1 /\ t[Len(s) + 1] = e
  BY AppendProperties, LenProperties
<1>2. \A i \in 1..Len(s) : t[i] = s[i]
  BY AppendProperties
<1>3. \A i : i \in 1..Len(t) <=> i \in 1..Len(s) \/ i = Len(s) + 1
  BY <1>1
<1>4. Len(s) + 1 \notin 1..Len(s)
  BY <1>1
<1> HIDE DEF t
<1>5. Len(s) + 1 \notin Hits(s, X)
  BY <1>4 DEF Hits
<1>6. e \in X => Hits(t, X) = Hits(s, X) \cup {Len(s) + 1}
  BY <1>1, <1>2, <1>3, <1>4 DEF Hits
<1>7. e \notin X => Hits(t, X) = Hits(s, X)
  BY <1>1, <1>2, <1>3, <1>4 DEF Hits
<1>8. IsFiniteSet(Hits(s, X))
  BY HitsFinite
<1>9. Cardinality(Hits(s, X) \cup {Len(s) + 1}) = Cardinality(Hits(s, X)) + 1
  BY <1>5, <1>8, FS_AddElement
<1> QED BY <1>6, <1>7, <1>9 DEF HitCount, t

LEMMA HitsTail ==
    ASSUME NEW S, NEW s \in Seq(S), s # << >>, NEW X
    PROVE  /\ Head(s) \in X => HitCount(s, X) = HitCount(Tail(s), X) + 1
           /\ Head(s) \notin X => HitCount(s, X) = HitCount(Tail(s), X)
<1> DEFINE t == Tail(s)
           f == [i \in Hits(t, X) |-> i + 1]
<1>1. t \in Seq(S) /\ Len(s) \in Nat \ {0} /\ Len(t) = Len(s) - 1
  BY HeadTailProperties, EmptySeq
<1>2. \A i \in 1..Len(t) : t[i] = s[i + 1]
  BY HeadTailProperties
<1>3. Head(s) = s[1]
  OBVIOUS
<1>4. Len(t) \in Nat
  BY <1>1
<1>5. \A i \in 1..Len(t) : i + 1 \in 1..Len(s) /\ i + 1 # 1
  BY <1>1, <1>4
<1>6. \A j \in 1..Len(s) : j # 1 => j - 1 \in 1..Len(t) /\ (j - 1) + 1 = j
  BY <1>1, <1>4
<1>7. \A i, j \in 1..Len(t) : i + 1 = j + 1 => i = j
  BY <1>4
<1>8. 1 \in 1..Len(s)
  BY <1>1
<1> HIDE DEF t
<1>9. f \in [Hits(t, X) -> Hits(s, X) \ {1}]
  BY <1>2, <1>5 DEF Hits
<1>10. \A i, j \in Hits(t, X) : f[i] = f[j] => i = j
  BY <1>7 DEF Hits
<1>11. \A j \in Hits(s, X) \ {1} : \E i \in Hits(t, X) : f[i] = j
  <2> SUFFICES ASSUME NEW j \in Hits(s, X) \ {1} PROVE \E i \in Hits(t, X) : f[i] = j
    OBVIOUS
  <2>1. j \in 1..Len(s) /\ s[j] \in X /\ j # 1
    BY DEF Hits
  <2>2. j - 1 \in 1..Len(t) /\ (j - 1) + 1 = j
    BY <2>1, <1>6
  <2>3. t[j - 1] \in X
    BY <2>1, <2>2, <1>2
  <2>4. j - 1 \in Hits(t, X)
    BY <2>2, <2>3 DEF Hits
  <2>5. f[j - 1] = j
    BY <2>2, <2>4
  <2> QED BY <2>4, <2>5
<1>12. f \in Bijection(Hits(t, X), Hits(s, X) \ {1})
  <2> HIDE DEF f
  <2> QED BY <1>9, <1>10, <1>11 DEF Bijection, Injection, Surjection, IsInjective
<1>13. IsFiniteSet(Hits(t, X)) /\ IsFiniteSet(Hits(s, X)) /\ HitCount(s, X) \in Nat
  BY <1>1, HitsFinite
<1>14. ExistsBijection(Hits(t, X), Hits(s, X) \ {1})
  BY <1>12 DEF ExistsBijection
<1>15. HitCount(t, X) = Cardinality(Hits(s, X) \ {1})
  BY <1>13, <1>14, FS_Bijection DEF HitCount
<1>16. 1 \in Hits(s, X) <=> Head(s) \in X
  BY <1>3, <1>8 DEF Hits
<1>17. /\ 1 \in Hits(s, X) => Cardinality(Hits(s, X) \ {1}) = HitCount(s, X) - 1
       /\ 1 \notin Hits(s, X) => Cardinality(Hits(s, X) \ {1}) = HitCount(s, X)
  BY <1>13, FS_RemoveElement DEF HitCount
<1>18. ASSUME NEW a \in Nat, NEW b, b = a - 1 PROVE a = b + 1
  BY <1>18
<1>19. Head(s) \in X => HitCount(s, X) = HitCount(t, X) + 1
  BY <1>13, <1>15, <1>16, <1>17, <1>18
<1> QED BY <1>15, <1>16, <1>17, <1>19 DEF t

-----------------------------------------------------------------------------
(* The bridge.                                                             *)

BridgeSpec == BridgeInit /\ [][BridgeNext]_bridgeVars

BOps == {"Chat", "Decompose", "Timer", "Http", "Custom"}
BRequest == [cid : Nat, pid : BPid \union {"host"}, op : BOps \union {"Destroy", "Shutdown"}]
BResponse == [cid : Nat, pid : BPid]
BTask == [worker : BWorker, pid : BPid, op : BOps \union {"Destroy"},
          at : {"spawned", "building", "closing", "running", "done", "sent"}, token : Nat]
BSlot == [token : Nat, inflight : Nat \ {0}]

\* The parts of the pool have their types.
PoolOK ==
    /\ bSetup \in Setups
    /\ bQueue \in Seq(BRequest) /\ Len(bQueue) <= RequestQueueSize
    /\ \A i \in 1..Len(bQueue) : bQueue[i].op # "Shutdown" => bQueue[i].pid \in BPid
    /\ \A i \in 1..Len(bQueue) : bQueue[i].op = "Shutdown" => bQueue[i].pid = "host"
    /\ bResponses \in Seq(BResponse) /\ Len(bResponses) <= ResponseQueueSize
    /\ bCid \in 0..MaxCid
    /\ bTask = [c \in DOMAIN bTask |-> bTask[c]] /\ DOMAIN bTask \subseteq Nat
    /\ \A c \in DOMAIN bTask : bTask[c] \in BTask
    /\ \A c \in DOMAIN bTask : bTask[c].at = "building" => bTask[c].op # "Destroy"
    /\ bWorker \in [BWorker -> {"serving", "draining", "stopped"}]
    /\ bAgents \in [BWorker -> SUBSET BPid]
    /\ bGot \in [BPid -> SUBSET Nat] /\ bLost \in [BPid -> SUBSET Nat]

\* The callers and the cancellation slots.
SlotsOK ==
    /\ bCaller \in [BPid -> BOps \union {"Destroy", Idle}]
    /\ \A p \in BPid : bCaller[p] = "Destroy" => p \in bDead
    /\ bToken \in Nat /\ bCancelled \subseteq 1..bToken
    /\ DOMAIN bSlot \subseteq BPid
    /\ \A p \in DOMAIN bSlot : bSlot[p] \in BSlot /\ bSlot[p].token \in 1..bToken
    /\ \A p, q \in DOMAIN bSlot : bSlot[p].token = bSlot[q].token => p = q
    /\ \A p \in DOMAIN bSlot :
          /\ bSlot[p].inflight <= MaxCid
          /\ bSlot[p].inflight <= bCid + 1 /\ (bCaller[p] \notin BOps => bSlot[p].inflight <= bCid)

\* Where the request with correlation id c is.
InQueue(c) == \E i \in 1..Len(bQueue) : bQueue[i].cid = c /\ bQueue[i].op # "Shutdown"
AtWork(c) == c \in DOMAIN bTask /\ bTask[c].at # "sent"
Answered(c) == \E i \in 1..Len(bResponses) : bResponses[i].cid = c
Delivered(c) == \E p \in BPid : c \in bGot[p]
Gone(c) == \E p \in BPid : c \in bLost[p]

\* It is in one place, and handed out once.
Apart(c) ==
    /\ InQueue(c) \/ c \in DOMAIN bTask \/ Answered(c) \/ Delivered(c) \/ Gone(c) => c < bCid
    /\ InQueue(c) => c \notin DOMAIN bTask /\ ~Answered(c) /\ ~Delivered(c)
    /\ AtWork(c) => ~Answered(c) /\ ~Delivered(c)
    /\ Answered(c) => ~Delivered(c)
    /\ Gone(c) => ~InQueue(c) /\ c \notin DOMAIN bTask /\ ~Answered(c) /\ ~Delivered(c)

Somewhere(c) == InQueue(c) \/ AtWork(c) \/ Answered(c) \/ Delivered(c) \/ Gone(c)

QueuedOnce ==
    \A i, j \in 1..Len(bQueue) :
        bQueue[i].op # "Shutdown" /\ bQueue[j].op # "Shutdown" /\ bQueue[i].cid = bQueue[j].cid => i = j

RespondedOnce == \A i, j \in 1..Len(bResponses) : bResponses[i].cid = bResponses[j].cid => i = j

CidsApart ==
    /\ \A c \in Nat : Apart(c)
    /\ QueuedOnce /\ RespondedOnce
    /\ bDead = {} => \A c \in Nat : c < bCid => Somewhere(c)

\* A process dies once and has one AgentDestroy, which is in one place.
InQueueDestroy(p) == \E i \in 1..Len(bQueue) : bQueue[i].pid = p /\ bQueue[i].op = "Destroy"
AtWorkDestroy(p) == \E c \in DOMAIN bTask : bTask[c].pid = p /\ bTask[c].op = "Destroy"

DestroyOnce(p) ==
    /\ p \notin bDead => bCaller[p] # "Destroy" /\ ~InQueueDestroy(p) /\ ~AtWorkDestroy(p)
    /\ bCaller[p] = "Destroy" => ~InQueueDestroy(p) /\ ~AtWorkDestroy(p)
    /\ InQueueDestroy(p) => ~AtWorkDestroy(p)
    /\ \A i, j \in 1..Len(bQueue) :
          bQueue[i].pid = p /\ bQueue[i].op = "Destroy" /\ bQueue[j].pid = p /\ bQueue[j].op = "Destroy"
            => i = j
    /\ \A c, d \in DOMAIN bTask :
          bTask[c].pid = p /\ bTask[c].op = "Destroy" /\ bTask[d].pid = p /\ bTask[d].op = "Destroy"
            => c = d

DestroysOnce == \A p \in BPid : DestroyOnce(p)

\* An acknowledged shutdown.
AckOK ==
    /\ bAcked # NoAck /\ bSetup.workers = 1 => bWorker[1] = "stopped"
    /\ AckMeansAnswered

BridgeInv == PoolOK /\ SlotsOK /\ CidsApart /\ DestroysOnce /\ SlotsCounted /\ AckOK


LEMMA SetupFacts ==
    ASSUME bSetup \in Setups
    PROVE  /\ bSetup.workers \in Nat \ {0} /\ MaxCid \in Nat
           /\ \A p \in BPid : bSetup.ops[p] \subseteq BOps
           /\ "host" \notin BPid /\ RequestQueueSize \in Nat \ {0} /\ ResponseQueueSize \in Nat \ {0}
  BY BridgeAssumption DEF MaxCid, BOps

\* A task takes a step: it keeps its worker and its process, and once it has
\* a token it keeps that too.
TaskMoved(c) ==
    /\ DOMAIN bTask' = DOMAIN bTask /\ bTask' = [d \in DOMAIN bTask |-> bTask'[d]]
    /\ bTask'[c] \in BTask /\ bTask[c].at # "sent" /\ bTask'[c].at # "spawned"
    /\ bTask'[c].worker = bTask[c].worker /\ bTask'[c].pid = bTask[c].pid /\ bTask'[c].op = bTask[c].op
    /\ bTask'[c].at = "building" => bTask[c].op # "Destroy"
    /\ bTask[c].at # "spawned" => bTask'[c].token = bTask[c].token
    /\ bTask[c].at = "spawned" /\ bTask[c].pid \in DOMAIN bSlot
         => bTask'[c].token = bSlot[bTask[c].pid].token
    /\ bTask[c].at = "spawned" /\ bTask[c].pid \notin DOMAIN bSlot => bTask'[c].token = NoToken
    /\ \A d \in DOMAIN bTask : d # c => bTask'[d] = bTask[d]

LEMMA OneTaskAt ==
    ASSUME PoolOK, NEW c \in DOMAIN bTask, NEW next \in {"closing", "running", "done", "sent"},
           bTask[c].at \notin {"sent", "spawned"},
           bTask' = [bTask EXCEPT ![c].at = next]
    PROVE  TaskMoved(c) /\ bTask'[c].at = next
<1>1. bTask[c] \in BTask
  BY DEF PoolOK
<1>2. [bTask[c] EXCEPT !.at = next] \in BTask
  BY <1>1 DEF BTask
<1>3. bTask'[c] = [bTask[c] EXCEPT !.at = next]
  BY DEF PoolOK
<1>4. /\ bTask'[c].worker = bTask[c].worker /\ bTask'[c].pid = bTask[c].pid
      /\ bTask'[c].token = bTask[c].token /\ bTask'[c].at = next /\ bTask'[c].op = bTask[c].op
  BY <1>1, <1>3 DEF BTask
<1>5. DOMAIN bTask' = DOMAIN bTask /\ \A d \in DOMAIN bTask : d # c => bTask'[d] = bTask[d]
  BY DEF PoolOK
<1>6. bTask' = [d \in DOMAIN bTask |-> bTask'[d]]
  BY DEF PoolOK
<1> QED BY <1>2, <1>3, <1>4, <1>5, <1>6 DEF TaskMoved

LEMMA TaskStarts ==
    ASSUME PoolOK, SlotsOK, NEW c \in DOMAIN bTask, StartTask(c)
    PROVE  TaskMoved(c) /\ bTask'[c].at # "sent"
<1> DEFINE t == bTask[c]
           next == CASE t.op \in Chats ->
                       IF t.pid \in bAgents[t.worker] THEN "running" ELSE "building"
                  [] t.op = "Destroy" -> "closing"
                  [] OTHER -> "running"
           tok == IF t.pid \in DOMAIN bSlot THEN bSlot[t.pid].token ELSE NoToken
<1>1. t \in BTask /\ t.at = "spawned"
  BY DEF PoolOK, StartTask, TaskStep
<1>2. next \in {"running", "building", "closing"}
  BY DEF Chats
<1>3. tok \in Nat
  BY DEF SlotsOK, BSlot, NoToken
<1>4. bTask' = [bTask EXCEPT ![c].at = next, ![c].token = tok]
  BY DEF StartTask
<1>5. /\ t.pid \in DOMAIN bSlot => tok = bSlot[t.pid].token
      /\ t.pid \notin DOMAIN bSlot => tok = NoToken
      /\ next = "building" => t.op # "Destroy"
  BY DEF Chats
<1> HIDE DEF next, tok
<1>6. bTask'[c] = [t EXCEPT !.at = next, !.token = tok]
  BY <1>4 DEF PoolOK
<1>7. [t EXCEPT !.at = next, !.token = tok] \in BTask
  BY <1>1, <1>2, <1>3 DEF BTask
<1>8. /\ bTask'[c].worker = t.worker /\ bTask'[c].pid = t.pid
      /\ bTask'[c].token = tok /\ bTask'[c].at = next /\ bTask'[c].op = t.op
  BY <1>1, <1>6 DEF BTask
<1>9. DOMAIN bTask' = DOMAIN bTask /\ \A d \in DOMAIN bTask : d # c => bTask'[d] = bTask[d]
  BY <1>4 DEF PoolOK
<1>10. bTask' = [d \in DOMAIN bTask |-> bTask'[d]]
  BY <1>4 DEF PoolOK
<1> QED BY <1>1, <1>2, <1>5, <1>6, <1>7, <1>8, <1>9, <1>10 DEF TaskMoved

\* The steps of a task before it answers.
Working(c) == \/ StartTask(c) \/ RegisterAgent(c) \/ RemoveAgent(c) \/ FinishTask(c) \/ CancelTask(c)

LEMMA WorkMoves ==
    ASSUME PoolOK, SlotsOK, NEW c \in DOMAIN bTask, Working(c)
    PROVE  TaskMoved(c) /\ bTask'[c].at # "sent"
<1>1. CASE StartTask(c)
  BY <1>1, TaskStarts
<1>2. CASE RegisterAgent(c)
  BY <1>2, OneTaskAt DEF RegisterAgent, TaskStep
<1>3. CASE RemoveAgent(c)
  BY <1>3, OneTaskAt DEF RemoveAgent, TaskStep
<1>4. CASE FinishTask(c)
  BY <1>4, OneTaskAt DEF FinishTask, TaskStep
<1>5. CASE CancelTask(c)
  BY <1>5, OneTaskAt DEF CancelTask, TaskStep
<1> QED BY <1>1, <1>2, <1>3, <1>4, <1>5 DEF Working

LEMMA WorkElsewhere ==
    ASSUME PoolOK, NEW c \in DOMAIN bTask, Working(c)
    PROVE  /\ UNCHANGED <<bSetup, bQueue, bResponses, bCid, bSlot, bToken, bCancelled, bCaller,
                          bWorker, bDead, bGot, bLost, bAcked>>
           /\ bAgents' \in [BWorker -> SUBSET BPid]
<1>0. bTask[c] \in BTask /\ bAgents \in [BWorker -> SUBSET BPid]
  BY DEF PoolOK
<1>1. CASE StartTask(c)
  BY <1>0, <1>1 DEF StartTask, TaskStep
<1>2. CASE RegisterAgent(c)
  BY <1>0, <1>2 DEF RegisterAgent, TaskStep, BTask
<1>3. CASE RemoveAgent(c)
  BY <1>0, <1>3 DEF RemoveAgent, TaskStep, BTask
<1>4. CASE FinishTask(c)
  BY <1>0, <1>4 DEF FinishTask, TaskStep
<1>5. CASE CancelTask(c)
  BY <1>0, <1>5 DEF CancelTask, TaskStep
<1> QED BY <1>1, <1>2, <1>3, <1>4, <1>5 DEF Working

LEMMA SendMoves ==
    ASSUME PoolOK, NEW c \in DOMAIN bTask, SendResponse(c)
    PROVE  TaskMoved(c) /\ bTask'[c].at = "sent" /\ bTask[c].at = "done"
  BY OneTaskAt DEF SendResponse, TaskStep


\* Tasks end without an answer: at the deadline of a shutdown or in a panic.
Dropping(gone) ==
    /\ gone \subseteq {c \in DOMAIN bTask : bTask[c].at \notin {"done", "sent"}} /\ Drop(gone)
    /\ UNCHANGED <<bSetup, bQueue, bResponses, bCid, bSlot, bToken, bCancelled, bCaller,
                   bAgents, bDead, bGot>>

LEMMA TasksDropped ==
    ASSUME PoolOK, NEW gone, Dropping(gone)
    PROVE  /\ DOMAIN bTask' = DOMAIN bTask \ gone /\ bTask' = [c \in DOMAIN bTask' |-> bTask'[c]]
           /\ \A c \in DOMAIN bTask' : bTask'[c] = bTask[c]
           /\ bLost' \in [BPid -> SUBSET Nat]
           /\ \A p \in BPid : bLost'[p] = bLost[p] \union
                                {c \in gone : bTask[c].pid = p /\ bTask[c].op # "Destroy"}
<1>1. /\ bTask' = [c \in DOMAIN bTask \ gone |-> bTask[c]]
      /\ bLost' = [p \in BPid |-> bLost[p] \union
                     {c \in gone : bTask[c].pid = p /\ bTask[c].op # "Destroy"}]
  BY DEF Dropping, Drop
<1>2. gone \subseteq Nat
  BY DEF Dropping, PoolOK
<1> QED BY <1>1, <1>2 DEF PoolOK

LEMMA PanicDrops ==
    ASSUME NEW c \in DOMAIN bTask, PanicTask(c)
    PROVE  Dropping({c}) /\ UNCHANGED <<bWorker, bAcked>>
  BY DEF PanicTask, Dropping

LEMMA DeadlineDrops ==
    ASSUME NEW w \in BWorker, StopWorker(w), DeadlinePassed(w)
    PROVE  Dropping({c \in TasksOf(w) : Awaiting(c)})
  BY DEF StopWorker, DeadlinePassed, Dropping, TasksOf, Awaiting

\* The actions of the bridge, one by one.
BridgeCases ==
    \/ \E p \in BPid, op \in BOps : BeginSubmit(p, op)
    \/ \E p \in BPid : EndSubmit(p)
    \/ \E p \in BPid : Terminate(p)
    \/ Drain
    \/ Shutdown
    \/ \E w \in BWorker : Receive(w)
    \/ \E w \in BWorker : StopWorker(w)
    \/ \E c \in DOMAIN bTask : Working(c)
    \/ \E c \in DOMAIN bTask : SendResponse(c)
    \/ \E c \in DOMAIN bTask : ReleaseTask(c)
    \/ \E c \in DOMAIN bTask : PanicTask(c)

LEMMA BridgeSplit ==
    ASSUME bSetup \in Setups, BridgeNext
    PROVE  BridgeCases
  BY SetupFacts DEF BridgeNext, PoolNext, TaskNext, Working, BridgeCases

LEMMA TasksTyped ==
    ASSUME PoolOK, BWorker' = BWorker, NEW c \in DOMAIN bTask, TaskMoved(c)
    PROVE  /\ (bTask = [d \in DOMAIN bTask |-> bTask[d]])' /\ DOMAIN bTask' \subseteq Nat
           /\ \A d \in DOMAIN bTask' : bTask'[d] \in BTask'
           /\ \A d \in DOMAIN bTask' : bTask'[d].at = "building" => bTask'[d].op # "Destroy"
<1>1. BTask' = BTask
  BY DEF BTask
<1> QED BY <1>1 DEF PoolOK, TaskMoved

LEMMA PoolEndSubmit ==
    ASSUME PoolOK, SlotsOK, NEW p \in BPid, EndSubmit(p)
    PROVE  PoolOK'
<1> DEFINE r == [cid |-> bCid, pid |-> p, op |-> bCaller[p]]
<1>1. UNCHANGED <<bSetup, bResponses, bTask, bWorker, bAgents, bLost>>
  BY DEF EndSubmit
<1>2. UNCHANGED <<MaxCid, BWorker, BTask>>
  BY <1>1 DEF MaxCid, BWorker, BTask
<1>3. bCid \in Nat /\ MaxCid \in Nat /\ RequestQueueSize \in Nat /\ bCid < MaxCid
  BY SetupFacts DEF PoolOK, EndSubmit
<1>4. bCid' \in 0..MaxCid
  BY <1>3 DEF EndSubmit
<1>5. bGot' \in [BPid -> SUBSET Nat]
  BY <1>3, SMTT(30) DEF PoolOK, EndSubmit
<1>6. r \in BRequest /\ r.op # "Shutdown"
  BY <1>3 DEF BRequest, SlotsOK, EndSubmit, BOps, Idle
<1>7. bQueue' = bQueue \/ (bQueue' = Append(bQueue, r) /\ Len(bQueue) < RequestQueueSize)
  BY DEF EndSubmit, Accepting
<1>8. CASE bQueue' = bQueue
  BY <1>1, <1>2, <1>4, <1>5, <1>8 DEF PoolOK
<1>9. CASE bQueue' = Append(bQueue, r) /\ Len(bQueue) < RequestQueueSize
  <2>1. bQueue \in Seq(BRequest) /\ Len(bQueue) \in Nat
    BY LenProperties DEF PoolOK
  <2>2. /\ bQueue' \in Seq(BRequest) /\ Len(bQueue') = Len(bQueue) + 1
        /\ \A i \in 1..Len(bQueue) : bQueue'[i] = bQueue[i]
        /\ bQueue'[Len(bQueue) + 1] = r
    BY <1>6, <1>9, <2>1, AppendProperties
  <2>3. Len(bQueue') <= RequestQueueSize
    BY <1>3, <1>9, <2>1, <2>2
  <2>4. \A i \in 1..Len(bQueue') : i \in 1..Len(bQueue) \/ i = Len(bQueue) + 1
    BY <2>1, <2>2
  <2>5. /\ \A i \in 1..Len(bQueue') : bQueue'[i].op # "Shutdown" => bQueue'[i].pid \in BPid
        /\ \A i \in 1..Len(bQueue') : bQueue'[i].op = "Shutdown" => bQueue'[i].pid = "host"
    <3>1. r.pid \in BPid
      OBVIOUS
    <3> HIDE DEF r
    <3> QED BY <1>6, <2>2, <2>4, <3>1 DEF PoolOK
  <2> QED BY <1>1, <1>2, <1>4, <1>5, <2>2, <2>3, <2>5 DEF PoolOK
<1> QED BY <1>7, <1>8, <1>9

LEMMA PoolShutdown ==
    ASSUME PoolOK, Shutdown
    PROVE  PoolOK'
<1> DEFINE r == [cid |-> bCid, pid |-> "host", op |-> "Shutdown"]
<1>1. UNCHANGED <<bSetup, bResponses, bCid, bGot, bTask, bWorker, bAgents, bLost>>
  BY DEF Shutdown
<1>2. UNCHANGED <<MaxCid, BWorker, BTask>>
  BY <1>1 DEF MaxCid, BWorker, BTask
<1>3. bCid \in Nat /\ RequestQueueSize \in Nat /\ Len(bQueue) < RequestQueueSize
  BY SetupFacts DEF PoolOK, Shutdown, Accepting
<1>4. r \in BRequest
  BY <1>3 DEF BRequest
<1>5. bQueue \in Seq(BRequest) /\ Len(bQueue) \in Nat /\ bQueue' = Append(bQueue, r)
  BY LenProperties DEF PoolOK, Shutdown
<1>6. /\ bQueue' \in Seq(BRequest) /\ Len(bQueue') = Len(bQueue) + 1
      /\ \A i \in 1..Len(bQueue) : bQueue'[i] = bQueue[i]
      /\ bQueue'[Len(bQueue) + 1] = r
  BY <1>4, <1>5, AppendProperties
<1>7. Len(bQueue') <= RequestQueueSize
  BY <1>3, <1>5, <1>6
<1>8. \A i \in 1..Len(bQueue') : i \in 1..Len(bQueue) \/ i = Len(bQueue) + 1
  BY <1>5, <1>6
<1>9. /\ \A i \in 1..Len(bQueue') : bQueue'[i].op # "Shutdown" => bQueue'[i].pid \in BPid
      /\ \A i \in 1..Len(bQueue') : bQueue'[i].op = "Shutdown" => bQueue'[i].pid = "host"
  <2>1. r.pid = "host" /\ r.op = "Shutdown"
    OBVIOUS
  <2> HIDE DEF r
  <2> QED BY <1>6, <1>8, <2>1 DEF PoolOK
<1> QED BY <1>1, <1>2, <1>6, <1>7, <1>9 DEF PoolOK

LEMMA QueueHead ==
    ASSUME PoolOK, bQueue # << >>
    PROVE  /\ Head(bQueue) \in BRequest /\ Head(bQueue) = bQueue[1] /\ 1 \in 1..Len(bQueue)
           /\ Tail(bQueue) \in Seq(BRequest) /\ Len(bQueue) \in Nat \ {0}
           /\ Len(Tail(bQueue)) = Len(bQueue) - 1 /\ Len(Tail(bQueue)) \in Nat
           /\ \A i \in 1..Len(Tail(bQueue)) : Tail(bQueue)[i] = bQueue[i + 1] /\ i + 1 \in 1..Len(bQueue)
           /\ Head(bQueue).op # "Shutdown" => Head(bQueue).pid \in BPid
           /\ Head(bQueue).op = "Shutdown" => Head(bQueue).pid = "host"
<1>1. bQueue \in Seq(BRequest)
  BY DEF PoolOK
<1>2. Head(bQueue) \in BRequest /\ Tail(bQueue) \in Seq(BRequest) /\ Len(Tail(bQueue)) = Len(bQueue) - 1
  BY <1>1, HeadTailProperties
<1>3. \A i \in 1..Len(Tail(bQueue)) : Tail(bQueue)[i] = bQueue[i + 1]
  BY <1>1, HeadTailProperties
<1>4. Len(bQueue) \in Nat \ {0}
  BY <1>1, EmptySeq
<1>5. Len(Tail(bQueue)) \in Nat /\ 1 \in 1..Len(bQueue)
  BY <1>2, <1>4
<1>6. \A i \in 1..Len(Tail(bQueue)) : i + 1 \in 1..Len(bQueue)
  BY <1>2, <1>4
<1>7. Head(bQueue) = bQueue[1]
  BY <1>1
<1>8. /\ bQueue[1].op # "Shutdown" => bQueue[1].pid \in BPid
      /\ bQueue[1].op = "Shutdown" => bQueue[1].pid = "host"
  BY <1>5 DEF PoolOK
<1> QED BY <1>2, <1>3, <1>4, <1>5, <1>6, <1>7, <1>8

LEMMA PoolReceive ==
    ASSUME PoolOK, NEW w \in BWorker, Receive(w)
    PROVE  PoolOK'
<1> DEFINE r == Head(bQueue)
           t == [worker |-> w, pid |-> r.pid, op |-> r.op, at |-> "spawned", token |-> NoToken]
<1>1. UNCHANGED <<bSetup, bResponses, bCid, bGot, bAgents, bLost>> /\ bQueue # << >> /\ bQueue' = Tail(bQueue)
  BY DEF Receive
<1>2. UNCHANGED <<MaxCid, BWorker, BTask>>
  BY <1>1 DEF MaxCid, BWorker, BTask
<1>3. bQueue' \in Seq(BRequest) /\ Len(bQueue') <= RequestQueueSize
  <2>1. \A m \in Nat \ {0}, n \in Nat : m <= n => m - 1 <= n
    OBVIOUS
  <2> QED BY <1>1, <2>1, QueueHead, SetupFacts DEF PoolOK
<1>4. /\ \A i \in 1..Len(bQueue') : bQueue'[i].op # "Shutdown" => bQueue'[i].pid \in BPid
      /\ \A i \in 1..Len(bQueue') : bQueue'[i].op = "Shutdown" => bQueue'[i].pid = "host"
  BY <1>1, QueueHead DEF PoolOK
<1>5. CASE r.op = "Shutdown"
  <2>1. bTask' = bTask /\ bWorker' = [bWorker EXCEPT ![w] = "draining"]
    BY <1>5 DEF Receive
  <2>2. bWorker' \in [BWorker -> {"serving", "draining", "stopped"}]
    BY <2>1 DEF PoolOK
  <2> QED BY <1>1, <1>2, <1>3, <1>4, <2>1, <2>2 DEF PoolOK
<1>6. CASE r.op # "Shutdown"
  <2>1. bTask' = With(bTask, r.cid, t) /\ bWorker' = bWorker
    BY <1>6 DEF Receive
  <2>2. r \in BRequest /\ r.pid \in BPid
    BY <1>1, <1>6, QueueHead
  <2>3. t \in BTask /\ r.cid \in Nat
    BY <1>6, <2>2 DEF BTask, BRequest, NoToken
  <2> HIDE DEF t, r
  <2>4. /\ DOMAIN bTask' = DOMAIN bTask \union {r.cid} /\ bTask'[r.cid] = t
        /\ \A x \in DOMAIN bTask : x # r.cid => bTask'[x] = bTask[x]
        /\ bTask' = [x \in DOMAIN bTask' |-> bTask'[x]]
    BY <2>1 DEF With
  <2>5. DOMAIN bTask' \subseteq Nat /\ \A c \in DOMAIN bTask' : bTask'[c] \in BTask
    BY <2>3, <2>4 DEF PoolOK
  <2>6. \A c \in DOMAIN bTask' : bTask'[c].at = "building" => bTask'[c].op # "Destroy"
    <3>1. t.at # "building"
      BY DEF t
    <3> QED BY <2>4, <3>1 DEF PoolOK
  <2> QED BY <1>1, <1>2, <1>3, <1>4, <2>1, <2>4, <2>5, <2>6 DEF PoolOK
<1> QED BY <1>5, <1>6

LEMMA PoolDropping ==
    ASSUME PoolOK, NEW gone, Dropping(gone), bWorker' \in [BWorker -> {"serving", "draining", "stopped"}]
    PROVE  PoolOK'
<1>1. UNCHANGED <<bSetup, bQueue, bResponses, bCid, bAgents, bGot>>
  BY DEF Dropping
<1>2. UNCHANGED <<MaxCid, BWorker, BTask>>
  BY <1>1 DEF MaxCid, BWorker, BTask
<1>3. /\ (bTask = [c \in DOMAIN bTask |-> bTask[c]])' /\ DOMAIN bTask' \subseteq Nat
      /\ \A c \in DOMAIN bTask' : bTask'[c] \in BTask
      /\ \A c \in DOMAIN bTask' : bTask'[c].at = "building" => bTask'[c].op # "Destroy"
      /\ bLost' \in [BPid -> SUBSET Nat]
  BY TasksDropped DEF PoolOK
<1> QED BY <1>1, <1>2, <1>3 DEF PoolOK

LEMMA PoolKept ==
    ASSUME PoolOK, SlotsOK, BridgeCases
    PROVE  PoolOK'
<1>1. CASE \E p \in BPid, op \in BOps : BeginSubmit(p, op)
  BY <1>1 DEF PoolOK, BeginSubmit, MaxCid, BWorker, BTask
<1>2. CASE \E p \in BPid : EndSubmit(p)
  BY <1>2, PoolEndSubmit
<1>3. CASE \E p \in BPid : Terminate(p)
  BY <1>3 DEF PoolOK, Terminate, MaxCid, BWorker, BTask
<1>4. CASE Drain
  <2>1. UNCHANGED <<bSetup, bQueue, bCid, bTask, bWorker, bAgents, bLost>> /\ bResponses' = << >>
    BY <1>4 DEF Drain
  <2>2. UNCHANGED <<MaxCid, BWorker, BTask>>
    BY <2>1 DEF MaxCid, BWorker, BTask
  <2>3. bResponses' \in Seq(BResponse) /\ Len(bResponses') = 0
    BY <2>1, EmptySeq
  <2>4. \A j \in DOMAIN bResponses : bResponses[j].cid \in Nat
    <3>1. bResponses \in Seq(BResponse)
      BY DEF PoolOK
    <3>2. \A i \in DOMAIN bResponses : bResponses[i] \in BResponse
      BY <3>1
    <3> QED BY <3>2 DEF BResponse
  <2>5. bGot' \in [BPid -> SUBSET Nat]
    BY <1>4, <2>4 DEF PoolOK, Drain
  <2>6. 0 <= ResponseQueueSize
    BY SetupFacts DEF PoolOK
  <2> QED BY <2>1, <2>2, <2>3, <2>5, <2>6 DEF PoolOK
<1>5. CASE Shutdown
  BY <1>5, PoolShutdown
<1>6. CASE \E w \in BWorker : Receive(w)
  BY <1>6, PoolReceive
<1>7. ASSUME NEW w \in BWorker, StopWorker(w) PROVE PoolOK'
  <2>1. /\ UNCHANGED <<bSetup, bQueue, bResponses, bCid, bAgents, bGot>>
        /\ bWorker' = [bWorker EXCEPT ![w] = "stopped"]
    BY <1>7 DEF StopWorker
  <2>2. UNCHANGED <<MaxCid, BWorker, BTask>>
    BY <2>1 DEF MaxCid, BWorker, BTask
  <2>3. bWorker' \in [BWorker -> {"serving", "draining", "stopped"}]
    BY <2>1 DEF PoolOK
  <2>4. CASE Drained(w)
    BY <2>1, <2>2, <2>3, <2>4 DEF PoolOK, Drained
  <2>5. CASE DeadlinePassed(w)
    BY <1>7, <2>3, <2>5, DeadlineDrops, PoolDropping
  <2> QED BY <1>7, <2>4, <2>5 DEF StopWorker
<1>8. ASSUME NEW c \in DOMAIN bTask, Working(c) PROVE PoolOK'
  <2>1. UNCHANGED <<bSetup, bQueue, bResponses, bCid, bWorker, bGot, bLost>> /\ bAgents' \in [BWorker -> SUBSET BPid]
    BY <1>8, WorkElsewhere
  <2>2. UNCHANGED <<MaxCid, BWorker, BTask>>
    BY <2>1 DEF MaxCid, BWorker, BTask
  <2>3. TaskMoved(c)
    BY <1>8, WorkMoves
  <2> QED BY <2>1, <2>2, <2>3, TasksTyped DEF PoolOK
<1>9. ASSUME NEW c \in DOMAIN bTask, SendResponse(c) PROVE PoolOK'
  <2> DEFINE e == [cid |-> c, pid |-> bTask[c].pid]
  <2>1. /\ UNCHANGED <<bSetup, bQueue, bCid, bWorker, bGot, bLost, bAgents>>
        /\ Len(bResponses) < ResponseQueueSize /\ bResponses' = Append(bResponses, e)
    BY <1>9 DEF SendResponse, TaskStep
  <2>2. UNCHANGED <<MaxCid, BWorker, BTask>>
    BY <2>1 DEF MaxCid, BWorker, BTask
  <2>3. TaskMoved(c)
    BY <1>9, SendMoves
  <2>4. e \in BResponse
    BY DEF PoolOK, BTask, BResponse
  <2>5. bResponses \in Seq(BResponse) /\ Len(bResponses) \in Nat
    BY LenProperties DEF PoolOK
  <2>6. bResponses' \in Seq(BResponse) /\ Len(bResponses') = Len(bResponses) + 1
    BY <2>1, <2>4, <2>5, AppendProperties
  <2>7. Len(bResponses') <= ResponseQueueSize
    BY <2>1, <2>5, <2>6, SetupFacts DEF PoolOK
  <2> QED BY <2>1, <2>2, <2>3, <2>6, <2>7, TasksTyped DEF PoolOK
<1>10. ASSUME NEW c \in DOMAIN bTask, ReleaseTask(c) PROVE PoolOK'
  <2>1. /\ UNCHANGED <<bSetup, bQueue, bResponses, bCid, bWorker, bGot, bLost, bAgents>>
        /\ bTask' = Without(bTask, c)
    BY <1>10 DEF ReleaseTask, TaskStep
  <2>2. UNCHANGED <<MaxCid, BWorker, BTask>>
    BY <2>1 DEF MaxCid, BWorker, BTask
  <2>3. /\ (bTask = [d \in DOMAIN bTask |-> bTask[d]])' /\ DOMAIN bTask' \subseteq Nat
        /\ \A d \in DOMAIN bTask' : bTask'[d] \in BTask
        /\ \A d \in DOMAIN bTask' : bTask'[d].at = "building" => bTask'[d].op # "Destroy"
    BY <2>1 DEF PoolOK, Without
  <2> QED BY <2>1, <2>2, <2>3 DEF PoolOK
<1>11. ASSUME NEW c \in DOMAIN bTask, PanicTask(c) PROVE PoolOK'
  BY <1>11, PanicDrops, PoolDropping DEF PoolOK
<1> QED BY <1>1, <1>2, <1>3, <1>4, <1>5, <1>6, <1>7, <1>8, <1>9, <1>10, <1>11 DEF BridgeCases


LEMMA SlotReleased ==
    ASSUME SlotsOK, NEW p \in BPid, NEW s, s = Released(p)
    PROVE  /\ DOMAIN s \subseteq DOMAIN bSlot
           /\ \A q \in DOMAIN s : /\ s[q] \in BSlot /\ s[q].token = bSlot[q].token
                                  /\ s[q].inflight <= bSlot[q].inflight
           /\ \A q \in DOMAIN bSlot : q # p => q \in DOMAIN s /\ s[q] = bSlot[q]
           /\ p \in DOMAIN bSlot /\ bSlot[p].inflight > 1 =>
                p \in DOMAIN s /\ s[p].inflight = bSlot[p].inflight - 1
           /\ p \in DOMAIN bSlot /\ ~(bSlot[p].inflight > 1) => p \notin DOMAIN s
<1>1. CASE p \notin DOMAIN bSlot
  <2>1. s = bSlot
    BY <1>1 DEF Released
  <2> QED BY <1>1, <2>1 DEF SlotsOK, BSlot
<1>2. CASE p \in DOMAIN bSlot /\ bSlot[p].inflight > 1
  <2>1. s = [bSlot EXCEPT ![p].inflight = @ - 1]
    BY <1>2 DEF Released
  <2>2. bSlot[p] \in BSlot
    BY <1>2 DEF SlotsOK
  <2>3. bSlot[p].inflight - 1 \in Nat \ {0} /\ bSlot[p].inflight - 1 <= bSlot[p].inflight
    BY <1>2, <2>2 DEF BSlot
  <2>4. DOMAIN s = DOMAIN bSlot /\ s[p] = [bSlot[p] EXCEPT !.inflight = bSlot[p].inflight - 1]
    BY <1>2, <2>1
  <2>5. \A q \in DOMAIN bSlot : q # p => s[q] = bSlot[q]
    BY <2>1
  <2>6. s[p] \in BSlot /\ s[p].token = bSlot[p].token /\ s[p].inflight = bSlot[p].inflight - 1
    BY <2>2, <2>3, <2>4 DEF BSlot
  <2>7. \A q \in DOMAIN bSlot : bSlot[q] \in BSlot /\ bSlot[q].inflight <= bSlot[q].inflight
    BY DEF SlotsOK, BSlot
  <2> QED BY <1>2, <2>3, <2>4, <2>5, <2>6, <2>7
<1>3. CASE p \in DOMAIN bSlot /\ ~(bSlot[p].inflight > 1)
  <2>1. s = Without(bSlot, p)
    BY <1>3 DEF Released
  <2>2. \A q \in DOMAIN bSlot : bSlot[q] \in BSlot /\ bSlot[q].inflight <= bSlot[q].inflight
    BY DEF SlotsOK, BSlot
  <2>3. DOMAIN s = DOMAIN bSlot \ {p} /\ \A q \in DOMAIN bSlot : q # p => s[q] = bSlot[q]
    BY <2>1 DEF Without
  <2> QED BY <1>3, <2>2, <2>3
<1> QED BY <1>1, <1>2, <1>3

LEMMA SlotReserved ==
    ASSUME SlotsOK, NEW p \in BPid, Reserve(p)
    PROVE  /\ DOMAIN bSlot' = DOMAIN bSlot \union {p}
           /\ \A q \in DOMAIN bSlot : q # p => bSlot'[q] = bSlot[q]
           /\ p \in DOMAIN bSlot =>
                /\ bToken' = bToken /\ bSlot'[p] \in BSlot
                /\ bSlot'[p].inflight = bSlot[p].inflight + 1 /\ bSlot'[p].token = bSlot[p].token
           /\ p \notin DOMAIN bSlot =>
                /\ bToken' = bToken + 1 /\ bSlot'[p] \in BSlot
                /\ bSlot'[p].inflight = 1 /\ bSlot'[p].token = bToken + 1
<1>1. CASE p \in DOMAIN bSlot
  <2>1. bToken' = bToken /\ bSlot' = [bSlot EXCEPT ![p].inflight = @ + 1]
    BY <1>1 DEF Reserve
  <2>2. bSlot[p] \in BSlot /\ bSlot[p].inflight + 1 \in Nat \ {0}
    BY <1>1 DEF SlotsOK, BSlot
  <2>3. DOMAIN bSlot' = DOMAIN bSlot /\ bSlot'[p] = [bSlot[p] EXCEPT !.inflight = bSlot[p].inflight + 1]
    BY <1>1, <2>1
  <2>4. \A q \in DOMAIN bSlot : q # p => bSlot'[q] = bSlot[q]
    BY <2>1
  <2>5. /\ bSlot'[p] \in BSlot /\ bSlot'[p].inflight = bSlot[p].inflight + 1
        /\ bSlot'[p].token = bSlot[p].token
    BY <2>2, <2>3 DEF BSlot
  <2> QED BY <1>1, <2>1, <2>3, <2>4, <2>5
<1>2. CASE p \notin DOMAIN bSlot
  <2> DEFINE e == [token |-> bToken + 1, inflight |-> 1]
  <2>1. bToken' = bToken + 1 /\ bSlot' = With(bSlot, p, e)
    BY <1>2 DEF Reserve
  <2>2. e \in BSlot /\ e.inflight = 1 /\ e.token = bToken + 1
    BY DEF SlotsOK, BSlot
  <2> HIDE DEF e
  <2>3. /\ DOMAIN bSlot' = DOMAIN bSlot \union {p} /\ bSlot'[p] = e
        /\ \A q \in DOMAIN bSlot : q # p => bSlot'[q] = bSlot[q]
    BY <2>1 DEF With
  <2> QED BY <1>2, <2>1, <2>2, <2>3
<1> QED BY <1>1, <1>2

LEMMA SlotsBegin ==
    ASSUME PoolOK, SlotsOK, NEW p \in BPid, NEW op \in BOps, BeginSubmit(p, op)
    PROVE  SlotsOK'
<1>1. /\ UNCHANGED <<bSetup, bCid, bCancelled, bDead>> /\ bCaller' = [bCaller EXCEPT ![p] = op]
      /\ bCaller[p] = Idle /\ bCid < MaxCid /\ Reserve(p)
  BY DEF BeginSubmit
<1>2. MaxCid' = MaxCid /\ MaxCid \in Nat /\ bCid \in Nat /\ bToken \in Nat
  BY <1>1, SetupFacts DEF MaxCid, PoolOK, SlotsOK
<1>3. /\ bCaller' \in [BPid -> BOps \union {"Destroy", Idle}]
      /\ \A q \in BPid : bCaller'[q] = "Destroy" => q \in bDead'
  BY <1>1 DEF SlotsOK, BOps
<1>4. bToken' \in Nat /\ 1..bToken \subseteq 1..bToken' /\ bToken' >= bToken
  <2>1. bToken' = bToken \/ bToken' = bToken + 1
    BY <1>1, SlotReserved
  <2> QED BY <1>2, <2>1
<1>5. bCancelled' \subseteq 1..bToken'
  BY <1>1, <1>4 DEF SlotsOK
<1>6. DOMAIN bSlot' \subseteq BPid
  BY <1>1, SlotReserved DEF SlotsOK
<1>7. \A q \in DOMAIN bSlot' : bSlot'[q] \in BSlot
  BY <1>1, SlotReserved DEF SlotsOK
<1>8. \A q \in DOMAIN bSlot' : bSlot'[q].token \in 1..bToken'
  <2> SUFFICES ASSUME NEW q \in DOMAIN bSlot' PROVE bSlot'[q].token \in 1..bToken'
    OBVIOUS
  <2>1. DOMAIN bSlot' = DOMAIN bSlot \union {p} /\ (q # p => bSlot'[q] = bSlot[q])
    BY <1>1, SlotReserved
  <2>2. q \in DOMAIN bSlot => bSlot[q].token \in 1..bToken
    BY DEF SlotsOK
  <2>3. CASE q # p
    BY <1>4, <2>1, <2>2, <2>3
  <2>4. CASE q = p /\ p \in DOMAIN bSlot
    <3>1. bSlot'[p].token = bSlot[p].token
      BY <1>1, <2>4, SlotReserved
    <3> QED BY <1>4, <2>2, <2>4, <3>1
  <2>5. CASE q = p /\ p \notin DOMAIN bSlot
    <3>1. bSlot'[p].token = bToken + 1 /\ bToken' = bToken + 1
      BY <1>1, <2>5, SlotReserved
    <3>2. bToken + 1 \in 1..(bToken + 1)
      BY <1>2
    <3> QED BY <2>5, <3>1, <3>2
  <2> QED BY <2>3, <2>4, <2>5
<1>9. \A q, r \in DOMAIN bSlot' : bSlot'[q].token = bSlot'[r].token => q = r
  <2>1. bToken + 1 \notin 1..bToken
    BY <1>2
  <2>2. \A q \in DOMAIN bSlot : bSlot'[q].token = bSlot[q].token /\ bSlot[q].token \in 1..bToken
    BY <1>1, SlotReserved DEF SlotsOK
  <2>3. p \notin DOMAIN bSlot => bSlot'[p].token = bToken + 1
    BY <1>1, SlotReserved
  <2>4. \A q \in DOMAIN bSlot' : q \in DOMAIN bSlot \/ q = p
    <3>1. DOMAIN bSlot' = DOMAIN bSlot \union {p}
      BY <1>1, SlotReserved
    <3> QED BY <3>1
  <2>5. \A q, r \in DOMAIN bSlot : bSlot[q].token = bSlot[r].token => q = r
    BY DEF SlotsOK
  <2> QED BY <2>1, <2>2, <2>3, <2>4, <2>5
<1>10. ASSUME NEW q \in DOMAIN bSlot'
       PROVE  bSlot'[q].inflight <= MaxCid /\ bSlot'[q].inflight <= bCid + 1
              /\ (bCaller'[q] \notin BOps => bSlot'[q].inflight <= bCid)
  <2>1. CASE q # p
    <3>1. q \in DOMAIN bSlot /\ bSlot'[q] = bSlot[q]
      BY <1>1, <2>1, SlotReserved
    <3>2. bCaller'[q] = bCaller[q]
      BY <1>1, <2>1 DEF SlotsOK
    <3>3. /\ bSlot[q].inflight <= MaxCid /\ bSlot[q].inflight <= bCid + 1
          /\ (bCaller[q] \notin BOps => bSlot[q].inflight <= bCid)
      BY <3>1 DEF SlotsOK
    <3> QED BY <3>1, <3>2, <3>3
  <2>2. CASE q = p /\ p \in DOMAIN bSlot
    <3>1. bSlot[p].inflight \in Nat /\ bSlot[p].inflight <= bCid
      BY <1>1, <2>2 DEF SlotsOK, BSlot, Idle, BOps
    <3>2. bSlot'[p].inflight = bSlot[p].inflight + 1
      BY <1>1, <2>2, SlotReserved
    <3>3. bCaller'[p] \in BOps
      BY <1>1 DEF SlotsOK
    <3> QED BY <1>1, <1>2, <2>2, <3>1, <3>2, <3>3
  <2>3. CASE q = p /\ p \notin DOMAIN bSlot
    <3>1. bSlot'[p].inflight = 1
      BY <1>1, <2>3, SlotReserved
    <3>2. bCaller'[p] \in BOps
      BY <1>1 DEF SlotsOK
    <3> QED BY <1>1, <1>2, <2>3, <3>1, <3>2
  <2> QED BY <2>1, <2>2, <2>3
<1> QED BY <1>1, <1>2, <1>3, <1>4, <1>5, <1>6, <1>7, <1>8, <1>9, <1>10 DEF SlotsOK

\* Slots that only lose requests.
LEMMA SlotsFewer ==
    ASSUME SlotsOK, bSetup \in Setups, NEW p \in BPid,
           bSlot' = Released(p), UNCHANGED <<bSetup, bToken, bCancelled, bDead>>,
           bCid' \in Nat, bCid \in Nat, bCid' >= bCid,
           bCaller' \in [BPid -> BOps \union {"Destroy", Idle}],
           \A q \in BPid : bCaller'[q] = "Destroy" => q \in bDead,
           \A q \in BPid : bCaller'[q] = bCaller[q] \/ bCid' = bCid + 1
    PROVE  SlotsOK'
<1>1. DOMAIN bSlot' \subseteq DOMAIN bSlot
  BY SlotReleased
<1>2. \A q \in DOMAIN bSlot' : bSlot'[q] \in BSlot /\ bSlot'[q].token = bSlot[q].token
  BY SlotReleased
<1>3. \A q \in DOMAIN bSlot' : bSlot'[q].inflight <= bSlot[q].inflight
  BY SlotReleased
<1>4. \A q \in DOMAIN bSlot' : bSlot[q].inflight \in Nat /\ bSlot'[q].inflight \in Nat
  BY <1>1, <1>2 DEF SlotsOK, BSlot
<1>5. MaxCid' = MaxCid /\ MaxCid \in Nat
  BY SetupFacts DEF MaxCid
<1>6. ASSUME NEW q \in DOMAIN bSlot'
      PROVE  bSlot'[q].inflight <= MaxCid /\ bSlot'[q].inflight <= bCid' + 1
             /\ (bCaller'[q] \notin BOps => bSlot'[q].inflight <= bCid')
  <2>1. q \in DOMAIN bSlot /\ q \in BPid
    BY <1>1 DEF SlotsOK
  <2>2. /\ bSlot[q].inflight <= MaxCid /\ bSlot[q].inflight <= bCid + 1
        /\ (bCaller[q] \notin BOps => bSlot[q].inflight <= bCid)
    BY <2>1 DEF SlotsOK
  <2>3. CASE bCaller'[q] = bCaller[q]
    BY <1>3, <1>4, <1>5, <2>2, <2>3
  <2>4. CASE bCid' = bCid + 1
    BY <1>3, <1>4, <1>5, <2>2, <2>4
  <2> QED BY <2>1, <2>3, <2>4
<1>7. \A q, r \in DOMAIN bSlot' : bSlot'[q].token = bSlot'[r].token => q = r
  BY <1>1, <1>2 DEF SlotsOK
<1>8. \A q \in DOMAIN bSlot' : bSlot'[q].token \in 1..bToken
  BY <1>1, <1>2 DEF SlotsOK
<1> QED BY <1>1, <1>2, <1>5, <1>6, <1>7, <1>8 DEF SlotsOK

\* Slots left alone.
LEMMA SlotsSame ==
    ASSUME SlotsOK, bSetup \in Setups, UNCHANGED <<bSetup, bSlot, bToken>>,
           bCancelled' \subseteq 1..bToken,
           bCid' \in Nat, bCid \in Nat, bCid' >= bCid,
           bCaller' \in [BPid -> BOps \union {"Destroy", Idle}],
           \A q \in BPid : bCaller'[q] = "Destroy" => q \in bDead',
           \A q \in BPid : bCaller'[q] = bCaller[q] \/ bCaller[q] \notin BOps \/ bCid' = bCid + 1
    PROVE  SlotsOK'
<1>1. \A q \in DOMAIN bSlot : bSlot[q].inflight \in Nat
  BY DEF SlotsOK, BSlot
<1>2. MaxCid' = MaxCid /\ MaxCid \in Nat
  BY SetupFacts DEF MaxCid
<1>3. ASSUME NEW q \in DOMAIN bSlot
      PROVE  bSlot[q].inflight <= MaxCid /\ bSlot[q].inflight <= bCid' + 1
             /\ (bCaller'[q] \notin BOps => bSlot[q].inflight <= bCid')
  <2>1. q \in BPid
    BY DEF SlotsOK
  <2>2. /\ bSlot[q].inflight <= MaxCid /\ bSlot[q].inflight <= bCid + 1
        /\ (bCaller[q] \notin BOps => bSlot[q].inflight <= bCid)
    BY DEF SlotsOK
  <2>3. CASE bCaller'[q] = bCaller[q]
    BY <1>1, <1>2, <2>2, <2>3
  <2>4. CASE bCid' = bCid + 1
    BY <1>1, <1>2, <2>2, <2>4
  <2>5. CASE bCaller[q] \notin BOps
    BY <1>1, <1>2, <2>2, <2>5
  <2> QED BY <2>1, <2>3, <2>4, <2>5
<1> QED BY <1>2, <1>3 DEF SlotsOK

LEMMA SlotsKept ==
    ASSUME PoolOK, SlotsOK, BridgeCases
    PROVE  SlotsOK'
<1>0. bSetup \in Setups /\ bCid \in Nat /\ bCid >= bCid /\ bCid + 1 \in Nat /\ bCid + 1 >= bCid
  BY DEF PoolOK
<1>1. CASE \E p \in BPid, op \in BOps : BeginSubmit(p, op)
  BY <1>1, SlotsBegin
<1>2. ASSUME NEW p \in BPid, EndSubmit(p) PROVE SlotsOK'
  <2>1. bCid' = bCid + 1 /\ UNCHANGED <<bSetup, bToken, bCancelled, bDead>> /\ bCaller[p] # Idle
    BY <1>2 DEF EndSubmit
  <2>2. bCaller' = bCaller \/ bCaller' = [bCaller EXCEPT ![p] = Idle]
    BY <1>2 DEF EndSubmit
  <2>3. /\ bCaller' \in [BPid -> BOps \union {"Destroy", Idle}]
        /\ \A q \in BPid : bCaller'[q] = "Destroy" => q \in bDead
    BY <2>2 DEF SlotsOK, Idle
  <2>4. bSlot' = bSlot \/ bSlot' = Released(p)
    BY <1>2 DEF EndSubmit
  <2>5. CASE bSlot' = bSlot
    BY <1>0, <2>1, <2>3, <2>5, SlotsSame DEF SlotsOK
  <2>6. CASE bSlot' = Released(p)
    BY <1>0, <2>1, <2>3, <2>6, SlotsFewer
  <2> QED BY <2>4, <2>5, <2>6
<1>3. ASSUME NEW p \in BPid, Terminate(p) PROVE SlotsOK'
  <2>1. /\ UNCHANGED <<bSetup, bSlot, bToken, bCid>> /\ bCaller' = [bCaller EXCEPT ![p] = "Destroy"]
        /\ bDead' = bDead \union {p} /\ bCaller[p] = Idle
    BY <1>3 DEF Terminate
  <2>2. bCancelled' \subseteq 1..bToken
    BY <1>3 DEF Terminate, SlotsOK
  <2>3. /\ bCaller' \in [BPid -> BOps \union {"Destroy", Idle}]
        /\ \A q \in BPid : bCaller'[q] = "Destroy" => q \in bDead'
        /\ \A q \in BPid : bCaller'[q] = bCaller[q] \/ bCaller[q] \notin BOps
    BY <2>1 DEF SlotsOK, Idle, BOps
  <2> QED BY <1>0, <2>1, <2>2, <2>3, SlotsSame
<1>4. ASSUME UNCHANGED <<bSetup, bCid, bSlot, bToken, bCancelled, bCaller, bDead>> PROVE SlotsOK'
  BY <1>4 DEF SlotsOK, MaxCid
<1>5. CASE Drain \/ Shutdown
  BY <1>4, <1>5 DEF Drain, Shutdown
<1>6. CASE \E w \in BWorker : Receive(w) \/ StopWorker(w)
  BY <1>4, <1>6 DEF Receive, StopWorker
<1>7. CASE \E c \in DOMAIN bTask : Working(c)
  BY <1>4, <1>7, WorkElsewhere
<1>8. CASE \E c \in DOMAIN bTask : SendResponse(c)
  BY <1>4, <1>8 DEF SendResponse, TaskStep
<1>9. ASSUME NEW c \in DOMAIN bTask, ReleaseTask(c) PROVE SlotsOK'
  <2>1. /\ UNCHANGED <<bSetup, bCid, bToken, bCancelled, bCaller, bDead>>
        /\ bSlot' = Released(bTask[c].pid)
    BY <1>9 DEF ReleaseTask, TaskStep
  <2>2. bTask[c].pid \in BPid
    BY DEF PoolOK, BTask
  <2>3. /\ bCaller' \in [BPid -> BOps \union {"Destroy", Idle}]
        /\ \A q \in BPid : bCaller'[q] = "Destroy" => q \in bDead
        /\ \A q \in BPid : bCaller'[q] = bCaller[q]
    BY <2>1 DEF SlotsOK
  <2> QED BY <1>0, <2>1, <2>2, <2>3, SlotsFewer
<1>10. CASE \E c \in DOMAIN bTask : PanicTask(c)
  BY <1>4, <1>10 DEF PanicTask
<1> QED BY <1>1, <1>2, <1>3, <1>5, <1>6, <1>7, <1>8, <1>9, <1>10 DEF BridgeCases


\* What a longer and a shorter queue hold.
LEMMA QueueLonger ==
    ASSUME PoolOK, NEW r \in BRequest, bQueue' = Append(bQueue, r)
    PROVE  /\ \A c : InQueue(c)' <=> InQueue(c) \/ (r.op # "Shutdown" /\ c = r.cid)
           /\ QueuedOnce /\ (r.op = "Shutdown" \/ ~InQueue(r.cid)) => QueuedOnce'
<1>1. bQueue \in Seq(BRequest) /\ Len(bQueue) \in Nat
  BY LenProperties DEF PoolOK
<1>2. /\ Len(bQueue') = Len(bQueue) + 1 /\ bQueue'[Len(bQueue) + 1] = r
      /\ \A i \in 1..Len(bQueue) : bQueue'[i] = bQueue[i]
  BY <1>1, AppendProperties
<1>3. \A i : i \in 1..Len(bQueue') <=> i \in 1..Len(bQueue) \/ i = Len(bQueue) + 1
  BY <1>1, <1>2
<1>4. ASSUME NEW c PROVE InQueue(c)' <=> InQueue(c) \/ (r.op # "Shutdown" /\ c = r.cid)
  BY <1>2, <1>3 DEF InQueue
<1>5. ASSUME QueuedOnce, r.op = "Shutdown" \/ ~InQueue(r.cid) PROVE QueuedOnce'
  BY <1>2, <1>3, <1>5 DEF QueuedOnce, InQueue
<1> QED BY <1>4, <1>5

LEMMA QueueShorter ==
    ASSUME PoolOK, QueuedOnce, bQueue # << >>, bQueue' = Tail(bQueue)
    PROVE  /\ \A c : InQueue(c) <=> InQueue(c)' \/ (Head(bQueue).op # "Shutdown" /\ c = Head(bQueue).cid)
           /\ \A c : Head(bQueue).op # "Shutdown" /\ c = Head(bQueue).cid => ~InQueue(c)'
           /\ QueuedOnce'
<1> DEFINE r == Head(bQueue)
<1>1. /\ r = bQueue[1] /\ 1 \in 1..Len(bQueue) /\ Len(bQueue') \in Nat /\ Len(bQueue) \in Nat \ {0}
      /\ Len(bQueue') = Len(bQueue) - 1
  BY QueueHead
<1>2. \A i \in 1..Len(bQueue') : bQueue'[i] = bQueue[i + 1] /\ i + 1 \in 1..Len(bQueue) /\ i + 1 # 1
  <2>1. \A i \in 1..Len(bQueue') : bQueue'[i] = bQueue[i + 1] /\ i + 1 \in 1..Len(bQueue)
    BY QueueHead
  <2>2. \A i \in 1..Len(bQueue') : i + 1 # 1
    BY <1>1
  <2> QED BY <2>1, <2>2
<1>3. \A j \in 1..Len(bQueue) : j = 1 \/ \E i \in 1..Len(bQueue') : j = i + 1
  <2> TAKE j \in 1..Len(bQueue)
  <2>1. j = 1 \/ (j - 1 \in 1..Len(bQueue') /\ j = (j - 1) + 1)
    BY <1>1
  <2> QED BY <2>1
<1>4. \A i, j \in 1..Len(bQueue') : i + 1 = j + 1 => i = j
  BY <1>1
<1> HIDE DEF r
<1>5. ASSUME NEW c PROVE InQueue(c) <=> InQueue(c)' \/ (r.op # "Shutdown" /\ c = r.cid)
  <2>1. InQueue(c)' => InQueue(c)
    BY <1>2 DEF InQueue
  <2>2. r.op # "Shutdown" /\ c = r.cid => InQueue(c)
    BY <1>1 DEF InQueue
  <2>3. ASSUME InQueue(c) PROVE InQueue(c)' \/ (r.op # "Shutdown" /\ c = r.cid)
    <3>1. PICK j \in 1..Len(bQueue) : bQueue[j].cid = c /\ bQueue[j].op # "Shutdown"
      BY <2>3 DEF InQueue
    <3>2. CASE j = 1
      BY <1>1, <3>1, <3>2
    <3>3. CASE \E i \in 1..Len(bQueue') : j = i + 1
      BY <1>2, <3>1, <3>3 DEF InQueue
    <3> QED BY <1>3, <3>2, <3>3
  <2> QED BY <2>1, <2>2, <2>3
<1>6. ASSUME NEW c, r.op # "Shutdown", c = r.cid PROVE ~InQueue(c)'
  BY <1>1, <1>2, <1>6 DEF InQueue, QueuedOnce
<1>7. QueuedOnce'
  BY <1>2, <1>4 DEF QueuedOnce
<1> QED BY <1>5, <1>6, <1>7 DEF r

LEMMA CidsEndSubmit ==
    ASSUME PoolOK, SlotsOK, CidsApart, NEW p \in BPid, EndSubmit(p)
    PROVE  CidsApart'
<1> DEFINE r == [cid |-> bCid, pid |-> p, op |-> bCaller[p]]
<1>1. UNCHANGED <<bResponses, bTask, bLost, bDead>> /\ bCid' = bCid + 1 /\ bCaller[p] # Idle
  BY DEF EndSubmit
<1>2. bCid \in Nat /\ bGot \in [BPid -> SUBSET Nat]
  BY DEF PoolOK
<1>3. /\ \A c \in Nat : c < bCid + 1 <=> c < bCid \/ c = bCid
      /\ ~(bCid < bCid) /\ \A c \in Nat : c < bCid => c < bCid + 1
  BY <1>2
<1>4. ~InQueue(bCid) /\ bCid \notin DOMAIN bTask /\ ~Answered(bCid) /\ ~Delivered(bCid) /\ ~Gone(bCid)
  BY <1>2, <1>3 DEF CidsApart, Apart
<1>5. \A c : (Answered(c)' <=> Answered(c)) /\ (AtWork(c)' <=> AtWork(c)) /\ (Gone(c)' <=> Gone(c))
  BY <1>1 DEF Answered, AtWork, Gone
<1>6. RespondedOnce'
  BY <1>1 DEF RespondedOnce, CidsApart
<1>7. CASE Accepting
  <2>1. bQueue' = Append(bQueue, r) /\ bGot' = bGot
    BY <1>7 DEF EndSubmit
  <2>2. r \in BRequest /\ r.op # "Shutdown" /\ r.cid = bCid
    BY <1>1, <1>2 DEF BRequest, SlotsOK, BOps, Idle
  <2> HIDE DEF r
  <2>3. \A c : InQueue(c)' <=> InQueue(c) \/ c = bCid
    BY <2>1, <2>2, QueueLonger
  <2>4. QueuedOnce'
    BY <1>4, <2>1, <2>2, QueueLonger DEF CidsApart
  <2>5. \A c : Delivered(c)' <=> Delivered(c)
    BY <2>1 DEF Delivered
  <2>6. \A c \in Nat : Apart(c)'
    BY <1>1, <1>3, <1>4, <1>5, <2>3, <2>5 DEF CidsApart, Apart, AtWork
  <2>7. bDead = {} => \A c \in Nat : c < bCid' => Somewhere(c)'
    BY <1>1, <1>3, <1>5, <2>3, <2>5 DEF CidsApart, Somewhere
  <2> QED BY <1>1, <1>6, <2>4, <2>6, <2>7 DEF CidsApart
<1>8. CASE ~Accepting
  <2>1. bQueue' = bQueue
    BY <1>8 DEF EndSubmit
  <2>2. (\A c : InQueue(c)' <=> InQueue(c)) /\ QueuedOnce'
    BY <2>1 DEF InQueue, QueuedOnce, CidsApart
  <2>3. CASE bCaller[p] = "Destroy"
    <3>1. bGot' = bGot /\ bDead # {}
      BY <1>8, <2>3 DEF EndSubmit, SlotsOK
    <3>2. \A c : Delivered(c)' <=> Delivered(c)
      BY <3>1 DEF Delivered
    <3>3. \A c \in Nat : Apart(c)'
      BY <1>1, <1>3, <1>5, <2>2, <3>2 DEF CidsApart, Apart
    <3> QED BY <1>1, <1>6, <2>2, <3>1, <3>3 DEF CidsApart
  <2>4. CASE bCaller[p] # "Destroy"
    <3>1. bGot' = [bGot EXCEPT ![p] = @ \union {bCid}]
      BY <1>8, <2>4 DEF EndSubmit
    <3>2. \A c : Delivered(c)' <=> Delivered(c) \/ c = bCid
      BY <1>2, <3>1 DEF Delivered
    <3>3. \A c \in Nat : Apart(c)'
      BY <1>1, <1>3, <1>4, <1>5, <2>2, <3>2 DEF CidsApart, Apart, AtWork
    <3>4. bDead = {} => \A c \in Nat : c < bCid' => Somewhere(c)'
      BY <1>1, <1>3, <1>5, <2>2, <3>2 DEF CidsApart, Somewhere
    <3> QED BY <1>1, <1>6, <2>2, <3>3, <3>4 DEF CidsApart
  <2> QED BY <2>3, <2>4
<1> QED BY <1>7, <1>8

LEMMA CidsDrain ==
    ASSUME PoolOK, CidsApart, Drain
    PROVE  CidsApart'
<1>1. UNCHANGED <<bQueue, bCid, bTask, bDead, bLost>> /\ bResponses' = << >>
  BY DEF Drain
<1>2. \A p \in BPid : bGot'[p] = bGot[p] \union
                  {bResponses[i].cid : i \in {j \in DOMAIN bResponses :
                                                 bResponses[j].pid = p /\ p \notin bDead}}
  BY DEF Drain
<1>3. DOMAIN bResponses = 1..Len(bResponses) /\ \A i \in 1..Len(bResponses) : bResponses[i].pid \in BPid
  <2>1. bResponses \in Seq(BResponse)
    BY DEF PoolOK
  <2>2. DOMAIN bResponses = 1..Len(bResponses) /\ \A i \in 1..Len(bResponses) : bResponses[i] \in BResponse
    BY <2>1, LenProperties, ElementOfSeq
  <2> QED BY <2>2 DEF BResponse
<1>4. \A c : ~Answered(c)'
  <2>1. Len(bResponses') = 0
    BY <1>1
  <2> QED BY <2>1 DEF Answered
<1>5. RespondedOnce'
  <2>1. Len(bResponses') = 0
    BY <1>1
  <2> QED BY <2>1 DEF RespondedOnce
<1>6. \A c : /\ InQueue(c)' <=> InQueue(c)
             /\ AtWork(c)' <=> AtWork(c)
             /\ Gone(c)' <=> Gone(c)
  BY <1>1 DEF InQueue, AtWork, Gone
<1>7. QueuedOnce'
  BY <1>1 DEF QueuedOnce, CidsApart
<1>8. ASSUME NEW c PROVE Delivered(c)' => Delivered(c) \/ Answered(c)
  BY <1>2, <1>3 DEF Delivered, Answered
<1>9. ASSUME NEW c, Delivered(c) PROVE Delivered(c)'
  BY <1>2, <1>9 DEF Delivered
<1>10. ASSUME NEW c, Answered(c), bDead = {} PROVE Delivered(c)'
  BY <1>2, <1>3, <1>10 DEF Delivered, Answered
<1>11. \A c \in Nat : Apart(c)'
  BY <1>1, <1>4, <1>6, <1>8 DEF CidsApart, Apart
<1>12. bDead = {} => \A c \in Nat : c < bCid => Somewhere(c)'
  BY <1>6, <1>9, <1>10 DEF CidsApart, Somewhere
<1> QED BY <1>1, <1>5, <1>7, <1>11, <1>12 DEF CidsApart

LEMMA CidsReceive ==
    ASSUME PoolOK, CidsApart, NEW w \in BWorker, Receive(w)
    PROVE  CidsApart'
<1> DEFINE r == Head(bQueue)
           t == [worker |-> w, pid |-> r.pid, op |-> r.op, at |-> "spawned", token |-> NoToken]
<1>1. /\ UNCHANGED <<bResponses, bCid, bDead, bGot, bLost>>
      /\ bQueue # << >> /\ bQueue' = Tail(bQueue)
  BY DEF Receive
<1>2. \A c : /\ Answered(c)' <=> Answered(c)
             /\ Delivered(c)' <=> Delivered(c)
             /\ Gone(c)' <=> Gone(c)
  BY <1>1 DEF Answered, Delivered, Gone
<1>3. RespondedOnce'
  BY <1>1 DEF RespondedOnce, CidsApart
<1>4. /\ \A c : InQueue(c) <=> InQueue(c)' \/ (r.op # "Shutdown" /\ c = r.cid)
      /\ \A c : r.op # "Shutdown" /\ c = r.cid => ~InQueue(c)'
      /\ QueuedOnce'
  BY <1>1, QueueShorter DEF CidsApart
<1>5. CASE r.op = "Shutdown"
  <2>1. bTask' = bTask
    BY <1>5 DEF Receive
  <2>2. \A c : /\ AtWork(c)' <=> AtWork(c)
               /\ InQueue(c)' <=> InQueue(c)
    BY <1>4, <1>5, <2>1 DEF AtWork
  <2>3. \A c \in Nat : Apart(c)'
    BY <1>1, <1>2, <2>1, <2>2 DEF CidsApart, Apart
  <2>4. bDead = {} => \A c \in Nat : c < bCid => Somewhere(c)'
    BY <1>2, <2>2 DEF CidsApart, Somewhere
  <2> QED BY <1>1, <1>3, <1>4, <2>3, <2>4 DEF CidsApart
<1>6. CASE r.op # "Shutdown"
  <2>1. bTask' = With(bTask, r.cid, t)
    BY <1>6 DEF Receive
  <2>2. r \in BRequest /\ r.cid \in Nat /\ t.at = "spawned"
    BY <1>1, QueueHead DEF BRequest
  <2> HIDE DEF t, r
  <2>3. /\ DOMAIN bTask' = DOMAIN bTask \union {r.cid} /\ bTask'[r.cid] = t
        /\ \A c \in DOMAIN bTask : c # r.cid => bTask'[c] = bTask[c]
    BY <2>1 DEF With
  <2>4. r.cid \notin DOMAIN bTask /\ InQueue(r.cid)
    BY <1>4, <1>6, <2>2 DEF CidsApart, Apart
  <2>5. \A c : AtWork(c)' <=> AtWork(c) \/ c = r.cid
    BY <2>2, <2>3, <2>4 DEF AtWork
  <2>6. \A c \in Nat : Apart(c)'
    BY <1>1, <1>2, <1>4, <1>6, <2>3, <2>4, <2>5 DEF CidsApart, Apart
  <2>7. bDead = {} => \A c \in Nat : c < bCid => Somewhere(c)'
    BY <1>2, <1>4, <2>5 DEF CidsApart, Somewhere
  <2> QED BY <1>1, <1>3, <1>4, <2>6, <2>7 DEF CidsApart
<1> QED BY <1>5, <1>6

LEMMA CidsSend ==
    ASSUME PoolOK, CidsApart, NEW c0 \in DOMAIN bTask, SendResponse(c0)
    PROVE  CidsApart'
<1> DEFINE e == [cid |-> c0, pid |-> bTask[c0].pid]
<1>1. /\ UNCHANGED <<bQueue, bCid, bDead, bGot, bLost>>
      /\ bResponses' = Append(bResponses, e)
  BY DEF SendResponse, TaskStep
<1>2. TaskMoved(c0) /\ bTask'[c0].at = "sent" /\ bTask[c0].at = "done"
  BY SendMoves
<1>3. c0 \in Nat /\ AtWork(c0) /\ ~Answered(c0) /\ ~Delivered(c0) /\ ~Gone(c0)
  BY <1>2 DEF PoolOK, AtWork, CidsApart, Apart
<1>4. e \in BResponse /\ e.cid = c0
  BY DEF PoolOK, BTask, BResponse
<1>5. bResponses \in Seq(BResponse) /\ Len(bResponses) \in Nat
  BY LenProperties DEF PoolOK
<1> HIDE DEF e
<1>6. /\ Len(bResponses') = Len(bResponses) + 1 /\ bResponses'[Len(bResponses) + 1] = e
      /\ \A i \in 1..Len(bResponses) : bResponses'[i] = bResponses[i]
  BY <1>1, <1>4, <1>5, AppendProperties
<1>7. \A i : i \in 1..Len(bResponses') <=> i \in 1..Len(bResponses) \/ i = Len(bResponses) + 1
  BY <1>5, <1>6
<1>8. ASSUME NEW c PROVE Answered(c)' <=> Answered(c) \/ c = c0
  BY <1>4, <1>6, <1>7 DEF Answered
<1>9. RespondedOnce'
  BY <1>3, <1>4, <1>6, <1>7 DEF RespondedOnce, CidsApart, Answered
<1>10. \A c : /\ InQueue(c)' <=> InQueue(c)
              /\ Delivered(c)' <=> Delivered(c)
              /\ Gone(c)' <=> Gone(c)
  BY <1>1 DEF InQueue, Delivered, Gone
<1>11. QueuedOnce'
  BY <1>1 DEF QueuedOnce, CidsApart
<1>12. \A c : AtWork(c)' <=> AtWork(c) /\ c # c0
  BY <1>2 DEF AtWork, TaskMoved
<1>13. DOMAIN bTask' = DOMAIN bTask
  BY <1>2 DEF TaskMoved
<1>14. \A c \in Nat : Apart(c)'
  BY <1>1, <1>3, <1>8, <1>10, <1>12, <1>13 DEF CidsApart, Apart
<1>15. bDead = {} => \A c \in Nat : c < bCid => Somewhere(c)'
  BY <1>8, <1>10, <1>12 DEF CidsApart, Somewhere
<1> QED BY <1>1, <1>9, <1>11, <1>14, <1>15 DEF CidsApart

\* Tasks that take a step other than answering, leave after their answer, or
\* end without one: what is gone now was at work before.
LEMMA CidsTasks ==
    ASSUME PoolOK, CidsApart, UNCHANGED <<bQueue, bResponses, bCid, bGot>>,
           DOMAIN bTask' \subseteq DOMAIN bTask,
           \A c : AtWork(c)' => AtWork(c),
           \A c : Gone(c)' => Gone(c) \/ (AtWork(c) /\ c \notin DOMAIN bTask'),
           \A c : Gone(c) => Gone(c)',
           bDead' # {} \/ (bDead' = bDead /\ \A c : AtWork(c) => AtWork(c)' \/ Gone(c)')
    PROVE  CidsApart'
<1>1. \A c : /\ InQueue(c)' <=> InQueue(c)
             /\ Delivered(c)' <=> Delivered(c)
             /\ Answered(c)' <=> Answered(c)
  BY DEF InQueue, Delivered, Answered
<1>2. QueuedOnce' /\ RespondedOnce'
  BY DEF QueuedOnce, RespondedOnce, CidsApart
<1>3. \A c \in Nat : Apart(c)'
  <2> SUFFICES ASSUME NEW c \in Nat PROVE Apart(c)'
    OBVIOUS
  <2>1. Apart(c) /\ (AtWork(c) => c \in DOMAIN bTask)
    BY DEF CidsApart, AtWork
  <2> QED BY <1>1, <2>1 DEF Apart
<1>4. bDead' = {} => \A c \in Nat : c < bCid => Somewhere(c)'
  BY <1>1 DEF CidsApart, Somewhere
<1> QED BY <1>2, <1>3, <1>4 DEF CidsApart

LEMMA CidsDropping ==
    ASSUME PoolOK, CidsApart, DestroysOnce, NEW gone, Dropping(gone)
    PROVE  CidsApart'
<1>1. UNCHANGED <<bQueue, bResponses, bCid, bGot, bDead>>
  BY DEF Dropping
<1>2. /\ DOMAIN bTask' = DOMAIN bTask \ gone /\ \A c \in DOMAIN bTask' : bTask'[c] = bTask[c]
      /\ \A p \in BPid : bLost'[p] = bLost[p] \union
                           {c \in gone : bTask[c].pid = p /\ bTask[c].op # "Destroy"}
  BY TasksDropped
<1>3. \A c \in gone : AtWork(c) /\ c \notin DOMAIN bTask'
  BY <1>2 DEF Dropping, AtWork
<1>4. \A c : AtWork(c)' => AtWork(c)
  BY <1>2 DEF AtWork
<1>5. \A c : Gone(c)' => Gone(c) \/ (AtWork(c) /\ c \notin DOMAIN bTask')
  BY <1>2, <1>3 DEF Gone
<1>6. \A c : Gone(c) => Gone(c)'
  BY <1>2 DEF Gone
<1>7. ASSUME bDead = {}, NEW c, AtWork(c) PROVE AtWork(c)' \/ Gone(c)'
  <2>1. c \in DOMAIN bTask /\ bTask[c] \in BTask
    BY <1>7 DEF AtWork, PoolOK
  <2>2. bTask[c].pid \in BPid /\ bTask[c].op # "Destroy"
    BY <1>7, <2>1 DEF BTask, DestroysOnce, DestroyOnce, AtWorkDestroy
  <2>3. c \in gone => Gone(c)'
    BY <1>2, <2>2 DEF Gone
  <2>4. c \notin gone => AtWork(c)'
    BY <1>2, <1>7, <2>1 DEF AtWork
  <2> QED BY <2>3, <2>4
<1>8. DOMAIN bTask' \subseteq DOMAIN bTask
  BY <1>2
<1> QED BY <1>1, <1>4, <1>5, <1>6, <1>7, <1>8, CidsTasks

LEMMA CidsKept ==
    ASSUME PoolOK, SlotsOK, CidsApart, DestroysOnce, BridgeCases
    PROVE  CidsApart'
<1>1. CASE \E p \in BPid, op \in BOps : BeginSubmit(p, op)
  BY <1>1, CidsTasks DEF BeginSubmit, AtWork, Gone
<1>2. CASE \E p \in BPid : EndSubmit(p)
  BY <1>2, CidsEndSubmit
<1>3. CASE \E p \in BPid : Terminate(p)
  BY <1>3, CidsTasks DEF Terminate, AtWork, Gone
<1>4. CASE Drain
  BY <1>4, CidsDrain
<1>5. CASE Shutdown
  <2> DEFINE r == [cid |-> bCid, pid |-> "host", op |-> "Shutdown"]
  <2>1. UNCHANGED <<bResponses, bCid, bGot, bTask, bDead, bLost>> /\ bQueue' = Append(bQueue, r)
    BY <1>5 DEF Shutdown
  <2>2. r \in BRequest /\ r.op = "Shutdown"
    BY DEF PoolOK, BRequest
  <2> HIDE DEF r
  <2>3. (\A c : InQueue(c)' <=> InQueue(c)) /\ QueuedOnce'
    BY <2>1, <2>2, QueueLonger DEF CidsApart
  <2>4. \A c : /\ AtWork(c)' <=> AtWork(c)
               /\ Delivered(c)' <=> Delivered(c)
               /\ Answered(c)' <=> Answered(c)
               /\ Gone(c)' <=> Gone(c)
    BY <2>1 DEF AtWork, Delivered, Answered, Gone
  <2>5. RespondedOnce'
    BY <2>1 DEF RespondedOnce, CidsApart
  <2>6. \A c \in Nat : Apart(c)'
    BY <2>1, <2>3, <2>4 DEF CidsApart, Apart
  <2>7. bDead = {} => \A c \in Nat : c < bCid => Somewhere(c)'
    BY <2>3, <2>4 DEF CidsApart, Somewhere
  <2> QED BY <2>1, <2>3, <2>5, <2>6, <2>7 DEF CidsApart
<1>6. CASE \E w \in BWorker : Receive(w)
  BY <1>6, CidsReceive
<1>7. ASSUME NEW w \in BWorker, StopWorker(w) PROVE CidsApart'
  <2>1. UNCHANGED <<bQueue, bResponses, bCid, bGot, bDead>>
    BY <1>7 DEF StopWorker
  <2>2. CASE Drained(w)
    BY <2>1, <2>2, CidsTasks DEF Drained, AtWork, Gone
  <2>3. CASE DeadlinePassed(w)
    BY <1>7, <2>3, DeadlineDrops, CidsDropping
  <2> QED BY <1>7, <2>2, <2>3 DEF StopWorker
<1>8. ASSUME NEW c \in DOMAIN bTask, Working(c) PROVE CidsApart'
  <2>1. UNCHANGED <<bQueue, bResponses, bCid, bGot, bDead, bLost>>
    BY <1>8, WorkElsewhere
  <2>2. TaskMoved(c) /\ bTask'[c].at # "sent"
    BY <1>8, WorkMoves
  <2>3. DOMAIN bTask' = DOMAIN bTask /\ \A d : AtWork(d)' <=> AtWork(d)
    BY <2>2 DEF TaskMoved, AtWork
  <2>4. \A d : Gone(d)' <=> Gone(d)
    BY <2>1 DEF Gone
  <2> QED BY <2>1, <2>3, <2>4, CidsTasks
<1>9. CASE \E c \in DOMAIN bTask : SendResponse(c)
  BY <1>9, CidsSend
<1>10. ASSUME NEW c \in DOMAIN bTask, ReleaseTask(c) PROVE CidsApart'
  <2>1. UNCHANGED <<bQueue, bResponses, bCid, bGot, bDead, bLost>> /\ bTask' = Without(bTask, c) /\ bTask[c].at = "sent"
    BY <1>10 DEF ReleaseTask, TaskStep
  <2>2. DOMAIN bTask' = DOMAIN bTask \ {c} /\ \A d \in DOMAIN bTask' : bTask'[d] = bTask[d]
    BY <2>1 DEF Without
  <2>3. \A d : AtWork(d)' <=> AtWork(d)
    BY <2>1, <2>2 DEF AtWork
  <2>4. \A d : Gone(d)' <=> Gone(d)
    BY <2>1 DEF Gone
  <2> QED BY <2>1, <2>2, <2>3, <2>4, CidsTasks
<1>11. CASE \E c \in DOMAIN bTask : PanicTask(c)
  BY <1>11, PanicDrops, CidsDropping
<1> QED BY <1>1, <1>2, <1>3, <1>4, <1>5, <1>6, <1>7, <1>8, <1>9, <1>10, <1>11 DEF BridgeCases


\* The AgentDestroy of a process, in the queue and at work.
QueueDestroysOnce(p) ==
    \A i, j \in 1..Len(bQueue) :
        bQueue[i].pid = p /\ bQueue[i].op = "Destroy" /\ bQueue[j].pid = p /\ bQueue[j].op = "Destroy"
          => i = j

LEMMA DestroyLonger ==
    ASSUME PoolOK, NEW r \in BRequest, bQueue' = Append(bQueue, r), NEW p
    PROVE  /\ InQueueDestroy(p)' <=> InQueueDestroy(p) \/ (r.pid = p /\ r.op = "Destroy")
           /\ QueueDestroysOnce(p) /\ (~(r.pid = p /\ r.op = "Destroy") \/ ~InQueueDestroy(p))
                => QueueDestroysOnce(p)'
<1>1. bQueue \in Seq(BRequest) /\ Len(bQueue) \in Nat
  BY LenProperties DEF PoolOK
<1>2. /\ Len(bQueue') = Len(bQueue) + 1 /\ bQueue'[Len(bQueue) + 1] = r
      /\ \A i \in 1..Len(bQueue) : bQueue'[i] = bQueue[i]
  BY <1>1, AppendProperties
<1>3. \A i : i \in 1..Len(bQueue') <=> i \in 1..Len(bQueue) \/ i = Len(bQueue) + 1
  BY <1>1, <1>2
<1>4. InQueueDestroy(p)' <=> InQueueDestroy(p) \/ (r.pid = p /\ r.op = "Destroy")
  BY <1>2, <1>3 DEF InQueueDestroy
<1>5. ASSUME QueueDestroysOnce(p), ~(r.pid = p /\ r.op = "Destroy") \/ ~InQueueDestroy(p)
      PROVE  QueueDestroysOnce(p)'
  BY <1>2, <1>3, <1>5 DEF QueueDestroysOnce, InQueueDestroy
<1> QED BY <1>4, <1>5

LEMMA DestroyShorter ==
    ASSUME PoolOK, bQueue # << >>, bQueue' = Tail(bQueue), NEW p, QueueDestroysOnce(p)
    PROVE  /\ InQueueDestroy(p)' => InQueueDestroy(p)
           /\ InQueueDestroy(p) => \/ InQueueDestroy(p)'
                                   \/ Head(bQueue).pid = p /\ Head(bQueue).op = "Destroy"
           /\ Head(bQueue).pid = p /\ Head(bQueue).op = "Destroy" => InQueueDestroy(p) /\ ~InQueueDestroy(p)'
           /\ QueueDestroysOnce(p)'
<1> DEFINE r == Head(bQueue)
<1>1. /\ r = bQueue[1] /\ 1 \in 1..Len(bQueue) /\ Len(bQueue') \in Nat /\ Len(bQueue) \in Nat \ {0}
      /\ Len(bQueue') = Len(bQueue) - 1
  BY QueueHead
<1>2. \A i \in 1..Len(bQueue') : bQueue'[i] = bQueue[i + 1] /\ i + 1 \in 1..Len(bQueue) /\ i + 1 # 1
  <2>1. \A i \in 1..Len(bQueue') : bQueue'[i] = bQueue[i + 1] /\ i + 1 \in 1..Len(bQueue)
    BY QueueHead
  <2>2. \A i \in 1..Len(bQueue') : i + 1 # 1
    BY <1>1
  <2> QED BY <2>1, <2>2
<1>3. \A j \in 1..Len(bQueue) : j = 1 \/ \E i \in 1..Len(bQueue') : j = i + 1
  <2> TAKE j \in 1..Len(bQueue)
  <2>1. j = 1 \/ (j - 1 \in 1..Len(bQueue') /\ j = (j - 1) + 1)
    BY <1>1
  <2> QED BY <2>1
<1>4. \A i, j \in 1..Len(bQueue') : i + 1 = j + 1 => i = j
  BY <1>1
<1> HIDE DEF r
<1>5. InQueueDestroy(p)' => InQueueDestroy(p)
  BY <1>2 DEF InQueueDestroy
<1>6. InQueueDestroy(p) => InQueueDestroy(p)' \/ (r.pid = p /\ r.op = "Destroy")
  BY <1>1, <1>2, <1>3 DEF InQueueDestroy
<1>7. r.pid = p /\ r.op = "Destroy" => InQueueDestroy(p)
  BY <1>1 DEF InQueueDestroy
<1>8. r.pid = p /\ r.op = "Destroy" => ~InQueueDestroy(p)'
  BY <1>1, <1>2 DEF InQueueDestroy, QueueDestroysOnce
<1>9. QueueDestroysOnce(p)'
  BY <1>2, <1>4 DEF QueueDestroysOnce
<1> QED BY <1>5, <1>6, <1>7, <1>8, <1>9 DEF r

\* Tasks that stay what they are, or leave.
LEMMA DestroysFewer ==
    ASSUME DestroysOnce, UNCHANGED <<bQueue, bCaller, bDead>>, DOMAIN bTask' \subseteq DOMAIN bTask,
           \A c \in DOMAIN bTask' : bTask'[c].pid = bTask[c].pid /\ bTask'[c].op = bTask[c].op
    PROVE  DestroysOnce'
<1> SUFFICES ASSUME NEW p \in BPid, DestroyOnce(p) PROVE DestroyOnce(p)'
  BY DEF DestroysOnce
<1>1. InQueueDestroy(p)' <=> InQueueDestroy(p)
  BY DEF InQueueDestroy
<1>2. AtWorkDestroy(p)' => AtWorkDestroy(p)
  BY DEF AtWorkDestroy
<1> QED BY <1>1, <1>2 DEF DestroyOnce

LEMMA DestroysQueued ==
    ASSUME PoolOK, SlotsOK, DestroysOnce, NEW r \in BRequest, bQueue' = Append(bQueue, r), UNCHANGED <<bTask, bDead>>,
           r.op = "Destroy" => r.pid \in BPid /\ bCaller[r.pid] = "Destroy" /\ bCaller'[r.pid] # "Destroy",
           \A p \in BPid : bCaller'[p] = "Destroy" => bCaller[p] = "Destroy"
    PROVE  DestroysOnce'
<1> SUFFICES ASSUME NEW p \in BPid, DestroyOnce(p) PROVE DestroyOnce(p)'
  BY DEF DestroysOnce
<1>1. AtWorkDestroy(p)' <=> AtWorkDestroy(p)
  BY DEF AtWorkDestroy
<1>2. InQueueDestroy(p)' <=> InQueueDestroy(p) \/ (r.pid = p /\ r.op = "Destroy")
  BY DestroyLonger
<1>3. QueueDestroysOnce(p)
  BY DEF DestroyOnce, QueueDestroysOnce
<1>4. QueueDestroysOnce(p)'
  BY <1>3, DestroyLonger DEF DestroyOnce
<1> QED BY <1>1, <1>2, <1>4 DEF DestroyOnce, QueueDestroysOnce

LEMMA DestroysReceive ==
    ASSUME PoolOK, SlotsOK, CidsApart, DestroysOnce, NEW w \in BWorker, Receive(w)
    PROVE  DestroysOnce'
<1> DEFINE r == Head(bQueue)
           t == [worker |-> w, pid |-> r.pid, op |-> r.op, at |-> "spawned", token |-> NoToken]
<1>1. /\ UNCHANGED <<bCaller, bDead>> /\ bQueue # << >> /\ bQueue' = Tail(bQueue)
  BY DEF Receive
<1> SUFFICES ASSUME NEW p \in BPid, DestroyOnce(p) PROVE DestroyOnce(p)'
  BY DEF DestroysOnce
<1>2. QueueDestroysOnce(p)
  BY DEF DestroyOnce, QueueDestroysOnce
<1>3. /\ InQueueDestroy(p)' => InQueueDestroy(p)
      /\ r.pid = p /\ r.op = "Destroy" => InQueueDestroy(p) /\ ~InQueueDestroy(p)'
      /\ QueueDestroysOnce(p)'
  BY <1>1, <1>2, DestroyShorter
<1>4. CASE r.op = "Shutdown"
  <2>1. AtWorkDestroy(p)' <=> AtWorkDestroy(p)
    BY <1>4 DEF Receive, AtWorkDestroy
  <2>2. bTask' = bTask
    BY <1>4 DEF Receive
  <2> QED BY <1>1, <1>3, <2>1, <2>2 DEF DestroyOnce, QueueDestroysOnce
<1>5. CASE r.op # "Shutdown"
  <2>1. bTask' = With(bTask, r.cid, t)
    BY <1>5 DEF Receive
  <2>2. t.pid = r.pid /\ t.op = r.op
    OBVIOUS
  <2>3. r.cid \notin DOMAIN bTask
    <3>1. InQueue(r.cid) /\ r.cid \in Nat
      BY <1>1, <1>5, QueueHead DEF InQueue, BRequest
    <3> QED BY <3>1 DEF CidsApart, Apart
  <2> HIDE DEF t, r
  <2>4. /\ DOMAIN bTask' = DOMAIN bTask \union {r.cid} /\ bTask'[r.cid] = t
        /\ \A c \in DOMAIN bTask : bTask'[c] = bTask[c]
    BY <2>1, <2>3 DEF With
  <2>5. AtWorkDestroy(p)' <=> AtWorkDestroy(p) \/ (r.pid = p /\ r.op = "Destroy")
    BY <2>2, <2>4 DEF AtWorkDestroy
  <2>6. CASE r.pid = p /\ r.op = "Destroy"
    <3>1. ~AtWorkDestroy(p) /\ p \in bDead /\ bCaller[p] # "Destroy"
      BY <1>3, <2>6 DEF DestroyOnce
    <3>2. \A c \in DOMAIN bTask' : bTask'[c].pid = p /\ bTask'[c].op = "Destroy" => c = r.cid
      BY <2>4, <3>1 DEF AtWorkDestroy
    <3> QED BY <1>1, <1>3, <2>6, <3>1, <3>2 DEF DestroyOnce, QueueDestroysOnce
  <2>7. CASE ~(r.pid = p /\ r.op = "Destroy")
    <3>1. \A c \in DOMAIN bTask' : bTask'[c].pid = p /\ bTask'[c].op = "Destroy" =>
             c \in DOMAIN bTask /\ bTask'[c] = bTask[c]
      BY <2>2, <2>4, <2>7
    <3> QED BY <1>1, <1>3, <2>5, <2>7, <3>1 DEF DestroyOnce, QueueDestroysOnce
  <2> QED BY <2>6, <2>7
<1> QED BY <1>4, <1>5

LEMMA DestroysKept ==
    ASSUME PoolOK, SlotsOK, CidsApart, DestroysOnce, BridgeCases
    PROVE  DestroysOnce'
<1>1. ASSUME NEW p0 \in BPid, NEW op \in BOps, BeginSubmit(p0, op) PROVE DestroysOnce'
  <2>1. UNCHANGED <<bQueue, bTask, bDead>> /\ bCaller' = [bCaller EXCEPT ![p0] = op] /\ op # "Destroy"
    BY <1>1 DEF BeginSubmit, BOps
  <2>2. \A p \in BPid : bCaller'[p] = "Destroy" => bCaller[p] = "Destroy"
    BY <2>1 DEF SlotsOK
  <2> QED BY <2>1, <2>2 DEF DestroysOnce, DestroyOnce, InQueueDestroy, AtWorkDestroy
<1>2. ASSUME NEW p0 \in BPid, EndSubmit(p0) PROVE DestroysOnce'
  <2> DEFINE r == [cid |-> bCid, pid |-> p0, op |-> bCaller[p0]]
  <2>1. UNCHANGED <<bTask, bDead>> /\ bCaller[p0] # Idle
    BY <1>2 DEF EndSubmit
  <2>2. bCaller' = bCaller \/ bCaller' = [bCaller EXCEPT ![p0] = Idle]
    BY <1>2 DEF EndSubmit
  <2>3. \A p \in BPid : bCaller'[p] = "Destroy" => bCaller[p] = "Destroy"
    BY <2>2 DEF SlotsOK, Idle
  <2>4. CASE Accepting
    <3>1. bQueue' = Append(bQueue, r) /\ bCaller' = [bCaller EXCEPT ![p0] = Idle]
      BY <1>2, <2>4 DEF EndSubmit
    <3>2. r \in BRequest /\ r.op = bCaller[p0] /\ r.pid = p0
      BY <2>1 DEF BRequest, SlotsOK, BOps, Idle, PoolOK
    <3>3. bCaller'[p0] # "Destroy"
      BY <3>1 DEF SlotsOK, Idle
    <3> HIDE DEF r
    <3> QED BY <2>1, <2>3, <3>1, <3>2, <3>3, DestroysQueued
  <2>5. CASE ~Accepting
    <3>1. bQueue' = bQueue
      BY <1>2, <2>5 DEF EndSubmit
    <3> QED BY <2>1, <2>3, <3>1 DEF DestroysOnce, DestroyOnce, InQueueDestroy, AtWorkDestroy
  <2> QED BY <2>4, <2>5
<1>3. ASSUME NEW p0 \in BPid, Terminate(p0) PROVE DestroysOnce'
  <2>1. /\ UNCHANGED <<bQueue, bTask>> /\ bDead' = bDead \union {p0} /\ p0 \notin bDead
        /\ bCaller' = [bCaller EXCEPT ![p0] = "Destroy"]
    BY <1>3 DEF Terminate
  <2>2. ~InQueueDestroy(p0) /\ ~AtWorkDestroy(p0)
    BY <2>1 DEF DestroysOnce, DestroyOnce
  <2>3. \A p \in BPid : p # p0 => bCaller'[p] = bCaller[p]
    BY <2>1 DEF SlotsOK
  <2>4. \A p : (InQueueDestroy(p)' <=> InQueueDestroy(p)) /\ (AtWorkDestroy(p)' <=> AtWorkDestroy(p))
    BY <2>1 DEF InQueueDestroy, AtWorkDestroy
  <2> QED BY <2>1, <2>2, <2>3, <2>4 DEF DestroysOnce, DestroyOnce
<1>4. CASE Drain
  BY <1>4, DestroysFewer DEF Drain
<1>5. CASE Shutdown
  <2> DEFINE r == [cid |-> bCid, pid |-> "host", op |-> "Shutdown"]
  <2>1. UNCHANGED <<bTask, bDead, bCaller>> /\ bQueue' = Append(bQueue, r)
    BY <1>5 DEF Shutdown
  <2>2. r \in BRequest /\ r.op # "Destroy"
    BY DEF PoolOK, BRequest
  <2> HIDE DEF r
  <2> QED BY <2>1, <2>2, DestroysQueued
<1>6. CASE \E w \in BWorker : Receive(w)
  BY <1>6, DestroysReceive
<1>7. ASSUME NEW gone, Dropping(gone) PROVE DestroysOnce'
  <2>1. UNCHANGED <<bQueue, bCaller, bDead>>
    BY <1>7 DEF Dropping
  <2>2. DOMAIN bTask' \subseteq DOMAIN bTask /\ \A c \in DOMAIN bTask' : bTask'[c] = bTask[c]
    BY <1>7, TasksDropped
  <2> QED BY <2>1, <2>2, DestroysFewer
<1>8. ASSUME NEW w \in BWorker, StopWorker(w) PROVE DestroysOnce'
  <2>1. CASE Drained(w)
    BY <1>8, <2>1, DestroysFewer DEF StopWorker, Drained
  <2>2. CASE DeadlinePassed(w)
    BY <1>7, <1>8, <2>2, DeadlineDrops
  <2> QED BY <1>8, <2>1, <2>2 DEF StopWorker
<1>9. ASSUME NEW c \in DOMAIN bTask, Working(c) \/ SendResponse(c) PROVE DestroysOnce'
  <2>1. UNCHANGED <<bQueue, bCaller, bDead>>
    BY <1>9, WorkElsewhere DEF SendResponse, TaskStep
  <2>2. TaskMoved(c)
    BY <1>9, WorkMoves, SendMoves
  <2>3. DOMAIN bTask' \subseteq DOMAIN bTask
        /\ \A d \in DOMAIN bTask' : bTask'[d].pid = bTask[d].pid /\ bTask'[d].op = bTask[d].op
    BY <2>2 DEF TaskMoved
  <2> QED BY <2>1, <2>3, DestroysFewer
<1>10. ASSUME NEW c \in DOMAIN bTask, ReleaseTask(c) PROVE DestroysOnce'
  <2>1. UNCHANGED <<bQueue, bCaller, bDead>> /\ bTask' = Without(bTask, c)
    BY <1>10 DEF ReleaseTask, TaskStep
  <2>2. DOMAIN bTask' \subseteq DOMAIN bTask /\ \A d \in DOMAIN bTask' : bTask'[d] = bTask[d]
    BY <2>1 DEF Without
  <2> QED BY <2>1, <2>2, DestroysFewer
<1>11. CASE \E c \in DOMAIN bTask : PanicTask(c)
  BY <1>7, <1>11, PanicDrops
<1> QED BY <1>1, <1>2, <1>3, <1>4, <1>5, <1>6, <1>8, <1>9, <1>10, <1>11 DEF BridgeCases


\* What the slot of a process counts, and that it counts it.
CallerOwes(p) == IF bCaller[p] \in {Idle, "Destroy"} THEN 0 ELSE 1

CountRight(p) == Counted(p) = Owed(p) \/ (DestroyOver(p) /\ Counted(p) + 1 = Owed(p))
TokenRight(p) == p \in DOMAIN bSlot => (bSlot[p].token \in bCancelled <=> p \in bDead)
TasksRight(p) ==
    \A c \in TasksFor(p) : (bTask[c].op # "Destroy" /\ bTask[c].at # "spawned") =>
        IF p \in bDead
        THEN bTask[c].token \in bCancelled \/ (bTask[c].token = NoToken /\ DestroyOver(p))
        ELSE bTask[c].token = bSlot[p].token

SlotRight(p) == CountRight(p) /\ TokenRight(p) /\ TasksRight(p)
SlotsRight == \A p \in BPid : SlotRight(p)

LEMMA SlotsCountedMeans == SlotsCounted <=> SlotsRight
  BY DEF SlotsCounted, SlotsRight, SlotRight, CountRight, TokenRight, TasksRight

\* The requests of p, and those among them that reserve a slot.
From(p) == {r \in BRequest : r.pid = p}
Asking(p) == {r \in BRequest : r.pid = p /\ r.op # "Destroy"}

LEMMA QueuedHits ==
    ASSUME PoolOK, NEW p
    PROVE  /\ Queued(p) = Hits(bQueue, From(p)) /\ Cardinality(Queued(p)) \in Nat
           /\ Asked(p) = Hits(bQueue, Asking(p)) /\ Cardinality(Asked(p)) \in Nat
<1>1. bQueue \in Seq(BRequest)
  BY DEF PoolOK
<1>2. DOMAIN bQueue = 1..Len(bQueue) /\ \A i \in 1..Len(bQueue) : bQueue[i] \in BRequest
  BY <1>1, LenProperties, ElementOfSeq
<1>3. Queued(p) = Hits(bQueue, From(p)) /\ Asked(p) = Hits(bQueue, Asking(p))
  BY <1>2 DEF Queued, Asked, Hits, From, Asking
<1> QED BY <1>1, <1>3, HitsFinite DEF HitCount

LEMMA TasksFinite ==
    ASSUME PoolOK, CidsApart, NEW p
    PROVE  IsFiniteSet(TasksFor(p)) /\ Cardinality(TasksFor(p)) \in Nat
<1>1. bCid \in Nat /\ TasksFor(p) \in SUBSET Nat
  BY DEF PoolOK, TasksFor
<1>2. \A c \in TasksFor(p) : c <= bCid
  <2>1. \A c \in TasksFor(p) : c \in Nat /\ c < bCid
    BY <1>1 DEF TasksFor, CidsApart, Apart
  <2> QED BY <1>1, <2>1
<1>3. IsFiniteSet(TasksFor(p))
  BY <1>1, <1>2, FS_BoundedSetOfNaturals
<1> QED BY <1>3, FS_CardinalityType

\* What was lost is among the correlation ids given out.
LEMMA GoneFinite ==
    ASSUME PoolOK, CidsApart, NEW p \in BPid
    PROVE  IsFiniteSet(bLost[p]) /\ \A c \in bLost[p] : c \in Nat /\ Gone(c) /\ c \notin DOMAIN bTask
<1>1. bCid \in Nat /\ bLost[p] \in SUBSET Nat
  BY DEF PoolOK
<1>2. \A c \in bLost[p] : c \in Nat /\ Gone(c)
  BY <1>1 DEF Gone
<1>3. \A c \in bLost[p] : c < bCid /\ c \notin DOMAIN bTask
  BY <1>2 DEF CidsApart, Apart
<1>4. \A c \in bLost[p] : c <= bCid
  BY <1>1, <1>2, <1>3
<1>5. IsFiniteSet(bLost[p])
  BY <1>1, <1>4, FS_BoundedSetOfNaturals
<1> QED BY <1>2, <1>3, <1>5

LEMMA OwedNat ==
    ASSUME PoolOK, CidsApart, NEW p \in BPid
    PROVE  /\ IsFiniteSet(Unreleased(p)) /\ Cardinality(Unreleased(p)) \in Nat
           /\ Cardinality(Asked(p)) \in Nat /\ CallerOwes(p) \in Nat
           /\ Owed(p) = Cardinality(Asked(p)) + Cardinality(Unreleased(p)) + CallerOwes(p)
           /\ Owed(p) \in Nat
           /\ Unreleased(p) # {} => Owed(p) > 0
<1>1. {c \in TasksFor(p) : bTask[c].op # "Destroy"} \in SUBSET TasksFor(p) /\ IsFiniteSet(TasksFor(p))
  BY TasksFinite
<1>2. IsFiniteSet({c \in TasksFor(p) : bTask[c].op # "Destroy"})
  BY <1>1, FS_Subset
<1>3. IsFiniteSet(bLost[p])
  BY GoneFinite
<1>4. IsFiniteSet(Unreleased(p))
  BY <1>2, <1>3, FS_Union DEF Unreleased
<1>5. Cardinality(Unreleased(p)) \in Nat /\ (Unreleased(p) # {} => Cardinality(Unreleased(p)) # 0)
  BY <1>4, FS_CardinalityType, FS_EmptySet
<1>6. Cardinality(Asked(p)) \in Nat
  BY QueuedHits
<1>7. CallerOwes(p) \in Nat
  BY DEF CallerOwes
<1>8. Owed(p) = Cardinality(Asked(p)) + Cardinality(Unreleased(p)) + CallerOwes(p)
  BY DEF Owed, CallerOwes
<1> QED BY <1>4, <1>5, <1>6, <1>7, <1>8

LEMMA OwedNext ==
    ASSUME PoolOK', CidsApart', NEW p \in BPid
    PROVE  /\ IsFiniteSet(Unreleased(p)') /\ Cardinality(Unreleased(p)') \in Nat
           /\ Cardinality(Asked(p)') \in Nat /\ CallerOwes(p)' \in Nat
           /\ Owed(p)' = Cardinality(Asked(p)') + Cardinality(Unreleased(p)') + CallerOwes(p)'
           /\ Owed(p)' \in Nat
           /\ Unreleased(p)' # {} => Owed(p)' > 0
<1>1. (/\ IsFiniteSet(Unreleased(p)) /\ Cardinality(Unreleased(p)) \in Nat
       /\ Cardinality(Asked(p)) \in Nat /\ CallerOwes(p) \in Nat
       /\ Owed(p) = Cardinality(Asked(p)) + Cardinality(Unreleased(p)) + CallerOwes(p)
       /\ Owed(p) \in Nat
       /\ (Unreleased(p) # {} => Owed(p) > 0))'
  BY OwedNat, PTL
<1> QED BY <1>1

LEMMA CountedNat ==
    ASSUME SlotsOK, NEW p
    PROVE  Counted(p) \in Nat /\ (p \in DOMAIN bSlot <=> Counted(p) > 0)
           /\ (p \in DOMAIN bSlot => Counted(p) = bSlot[p].inflight)
  BY DEF Counted, SlotsOK, BSlot

\* Released takes one off what is counted, if there is one.
LEMMA CountedLess ==
    ASSUME SlotsOK, SlotsOK', NEW p \in BPid, bSlot' = Released(p)
    PROVE  Counted(p)' = IF Counted(p) > 0 THEN Counted(p) - 1 ELSE 0
<1>1. CASE p \notin DOMAIN bSlot
  <2>1. bSlot' = bSlot
    BY <1>1 DEF Released
  <2> QED BY <1>1, <2>1 DEF Counted
<1>2. CASE p \in DOMAIN bSlot /\ bSlot[p].inflight > 1
  <2>1. p \in DOMAIN bSlot' /\ bSlot'[p].inflight = bSlot[p].inflight - 1
    BY <1>2, SlotReleased
  <2> QED BY <1>2, <2>1, CountedNat DEF Counted
<1>3. CASE p \in DOMAIN bSlot /\ ~(bSlot[p].inflight > 1)
  <2>1. p \notin DOMAIN bSlot'
    BY <1>3, SlotReleased
  <2>2. Counted(p) = 1
    BY <1>3 DEF Counted, SlotsOK, BSlot
  <2> QED BY <2>1, <2>2 DEF Counted
<1> QED BY <1>1, <1>2, <1>3

LEMMA CountedOthers ==
    ASSUME SlotsOK, NEW p0 \in BPid, Reserve(p0) \/ bSlot' = Released(p0), NEW p, p # p0
    PROVE  /\ p \in DOMAIN bSlot' <=> p \in DOMAIN bSlot
           /\ p \in DOMAIN bSlot => bSlot'[p] = bSlot[p]
           /\ Counted(p)' = Counted(p)
<1>1. /\ p \in DOMAIN bSlot' <=> p \in DOMAIN bSlot
      /\ p \in DOMAIN bSlot => bSlot'[p] = bSlot[p]
  BY SlotReserved, SlotReleased
<1> QED BY <1>1 DEF Counted

LEMMA CountLoses ==
    ASSUME SlotsOK, NEW p \in BPid, CountRight(p), DestroyOver(p) => DestroyOver(p)',
           Owed(p)' \in Nat, Owed(p) = Owed(p)' + 1,
           Counted(p)' = IF Counted(p) > 0 THEN Counted(p) - 1 ELSE 0
    PROVE  CountRight(p)'
<1>1. Counted(p) \in Nat
  BY CountedNat
<1> QED BY <1>1 DEF CountRight

\* The tasks keep their tokens as long as the slot keeps its own.
LEMMA TasksStay ==
    ASSUME SlotsOK, SlotsOK', NEW p \in BPid, CountRight(p), CountRight(p)', TasksRight(p), TokenRight(p),
           Owed(p) \in Nat, Unreleased(p) # {} => Owed(p) > 0,
           Owed(p)' \in Nat, Unreleased(p)' # {} => Owed(p)' > 0,
           p \in bDead' <=> p \in bDead, bCancelled \subseteq bCancelled',
           DestroyOver(p) => DestroyOver(p)',
           p \in DOMAIN bSlot /\ p \in DOMAIN bSlot' => bSlot'[p].token = bSlot[p].token,
           \A c \in TasksFor(p)' : bTask'[c].op # "Destroy" /\ bTask'[c].at # "spawned" =>
               /\ c \in TasksFor(p) /\ bTask[c].op # "Destroy"
               /\ \/ bTask[c].at # "spawned" /\ bTask'[c].token = bTask[c].token
                  \/ p \in DOMAIN bSlot /\ bTask'[c].token = bSlot[p].token
                  \/ p \notin DOMAIN bSlot /\ bTask'[c].token = NoToken
    PROVE  TasksRight(p)'
<1> SUFFICES ASSUME NEW c \in TasksFor(p)', bTask'[c].op # "Destroy", bTask'[c].at # "spawned"
             PROVE  IF p \in bDead'
                    THEN bTask'[c].token \in bCancelled' \/ (bTask'[c].token = NoToken /\ DestroyOver(p)')
                    ELSE bTask'[c].token = bSlot'[p].token
  BY DEF TasksRight
<1>1. Owed(p) > 0 /\ Owed(p)' > 0
  <2>1. c \in Unreleased(p) /\ c \in Unreleased(p)'
    BY DEF Unreleased
  <2> QED BY <2>1
<1>2. CASE p \in bDead
  <2>1. CASE bTask[c].at # "spawned" /\ bTask'[c].token = bTask[c].token
    BY <1>2, <2>1 DEF TasksRight
  <2>2. CASE p \in DOMAIN bSlot /\ bTask'[c].token = bSlot[p].token
    BY <1>2, <2>2 DEF TokenRight
  <2>3. CASE p \notin DOMAIN bSlot /\ bTask'[c].token = NoToken
    <3>1. Counted(p) = 0
      BY <2>3 DEF Counted
    <3>2. DestroyOver(p)
      BY <1>1, <3>1 DEF CountRight
    <3> QED BY <1>2, <2>3, <3>2
  <2> QED BY <2>1, <2>2, <2>3
<1>3. CASE p \notin bDead
  <2>1. ~DestroyOver(p) /\ ~DestroyOver(p)'
    BY <1>3 DEF DestroyOver
  <2>2. Counted(p) > 0 /\ Counted(p)' > 0
    BY <1>1, <2>1 DEF CountRight
  <2>3. p \in DOMAIN bSlot /\ p \in DOMAIN bSlot'
    BY <2>2 DEF Counted
  <2> QED BY <1>3, <2>3 DEF TasksRight
<1> QED BY <1>2, <1>3

\* Processes whose requests stay as many and whose slot stays as it is.
LEMMA SlotStays ==
    ASSUME PoolOK, CidsApart, SlotsOK, PoolOK', CidsApart', SlotsOK', NEW p \in BPid, SlotRight(p),
           Owed(p)' = Owed(p),
           p \in DOMAIN bSlot' <=> p \in DOMAIN bSlot, p \in DOMAIN bSlot => bSlot'[p] = bSlot[p],
           UNCHANGED <<bCancelled, bDead>>, DestroyOver(p) => DestroyOver(p)',
           \A c \in TasksFor(p)' : bTask'[c].op # "Destroy" /\ bTask'[c].at # "spawned" =>
               /\ c \in TasksFor(p) /\ bTask[c].op # "Destroy"
               /\ \/ bTask[c].at # "spawned" /\ bTask'[c].token = bTask[c].token
                  \/ p \in DOMAIN bSlot /\ bTask'[c].token = bSlot[p].token
                  \/ p \notin DOMAIN bSlot /\ bTask'[c].token = NoToken
    PROVE  SlotRight(p)'
<1>1. Counted(p)' = Counted(p)
  BY DEF Counted
<1>2. CountRight(p)'
  BY <1>1 DEF CountRight, SlotRight
<1>3. TokenRight(p)'
  BY DEF TokenRight, SlotRight
<1>4. /\ Owed(p) \in Nat /\ (Unreleased(p) # {} => Owed(p) > 0)
      /\ Owed(p)' \in Nat /\ (Unreleased(p)' # {} => Owed(p)' > 0)
  BY OwedNat, OwedNext
<1>5. TasksRight(p)'
  BY <1>2, <1>4, TasksStay DEF SlotRight
<1> QED BY <1>2, <1>3, <1>5 DEF SlotRight

\* The places where an AgentDestroy is.
LEMMA OverMeans ==
    ASSUME PoolOK, NEW p
    PROVE  DestroyOver(p) <=> /\ p \in bDead /\ bCaller[p] # "Destroy"
                              /\ ~InQueueDestroy(p) /\ ~AtWorkDestroy(p)
<1>1. DOMAIN bQueue = 1..Len(bQueue)
  BY LenProperties DEF PoolOK
<1> QED BY <1>1 DEF DestroyOver, InQueueDestroy, AtWorkDestroy, Queued, TasksFor

LEMMA OverNext ==
    ASSUME PoolOK', NEW p
    PROVE  DestroyOver(p)' <=> /\ p \in bDead' /\ bCaller'[p] # "Destroy"
                               /\ ~InQueueDestroy(p)' /\ ~AtWorkDestroy(p)'
<1>1. (DestroyOver(p) <=> /\ p \in bDead /\ bCaller[p] # "Destroy"
                          /\ ~InQueueDestroy(p) /\ ~AtWorkDestroy(p))'
  BY OverMeans, PTL
<1> QED BY <1>1

LEMMA QueuedLonger ==
    ASSUME PoolOK, PoolOK', NEW r \in BRequest, bQueue' = Append(bQueue, r), NEW p
    PROVE  /\ r.pid = p => Cardinality(Queued(p)') = Cardinality(Queued(p)) + 1
           /\ r.pid # p => Cardinality(Queued(p)') = Cardinality(Queued(p))
           /\ r.pid = p /\ r.op # "Destroy" => Cardinality(Asked(p)') = Cardinality(Asked(p)) + 1
           /\ ~(r.pid = p /\ r.op # "Destroy") => Cardinality(Asked(p)') = Cardinality(Asked(p))
<1>1. /\ Queued(p) = Hits(bQueue, From(p)) /\ Queued(p)' = Hits(bQueue', From(p))
      /\ Asked(p) = Hits(bQueue, Asking(p)) /\ Asked(p)' = Hits(bQueue', Asking(p))
  <2>1. Queued(p) = Hits(bQueue, From(p)) /\ Asked(p) = Hits(bQueue, Asking(p))
    BY QueuedHits
  <2>2. (Queued(p) = Hits(bQueue, From(p)) /\ Asked(p) = Hits(bQueue, Asking(p)))'
    BY QueuedHits, PTL
  <2> QED BY <2>1, <2>2 DEF Hits, From, Asking, BRequest
<1>2. (r \in From(p) <=> r.pid = p) /\ (r \in Asking(p) <=> r.pid = p /\ r.op # "Destroy")
  BY DEF From, Asking
<1>3. bQueue \in Seq(BRequest)
  BY DEF PoolOK
<1> QED BY <1>1, <1>2, <1>3, HitsAppend DEF HitCount


LEMMA QueuedShorter ==
    ASSUME PoolOK, PoolOK', bQueue # << >>, bQueue' = Tail(bQueue), NEW p
    PROVE  /\ Head(bQueue).pid = p => Cardinality(Queued(p)) = Cardinality(Queued(p)') + 1
           /\ Head(bQueue).pid # p => Cardinality(Queued(p)) = Cardinality(Queued(p)')
           /\ Head(bQueue).pid = p /\ Head(bQueue).op # "Destroy" =>
                Cardinality(Asked(p)) = Cardinality(Asked(p)') + 1
           /\ ~(Head(bQueue).pid = p /\ Head(bQueue).op # "Destroy") =>
                Cardinality(Asked(p)) = Cardinality(Asked(p)')
<1>1. /\ Queued(p) = Hits(bQueue, From(p)) /\ Queued(p)' = Hits(bQueue', From(p))
      /\ Asked(p) = Hits(bQueue, Asking(p)) /\ Asked(p)' = Hits(bQueue', Asking(p))
  <2>1. Queued(p) = Hits(bQueue, From(p)) /\ Asked(p) = Hits(bQueue, Asking(p))
    BY QueuedHits
  <2>2. (Queued(p) = Hits(bQueue, From(p)) /\ Asked(p) = Hits(bQueue, Asking(p)))'
    BY QueuedHits, PTL
  <2> QED BY <2>1, <2>2 DEF Hits, From, Asking, BRequest
<1>2. /\ Head(bQueue) \in From(p) <=> Head(bQueue).pid = p
      /\ Head(bQueue) \in Asking(p) <=> Head(bQueue).pid = p /\ Head(bQueue).op # "Destroy"
  BY QueueHead DEF From, Asking
<1>3. bQueue \in Seq(BRequest)
  BY DEF PoolOK
<1> QED BY <1>1, <1>2, <1>3, HitsTail DEF HitCount

LEMMA CountBegin ==
    ASSUME PoolOK, CidsApart, SlotsOK, PoolOK', CidsApart', SlotsOK', SlotsRight,
           NEW p0 \in BPid, NEW op \in BOps, BeginSubmit(p0, op)
    PROVE  SlotsRight'
<1>1. /\ UNCHANGED <<bQueue, bTask, bCancelled, bDead, bLost>> /\ bCaller[p0] = Idle
      /\ bCaller' = [bCaller EXCEPT ![p0] = op] /\ Reserve(p0) /\ p0 \notin bDead
  BY DEF BeginSubmit
<1> SUFFICES ASSUME NEW p \in BPid, SlotRight(p) PROVE SlotRight(p)'
  BY DEF SlotsRight
<1>2. /\ Asked(p)' = Asked(p) /\ Unreleased(p)' = Unreleased(p) /\ TasksFor(p)' = TasksFor(p)
      /\ \A c \in TasksFor(p) : bTask'[c] = bTask[c]
  BY <1>1 DEF Asked, Queued, Unreleased, TasksFor
<1>3. CASE p = p0
  <2>1. CallerOwes(p) = 0 /\ CallerOwes(p)' = 1
    <3>1. bCaller'[p] = op /\ op # Idle /\ op # "Destroy"
      BY <1>1, <1>3 DEF SlotsOK, BOps, Idle
    <3> QED BY <1>1, <1>3, <3>1 DEF CallerOwes
  <2>2. Owed(p)' = Owed(p) + 1 /\ Owed(p) \in Nat /\ Owed(p)' \in Nat
        /\ (Unreleased(p) # {} => Owed(p) > 0) /\ (Unreleased(p)' # {} => Owed(p)' > 0)
    <3>1. ASSUME NEW a \in Nat, NEW b \in Nat PROVE a + b + 1 = (a + b + 0) + 1
      BY <3>1
    <3> QED BY <1>2, <2>1, <3>1, OwedNat, OwedNext
  <2>3. ~DestroyOver(p) /\ ~DestroyOver(p)' /\ p \notin bDead'
    BY <1>1, <1>3 DEF DestroyOver
  <2>4. Counted(p) = Owed(p)
    BY <2>3 DEF SlotRight, CountRight
  <2>5. Counted(p)' = Counted(p) + 1 /\ p \in DOMAIN bSlot'
    <3>1. p \in DOMAIN bSlot'
      BY <1>1, <1>3, SlotReserved
    <3>2. p \in DOMAIN bSlot => bSlot'[p].inflight = bSlot[p].inflight + 1
      BY <1>1, <1>3, SlotReserved
    <3>3. p \notin DOMAIN bSlot => bSlot'[p].inflight = 1
      BY <1>1, <1>3, SlotReserved
    <3> QED BY <3>1, <3>2, <3>3 DEF Counted
  <2>6. CountRight(p)'
    BY <2>2, <2>4, <2>5 DEF CountRight
  <2>7. TokenRight(p)'
    <3>1. CASE p \in DOMAIN bSlot
      <4>1. bSlot'[p].token = bSlot[p].token
        BY <1>1, <1>3, <3>1, SlotReserved
      <4> QED BY <1>1, <3>1, <4>1 DEF SlotRight, TokenRight
    <3>2. CASE p \notin DOMAIN bSlot
      <4>1. bSlot'[p].token = bToken + 1 /\ bToken \in Nat
        BY <1>1, <1>3, <3>2, SlotReserved DEF SlotsOK
      <4>2. bToken + 1 \notin 1..bToken
        BY <4>1
      <4>3. bToken + 1 \notin bCancelled
        BY <4>2 DEF SlotsOK
      <4> QED BY <1>1, <1>3, <4>1, <4>3 DEF TokenRight
    <3> QED BY <3>1, <3>2
  <2>8. TasksRight(p)'
    <3>1. p \in DOMAIN bSlot /\ p \in DOMAIN bSlot' => bSlot'[p].token = bSlot[p].token
      BY <1>1, <1>3, SlotReserved
    <3>2. \A c \in TasksFor(p)' : bTask'[c].op # "Destroy" /\ bTask'[c].at # "spawned" =>
              c \in TasksFor(p) /\ bTask[c].op # "Destroy" /\ bTask[c].at # "spawned"
              /\ bTask'[c].token = bTask[c].token
      BY <1>2
    <3> QED BY <1>1, <2>2, <2>3, <2>6, <3>1, <3>2, TasksStay DEF SlotRight
  <2> QED BY <2>6, <2>7, <2>8 DEF SlotRight
<1>4. CASE p # p0
  <2>1. bCaller'[p] = bCaller[p]
    BY <1>1, <1>4 DEF SlotsOK
  <2>2. Owed(p)' = Owed(p)
    BY <1>2, <2>1 DEF Owed
  <2>3. (p \in DOMAIN bSlot' <=> p \in DOMAIN bSlot) /\ (p \in DOMAIN bSlot => bSlot'[p] = bSlot[p])
    BY <1>1, <1>4, CountedOthers
  <2>4. DestroyOver(p) => DestroyOver(p)'
    BY <1>1, <2>1 DEF DestroyOver, Queued, TasksFor
  <2>5. \A c \in TasksFor(p)' : c \in TasksFor(p) /\ bTask'[c] = bTask[c]
    BY <1>2
  <2> QED BY <1>1, <2>2, <2>3, <2>4, <2>5, SlotStays
<1> QED BY <1>3, <1>4

LEMMA CountEnd ==
    ASSUME PoolOK, CidsApart, SlotsOK, PoolOK', CidsApart', SlotsOK', SlotsRight,
           NEW p0 \in BPid, EndSubmit(p0)
    PROVE  SlotsRight'
<1> DEFINE r == [cid |-> bCid, pid |-> p0, op |-> bCaller[p0]]
<1>1. UNCHANGED <<bTask, bCancelled, bDead, bLost>> /\ bCaller[p0] # Idle
  BY DEF EndSubmit
<1> SUFFICES ASSUME NEW p \in BPid, SlotRight(p) PROVE SlotRight(p)'
  BY DEF SlotsRight
<1>2. /\ Unreleased(p)' = Unreleased(p) /\ TasksFor(p)' = TasksFor(p)
      /\ \A c \in TasksFor(p)' : c \in TasksFor(p) /\ bTask'[c] = bTask[c]
      /\ AtWorkDestroy(p)' <=> AtWorkDestroy(p)
  BY <1>1 DEF Unreleased, TasksFor, AtWorkDestroy
<1>3. bCaller' = bCaller \/ bCaller' = [bCaller EXCEPT ![p0] = Idle]
  BY DEF EndSubmit
<1>4. p # p0 => bCaller'[p] = bCaller[p]
  BY <1>3 DEF SlotsOK
<1>5. CASE Accepting
  <2>1. bQueue' = Append(bQueue, r) /\ bSlot' = bSlot /\ bCaller' = [bCaller EXCEPT ![p0] = Idle]
    BY <1>5 DEF EndSubmit
  <2>2. r \in BRequest /\ r.pid = p0 /\ r.op = bCaller[p0]
    BY <1>1 DEF BRequest, SlotsOK, BOps, Idle, PoolOK
  <2> HIDE DEF r
  <2>3. /\ p = p0 /\ bCaller[p0] # "Destroy" => Cardinality(Asked(p)') = Cardinality(Asked(p)) + 1
        /\ ~(p = p0 /\ bCaller[p0] # "Destroy") => Cardinality(Asked(p)') = Cardinality(Asked(p))
    BY <2>1, <2>2, QueuedLonger
  <2>4. /\ p = p0 /\ bCaller[p0] # "Destroy" => CallerOwes(p) = 1 /\ CallerOwes(p)' = 0
        /\ ~(p = p0 /\ bCaller[p0] # "Destroy") => CallerOwes(p)' = CallerOwes(p)
    BY <1>1, <1>4, <2>1 DEF CallerOwes, SlotsOK
  <2>5. Owed(p)' = Owed(p)
    <3>1. ASSUME NEW a \in Nat, NEW b \in Nat PROVE (a + 1) + b + 0 = a + b + 1
      BY <3>1
    <3> QED BY <1>2, <2>3, <2>4, <3>1, OwedNat, OwedNext
  <2>6. DestroyOver(p) => DestroyOver(p)'
    <3>1. InQueueDestroy(p)' <=> InQueueDestroy(p) \/ (r.pid = p /\ r.op = "Destroy")
      BY <2>1, <2>2, DestroyLonger
    <3>2. bCaller'[p] = bCaller[p] \/ bCaller'[p] = Idle
      BY <2>1 DEF SlotsOK
    <3> QED BY <1>1, <1>2, <2>2, <3>1, <3>2, OverMeans, OverNext DEF Idle
  <2> QED BY <1>1, <1>2, <2>1, <2>5, <2>6, SlotStays
<1>6. CASE ~Accepting
  <2>1. bQueue' = bQueue
    BY <1>6 DEF EndSubmit
  <2>2. Asked(p)' = Asked(p) /\ (InQueueDestroy(p)' <=> InQueueDestroy(p))
    BY <2>1 DEF Asked, Queued, InQueueDestroy
  <2>3. DestroyOver(p) => DestroyOver(p)'
    <3>1. bCaller'[p] = bCaller[p] \/ bCaller'[p] = Idle
      BY <1>3 DEF SlotsOK
    <3> QED BY <1>1, <1>2, <2>2, <3>1, OverMeans, OverNext DEF Idle
  <2>4. bSlot' = bSlot \/ bSlot' = Released(p0)
    BY <1>6 DEF EndSubmit
  <2>5. CASE p # p0
    <3>1. Owed(p)' = Owed(p)
      BY <1>2, <1>4, <2>2, <2>5 DEF Owed
    <3>2. (p \in DOMAIN bSlot' <=> p \in DOMAIN bSlot) /\ (p \in DOMAIN bSlot => bSlot'[p] = bSlot[p])
      BY <2>4, <2>5, CountedOthers
    <3> QED BY <1>1, <1>2, <2>3, <3>1, <3>2, SlotStays
  <2>6. CASE p = p0 /\ bCaller[p0] = "Destroy"
    <3>1. bSlot' = bSlot
      BY <1>6, <2>6 DEF EndSubmit
    <3>2. bCaller'[p] \in {Idle, "Destroy"}
      BY <1>3, <2>6 DEF SlotsOK
    <3>3. Owed(p)' = Owed(p)
      BY <1>2, <2>2, <2>6, <3>2 DEF Owed
    <3> QED BY <1>1, <1>2, <2>3, <3>1, <3>3, SlotStays
  <2>7. CASE p = p0 /\ bCaller[p0] # "Destroy"
    <3>1. bSlot' = Released(p0) /\ bCaller' = [bCaller EXCEPT ![p0] = Idle]
      BY <1>6, <2>7 DEF EndSubmit
    <3>2. CallerOwes(p) = 1 /\ CallerOwes(p)' = 0
      BY <1>1, <2>7, <3>1 DEF CallerOwes, SlotsOK
    <3>3. Owed(p) = Owed(p)' + 1 /\ Owed(p)' \in Nat
      <4>1. ASSUME NEW a \in Nat, NEW b \in Nat PROVE a + b + 1 = (a + b + 0) + 1
        BY <4>1
      <4> QED BY <1>2, <2>2, <3>2, <4>1, OwedNat, OwedNext
    <3>4. CountRight(p)'
      BY <2>3, <2>7, <3>1, <3>3, CountedLess, CountLoses DEF SlotRight
    <3>5. p \in DOMAIN bSlot' => p \in DOMAIN bSlot /\ bSlot'[p].token = bSlot[p].token
      BY <2>7, <3>1, SlotReleased
    <3>6. TokenRight(p)'
      BY <1>1, <3>5 DEF TokenRight, SlotRight
    <3>7. TasksRight(p)'
      <4>1. /\ Owed(p) \in Nat /\ (Unreleased(p) # {} => Owed(p) > 0)
            /\ Owed(p)' \in Nat /\ (Unreleased(p)' # {} => Owed(p)' > 0)
        BY OwedNat, OwedNext
      <4> QED BY <1>1, <1>2, <2>3, <3>4, <3>5, <4>1, TasksStay DEF SlotRight
    <3> QED BY <3>4, <3>6, <3>7 DEF SlotRight
  <2> QED BY <2>5, <2>6, <2>7
<1> QED BY <1>5, <1>6

LEMMA CountTerminate ==
    ASSUME PoolOK, CidsApart, SlotsOK, PoolOK', CidsApart', SlotsOK', SlotsRight, NEW p0 \in BPid, Terminate(p0)
    PROVE  SlotsRight'
<1>1. /\ UNCHANGED <<bTask, bQueue, bSlot, bLost>> /\ bDead' = bDead \union {p0} /\ p0 \notin bDead
      /\ bCaller' = [bCaller EXCEPT ![p0] = "Destroy"] /\ bCaller[p0] = Idle
      /\ bCancelled' = IF p0 \in DOMAIN bSlot THEN bCancelled \union {bSlot[p0].token} ELSE bCancelled
  BY DEF Terminate
<1> SUFFICES ASSUME NEW p \in BPid, SlotRight(p) PROVE SlotRight(p)'
  BY DEF SlotsRight
<1>2. /\ Asked(p)' = Asked(p) /\ Unreleased(p)' = Unreleased(p) /\ TasksFor(p)' = TasksFor(p)
      /\ Queued(p)' = Queued(p) /\ Counted(p)' = Counted(p)
  BY <1>1 DEF Asked, Queued, Unreleased, TasksFor, Counted
<1>3. bCaller'[p] = bCaller[p] \/ (p = p0 /\ bCaller'[p] = "Destroy")
  BY <1>1 DEF SlotsOK
<1>4. CallerOwes(p)' = CallerOwes(p)
  BY <1>1, <1>3 DEF CallerOwes
<1>5. Owed(p)' = Owed(p)
  BY <1>2, <1>4 DEF Owed, CallerOwes
<1>6. DestroyOver(p) => p # p0 /\ DestroyOver(p)'
  BY <1>1, <1>2, <1>3 DEF DestroyOver
<1>7. CountRight(p)'
  BY <1>2, <1>5, <1>6 DEF CountRight, SlotRight
<1>8. TokenRight(p)'
  BY <1>1 DEF TokenRight, SlotRight, SlotsOK
<1>9. TasksRight(p)'
  <2> SUFFICES ASSUME NEW c \in TasksFor(p), bTask[c].op # "Destroy", bTask[c].at # "spawned"
               PROVE  IF p \in bDead'
                      THEN bTask[c].token \in bCancelled' \/ (bTask[c].token = NoToken /\ DestroyOver(p)')
                      ELSE bTask[c].token = bSlot[p].token
    BY <1>1, <1>2 DEF TasksRight
  <2>1. CASE p # p0
    BY <1>1, <1>6, <2>1 DEF TasksRight, SlotRight
  <2>2. CASE p = p0
    <3>1. c \in Unreleased(p) /\ ~DestroyOver(p)
      BY <1>1, <2>2 DEF Unreleased, DestroyOver
    <3>2. Counted(p) > 0
      BY <3>1, OwedNat DEF SlotRight, CountRight
    <3>3. p \in DOMAIN bSlot
      BY <3>2 DEF Counted
    <3>4. bTask[c].token = bSlot[p].token
      BY <1>1, <2>2 DEF TasksRight, SlotRight
    <3> QED BY <1>1, <2>2, <3>3, <3>4
  <2> QED BY <2>1, <2>2
<1> QED BY <1>7, <1>8, <1>9 DEF SlotRight


LEMMA CountReceive ==
    ASSUME PoolOK, CidsApart, SlotsOK, DestroysOnce, PoolOK', CidsApart', SlotsOK', SlotsRight,
           NEW w \in BWorker, Receive(w)
    PROVE  SlotsRight'
<1> DEFINE r == Head(bQueue)
           t == [worker |-> w, pid |-> r.pid, op |-> r.op, at |-> "spawned", token |-> NoToken]
<1>1. /\ UNCHANGED <<bSlot, bCancelled, bCaller, bDead, bLost>>
      /\ bQueue # << >> /\ bQueue' = Tail(bQueue)
  BY DEF Receive
<1> SUFFICES ASSUME NEW p \in BPid, SlotRight(p) PROVE SlotRight(p)'
  BY DEF SlotsRight
<1>2. QueueDestroysOnce(p)
  BY DEF DestroysOnce, DestroyOnce, QueueDestroysOnce
<1>3. (InQueueDestroy(p)' => InQueueDestroy(p))
      /\ (r.pid = p /\ r.op = "Destroy" => InQueueDestroy(p))
  BY <1>1, <1>2, DestroyShorter
<1>4. CASE r.op = "Shutdown"
  <2>1. bTask' = bTask
    BY <1>4 DEF Receive
  <2>2. r.pid = "host" /\ p # "host"
    BY <1>1, <1>4, QueueHead, SetupFacts DEF PoolOK
  <2>3. Cardinality(Asked(p)') = Cardinality(Asked(p))
    BY <1>1, <2>2, QueuedShorter
  <2>4. /\ Unreleased(p)' = Unreleased(p) /\ (AtWorkDestroy(p)' <=> AtWorkDestroy(p))
        /\ \A c \in TasksFor(p)' : c \in TasksFor(p) /\ bTask'[c] = bTask[c]
    BY <1>1, <2>1 DEF Unreleased, TasksFor, AtWorkDestroy
  <2>5. Owed(p)' = Owed(p)
    BY <1>1, <2>3, <2>4 DEF Owed
  <2>6. DestroyOver(p) => DestroyOver(p)'
    BY <1>1, <1>3, <2>4, OverMeans, OverNext
  <2> QED BY <1>1, <2>4, <2>5, <2>6, SlotStays
<1>5. CASE r.op # "Shutdown"
  <2>1. bTask' = With(bTask, r.cid, t)
    BY <1>5 DEF Receive
  <2>2. r \in BRequest /\ r.cid \in Nat /\ r.pid \in BPid
    BY <1>1, <1>5, QueueHead DEF BRequest
  <2>3. t.at = "spawned" /\ t.pid = r.pid /\ t.op = r.op
    OBVIOUS
  <2>4. r.cid \notin DOMAIN bTask /\ ~Gone(r.cid)
    <3>1. InQueue(r.cid)
      BY <1>1, <1>5, QueueHead DEF InQueue
    <3> QED BY <2>2, <3>1 DEF CidsApart, Apart
  <2>5. /\ r.pid = p /\ r.op # "Destroy" => Cardinality(Asked(p)) = Cardinality(Asked(p)') + 1
        /\ ~(r.pid = p /\ r.op # "Destroy") => Cardinality(Asked(p)) = Cardinality(Asked(p)')
    BY <1>1, QueuedShorter
  <2> HIDE DEF t, r
  <2>6. /\ DOMAIN bTask' = DOMAIN bTask \union {r.cid} /\ bTask'[r.cid] = t
        /\ \A c \in DOMAIN bTask : bTask'[c] = bTask[c]
    BY <2>1, <2>4 DEF With
  <2>7. AtWorkDestroy(p)' <=> AtWorkDestroy(p) \/ (r.pid = p /\ r.op = "Destroy")
    BY <2>3, <2>4, <2>6 DEF AtWorkDestroy
  <2>8. DestroyOver(p) => DestroyOver(p)'
    BY <1>1, <1>3, <2>7, OverMeans, OverNext
  <2>9. \A c \in TasksFor(p)' : bTask'[c].op # "Destroy" /\ bTask'[c].at # "spawned" =>
               /\ c \in TasksFor(p) /\ bTask[c].op # "Destroy"
               /\ bTask[c].at # "spawned" /\ bTask'[c].token = bTask[c].token
    BY <2>3, <2>6 DEF TasksFor
  <2>10. Owed(p)' = Owed(p)
    <3>1. CASE r.pid = p /\ r.op # "Destroy"
      <4>1. Unreleased(p)' = Unreleased(p) \union {r.cid} /\ r.cid \notin Unreleased(p)
        BY <1>1, <2>3, <2>4, <2>6, <3>1 DEF Unreleased, TasksFor, Gone
      <4>2. Cardinality(Unreleased(p)') = Cardinality(Unreleased(p)) + 1
        BY <4>1, OwedNat, FS_AddElement
      <4>3. ASSUME NEW a \in Nat, NEW b \in Nat, NEW k \in Nat PROVE a + (b + 1) + k = (a + 1) + b + k
        BY <4>3
      <4>4. CallerOwes(p)' = CallerOwes(p)
        BY <1>1 DEF CallerOwes
      <4> QED BY <2>5, <3>1, <4>2, <4>3, <4>4, OwedNat, OwedNext
    <3>2. CASE ~(r.pid = p /\ r.op # "Destroy")
      <4>1. Unreleased(p)' = Unreleased(p)
        BY <1>1, <2>3, <2>4, <2>6, <3>2 DEF Unreleased, TasksFor
      <4> QED BY <1>1, <2>5, <3>2, <4>1 DEF Owed
    <3> QED BY <3>1, <3>2
  <2> QED BY <1>1, <2>8, <2>9, <2>10, SlotStays
<1> QED BY <1>4, <1>5

LEMMA CountTaskMoved ==
    ASSUME PoolOK, CidsApart, SlotsOK, PoolOK', CidsApart', SlotsOK', SlotsRight,
           NEW c0 \in DOMAIN bTask, TaskMoved(c0),
           UNCHANGED <<bQueue, bSlot, bCancelled, bCaller, bDead, bLost>>
    PROVE  SlotsRight'
<1> SUFFICES ASSUME NEW p \in BPid, SlotRight(p) PROVE SlotRight(p)'
  BY DEF SlotsRight
<1>1. \A c \in DOMAIN bTask : bTask'[c].pid = bTask[c].pid /\ bTask'[c].op = bTask[c].op
  BY DEF TaskMoved
<1>2. DOMAIN bTask' = DOMAIN bTask
  BY DEF TaskMoved
<1>3. /\ TasksFor(p)' = TasksFor(p) /\ Unreleased(p)' = Unreleased(p) /\ Asked(p)' = Asked(p)
      /\ (AtWorkDestroy(p)' <=> AtWorkDestroy(p)) /\ (InQueueDestroy(p)' <=> InQueueDestroy(p))
  BY <1>1, <1>2 DEF TasksFor, Unreleased, Asked, Queued, AtWorkDestroy, InQueueDestroy
<1>4. Owed(p)' = Owed(p)
  BY <1>3 DEF Owed
<1>5. DestroyOver(p) => DestroyOver(p)'
  BY <1>3, OverMeans, OverNext
<1>6. \A c \in TasksFor(p)' : bTask'[c].op # "Destroy" /\ bTask'[c].at # "spawned" =>
               /\ c \in TasksFor(p) /\ bTask[c].op # "Destroy"
               /\ \/ bTask[c].at # "spawned" /\ bTask'[c].token = bTask[c].token
                  \/ p \in DOMAIN bSlot /\ bTask'[c].token = bSlot[p].token
                  \/ p \notin DOMAIN bSlot /\ bTask'[c].token = NoToken
  <2> SUFFICES ASSUME NEW c \in TasksFor(p), bTask'[c].op # "Destroy", bTask'[c].at # "spawned"
               PROVE  /\ c \in TasksFor(p) /\ bTask[c].op # "Destroy"
                      /\ \/ bTask[c].at # "spawned" /\ bTask'[c].token = bTask[c].token
                         \/ p \in DOMAIN bSlot /\ bTask'[c].token = bSlot[p].token
                         \/ p \notin DOMAIN bSlot /\ bTask'[c].token = NoToken
    BY <1>3
  <2>1. c \in DOMAIN bTask /\ bTask[c].pid = p
    BY DEF TasksFor
  <2>2. CASE c = c0
    BY <1>1, <2>1, <2>2 DEF TaskMoved
  <2>3. CASE c # c0
    <3>1. bTask'[c] = bTask[c]
      BY <2>1, <2>3 DEF TaskMoved
    <3> QED BY <3>1
  <2> QED BY <2>2, <2>3
<1> QED BY <1>4, <1>5, <1>6, SlotStays

LEMMA CountDropping ==
    ASSUME PoolOK, CidsApart, SlotsOK, PoolOK', CidsApart', SlotsOK', SlotsRight, NEW gone, Dropping(gone)
    PROVE  SlotsRight'
<1>1. UNCHANGED <<bQueue, bSlot, bCancelled, bCaller, bDead>> /\ gone \subseteq DOMAIN bTask
  BY DEF Dropping
<1>2. /\ DOMAIN bTask' = DOMAIN bTask \ gone /\ \A c \in DOMAIN bTask' : bTask'[c] = bTask[c]
      /\ \A p \in BPid : bLost'[p] = bLost[p] \union
                           {c \in gone : bTask[c].pid = p /\ bTask[c].op # "Destroy"}
  BY TasksDropped
<1> SUFFICES ASSUME NEW p \in BPid, SlotRight(p) PROVE SlotRight(p)'
  BY DEF SlotsRight
<1>3. Unreleased(p)' = Unreleased(p)
  BY <1>1, <1>2 DEF Unreleased, TasksFor
<1>4. /\ Asked(p)' = Asked(p) /\ (AtWorkDestroy(p)' => AtWorkDestroy(p))
      /\ (InQueueDestroy(p)' <=> InQueueDestroy(p))
      /\ \A c \in TasksFor(p)' : c \in TasksFor(p) /\ bTask'[c] = bTask[c]
  BY <1>1, <1>2 DEF TasksFor, Asked, Queued, AtWorkDestroy, InQueueDestroy
<1>5. Owed(p)' = Owed(p)
  BY <1>1, <1>3, <1>4 DEF Owed
<1>6. DestroyOver(p) => DestroyOver(p)'
  BY <1>1, <1>4, OverMeans, OverNext
<1> QED BY <1>1, <1>4, <1>5, <1>6, SlotStays

LEMMA CountRelease ==
    ASSUME PoolOK, CidsApart, SlotsOK, DestroysOnce, PoolOK', CidsApart', SlotsOK', SlotsRight,
           NEW c0 \in DOMAIN bTask, ReleaseTask(c0)
    PROVE  SlotsRight'
<1> DEFINE p0 == bTask[c0].pid
<1>1. /\ UNCHANGED <<bQueue, bCancelled, bCaller, bDead, bLost>>
      /\ bSlot' = Released(p0) /\ bTask' = Without(bTask, c0)
  BY DEF ReleaseTask, TaskStep
<1> SUFFICES ASSUME NEW p \in BPid, SlotRight(p) PROVE SlotRight(p)'
  BY DEF SlotsRight
<1>2. DOMAIN bTask' = DOMAIN bTask \ {c0} /\ \A d \in DOMAIN bTask' : bTask'[d] = bTask[d]
  BY <1>1 DEF Without
<1>3. p0 \in BPid
  BY DEF PoolOK, BTask
<1>4. /\ Asked(p)' = Asked(p) /\ (AtWorkDestroy(p)' => AtWorkDestroy(p))
      /\ (InQueueDestroy(p)' <=> InQueueDestroy(p)) /\ CallerOwes(p)' = CallerOwes(p)
      /\ \A c \in TasksFor(p)' : c \in TasksFor(p) /\ bTask'[c] = bTask[c]
  BY <1>1, <1>2 DEF TasksFor, Asked, Queued, AtWorkDestroy, InQueueDestroy, CallerOwes
<1>5. DestroyOver(p) => DestroyOver(p)'
  BY <1>1, <1>4, OverMeans, OverNext
<1>6. CASE p # p0
  <2>1. Unreleased(p)' = Unreleased(p)
    BY <1>1, <1>2, <1>6 DEF Unreleased, TasksFor
  <2>2. Owed(p)' = Owed(p)
    BY <1>1, <1>4, <2>1 DEF Owed
  <2>3. (p \in DOMAIN bSlot' <=> p \in DOMAIN bSlot) /\ (p \in DOMAIN bSlot => bSlot'[p] = bSlot[p])
    BY <1>1, <1>3, <1>6, CountedOthers
  <2> QED BY <1>1, <1>4, <1>5, <2>2, <2>3, SlotStays
<1>7. CASE p = p0
  <2>1. Counted(p)' = IF Counted(p) > 0 THEN Counted(p) - 1 ELSE 0
    BY <1>1, <1>3, <1>7, CountedLess
  <2>2. p \in DOMAIN bSlot' => p \in DOMAIN bSlot /\ bSlot'[p].token = bSlot[p].token
    BY <1>1, <1>3, <1>7, SlotReleased
  <2>3. TokenRight(p)'
    BY <1>1, <2>2 DEF TokenRight, SlotRight
  <2>4. CountRight(p)'
    <3>1. CASE bTask[c0].op # "Destroy"
      <4>1. c0 \in Unreleased(p) /\ Unreleased(p)' = Unreleased(p) \ {c0}
        <5>1. c0 \notin bLost[p]
          BY GoneFinite
        <5> QED BY <1>1, <1>2, <1>7, <3>1, <5>1 DEF Unreleased, TasksFor
      <4>2. Cardinality(Unreleased(p)') = Cardinality(Unreleased(p)) - 1
        BY <4>1, OwedNat, FS_RemoveElement
      <4>3. ASSUME NEW a \in Nat, NEW b \in Nat, NEW k \in Nat, NEW d \in Nat, d = b - 1
            PROVE  a + b + k = (a + d + k) + 1
        BY <4>3
      <4>4. Owed(p) = Owed(p)' + 1 /\ Owed(p)' \in Nat
        BY <1>4, <4>2, <4>3, OwedNat, OwedNext
      <4> QED BY <1>5, <2>1, <4>4, CountLoses DEF SlotRight
    <3>2. CASE bTask[c0].op = "Destroy"
      <4>1. Unreleased(p)' = Unreleased(p)
        BY <1>1, <1>2, <3>2 DEF Unreleased, TasksFor
      <4>2. Owed(p)' = Owed(p) /\ Owed(p) \in Nat
        BY <1>1, <1>4, <4>1, OwedNat DEF Owed
      <4>3. AtWorkDestroy(p) /\ DestroyOnce(p)
        BY <1>7, <3>2 DEF AtWorkDestroy, DestroysOnce
      <4>4. p \in bDead /\ bCaller[p] # "Destroy" /\ ~InQueueDestroy(p)
        BY <4>3 DEF DestroyOnce
      <4>5. ~AtWorkDestroy(p)'
        BY <1>2, <1>7, <3>2, <4>3 DEF AtWorkDestroy, DestroyOnce
      <4>6. DestroyOver(p)' /\ ~DestroyOver(p)
        BY <1>1, <1>4, <4>3, <4>4, <4>5, OverMeans, OverNext
      <4>7. Counted(p) = Owed(p)
        BY <4>6 DEF SlotRight, CountRight
      <4> QED BY <2>1, <4>2, <4>6, <4>7 DEF CountRight
    <3> QED BY <3>1, <3>2
  <2>5. TasksRight(p)'
    <3>1. /\ Owed(p) \in Nat /\ (Unreleased(p) # {} => Owed(p) > 0)
          /\ Owed(p)' \in Nat /\ (Unreleased(p)' # {} => Owed(p)' > 0)
      BY OwedNat, OwedNext
    <3> QED BY <1>1, <1>4, <1>5, <2>2, <2>4, <3>1, TasksStay DEF SlotRight
  <2> QED BY <2>3, <2>4, <2>5 DEF SlotRight
<1> QED BY <1>6, <1>7

LEMMA SlotsRightKept ==
    ASSUME PoolOK, CidsApart, SlotsOK, DestroysOnce, PoolOK', CidsApart', SlotsOK', SlotsRight, BridgeCases
    PROVE  SlotsRight'
<1>0. ASSUME UNCHANGED <<bQueue, bTask, bSlot, bCancelled, bCaller, bDead, bLost>>
      PROVE  SlotsRight'
  BY <1>0 DEF SlotsRight, SlotRight, CountRight, TokenRight, TasksRight, Counted, Owed, Asked, Unreleased,
              DestroyOver, Queued, TasksFor
<1>1. CASE \E p \in BPid, op \in BOps : BeginSubmit(p, op)
  BY <1>1, CountBegin
<1>2. CASE \E p \in BPid : EndSubmit(p)
  BY <1>2, CountEnd
<1>3. CASE \E p \in BPid : Terminate(p)
  BY <1>3, CountTerminate
<1>4. CASE Drain
  BY <1>0, <1>4 DEF Drain
<1>5. CASE Shutdown
  <2> DEFINE r == [cid |-> bCid, pid |-> "host", op |-> "Shutdown"]
  <2>1. UNCHANGED <<bTask, bSlot, bCancelled, bCaller, bDead, bLost>> /\ bQueue' = Append(bQueue, r)
    BY <1>5 DEF Shutdown
  <2> SUFFICES ASSUME NEW p \in BPid, SlotRight(p) PROVE SlotRight(p)'
    BY DEF SlotsRight
  <2>2. r \in BRequest /\ r.pid # p
    BY SetupFacts DEF PoolOK, BRequest
  <2> HIDE DEF r
  <2>3. Cardinality(Asked(p)') = Cardinality(Asked(p))
    BY <2>1, <2>2, QueuedLonger
  <2>4. InQueueDestroy(p)' <=> InQueueDestroy(p)
    BY <2>1, <2>2, DestroyLonger
  <2>5. /\ Unreleased(p)' = Unreleased(p) /\ (AtWorkDestroy(p)' <=> AtWorkDestroy(p))
        /\ \A c \in TasksFor(p)' : c \in TasksFor(p) /\ bTask'[c] = bTask[c]
    BY <2>1 DEF TasksFor, Unreleased, AtWorkDestroy
  <2>6. Owed(p)' = Owed(p)
    BY <2>1, <2>3, <2>5 DEF Owed
  <2>7. DestroyOver(p) => DestroyOver(p)'
    BY <2>1, <2>4, <2>5, OverMeans, OverNext
  <2> QED BY <2>1, <2>5, <2>6, <2>7, SlotStays
<1>6. CASE \E w \in BWorker : Receive(w)
  BY <1>6, CountReceive
<1>7. ASSUME NEW w \in BWorker, StopWorker(w) PROVE SlotsRight'
  <2>1. CASE Drained(w)
    BY <1>0, <1>7, <2>1 DEF Drained, StopWorker
  <2>2. CASE DeadlinePassed(w)
    BY <1>7, <2>2, DeadlineDrops, CountDropping
  <2> QED BY <1>7, <2>1, <2>2 DEF StopWorker
<1>8. ASSUME NEW c \in DOMAIN bTask, Working(c) PROVE SlotsRight'
  <2>1. UNCHANGED <<bQueue, bSlot, bCancelled, bCaller, bDead, bLost>>
    BY <1>8, WorkElsewhere
  <2>2. TaskMoved(c)
    BY <1>8, WorkMoves
  <2> QED BY <2>1, <2>2, CountTaskMoved
<1>9. ASSUME NEW c \in DOMAIN bTask, SendResponse(c) PROVE SlotsRight'
  <2>1. UNCHANGED <<bQueue, bSlot, bCancelled, bCaller, bDead, bLost>>
    BY <1>9 DEF SendResponse, TaskStep
  <2>2. TaskMoved(c)
    BY <1>9, SendMoves
  <2> QED BY <2>1, <2>2, CountTaskMoved
<1>10. CASE \E c \in DOMAIN bTask : ReleaseTask(c)
  BY <1>10, CountRelease
<1>11. CASE \E c \in DOMAIN bTask : PanicTask(c)
  BY <1>11, PanicDrops, CountDropping
<1> QED BY <1>1, <1>2, <1>3, <1>4, <1>5, <1>6, <1>7, <1>8, <1>9, <1>10, <1>11 DEF BridgeCases


LEMMA AckKept ==
    ASSUME PoolOK, AckOK, BridgeCases
    PROVE  AckOK'
<1>0. ASSUME UNCHANGED <<bSetup, bWorker, bTask, bAcked>> PROVE AckOK'
  BY <1>0 DEF AckOK, AckMeansAnswered
<1>1. ASSUME UNCHANGED <<bSetup, bWorker, bAcked>>, DOMAIN bTask # {} PROVE AckOK'
  <2>1. bTask # << >>
    BY <1>1
  <2>2. ~(bAcked = "drained" /\ bSetup.workers = 1)
    BY <2>1 DEF AckOK, AckMeansAnswered
  <2> QED BY <1>1, <2>2 DEF AckOK, AckMeansAnswered
<1>2. CASE \E p \in BPid, op \in BOps : BeginSubmit(p, op)
  BY <1>0, <1>2 DEF BeginSubmit
<1>3. CASE \E p \in BPid : EndSubmit(p) \/ Terminate(p)
  BY <1>0, <1>3 DEF EndSubmit, Terminate
<1>4. CASE Drain \/ Shutdown
  BY <1>0, <1>4 DEF Drain, Shutdown
<1>5. ASSUME NEW w \in BWorker, Receive(w) PROVE AckOK'
  <2>1. UNCHANGED <<bSetup, bAcked>> /\ bWorker[w] = "serving"
    BY <1>5 DEF Receive
  <2>2. bSetup.workers = 1 => w = 1
    BY DEF BWorker
  <2>3. bSetup.workers = 1 => bAcked = NoAck
    BY <2>1, <2>2 DEF AckOK
  <2> QED BY <2>1, <2>3 DEF AckOK, AckMeansAnswered, NoAck
<1>6. ASSUME NEW w \in BWorker, StopWorker(w) PROVE AckOK'
  <2>1. bSetup' = bSetup /\ bWorker' = [bWorker EXCEPT ![w] = "stopped"]
    BY <1>6 DEF StopWorker
  <2>2. bSetup.workers = 1 => w = 1 /\ bWorker'[1] = "stopped"
    BY <2>1 DEF BWorker, PoolOK
  <2>3. AckMeansAnswered'
    <3>1. CASE Drained(w)
      <4>1. SUFFICES ASSUME bSetup.workers = 1 PROVE bTask' = << >>
        BY <2>1 DEF AckMeansAnswered
      <4>2. \A c \in DOMAIN bTask : bTask[c].worker = w
        BY <2>2, <4>1 DEF PoolOK, BTask, BWorker
      <4>3. DOMAIN bTask = {}
        BY <3>1, <4>2 DEF Drained, TasksOf
      <4>4. bTask' = [c \in {} |-> bTask[c]]
        BY <3>1, <4>3 DEF Drained, PoolOK
      <4> QED BY <4>4
    <3>2. CASE DeadlinePassed(w)
      BY <3>2 DEF DeadlinePassed, AckMeansAnswered
    <3> QED BY <1>6, <3>1, <3>2 DEF StopWorker
  <2> QED BY <2>1, <2>2, <2>3 DEF AckOK
<1>7. CASE \E c \in DOMAIN bTask : Working(c)
  BY <1>1, <1>7, WorkElsewhere
<1>8. CASE \E c \in DOMAIN bTask : SendResponse(c) \/ ReleaseTask(c)
  BY <1>1, <1>8 DEF SendResponse, ReleaseTask, TaskStep
<1>9. ASSUME NEW c \in DOMAIN bTask, PanicTask(c) PROVE AckOK'
  <2>1. DOMAIN bTask # {} /\ UNCHANGED <<bSetup, bWorker, bAcked>>
    BY <1>9 DEF PanicTask
  <2> QED BY <1>1, <2>1
<1> QED BY <1>2, <1>3, <1>4, <1>5, <1>6, <1>7, <1>8, <1>9 DEF BridgeCases

LEMMA BridgeInvInit == BridgeInit => BridgeInv
<1> SUFFICES ASSUME BridgeInit PROVE BridgeInv
  OBVIOUS
<1>1. /\ bSetup \in Setups /\ MaxCid \in Nat /\ RequestQueueSize \in Nat /\ ResponseQueueSize \in Nat
      /\ bQueue = << >> /\ bResponses = << >> /\ bTask = << >> /\ bSlot = << >>
  BY SetupFacts DEF BridgeInit
<1>2. Len(bQueue) = 0 /\ Len(bResponses) = 0 /\ DOMAIN bTask = {} /\ DOMAIN bSlot = {} /\ DOMAIN bQueue = {}
  BY <1>1
<1>3. bQueue \in Seq(BRequest) /\ bResponses \in Seq(BResponse)
  BY <1>1, EmptySeq
<1>4. bTask = [c \in DOMAIN bTask |-> bTask[c]]
  <2>1. << >> = [c \in {} |-> bTask[c]]
    OBVIOUS
  <2> QED BY <1>1, <1>2, <2>1
<1>5. PoolOK
  BY <1>1, <1>2, <1>3, <1>4 DEF PoolOK, BridgeInit
<1>6. SlotsOK
  BY <1>2 DEF SlotsOK, BridgeInit, Idle
<1>7. \A c : ~InQueue(c) /\ ~AtWork(c) /\ ~Answered(c) /\ ~Delivered(c) /\ ~Gone(c)
  BY <1>2 DEF InQueue, AtWork, Answered, Delivered, Gone, BridgeInit
<1>8. CidsApart
  BY <1>2, <1>7 DEF CidsApart, Apart, Somewhere, QueuedOnce, RespondedOnce, BridgeInit
<1>9. SlotsCounted
  <2>1. \A p \in BPid : Queued(p) = {} /\ TasksFor(p) = {} /\ bCaller[p] = Idle /\ bLost[p] = {}
    BY <1>2 DEF Queued, TasksFor, BridgeInit
  <2>2. \A p \in BPid : Asked(p) = {} /\ Unreleased(p) = {}
    BY <2>1 DEF Asked, Unreleased
  <2>3. ASSUME NEW p \in BPid PROVE Owed(p) = 0 /\ Counted(p) = 0
    <3>1. Cardinality(Asked(p)) = 0 /\ Cardinality(Unreleased(p)) = 0
      BY <2>2, FS_EmptySet
    <3>2. bCaller[p] \in {Idle, "Destroy"} /\ p \notin DOMAIN bSlot
      BY <1>2, <2>1
    <3> QED BY <3>1, <3>2 DEF Owed, Counted
  <2>4. SlotsRight
    BY <1>2, <2>1, <2>3 DEF SlotsRight, SlotRight, CountRight, TokenRight, TasksRight
  <2> QED BY <2>4, SlotsCountedMeans
<1>11. DestroysOnce
  BY <1>2 DEF DestroysOnce, DestroyOnce, InQueueDestroy, AtWorkDestroy, BridgeInit, Idle
<1>10. AckOK
  BY DEF AckOK, AckMeansAnswered, BridgeInit, NoAck
<1> QED BY <1>5, <1>6, <1>8, <1>9, <1>10, <1>11 DEF BridgeInv

LEMMA BridgeInvCases ==
    ASSUME BridgeInv, BridgeCases
    PROVE  BridgeInv'
<1>1. PoolOK /\ SlotsOK /\ CidsApart /\ DestroysOnce /\ AckOK /\ SlotsRight
  BY SlotsCountedMeans DEF BridgeInv
<1>2. PoolOK' /\ SlotsOK' /\ CidsApart' /\ DestroysOnce' /\ AckOK'
  BY <1>1, PoolKept, SlotsKept, CidsKept, DestroysKept, AckKept
<1>3. SlotsRight'
  BY <1>1, <1>2, SlotsRightKept
<1>4. SlotsCounted'
  BY <1>3, SlotsCountedMeans, PTL
<1> QED BY <1>2, <1>4 DEF BridgeInv

LEMMA BridgeInvNext == BridgeInv /\ [BridgeNext]_bridgeVars => BridgeInv'
<1> SUFFICES ASSUME BridgeInv, [BridgeNext]_bridgeVars PROVE BridgeInv'
  OBVIOUS
<1>1. CASE BridgeNext
  BY <1>1, BridgeSplit, BridgeInvCases DEF BridgeInv, PoolOK
<1>2. CASE UNCHANGED bridgeVars
  <2>1. PoolOK' /\ SlotsOK'
    BY <1>2 DEF BridgeInv, PoolOK, SlotsOK, bridgeVars, MaxCid, BWorker, BTask
  <2>2. CidsApart'
    BY <1>2 DEF BridgeInv, CidsApart, Apart, Somewhere, QueuedOnce, RespondedOnce, InQueue, AtWork, Answered,
                Delivered, Gone, bridgeVars
  <2>3. SlotsCounted'
    BY <1>2 DEF BridgeInv, SlotsCounted, Counted, Owed, Asked, Unreleased, DestroyOver, Queued, TasksFor, bridgeVars
  <2>4. DestroysOnce' /\ AckOK'
    BY <1>2 DEF BridgeInv, DestroysOnce, DestroyOnce, InQueueDestroy, AtWorkDestroy, AckOK, AckMeansAnswered,
                bridgeVars
  <2> QED BY <2>1, <2>2, <2>3, <2>4 DEF BridgeInv
<1> QED BY <1>1, <1>2

LEMMA BridgeInvEnough == BridgeInv => RequestsAccounted
<1> SUFFICES ASSUME BridgeInv PROVE RequestsAccounted
  OBVIOUS
<1>1. BridgeTypeOK
  <2>1. \A p \in DOMAIN bSlot : bSlot[p].inflight \in 1..MaxCid
    BY SetupFacts DEF BridgeInv, SlotsOK, BSlot, PoolOK
  <2>2. DOMAIN bTask \subseteq 0..MaxCid
    <3>1. \A c \in DOMAIN bTask : c \in Nat /\ c < bCid
      BY DEF BridgeInv, PoolOK, CidsApart, Apart
    <3>2. bCid \in 0..MaxCid /\ MaxCid \in Nat
      BY SetupFacts DEF BridgeInv, PoolOK
    <3> QED BY <3>1, <3>2
  <2> QED BY <2>1, <2>2 DEF BridgeTypeOK, BridgeInv, PoolOK, SlotsOK
<1>2. AnsweredOnce
  <2>1. bResponses \in Seq(BResponse) /\ bQueue \in Seq(BRequest) /\ bCid \in Nat /\ bGot \in [BPid -> SUBSET Nat]
    BY DEF BridgeInv, PoolOK
  <2>2. DOMAIN bResponses = 1..Len(bResponses) /\ DOMAIN bQueue = 1..Len(bQueue)
    BY <2>1, LenProperties
  <2>3. \A i \in 1..Len(bResponses) : bResponses[i].cid \in Nat
    <3>1. \A i \in 1..Len(bResponses) : bResponses[i] \in BResponse
      BY <2>1, ElementOfSeq
    <3> QED BY <3>1 DEF BResponse
  <2>4. ASSUME NEW i \in DOMAIN bResponses
        PROVE  LET c == bResponses[i].cid
               IN  /\ \A j \in DOMAIN bResponses : bResponses[j].cid = c => i = j
                   /\ \A p \in BPid : c \notin bGot[p]
                   /\ c \in DOMAIN bTask => bTask[c].at = "sent"
    <3> DEFINE c == bResponses[i].cid
    <3>1. c \in Nat /\ Answered(c)
      BY <2>2, <2>3 DEF Answered
    <3>2. ~Delivered(c) /\ ~AtWork(c)
      BY <3>1 DEF BridgeInv, CidsApart, Apart
    <3>3. \A j \in DOMAIN bResponses : bResponses[j].cid = c => i = j
      BY <2>2 DEF BridgeInv, CidsApart, RespondedOnce
    <3> QED BY <3>2, <3>3 DEF Delivered, AtWork
  <2>5. ASSUME NEW p \in BPid, NEW c \in bGot[p]
        PROVE  /\ \A j \in DOMAIN bQueue : bQueue[j].cid # c \/ bQueue[j].op = "Shutdown"
               /\ c \in DOMAIN bTask => bTask[c].at = "sent"
    <3>1. c \in Nat /\ Delivered(c)
      BY <2>1 DEF Delivered
    <3>2. ~InQueue(c) /\ ~AtWork(c)
      BY <3>1 DEF BridgeInv, CidsApart, Apart
    <3> QED BY <2>2, <3>2 DEF InQueue, AtWork
  <2>7. ASSUME NEW p \in BPid, NEW c \in bLost[p]
        PROVE  /\ c \notin DOMAIN bTask /\ \A q \in BPid : c \notin bGot[q]
               /\ \A i \in DOMAIN bResponses : bResponses[i].cid # c
    <3>1. c \in Nat /\ Gone(c) /\ c \notin DOMAIN bTask
      BY GoneFinite DEF BridgeInv
    <3>2. ~Answered(c) /\ ~Delivered(c)
      BY <3>1 DEF BridgeInv, CidsApart, Apart
    <3> QED BY <2>2, <3>1, <3>2 DEF Answered, Delivered
  <2>6. ASSUME bDead = {}, NEW c \in 0..(bCid - 1)
        PROVE  \/ \E i \in DOMAIN bQueue : bQueue[i].cid = c
               \/ c \in DOMAIN bTask /\ bTask[c].at # "sent"
               \/ \E i \in DOMAIN bResponses : bResponses[i].cid = c
               \/ \E p \in BPid : c \in bGot[p] \union bLost[p]
    <3>1. c \in Nat /\ c < bCid
      BY <2>1
    <3>2. Somewhere(c)
      BY <2>6, <3>1 DEF BridgeInv, CidsApart
    <3> QED BY <2>2, <3>2 DEF Somewhere, InQueue, AtWork, Answered, Delivered, Gone
  <2> QED BY <2>4, <2>5, <2>6, <2>7 DEF AnsweredOnce
<1> QED BY <1>1, <1>2 DEF RequestsAccounted, BridgeInv, AckOK

(***************************************************************************)
(* The bridge accounts for the requests of any number of processes, with   *)
(* any number of workers and queues of any size: submit() and the tasks    *)
(* keep in_flight right through refusals, deaths, panics, aborts and       *)
(* completions in any order, also where the code loses a slot for ever or  *)
(* releases one too many; no correlation id is answered twice or mislaid;  *)
(* and an acknowledged shutdown() of a single worker has left no task.     *)
(***************************************************************************)
THEOREM RequestsAreAccounted == BridgeSpec => []RequestsAccounted
<1>1. BridgeSpec => []BridgeInv
  BY BridgeInvInit, BridgeInvNext, PTL DEF BridgeSpec
<1> QED BY <1>1, BridgeInvEnough, PTL


-----------------------------------------------------------------------------
(* The agent workers on top of the bridge.                                 *)

AwSpec == BridgeInit /\ AwInit /\ [][AwNext]_<<bridgeVars, awVars>>

AwStateType == [busy : BOOLEAN, pending : Seq({"Prompt"})]
AwLetter == AwMessage \union {"Answer"}

AwTypeOK ==
    /\ awState \in [BPid -> AwStateType]
    /\ awInbox \in [BPid -> Seq(AwLetter)]

\* The chats of p that the bridge has, those whose task was lost included.
Unsent(p) == {c \in TasksFor(p) : bTask[c].at # "sent"} \union bLost[p]
Responses(p) == {i \in DOMAIN bResponses : bResponses[i].pid = p}
Told(p) == {r \in BResponse : r.pid = p}
InBridge(p) == Cardinality(Queued(p)) + Cardinality(Unsent(p)) + Cardinality(Responses(p))
                 + (IF bCaller[p] = Idle THEN 0 ELSE 1)

AwInv == BridgeInv /\ AwTypeOK /\ OneChatAtATime

LEMMA HitsConcat ==
    ASSUME NEW S, NEW s \in Seq(S), NEW t \in Seq(S), NEW X, \A i \in 1..Len(t) : t[i] \in X
    PROVE  HitCount(s \o t, X) = HitCount(s, X) + Len(t)
<1> DEFINE u == s \o t
           m == Len(s)
           n == Len(t)
           B == (m + 1)..(m + n)
<1>1. m \in Nat /\ n \in Nat /\ Len(u) = m + n
  BY LenProperties, ConcatProperties
<1>2. \A i \in 1..(m + n) : (i <= m => u[i] = s[i]) /\ (~(i <= m) => u[i] = t[i - m])
  BY ConcatProperties
<1>3. \A i : i \in 1..(m + n) <=> i \in 1..m \/ i \in B
  BY <1>1
<1>4. \A i \in 1..m : i <= m /\ i \notin B
  BY <1>1
<1>5. \A i \in B : ~(i <= m) /\ i - m \in 1..n
  BY <1>1
<1>6. IsFiniteSet(B) /\ Cardinality(B) = n
  <2>1. m + 1 \in Int /\ m + n \in Int
    BY <1>1
  <2>2. IsFiniteSet(B) /\ Cardinality(B) = IF m + 1 > m + n THEN 0 ELSE (m + n) - (m + 1) + 1
    BY <2>1, FS_Interval
  <2>3. (IF m + 1 > m + n THEN 0 ELSE (m + n) - (m + 1) + 1) = n
    BY <1>1
  <2> QED BY <2>2, <2>3
<1> HIDE DEF u, m, n, B
<1>7. Hits(u, X) = Hits(s, X) \cup B
  BY <1>1, <1>2, <1>3, <1>4, <1>5 DEF Hits, m, n
<1>8. Hits(s, X) \cap B = {}
  BY <1>4 DEF Hits, m
<1>9. IsFiniteSet(Hits(s, X)) /\ HitCount(s, X) \in Nat
  BY HitsFinite
<1>10. HitCount(u, X) = HitCount(s, X) + n - Cardinality({})
  BY <1>6, <1>7, <1>8, <1>9, FS_Union DEF HitCount
<1>11. Cardinality({}) = 0
  BY FS_EmptySet
<1>12. \A a, b \in Nat : a + b - 0 = a + b
  OBVIOUS
<1> QED BY <1>1, <1>9, <1>10, <1>11, <1>12 DEF u, n

LEMMA AnswerSeq ==
    ASSUME NEW k \in Nat, NEW s, s = [i \in 1..k |-> "Answer"]
    PROVE  s \in Seq(AwLetter) /\ Len(s) = k /\ \A i \in 1..k : s[i] = "Answer"
<1>1. s \in [1..k -> AwLetter]
  BY DEF AwLetter
<1>2. s \in Seq(AwLetter)
  BY <1>1
<1>3. DOMAIN s = 1..k /\ DOMAIN s = 1..Len(s) /\ Len(s) \in Nat
  BY <1>2, LenProperties
<1>4. Len(s) = k
  BY <1>3
<1> QED BY <1>2, <1>4

LEMMA PartsFinite ==
    ASSUME PoolOK, CidsApart, NEW p \in BPid
    PROVE  /\ Cardinality(Queued(p)) \in Nat
           /\ IsFiniteSet(Unsent(p)) /\ Cardinality(Unsent(p)) \in Nat
           /\ Responses(p) = Hits(bResponses, Told(p))
           /\ IsFiniteSet(Responses(p)) /\ Cardinality(Responses(p)) \in Nat
<1>1. Cardinality(Queued(p)) \in Nat
  BY QueuedHits
<1>2. {c \in TasksFor(p) : bTask[c].at # "sent"} \in SUBSET TasksFor(p) /\ IsFiniteSet(TasksFor(p))
  BY TasksFinite
<1>9. IsFiniteSet({c \in TasksFor(p) : bTask[c].at # "sent"}) /\ IsFiniteSet(bLost[p])
  BY <1>2, FS_Subset, GoneFinite
<1>3. IsFiniteSet(Unsent(p))
  BY <1>9, FS_Union DEF Unsent
<1>4. Cardinality(Unsent(p)) \in Nat
  BY <1>3, FS_CardinalityType
<1>5. bResponses \in Seq(BResponse)
  BY DEF PoolOK
<1>6. DOMAIN bResponses = 1..Len(bResponses) /\ \A i \in 1..Len(bResponses) : bResponses[i] \in BResponse
  BY <1>5, LenProperties, ElementOfSeq
<1>7. Responses(p) = Hits(bResponses, Told(p))
  BY <1>6 DEF Responses, Hits, Told
<1>8. IsFiniteSet(Responses(p)) /\ Cardinality(Responses(p)) \in Nat
  BY <1>5, <1>7, HitsFinite DEF HitCount
<1> QED BY <1>1, <1>3, <1>4, <1>7, <1>8

LEMMA PartsNext ==
    ASSUME PoolOK', CidsApart', NEW p \in BPid
    PROVE  /\ Cardinality(Queued(p)') \in Nat
           /\ IsFiniteSet(Unsent(p)') /\ Cardinality(Unsent(p)') \in Nat
           /\ Responses(p)' = Hits(bResponses', Told(p))
           /\ IsFiniteSet(Responses(p)') /\ Cardinality(Responses(p)') \in Nat
<1>1. (/\ Cardinality(Queued(p)) \in Nat
       /\ IsFiniteSet(Unsent(p)) /\ Cardinality(Unsent(p)) \in Nat
       /\ Responses(p) = Hits(bResponses, Told(p))
       /\ IsFiniteSet(Responses(p)) /\ Cardinality(Responses(p)) \in Nat)'
  BY PartsFinite, PTL
<1> QED BY <1>1 DEF Hits, Told, BResponse

\* What p is told in a step of the bridge.
Gets(p) == bGot'[p] \ bGot[p]

\* A step of the bridge that is not the beginning of a submission takes as
\* many chats of p from the bridge as it tells p answers.
Flows(p) == IsFiniteSet(Gets(p)) /\ Cardinality(Gets(p)) \in Nat /\ InBridge(p) = InBridge(p)' + Cardinality(Gets(p))

LEMMA FlowsQuiet ==
    ASSUME PoolOK, CidsApart, NEW p \in BPid, bGot' = bGot, InBridge(p)' = InBridge(p)
    PROVE  Flows(p)
<1>1. Gets(p) = {}
  BY DEF Gets
<1>2. InBridge(p) \in Nat
  BY PartsFinite DEF InBridge
<1>3. \A n \in Nat : n = n + 0
  OBVIOUS
<1> QED BY <1>1, <1>2, <1>3, FS_EmptySet DEF Flows


LEMMA FlowsDrain ==
    ASSUME PoolOK, CidsApart, PoolOK', CidsApart', NEW p \in BPid \ bDead, Drain
    PROVE  Flows(p)
<1> DEFINE R == Responses(p)
           f == [i \in R |-> bResponses[i].cid]
<1>1. /\ UNCHANGED <<bQueue, bTask, bLost, bCaller>> /\ bResponses' = << >>
      /\ bGot'[p] = bGot[p] \union {bResponses[i].cid : i \in R}
  BY DEF Drain, Responses
<1>2. DOMAIN bResponses = 1..Len(bResponses) /\ \A i \in 1..Len(bResponses) : bResponses[i].cid \in Nat
  <2>1. bResponses \in Seq(BResponse)
    BY DEF PoolOK
  <2>2. DOMAIN bResponses = 1..Len(bResponses) /\ \A i \in 1..Len(bResponses) : bResponses[i] \in BResponse
    BY <2>1, LenProperties, ElementOfSeq
  <2> QED BY <2>2 DEF BResponse
<1>3. \A i \in R : bResponses[i].cid \notin bGot[p]
  <2> SUFFICES ASSUME NEW i \in R PROVE bResponses[i].cid \notin bGot[p]
    OBVIOUS
  <2>1. bResponses[i].cid \in Nat /\ Answered(bResponses[i].cid)
    BY <1>2 DEF Responses, Answered
  <2>2. ~Delivered(bResponses[i].cid)
    BY <2>1 DEF CidsApart, Apart
  <2> QED BY <2>2 DEF Delivered
<1>4. Gets(p) = {bResponses[i].cid : i \in R}
  BY <1>1, <1>3 DEF Gets
<1>5. \A i, j \in R : bResponses[i].cid = bResponses[j].cid => i = j
  BY <1>2 DEF Responses, CidsApart, RespondedOnce
<1>6. f \in [R -> Gets(p)]
  BY <1>4
<1>7. (\A i, j \in R : f[i] = f[j] => i = j) /\ (\A c \in Gets(p) : \E i \in R : f[i] = c)
  BY <1>4, <1>5
<1>8. f \in Bijection(R, Gets(p))
  <2> HIDE DEF f, R
  <2> QED BY <1>6, <1>7 DEF Bijection, Injection, Surjection, IsInjective
<1>9. IsFiniteSet(R) /\ Cardinality(R) \in Nat
  BY PartsFinite
<1>10. IsFiniteSet(Gets(p)) /\ Cardinality(Gets(p)) = Cardinality(R)
  <2>1. ExistsBijection(R, Gets(p))
    BY <1>8 DEF ExistsBijection
  <2> QED BY <1>9, <2>1, FS_Bijection
<1>11. Cardinality(Responses(p)') = 0
  <2>1. Responses(p)' = {}
    BY <1>1 DEF Responses
  <2> QED BY <2>1, FS_EmptySet
<1>12. Queued(p)' = Queued(p) /\ Unsent(p)' = Unsent(p) /\ bCaller'[p] = bCaller[p]
  BY <1>1 DEF Queued, Unsent, TasksFor
<1>13. Cardinality(Queued(p)) \in Nat /\ Cardinality(Unsent(p)) \in Nat
  BY PartsFinite
<1>14. ASSUME NEW a \in Nat, NEW b \in Nat, NEW c \in Nat, NEW k \in Nat
       PROVE  a + b + c + k = (a + b + 0 + k) + c
  BY <1>14
<1>15. (IF bCaller[p] = Idle THEN 0 ELSE 1) \in Nat
  OBVIOUS
<1>16. InBridge(p) = InBridge(p)' + Cardinality(R)
  BY <1>9, <1>11, <1>12, <1>13, <1>14, <1>15 DEF InBridge
<1> QED BY <1>9, <1>10, <1>16 DEF Flows

LEMMA FlowsEnd ==
    ASSUME PoolOK, SlotsOK, CidsApart, PoolOK', CidsApart', NEW p \in BPid \ bDead,
           NEW p0 \in BPid, EndSubmit(p0)
    PROVE  Flows(p)
<1> DEFINE r == [cid |-> bCid, pid |-> p0, op |-> bCaller[p0]]
<1>1. UNCHANGED <<bTask, bLost, bResponses>> /\ bCaller[p0] # Idle
  BY DEF EndSubmit
<1>2. Unsent(p)' = Unsent(p) /\ Responses(p)' = Responses(p)
  BY <1>1 DEF Unsent, TasksFor, Responses
<1>3. Cardinality(Queued(p)) \in Nat /\ Cardinality(Unsent(p)) \in Nat /\ Cardinality(Responses(p)) \in Nat
  BY PartsFinite
<1>4. bCaller' = bCaller \/ bCaller' = [bCaller EXCEPT ![p0] = Idle]
  BY DEF EndSubmit
<1>5. CASE Accepting
  <2>1. bQueue' = Append(bQueue, r) /\ bGot' = bGot /\ bCaller' = [bCaller EXCEPT ![p0] = Idle]
    BY <1>5 DEF EndSubmit
  <2>2. r \in BRequest /\ r.pid = p0
    BY <1>1 DEF BRequest, SlotsOK, BOps, Idle, PoolOK
  <2> HIDE DEF r
  <2>3. InBridge(p)' = InBridge(p)
    <3>1. CASE p = p0
      <4>1. bCaller'[p] = Idle /\ bCaller[p] # Idle
        BY <1>1, <2>1, <3>1 DEF SlotsOK
      <4>2. Cardinality(Queued(p)') = Cardinality(Queued(p)) + 1
        BY <2>1, <2>2, <3>1, QueuedLonger
      <4>3. ASSUME NEW a \in Nat, NEW b \in Nat, NEW c \in Nat PROVE (a + 1) + b + c + 0 = a + b + c + 1
        BY <4>3
      <4> QED BY <1>2, <1>3, <4>1, <4>2, <4>3 DEF InBridge
    <3>2. CASE p # p0
      <4>1. bCaller'[p] = bCaller[p]
        BY <2>1, <3>2 DEF SlotsOK
      <4>2. Cardinality(Queued(p)') = Cardinality(Queued(p))
        BY <2>1, <2>2, <3>2, QueuedLonger
      <4> QED BY <1>2, <4>1, <4>2 DEF InBridge
    <3> QED BY <3>1, <3>2
  <2> QED BY <2>1, <2>3, FlowsQuiet
<1>6. CASE ~Accepting
  <2>1. bQueue' = bQueue
    BY <1>6 DEF EndSubmit
  <2>2. Queued(p)' = Queued(p)
    BY <2>1 DEF Queued
  <2>3. CASE p # p0
    <3>1. bCaller'[p] = bCaller[p]
      BY <1>4, <2>3 DEF SlotsOK
    <3>2. bGot'[p] = bGot[p]
      BY <1>6, <2>3 DEF EndSubmit, PoolOK
    <3>3. InBridge(p)' = InBridge(p)
      BY <1>2, <2>2, <3>1 DEF InBridge
    <3>4. Gets(p) = {}
      BY <3>2 DEF Gets
    <3>5. InBridge(p) \in Nat
      BY <1>3 DEF InBridge
    <3>6. \A n \in Nat : n = n + 0
      OBVIOUS
    <3> QED BY <3>3, <3>4, <3>5, <3>6, FS_EmptySet DEF Flows
  <2>4. CASE p = p0
    <3>1. bCaller[p0] # "Destroy"
      BY <2>4 DEF SlotsOK
    <3>2. bGot' = [bGot EXCEPT ![p0] = @ \union {bCid}] /\ bCaller' = [bCaller EXCEPT ![p0] = Idle]
      BY <1>6, <3>1 DEF EndSubmit
    <3>3. bCaller'[p] = Idle /\ bCaller[p] # Idle
      BY <1>1, <2>4, <3>2 DEF SlotsOK
    <3>4. bGot'[p] = bGot[p] \union {bCid}
      BY <2>4, <3>2 DEF PoolOK
    <3>5. bCid \notin bGot[p]
      <4>1. bCid \in Nat /\ ~(bCid < bCid)
        BY DEF PoolOK
      <4>2. ~Delivered(bCid)
        BY <4>1 DEF CidsApart, Apart
      <4> QED BY <4>2 DEF Delivered
    <3>6. Gets(p) = {bCid}
      BY <3>4, <3>5 DEF Gets
    <3>7. IsFiniteSet(Gets(p)) /\ Cardinality(Gets(p)) = 1
      BY <3>6, FS_Singleton
    <3>8. ASSUME NEW a \in Nat, NEW b \in Nat, NEW c \in Nat PROVE a + b + c + 1 = (a + b + c + 0) + 1
      BY <3>8
    <3>9. InBridge(p) = InBridge(p)' + 1
      BY <1>2, <1>3, <2>2, <3>3, <3>8 DEF InBridge
    <3> QED BY <3>7, <3>9 DEF Flows
  <2> QED BY <2>3, <2>4
<1> QED BY <1>5, <1>6

LEMMA FlowsTerminate ==
    ASSUME PoolOK, SlotsOK, CidsApart, NEW p \in BPid, NEW p0 \in BPid, Terminate(p0), p # p0
    PROVE  Flows(p)
<1>1. UNCHANGED <<bQueue, bTask, bLost, bResponses, bGot>> /\ bCaller'[p] = bCaller[p]
  BY DEF Terminate, SlotsOK
<1>2. InBridge(p)' = InBridge(p)
  BY <1>1 DEF InBridge, Queued, Unsent, TasksFor, Responses
<1> QED BY <1>1, <1>2, FlowsQuiet

LEMMA FlowsReceive ==
    ASSUME PoolOK, CidsApart, PoolOK', CidsApart', NEW p \in BPid, NEW w \in BWorker, Receive(w)
    PROVE  Flows(p)
<1> DEFINE r == Head(bQueue)
           t == [worker |-> w, pid |-> r.pid, op |-> r.op, at |-> "spawned", token |-> NoToken]
<1>1. /\ UNCHANGED <<bResponses, bCaller, bGot, bLost>> /\ bQueue # << >> /\ bQueue' = Tail(bQueue)
  BY DEF Receive
<1>2. Responses(p)' = Responses(p)
  BY <1>1 DEF Responses
<1>3. Cardinality(Queued(p)') \in Nat /\ Cardinality(Unsent(p)) \in Nat /\ Cardinality(Responses(p)) \in Nat
  BY PartsFinite, PartsNext
<1>4. SUFFICES InBridge(p)' = InBridge(p)
  BY <1>1, FlowsQuiet
<1>5. CASE r.op = "Shutdown"
  <2>1. bTask' = bTask
    BY <1>5 DEF Receive
  <2>2. r.pid = "host" /\ p # "host"
    BY <1>1, <1>5, QueueHead, SetupFacts DEF PoolOK
  <2>3. Cardinality(Queued(p)') = Cardinality(Queued(p))
    BY <1>1, <2>2, QueuedShorter
  <2>4. Unsent(p)' = Unsent(p)
    BY <1>1, <2>1 DEF TasksFor, Unsent
  <2> QED BY <1>1, <1>2, <2>3, <2>4 DEF InBridge
<1>6. CASE r.op # "Shutdown"
  <2>1. bTask' = With(bTask, r.cid, t)
    BY <1>6 DEF Receive
  <2>2. r.cid \in Nat
    BY <1>1, QueueHead DEF BRequest
  <2>3. t.at = "spawned" /\ t.pid = r.pid
    OBVIOUS
  <2>4. r.cid \notin DOMAIN bTask /\ ~Gone(r.cid)
    <3>1. InQueue(r.cid)
      BY <1>1, <1>6, QueueHead DEF InQueue
    <3> QED BY <2>2, <3>1 DEF CidsApart, Apart
  <2>5. (r.pid = p => Cardinality(Queued(p)) = Cardinality(Queued(p)') + 1)
        /\ (r.pid # p => Cardinality(Queued(p)) = Cardinality(Queued(p)'))
    BY <1>1, QueuedShorter
  <2> HIDE DEF t, r
  <2>6. /\ DOMAIN bTask' = DOMAIN bTask \union {r.cid} /\ bTask'[r.cid] = t
        /\ \A c \in DOMAIN bTask : bTask'[c] = bTask[c]
    BY <2>1, <2>4 DEF With
  <2>7. CASE r.pid = p
    <3>1. Unsent(p)' = Unsent(p) \union {r.cid} /\ r.cid \notin Unsent(p)
      BY <1>1, <2>3, <2>4, <2>6, <2>7 DEF TasksFor, Unsent, Gone
    <3>2. Cardinality(Unsent(p)') = Cardinality(Unsent(p)) + 1
      BY <3>1, PartsFinite, FS_AddElement
    <3>3. ASSUME NEW a \in Nat, NEW b \in Nat, NEW c \in Nat, NEW k \in Nat
          PROVE  a + (b + 1) + c + k = (a + 1) + b + c + k
      BY <3>3
    <3>4. (IF bCaller[p] = Idle THEN 0 ELSE 1) \in Nat
      OBVIOUS
    <3> QED BY <1>1, <1>2, <1>3, <2>5, <2>7, <3>2, <3>3, <3>4 DEF InBridge
  <2>8. CASE r.pid # p
    <3>1. Unsent(p)' = Unsent(p)
      BY <1>1, <2>3, <2>4, <2>6, <2>8 DEF TasksFor, Unsent
    <3> QED BY <1>1, <1>2, <2>5, <2>8, <3>1 DEF InBridge
  <2> QED BY <2>7, <2>8
<1> QED BY <1>5, <1>6

LEMMA FlowsSend ==
    ASSUME PoolOK, CidsApart, PoolOK', CidsApart', NEW p \in BPid, NEW c0 \in DOMAIN bTask, SendResponse(c0)
    PROVE  Flows(p)
<1> DEFINE e == [cid |-> c0, pid |-> bTask[c0].pid]
<1>1. UNCHANGED <<bQueue, bCaller, bGot, bLost>> /\ bResponses' = Append(bResponses, e)
  BY DEF SendResponse, TaskStep
<1>2. TaskMoved(c0) /\ bTask'[c0].at = "sent" /\ bTask[c0].at = "done"
  BY SendMoves
<1>3. e \in BResponse /\ e.pid = bTask[c0].pid
  BY DEF PoolOK, BTask, BResponse
<1> HIDE DEF e
<1>4. bResponses \in Seq(BResponse)
  BY DEF PoolOK
<1>5. Responses(p) = Hits(bResponses, Told(p)) /\ Responses(p)' = Hits(bResponses', Told(p))
  BY PartsFinite, PartsNext
<1>6. e \in Told(p) <=> bTask[c0].pid = p
  BY <1>3 DEF Told
<1>7. /\ bTask[c0].pid = p => Cardinality(Responses(p)') = Cardinality(Responses(p)) + 1
      /\ bTask[c0].pid # p => Cardinality(Responses(p)') = Cardinality(Responses(p))
  BY <1>1, <1>3, <1>4, <1>5, <1>6, HitsAppend DEF HitCount
<1>8. Cardinality(Queued(p)) \in Nat /\ Cardinality(Unsent(p)') \in Nat /\ Cardinality(Responses(p)) \in Nat
  BY PartsFinite, PartsNext
<1>9. Queued(p)' = Queued(p) /\ bCaller'[p] = bCaller[p]
  BY <1>1 DEF Queued
<1>10. SUFFICES InBridge(p)' = InBridge(p)
  BY <1>1, FlowsQuiet
<1>11. CASE bTask[c0].pid = p
  <2>1. Unsent(p) = Unsent(p)' \union {c0} /\ c0 \notin Unsent(p)'
    <3>1. c0 \notin bLost[p]
      BY GoneFinite
    <3> QED BY <1>1, <1>2, <1>11, <3>1 DEF TaskMoved, Unsent, TasksFor
  <2>2. Cardinality(Unsent(p)) = Cardinality(Unsent(p)') + 1
    BY <2>1, PartsNext, FS_AddElement
  <2>3. ASSUME NEW a \in Nat, NEW b \in Nat, NEW c \in Nat, NEW k \in Nat
        PROVE  a + b + (c + 1) + k = a + (b + 1) + c + k
    BY <2>3
  <2>4. (IF bCaller[p] = Idle THEN 0 ELSE 1) \in Nat
    OBVIOUS
  <2> QED BY <1>7, <1>8, <1>9, <1>11, <2>2, <2>3, <2>4 DEF InBridge
<1>12. CASE bTask[c0].pid # p
  <2>1. Unsent(p)' = Unsent(p)
    BY <1>1, <1>2, <1>12 DEF TaskMoved, Unsent, TasksFor
  <2> QED BY <1>7, <1>9, <1>12, <2>1 DEF InBridge
<1> QED BY <1>11, <1>12

LEMMA FlowsTasks ==
    ASSUME PoolOK, SlotsOK, CidsApart, NEW p \in BPid, NEW c0 \in DOMAIN bTask, Working(c0) \/ ReleaseTask(c0)
    PROVE  Flows(p)
<1>1. UNCHANGED <<bQueue, bResponses, bCaller, bGot, bLost>>
  BY WorkElsewhere DEF ReleaseTask, TaskStep
<1>2. Unsent(p)' = Unsent(p)
  <2>1. CASE Working(c0)
    BY <1>1, <2>1, WorkMoves DEF TaskMoved, Unsent, TasksFor
  <2>2. CASE ReleaseTask(c0)
    <3>1. bTask[c0].at = "sent" /\ bTask' = Without(bTask, c0)
      BY <2>2 DEF ReleaseTask, TaskStep
    <3>2. DOMAIN bTask' = DOMAIN bTask \ {c0} /\ \A d \in DOMAIN bTask' : bTask'[d] = bTask[d]
      BY <3>1 DEF Without
    <3> QED BY <1>1, <3>1, <3>2 DEF Unsent, TasksFor
  <2> QED BY <2>1, <2>2
<1>3. InBridge(p)' = InBridge(p)
  BY <1>1, <1>2 DEF InBridge, Queued, Responses
<1> QED BY <1>1, <1>3, FlowsQuiet


LEMMA FlowsPanic ==
    ASSUME PoolOK, CidsApart, NEW p \in BPid, NEW c0 \in DOMAIN bTask, PanicTask(c0)
    PROVE  Flows(p)
<1>1. UNCHANGED <<bQueue, bResponses, bCaller, bGot>> /\ bTask[c0].at = "building" /\ Dropping({c0})
  BY PanicDrops DEF PanicTask
<1>2. /\ DOMAIN bTask' = DOMAIN bTask \ {c0} /\ \A c \in DOMAIN bTask' : bTask'[c] = bTask[c]
      /\ bLost'[p] = bLost[p] \union {c \in {c0} : bTask[c].pid = p /\ bTask[c].op # "Destroy"}
  <2>1. \A c \in DOMAIN bTask' : bTask'[c] = bTask[c]
    BY <1>1, TasksDropped
  <2>2. /\ bTask' = [c \in DOMAIN bTask \ {c0} |-> bTask[c]]
        /\ bLost' = [q \in BPid |-> bLost[q] \union
                       {c \in {c0} : bTask[c].pid = q /\ bTask[c].op # "Destroy"}]
    BY <1>1 DEF Dropping, Drop
  <2> QED BY <2>1, <2>2
<1>3. bTask[c0].op # "Destroy"
  BY <1>1 DEF PoolOK
<1>4. Unsent(p)' = Unsent(p)
  BY <1>1, <1>2, <1>3 DEF Unsent, TasksFor
<1>5. InBridge(p)' = InBridge(p)
  BY <1>1, <1>4 DEF InBridge, Queued, Responses
<1> QED BY <1>1, <1>5, FlowsQuiet


OneChat(p) == InBridge(p) + AnswersInInbox(p) = (IF awState[p].busy THEN 1 ELSE 0)

LEMMA OneChatMeans == OneChatAtATime <=> \A p \in BPid \ bDead : OneChat(p)
  BY DEF OneChatAtATime, OneChat, InBridge, Unsent, Responses

LEMMA AnswersHits ==
    ASSUME AwTypeOK, NEW p \in BPid
    PROVE  AnswersInInbox(p) = HitCount(awInbox[p], {"Answer"}) /\ AnswersInInbox(p) \in Nat
<1>1. awInbox[p] \in Seq(AwLetter)
  BY DEF AwTypeOK
<1>2. DOMAIN awInbox[p] = 1..Len(awInbox[p])
  BY <1>1, LenProperties
<1>3. {i \in DOMAIN awInbox[p] : awInbox[p][i] = "Answer"} = Hits(awInbox[p], {"Answer"})
  BY <1>2 DEF Hits
<1> QED BY <1>1, <1>3, HitsFinite DEF AnswersInInbox, HitCount

LEMMA AnswersNext ==
    ASSUME AwTypeOK', NEW p \in BPid
    PROVE  AnswersInInbox(p)' = HitCount(awInbox'[p], {"Answer"}) /\ AnswersInInbox(p)' \in Nat
<1>1. (AnswersInInbox(p) = HitCount(awInbox[p], {"Answer"}) /\ AnswersInInbox(p) \in Nat)'
  BY AnswersHits, PTL
<1> QED BY <1>1 DEF HitCount, Hits

LEMMA InBridgeNat ==
    ASSUME PoolOK, CidsApart, NEW p \in BPid
    PROVE  InBridge(p) \in Nat
  BY PartsFinite DEF InBridge

\* The message on top, and a message more.
LEMMA AwHandleStep ==
    ASSUME AwInv, NEW p0 \in BPid, AwHandle(p0)
    PROVE  BridgeInv' /\ AwTypeOK' /\ \A p \in BPid \ bDead' : OneChat(p)'
<1> DEFINE box == awInbox[p0]
           m == Head(box)
           st == awState[p0]
<1>1. /\ p0 \notin bDead /\ bCaller[p0] = Idle /\ box # << >>
      /\ awInbox' = [awInbox EXCEPT ![p0] = Tail(@)]
  BY DEF AwHandle
<1>2. BridgeInv /\ PoolOK /\ SlotsOK /\ CidsApart /\ AwTypeOK /\ \A p \in BPid \ bDead : OneChat(p)
  BY OneChatMeans DEF AwInv, BridgeInv
<1>3. box \in Seq(AwLetter) /\ st \in AwStateType
  BY <1>2 DEF AwTypeOK
<1>4. m \in AwLetter /\ Tail(box) \in Seq(AwLetter)
  BY <1>1, <1>3, HeadTailProperties
<1>5. awInbox' \in [BPid -> Seq(AwLetter)] /\ awInbox'[p0] = Tail(box)
  BY <1>1, <1>2, <1>4 DEF AwTypeOK
<1>6. \A p \in BPid : p # p0 => awInbox'[p] = awInbox[p]
  BY <1>1, <1>2 DEF AwTypeOK
\* The four outcomes.
<1>7. \/ UNCHANGED bridgeVars /\ awState' = awState /\ m # "Answer"
      \/ UNCHANGED bridgeVars /\ awState' = [awState EXCEPT ![p0] = [st EXCEPT !.busy = FALSE]] /\ m = "Answer"
      \/ UNCHANGED bridgeVars /\ awState' = [awState EXCEPT ![p0] = [st EXCEPT !.pending = Append(@, m)]]
           /\ m = "Prompt"
      \/ \E new \in AwStateType : /\ BeginSubmit(p0, "Chat") /\ new.busy = TRUE
                                  /\ awState' = [awState EXCEPT ![p0] = new]
                                  /\ m = "Answer" \/ ~st.busy
  <2>1. CASE m = "Answer"
    <3> DEFINE free == [st EXCEPT !.busy = FALSE]
               n == Len(free.pending)
               rest == SubSeq(free.pending, 1, n - 1)
               cut == [free EXCEPT !.pending = rest]
               new == [cut EXCEPT !.busy = TRUE]
    <3>1. TakeAnswer(p0)
      BY <2>1 DEF AwHandle
    <3>2. free \in AwStateType /\ free.busy = FALSE /\ free.pending = st.pending /\ n \in Nat
      BY <1>3, LenProperties DEF AwStateType
    <3>3. CASE n = 0
      BY <2>1, <3>1, <3>3 DEF TakeAnswer
    <3>4. CASE n # 0
      <4>1. rest \in Seq({"Prompt"})
        <5>1. \A i \in 1..(n - 1) : free.pending[i] \in {"Prompt"}
          BY <3>2 DEF AwStateType
        <5>2. 1 \in Int /\ n - 1 \in Int
          BY <3>2
        <5> HIDE DEF free, n
        <5> QED BY <5>1, <5>2, SubSeqProperties
      <4>2. cut \in AwStateType /\ cut.busy = FALSE
        <5> HIDE DEF rest, free
        <5> QED BY <3>2, <4>1 DEF AwStateType
      <4>3. new \in AwStateType /\ new.busy = TRUE
        <5> HIDE DEF cut
        <5> QED BY <4>2 DEF AwStateType
      <4>4. TakePrompt(p0, free.pending[n], cut)
        BY <3>1, <3>4 DEF TakeAnswer
      <4>5. BeginSubmit(p0, "Chat") /\ awState' = [awState EXCEPT ![p0] = new]
        <5> HIDE DEF cut
        <5> QED BY <4>2, <4>4 DEF TakePrompt
      <4> HIDE DEF new
      <4> QED BY <2>1, <4>3, <4>5
    <3> QED BY <3>3, <3>4
  <2>2. CASE m = "Prompt"
    <3> DEFINE new == [st EXCEPT !.busy = TRUE]
    <3>1. TakePrompt(p0, m, st)
      BY <2>2 DEF AwHandle
    <3>2. new \in AwStateType /\ new.busy = TRUE
      BY <1>3 DEF AwStateType
    <3> HIDE DEF new
    <3>3. CASE st.busy
      BY <2>2, <3>1, <3>3 DEF TakePrompt
    <3>4. CASE ~st.busy
      <4>1. BeginSubmit(p0, "Chat") /\ awState' = [awState EXCEPT ![p0] = new]
        BY <3>1, <3>4 DEF TakePrompt, new
      <4> QED BY <3>2, <3>4, <4>1
    <3> QED BY <3>3, <3>4
  <2>3. CASE m \notin {"Answer", "Prompt"}
    BY <2>3 DEF AwHandle
  <2> QED BY <2>1, <2>2, <2>3
<1>8. /\ m = "Answer" => HitCount(box, {"Answer"}) = HitCount(Tail(box), {"Answer"}) + 1
      /\ m # "Answer" => HitCount(box, {"Answer"}) = HitCount(Tail(box), {"Answer"})
  BY <1>1, <1>3, HitsTail
<1>9. HitCount(Tail(box), {"Answer"}) \in Nat /\ HitCount(box, {"Answer"}) \in Nat
  BY <1>3, <1>4, HitsFinite
<1>10. InBridge(p0) \in Nat /\ InBridge(p0) + HitCount(box, {"Answer"}) = (IF st.busy THEN 1 ELSE 0)
  BY <1>1, <1>2, InBridgeNat, AnswersHits DEF OneChat
<1> HIDE DEF m, box, st
<1>11. ASSUME AwTypeOK', UNCHANGED bridgeVars, \A p \in BPid : p # p0 => awState'[p] = awState[p],
              InBridge(p0) + HitCount(Tail(box), {"Answer"}) = (IF awState'[p0].busy THEN 1 ELSE 0)
       PROVE  BridgeInv' /\ AwTypeOK' /\ \A p \in BPid \ bDead' : OneChat(p)'
  <2>1. BridgeInv'
    BY <1>2, <1>11, BridgeInvNext
  <2>2. bDead' = bDead /\ \A p : InBridge(p)' = InBridge(p)
    BY <1>11 DEF bridgeVars, InBridge, Queued, Unsent, TasksFor, Responses
  <2>3. ASSUME NEW p \in BPid \ bDead' PROVE OneChat(p)'
    <3>1. CASE p = p0
      <4>1. AnswersInInbox(p)' = HitCount(Tail(box), {"Answer"})
        BY <1>5, <1>11, <3>1, AnswersNext
      <4> QED BY <1>11, <2>2, <3>1, <4>1 DEF OneChat
    <3>2. CASE p # p0
      <4>1. AnswersInInbox(p)' = AnswersInInbox(p)
        BY <1>6, <3>2 DEF AnswersInInbox
      <4>2. OneChat(p) /\ awState'[p] = awState[p]
        BY <1>2, <1>11, <2>2, <3>2
      <4> QED BY <2>2, <4>1, <4>2 DEF OneChat
    <3> QED BY <3>1, <3>2
  <2> QED BY <1>11, <2>1, <2>3
<1>12. CASE UNCHANGED bridgeVars /\ awState' = awState /\ m # "Answer"
  <2>1. AwTypeOK'
    BY <1>2, <1>5, <1>12 DEF AwTypeOK
  <2>2. awState'[p0] = st
    BY <1>12 DEF st
  <2> QED BY <1>8, <1>10, <1>11, <1>12, <2>1, <2>2
<1>13. CASE UNCHANGED bridgeVars /\ awState' = [awState EXCEPT ![p0] = [st EXCEPT !.busy = FALSE]] /\ m = "Answer"
  <2> DEFINE new == [st EXCEPT !.busy = FALSE]
  <2>1. new \in AwStateType /\ new.busy = FALSE
    BY <1>3 DEF AwStateType
  <2>2. awState' = [awState EXCEPT ![p0] = new]
    BY <1>13
  <2> HIDE DEF new
  <2>3. awState' \in [BPid -> AwStateType] /\ awState'[p0] = new /\ \A p \in BPid : p # p0 => awState'[p] = awState[p]
    BY <1>2, <2>1, <2>2 DEF AwTypeOK
  <2>4. AwTypeOK'
    BY <1>5, <2>3 DEF AwTypeOK
  <2>5. InBridge(p0) + HitCount(Tail(box), {"Answer"}) = 0
    BY <1>8, <1>9, <1>10, <1>13
  <2> QED BY <1>11, <1>13, <2>1, <2>3, <2>4, <2>5
<1>14. CASE UNCHANGED bridgeVars /\ awState' = [awState EXCEPT ![p0] = [st EXCEPT !.pending = Append(@, m)]]
              /\ m = "Prompt"
  <2> DEFINE more == Append(st.pending, m)
             new == [st EXCEPT !.pending = more]
  <2>1. more \in Seq({"Prompt"})
    BY <1>3, <1>14, AppendProperties DEF AwStateType
  <2>2. awState' = [awState EXCEPT ![p0] = new]
    BY <1>14
  <2> HIDE DEF more
  <2>3. new \in AwStateType /\ new.busy = st.busy
    BY <1>3, <2>1 DEF AwStateType
  <2> HIDE DEF new
  <2>4. awState' \in [BPid -> AwStateType] /\ awState'[p0] = new /\ \A p \in BPid : p # p0 => awState'[p] = awState[p]
    BY <1>2, <2>2, <2>3 DEF AwTypeOK
  <2>5. AwTypeOK'
    BY <1>5, <2>4 DEF AwTypeOK
  <2>6. m # "Answer"
    BY <1>14
  <2> QED BY <1>8, <1>10, <1>11, <1>14, <2>3, <2>4, <2>5, <2>6
<1>15. ASSUME NEW new \in AwStateType, BeginSubmit(p0, "Chat"), new.busy = TRUE,
              awState' = [awState EXCEPT ![p0] = new], m = "Answer" \/ ~st.busy
       PROVE  BridgeInv' /\ AwTypeOK' /\ \A p \in BPid \ bDead' : OneChat(p)'
  <2>1. awState' \in [BPid -> AwStateType] /\ awState'[p0] = new /\ \A p \in BPid : p # p0 => awState'[p] = awState[p]
    BY <1>2, <1>15 DEF AwTypeOK
  <2>2. AwTypeOK'
    BY <1>5, <2>1 DEF AwTypeOK
  <2>3. BridgeCases /\ "Chat" \in BOps
    BY <1>15 DEF BridgeCases, BOps
  <2>4. BridgeInv'
    BY <1>2, <2>3, BridgeInvCases
  <2>5. /\ UNCHANGED <<bQueue, bTask, bLost, bResponses, bDead>> /\ bCaller' = [bCaller EXCEPT ![p0] = "Chat"]
    BY <1>15 DEF BeginSubmit
  <2>6. \A p : Queued(p)' = Queued(p) /\ Unsent(p)' = Unsent(p) /\ Responses(p)' = Responses(p)
    BY <2>5 DEF Queued, Unsent, TasksFor, Responses
  <2>7. bCaller'[p0] = "Chat" /\ \A p \in BPid : p # p0 => bCaller'[p] = bCaller[p]
    BY <1>2, <2>5 DEF SlotsOK
  <2>8. InBridge(p0)' = InBridge(p0) + 1
    <3>1. Cardinality(Queued(p0)) \in Nat /\ Cardinality(Unsent(p0)) \in Nat /\ Cardinality(Responses(p0)) \in Nat
      BY <1>2, PartsFinite
    <3>2. ASSUME NEW a \in Nat, NEW b \in Nat, NEW c \in Nat PROVE a + b + c + 1 = (a + b + c + 0) + 1
      BY <3>2
    <3>3. bCaller'[p0] # Idle
      BY <2>7 DEF Idle
    <3> QED BY <1>1, <2>6, <3>1, <3>2, <3>3 DEF InBridge
  <2>9. InBridge(p0) + HitCount(Tail(box), {"Answer"}) = 0
    BY <1>8, <1>9, <1>10, <1>15
  <2>10. OneChat(p0)'
    <3>1. AnswersInInbox(p0)' = HitCount(Tail(box), {"Answer"})
      BY <1>5, <2>2, AnswersNext
    <3>2. InBridge(p0)' + HitCount(Tail(box), {"Answer"}) = 1
      BY <1>9, <1>10, <2>8, <2>9
    <3> QED BY <1>15, <2>1, <3>1, <3>2 DEF OneChat
  <2>11. ASSUME NEW p \in BPid \ bDead, p # p0 PROVE OneChat(p)'
    <3>1. InBridge(p)' = InBridge(p)
      BY <2>6, <2>7, <2>11 DEF InBridge
    <3>2. AnswersInInbox(p)' = AnswersInInbox(p)
      BY <1>6, <2>11 DEF AnswersInInbox
    <3>3. OneChat(p) /\ awState'[p] = awState[p]
      BY <1>2, <2>1, <2>11
    <3> QED BY <3>1, <3>2, <3>3 DEF OneChat
  <2> QED BY <2>2, <2>4, <2>5, <2>10, <2>11
<1> QED BY <1>7, <1>12, <1>13, <1>14, <1>15


LEMMA AwBridgeStep ==
    ASSUME AwInv, AwBridge
    PROVE  BridgeInv' /\ AwTypeOK' /\ \A p \in BPid \ bDead' : OneChat(p)'
<1>1. BridgeInv /\ PoolOK /\ SlotsOK /\ CidsApart /\ AwTypeOK /\ \A p \in BPid \ bDead : OneChat(p)
  BY OneChatMeans DEF AwInv, BridgeInv
<1>2. PoolNext \/ (\E p \in BPid : EndSubmit(p)) \/ \E p \in BPid : Terminate(p)
  BY DEF AwBridge
<1>3. BridgeCases
  BY <1>2 DEF BridgeCases, PoolNext, TaskNext, Working
<1>4. BridgeInv' /\ PoolOK' /\ CidsApart'
  BY <1>1, <1>3, BridgeInvCases DEF BridgeInv
<1>5. awState' = awState
  BY DEF AwBridge
<1>6. \A p \in BPid : awInbox'[p] = awInbox[p] \o [i \in 1..Cardinality(Gets(p)) |-> "Answer"]
  BY DEF AwBridge, Gets
<1>7. \A p \in BPid \ bDead' : Flows(p) /\ p \notin bDead
  <2> SUFFICES ASSUME NEW p \in BPid \ bDead' PROVE Flows(p) /\ p \notin bDead
    OBVIOUS
  <2>1. ASSUME NEW p0 \in BPid, EndSubmit(p0) PROVE Flows(p) /\ p \notin bDead
    <3>1. bDead' = bDead
      BY <2>1 DEF EndSubmit
    <3> QED BY <1>1, <1>4, <2>1, <3>1, FlowsEnd
  <2>2. ASSUME NEW p0 \in BPid, Terminate(p0) PROVE Flows(p) /\ p \notin bDead
    <3>1. bDead' = bDead \union {p0}
      BY <2>2 DEF Terminate
    <3> QED BY <1>1, <2>2, <3>1, FlowsTerminate
  <2>3. ASSUME NEW w \in BWorker, Receive(w) PROVE Flows(p) /\ p \notin bDead
    <3>1. bDead' = bDead
      BY <2>3 DEF Receive
    <3> QED BY <1>1, <1>4, <2>3, <3>1, FlowsReceive
  <2>4. CASE Drain
    <3>1. bDead' = bDead
      BY <2>4 DEF Drain
    <3> QED BY <1>1, <1>4, <2>4, <3>1, FlowsDrain
  <2>5. ASSUME NEW c \in DOMAIN bTask, TaskNext(c) PROVE Flows(p) /\ p \notin bDead
    <3>1. CASE SendResponse(c)
      <4>1. bDead' = bDead
        BY <3>1 DEF SendResponse, TaskStep
      <4> QED BY <1>1, <1>4, <3>1, <4>1, FlowsSend
    <3>2. CASE Working(c) \/ ReleaseTask(c)
      <4>1. bDead' = bDead
        BY <1>1, <3>2, WorkElsewhere DEF ReleaseTask, TaskStep
      <4> QED BY <1>1, <3>2, <4>1, FlowsTasks
    <3>3. CASE PanicTask(c)
      <4>1. bDead' = bDead
        BY <3>3 DEF PanicTask
      <4> QED BY <1>1, <3>3, <4>1, FlowsPanic
    <3> QED BY <2>5, <3>1, <3>2, <3>3 DEF TaskNext, Working
  <2> QED BY <1>2, <2>1, <2>2, <2>3, <2>4, <2>5 DEF PoolNext
\* The inboxes: of the dead too, what the bridge tells is a finite set.
<1>8. \A p \in BPid : Cardinality(Gets(p)) \in Nat
  <2> SUFFICES ASSUME NEW p \in BPid PROVE Cardinality(Gets(p)) \in Nat
    OBVIOUS
  <2>1. bGot' \in [BPid -> SUBSET Nat] /\ bCid' \in Nat
    BY <1>4 DEF PoolOK
  <2>2. Gets(p) \in SUBSET Nat
    BY <2>1 DEF Gets
  <2>3. \A c \in Gets(p) : c \in Nat /\ Delivered(c)'
    BY <2>2 DEF Gets, Delivered
  <2>4. \A c \in Nat : Delivered(c)' => c < bCid'
    BY <1>4 DEF CidsApart, Apart
  <2>5. \A c \in Gets(p) : c <= bCid'
    BY <2>1, <2>3, <2>4
  <2>6. IsFiniteSet(Gets(p))
    BY <2>1, <2>2, <2>5, FS_BoundedSetOfNaturals
  <2> QED BY <2>6, FS_CardinalityType
<1>9. ASSUME NEW p \in BPid
      PROVE  /\ awInbox'[p] \in Seq(AwLetter)
             /\ HitCount(awInbox'[p], {"Answer"}) = HitCount(awInbox[p], {"Answer"}) + Cardinality(Gets(p))
  <2> DEFINE t == [i \in 1..Cardinality(Gets(p)) |-> "Answer"]
  <2>1. t \in Seq(AwLetter) /\ Len(t) = Cardinality(Gets(p)) /\ \A i \in 1..Len(t) : t[i] = "Answer"
    BY <1>8, AnswerSeq
  <2>2. awInbox[p] \in Seq(AwLetter)
    BY <1>1 DEF AwTypeOK
  <2>3. awInbox'[p] = awInbox[p] \o t
    BY <1>6
  <2> HIDE DEF t
  <2>4. \A i \in 1..Len(t) : t[i] \in {"Answer"}
    BY <2>1
  <2>5. awInbox[p] \o t \in Seq(AwLetter)
    BY <2>1, <2>2, ConcatProperties
  <2> QED BY <2>1, <2>2, <2>3, <2>4, <2>5, HitsConcat
<1>10. AwTypeOK'
  <2>1. awInbox' \in [BPid -> Seq(AwLetter)]
    <3>1. awInbox' = [p \in BPid |-> awInbox'[p]]
      BY DEF AwBridge
    <3> QED BY <1>9, <3>1
  <2> QED BY <1>1, <1>5, <2>1 DEF AwTypeOK
<1>11. ASSUME NEW p \in BPid \ bDead' PROVE OneChat(p)'
  <2>1. Cardinality(Gets(p)) \in Nat /\ InBridge(p) = InBridge(p)' + Cardinality(Gets(p)) /\ OneChat(p)
    BY <1>1, <1>7 DEF Flows
  <2>2. AnswersInInbox(p)' = AnswersInInbox(p) + Cardinality(Gets(p))
    BY <1>1, <1>9, <1>10, AnswersHits, AnswersNext
  <2>3. AnswersInInbox(p) \in Nat /\ (InBridge(p)') \in Nat
    BY <1>1, <1>4, AnswersHits, PartsNext DEF InBridge
  <2>4. ASSUME NEW a \in Nat, NEW b \in Nat, NEW g \in Nat PROVE a + (b + g) = (a + g) + b
    BY <2>4
  <2>5. InBridge(p)' + AnswersInInbox(p)' = InBridge(p) + AnswersInInbox(p)
    BY <2>1, <2>2, <2>3, <2>4
  <2> QED BY <1>5, <2>1, <2>5 DEF OneChat
<1> QED BY <1>4, <1>10, <1>11

LEMMA AwSendStep ==
    ASSUME AwInv, NEW p0 \in BPid, NEW m \in AwMessage, AwSend(p0, m)
    PROVE  BridgeInv' /\ AwTypeOK' /\ \A p \in BPid \ bDead' : OneChat(p)'
<1>1. BridgeInv /\ AwTypeOK /\ \A p \in BPid \ bDead : OneChat(p)
  BY OneChatMeans DEF AwInv
<1>2. awState' = awState /\ UNCHANGED bridgeVars /\ awInbox' = [awInbox EXCEPT ![p0] = Append(@, m)]
  BY DEF AwSend
<1>3. BridgeInv'
  BY <1>1, <1>2, BridgeInvNext
<1>4. awInbox[p0] \in Seq(AwLetter) /\ m \in AwLetter /\ m \notin {"Answer"}
  BY <1>1 DEF AwTypeOK, AwLetter, AwMessage
<1>5. Append(awInbox[p0], m) \in Seq(AwLetter)
  BY <1>4, AppendProperties
<1>6. /\ awInbox' \in [BPid -> Seq(AwLetter)] /\ awInbox'[p0] = Append(awInbox[p0], m)
      /\ \A p \in BPid : p # p0 => awInbox'[p] = awInbox[p]
  BY <1>1, <1>2, <1>5 DEF AwTypeOK
<1>7. AwTypeOK'
  BY <1>1, <1>2, <1>6 DEF AwTypeOK
<1>8. HitCount(Append(awInbox[p0], m), {"Answer"}) = HitCount(awInbox[p0], {"Answer"})
  BY <1>4, HitsAppend
<1>9. \A p \in BPid : AnswersInInbox(p)' = AnswersInInbox(p)
  <2> SUFFICES ASSUME NEW p \in BPid PROVE AnswersInInbox(p)' = AnswersInInbox(p)
    OBVIOUS
  <2>1. CASE p = p0
    BY <1>1, <1>6, <1>7, <1>8, <2>1, AnswersHits, AnswersNext
  <2>2. CASE p # p0
    BY <1>6, <2>2 DEF AnswersInInbox
  <2> QED BY <2>1, <2>2
<1>10. bDead' = bDead /\ \A p : InBridge(p)' = InBridge(p)
  BY <1>2 DEF bridgeVars, InBridge, Queued, Unsent, TasksFor, Responses
<1>11. \A p \in BPid \ bDead' : OneChat(p)'
  BY <1>1, <1>2, <1>9, <1>10 DEF OneChat
<1> QED BY <1>3, <1>7, <1>11

\* At the start nothing is asked and nobody is busy.
LEMMA AwInvInit == BridgeInit /\ AwInit => AwInv
<1> SUFFICES ASSUME BridgeInit, AwInit PROVE AwInv
  OBVIOUS
<1>1. BridgeInv /\ PoolOK /\ CidsApart
  BY BridgeInvInit DEF BridgeInv
<1>2. AwTypeOK
  <2>1. << >> \in Seq({"Prompt"}) /\ << >> \in Seq(AwLetter)
    BY EmptySeq
  <2> QED BY <2>1 DEF AwInit, AwTypeOK, AwStateType
<1>3. ASSUME NEW p \in BPid PROVE OneChat(p)
  <2>1. bQueue = << >> /\ bTask = << >> /\ bResponses = << >> /\ bCaller[p] = Idle /\ bLost[p] = {}
    BY DEF BridgeInit
  <2>2. awInbox[p] = << >> /\ ~awState[p].busy
    BY DEF AwInit
  <2>3. Queued(p) = {} /\ Unsent(p) = {} /\ Responses(p) = {} /\ {i \in DOMAIN awInbox[p] : awInbox[p][i] = "Answer"} = {}
    BY <2>1, <2>2 DEF Queued, Unsent, TasksFor, Responses
  <2> QED BY <2>1, <2>2, <2>3, FS_EmptySet DEF OneChat, InBridge, AnswersInInbox
<1> QED BY <1>1, <1>2, <1>3, OneChatMeans DEF AwInv

\* One chat at a time is inductive beside the bridge's own invariant
\* (agent_worker.rs, bridge.rs).
LEMMA AwInvNext == AwInv /\ [AwNext]_<<bridgeVars, awVars>> => AwInv'
<1> SUFFICES ASSUME AwInv, [AwNext]_<<bridgeVars, awVars>> PROVE AwInv'
  OBVIOUS
<1>1. ASSUME BridgeInv', AwTypeOK', \A p \in BPid \ bDead' : OneChat(p)' PROVE AwInv'
  <2>1. (\A p \in BPid \ bDead : OneChat(p))'
    BY <1>1
  <2>2. OneChatAtATime'
    BY <2>1, OneChatMeans, PTL
  <2> QED BY <1>1, <2>2 DEF AwInv
<1>2. CASE \E p \in BPid, m \in AwMessage : AwSend(p, m)
  BY <1>1, <1>2, AwSendStep
<1>3. CASE \E p \in BPid : AwHandle(p)
  BY <1>1, <1>3, AwHandleStep
<1>4. CASE AwBridge
  BY <1>1, <1>4, AwBridgeStep
<1>5. CASE UNCHANGED <<bridgeVars, awVars>>
  <2>1. BridgeInv'
    BY <1>5, BridgeInvNext DEF AwInv
  <2>2. AwTypeOK'
    BY <1>5 DEF AwInv, AwTypeOK, awVars
  <2>3. OneChatAtATime'
    BY <1>5 DEF AwInv, OneChatAtATime, Queued, TasksFor, AnswersInInbox, bridgeVars, awVars
  <2> QED BY <2>1, <2>2, <2>3 DEF AwInv
<1> QED BY <1>2, <1>3, <1>4, <1>5 DEF AwNext

(***************************************************************************)
(* An agent that lives has one chat at a time, for any number of agents,   *)
(* workers and prompts and queues of any size: AgentWorkerBehavior is busy *)
(* exactly while a request of its is with the bridge or its answer is on   *)
(* the way back, also when the bridge refuses, and for ever once the task  *)
(* of its request has panicked.                                            *)
(***************************************************************************)
THEOREM OneChatHolds == AwSpec => []OneChatAtATime
<1>1. AwInv => OneChatAtATime
  BY DEF AwInv
<1> QED BY <1>1, AwInvInit, AwInvNext, PTL DEF AwSpec

(***************************************************************************)
(* The same where TLC checks it: of everything that runs agents, the       *)
(* agent workers are what moves (agent_worker.rs handle_message).          *)
(***************************************************************************)
THEOREM AgentsChatOnce == SuiteSpec => []AgentsOneChat
<1> DEFINE SuiteInv == subject = "agents" => AwInv
<1>1. SuiteInit => SuiteInv
  BY AwInvInit DEF SuiteInit
<1>2. SuiteInv /\ [SuiteNext]_mcaVars => SuiteInv'
  <2> SUFFICES ASSUME SuiteInv, [SuiteNext]_mcaVars, subject' = "agents" PROVE AwInv'
    OBVIOUS
  <2>1. subject = "agents"
    BY DEF SuiteNext, mcaVars
  <2>2. [AwNext]_<<bridgeVars, awVars>>
    BY <2>1 DEF SuiteNext, mcaVars
  <2> QED BY <2>1, <2>2, AwInvNext
<1>3. SuiteInv => AgentsOneChat
  BY DEF AwInv, AgentsOneChat
<1> QED BY <1>1, <1>2, <1>3, PTL DEF SuiteSpec


-----------------------------------------------------------------------------
(* The MCP client.                                                         *)

McSpec == McInit /\ [][McNext]_mcVars

McSessionType == [clients : SUBSET Servers, cache : SUBSET Servers, cached : BOOLEAN, init : BOOLEAN]
McLockType == [Locks -> [writer : McCaller \union {Nobody}, readers : SUBSET McCaller]]
McPlaces == {"new", "init", "connect", "connecting", "cache", "lookup", "calling", "called",
             "hangup", "forget", "reset", "done"}
McTaskType == [op : {"none", "tools", "call", "try", "close", "shutdown"}, at : McPlaces, s : Nat,
               left : SUBSET Servers, rest : SUBSET Nat,
               got : {"none", "nothing", "error", "not initialized", "tools", "server not found", "closed"}]

McTypeOK ==
    /\ mcSession \in Seq(McSessionType) /\ mcLock \in Seq(McLockType)
    /\ Len(mcLock) = Len(mcSession)
    /\ mcTask \in [McCaller -> McTaskType]
    /\ \A p \in DOMAIN mcMap : mcMap[p] \in 1..Len(mcSession)
    /\ \A c \in McCaller : /\ mcTask[c].at \notin {"new", "done"} => mcTask[c].s \in 1..Len(mcSession)
                           /\ mcTask[c].rest \subseteq 1..Len(mcSession)

\* Task c is at one of the places in session s.
Amid(c, s, places) == mcTask[c].s = s /\ mcTask[c].at \in places

\* Who holds which lock of session s.
LocksHeld(s) ==
    /\ \A c \in McCaller :
          /\ mcLock[s]["init"].writer = c <=> Amid(c, s, {"connect", "connecting"})
          /\ mcLock[s]["clients"].writer = c <=> Amid(c, s, {"connecting", "forget", "reset"})
          /\ mcLock[s]["cache"].writer = c <=> Amid(c, s, {"reset"})
          /\ c \in mcLock[s]["clients"].readers <=> Amid(c, s, {"called"})
          /\ c \in mcLock[s]["cache"].readers <=> Amid(c, s, {"lookup"})
          /\ c \notin mcLock[s]["init"].readers
    /\ \A l \in Locks : mcLock[s][l].writer # Nobody => mcLock[s][l].readers = {}

\* What the parts of session s have to do with each other.
SessionParts(s) ==
    LET ss == mcSession[s]
    IN  /\ ss.cache = (IF ss.cached THEN Servers ELSE {})
        /\ ss.cached => ss.init
        /\ ss.init /\ ~ss.cached => \E c \in McCaller : Amid(c, s, {"reset"})
        /\ ss.cached => ss.clients = Servers \/ \E c \in McCaller : Amid(c, s, {"forget"})
        /\ \A c \in McCaller : Amid(c, s, {"connect", "connecting"}) => ~ss.init
        /\ \A c \in McCaller : Amid(c, s, {"connecting"}) => Servers \ mcTask[c].left \subseteq ss.clients
        /\ \A c \in McCaller : Amid(c, s, {"lookup"}) => ss.cached
        /\ \A c \in McCaller : Amid(c, s, {"reset"}) => ~ss.cached

TasksSound ==
    \A c \in McCaller :
        /\ mcTask[c].at = "new" => mcTask[c].got = "none"
        /\ mcTask[c].at \in {"calling", "called"} => mcTask[c].op = "call"
        /\ mcTask[c].op \in {"tools", "try"} => mcTask[c].got # "server not found"

McInv ==
    /\ McTypeOK /\ TasksSound
    /\ \A s \in 1..Len(mcSession) : LocksHeld(s) /\ SessionParts(s)

\* The least of a set of numbers.
LEMMA LeastOf ==
    ASSUME NEW T, T \subseteq Nat, T # {}
    PROVE  Next1(T) \in T
<1> DEFINE R == {ss \in Nat \X Nat : ss[1] < ss[2]}
<1>1. IsWellFoundedOn(R, Nat)
  BY NatLessThanWellFounded DEF OpToRel
<1>2. PICK x \in T : \A y \in T : ~(<<y, x>> \in R)
  BY <1>1, WFMin
<1>3. \A y \in T : ~(y < x)
  BY <1>2
<1>4. \E z \in T : \A y \in T : z <= y
  BY <1>3
<1> QED BY <1>4 DEF Next1

\* The places where a task holds a lock.
Holding == {"connect", "connecting", "lookup", "called", "forget", "reset"}

\* c goes to another place, and nobody else moves.
Goes(c, at) ==
    /\ mcTask' \in [McCaller -> McTaskType]
    /\ \A d \in McCaller : d # c => mcTask'[d] = mcTask[d]
    /\ mcTask'[c].at = at

Keeps(c) == /\ mcTask'[c].s = mcTask[c].s /\ mcTask'[c].op = mcTask[c].op
            /\ mcTask'[c].rest = mcTask[c].rest

LEMMA GoFacts ==
    ASSUME McTypeOK, NEW c \in McCaller, NEW at \in McPlaces, Go(c, at)
    PROVE  Goes(c, at) /\ Keeps(c) /\ mcTask'[c].got = mcTask[c].got /\ mcTask'[c].left = mcTask[c].left
<1>1. mcTask \in [McCaller -> McTaskType] /\ mcTask[c] \in McTaskType
  BY DEF McTypeOK
<1>2. mcTask' = [mcTask EXCEPT ![c] = [mcTask[c] EXCEPT !.at = at]]
  BY DEF Go
<1>3. [mcTask[c] EXCEPT !.at = at] \in McTaskType
  BY <1>1 DEF McTaskType
<1>4. mcTask' \in [McCaller -> McTaskType] /\ mcTask'[c] = [mcTask[c] EXCEPT !.at = at]
  BY <1>1, <1>2, <1>3
<1>5. \A d \in McCaller : d # c => mcTask'[d] = mcTask[d]
  BY <1>1, <1>2
<1>6. /\ mcTask'[c].at = at /\ mcTask'[c].s = mcTask[c].s /\ mcTask'[c].op = mcTask[c].op
      /\ mcTask'[c].rest = mcTask[c].rest /\ mcTask'[c].got = mcTask[c].got /\ mcTask'[c].left = mcTask[c].left
  BY <1>1, <1>4 DEF McTaskType
<1> QED BY <1>4, <1>5, <1>6 DEF Goes, Keeps

LEMMA ReturnFacts ==
    ASSUME McTypeOK, NEW c \in McCaller,
           NEW got \in {"error", "not initialized", "tools", "server not found", "closed"}, Return(c, got)
    PROVE  Goes(c, "done") /\ Keeps(c) /\ mcTask'[c].got = got
<1>1. mcTask \in [McCaller -> McTaskType] /\ mcTask[c] \in McTaskType
  BY DEF McTypeOK
<1> DEFINE new == [mcTask[c] EXCEPT !.at = "done", !.got = got]
<1>2. mcTask' = [mcTask EXCEPT ![c] = new]
  BY <1>1 DEF Return
<1>3. new \in McTaskType
  BY <1>1 DEF McTaskType, McPlaces
<1>4. /\ new.at = "done" /\ new.s = mcTask[c].s /\ new.op = mcTask[c].op
      /\ new.rest = mcTask[c].rest /\ new.got = got
  BY <1>1 DEF McTaskType
<1> HIDE DEF new
<1>5. mcTask' \in [McCaller -> McTaskType] /\ mcTask'[c] = new /\ \A d \in McCaller : d # c => mcTask'[d] = mcTask[d]
  BY <1>1, <1>2, <1>3
<1> QED BY <1>4, <1>5 DEF Goes, Keeps

\* A task that begins.
LEMMA BeginFacts ==
    ASSUME McTypeOK, NEW c \in McCaller, NEW new \in McTaskType, mcTask' = [mcTask EXCEPT ![c] = new]
    PROVE  Goes(c, new.at) /\ mcTask'[c] = new
  BY DEF McTypeOK, Goes

\* The locks of a session.
OtherLocks(s) ==
    /\ mcLock' \in Seq(McLockType) /\ Len(mcLock') = Len(mcLock)
    /\ \A t \in 1..Len(mcLock) : t # s => mcLock'[t] = mcLock[t]

LEMMA LockReplaced ==
    ASSUME McTypeOK, NEW s \in 1..Len(mcSession), NEW new \in McLockType,
           mcLock' = [mcLock EXCEPT ![s] = new]
    PROVE  OtherLocks(s) /\ mcLock'[s] = new
<1>1. mcLock \in Seq(McLockType) /\ s \in 1..Len(mcLock)
  BY DEF McTypeOK
<1>2. mcLock' \in Seq(McLockType) /\ Len(mcLock') = Len(mcLock)
  BY <1>1, ExceptSeq
<1>3. \A j \in 1..Len(mcLock) : mcLock'[j] = IF j = s THEN new ELSE mcLock[j]
  BY <1>1, ExceptSeq
<1> QED BY <1>1, <1>2, <1>3 DEF OtherLocks

LEMMA LockShape ==
    ASSUME McTypeOK, NEW s \in 1..Len(mcSession), NEW l \in Locks
    PROVE  /\ mcLock[s] \in McLockType
           /\ mcLock[s][l] \in [writer : McCaller \union {Nobody}, readers : SUBSET McCaller]
<1>1. mcLock[s] \in McLockType
  BY ElementOfSeq DEF McTypeOK
<1> QED BY <1>1 DEF McLockType

LEMMA WriteFacts ==
    ASSUME McTypeOK, NEW c \in McCaller, NEW s \in 1..Len(mcSession), NEW l \in Locks, Write(c, s, l)
    PROVE  /\ OtherLocks(s)
           /\ \A k \in Locks : k # l => mcLock'[s][k] = mcLock[s][k]
           /\ mcLock'[s][l].writer = c /\ mcLock'[s][l].readers = {}
           /\ mcLock[s][l].writer = Nobody /\ mcLock[s][l].readers = {}
<1> DEFINE one == [mcLock[s][l] EXCEPT !.writer = c]
           new == [mcLock[s] EXCEPT ![l] = one]
<1>1. mcLock[s][l] = Free
  BY DEF Write, CanWrite
<1>2. mcLock[s][l].writer = Nobody /\ mcLock[s][l].readers = {}
  BY <1>1 DEF Free
<1>3. mcLock[s] \in McLockType /\ mcLock[s][l] \in [writer : McCaller \union {Nobody}, readers : SUBSET McCaller]
  BY LockShape
<1>4. one \in [writer : McCaller \union {Nobody}, readers : SUBSET McCaller] /\ one.writer = c /\ one.readers = {}
  BY <1>2, <1>3
<1>5. mcLock' = [mcLock EXCEPT ![s] = new]
  BY DEF Write
<1> HIDE DEF one
<1>6. new \in McLockType /\ new[l] = one /\ \A k \in Locks : k # l => new[k] = mcLock[s][k]
  BY <1>3, <1>4 DEF McLockType
<1> HIDE DEF new
<1>7. OtherLocks(s) /\ mcLock'[s] = new
  BY <1>5, <1>6, LockReplaced
<1> QED BY <1>2, <1>4, <1>6, <1>7

LEMMA ReadFacts ==
    ASSUME McTypeOK, NEW c \in McCaller, NEW s \in 1..Len(mcSession), NEW l \in Locks, Read(c, s, l)
    PROVE  /\ OtherLocks(s)
           /\ \A k \in Locks : k # l => mcLock'[s][k] = mcLock[s][k]
           /\ mcLock'[s][l].writer = Nobody /\ mcLock'[s][l].readers = mcLock[s][l].readers \union {c}
           /\ mcLock[s][l].writer = Nobody
<1> DEFINE one == [mcLock[s][l] EXCEPT !.readers = mcLock[s][l].readers \union {c}]
           new == [mcLock[s] EXCEPT ![l] = one]
<1>2. mcLock[s][l].writer = Nobody
  BY DEF Read, CanRead
<1>3. mcLock[s] \in McLockType /\ mcLock[s][l] \in [writer : McCaller \union {Nobody}, readers : SUBSET McCaller]
  BY LockShape
<1>4. /\ one \in [writer : McCaller \union {Nobody}, readers : SUBSET McCaller]
      /\ one.writer = Nobody /\ one.readers = mcLock[s][l].readers \union {c}
  BY <1>2, <1>3
<1>5. mcLock' = [mcLock EXCEPT ![s] = new]
  BY DEF Read
<1> HIDE DEF one
<1>6. new \in McLockType /\ new[l] = one /\ \A k \in Locks : k # l => new[k] = mcLock[s][k]
  BY <1>3, <1>4 DEF McLockType
<1> HIDE DEF new
<1>7. OtherLocks(s) /\ mcLock'[s] = new
  BY <1>5, <1>6, LockReplaced
<1> QED BY <1>2, <1>4, <1>6, <1>7

LEMMA DropFacts ==
    ASSUME McTypeOK, NEW c \in McCaller, NEW s \in 1..Len(mcSession), DropAll(c, s)
    PROVE  /\ OtherLocks(s)
           /\ \A l \in Locks : /\ mcLock[s][l].writer = c => mcLock'[s][l].writer = Nobody
                               /\ mcLock[s][l].writer # c => mcLock'[s][l].writer = mcLock[s][l].writer
                               /\ mcLock'[s][l].readers = mcLock[s][l].readers \ {c}
<1> DEFINE new == [l \in Locks |->
                 [writer |-> IF mcLock[s][l].writer = c THEN Nobody ELSE mcLock[s][l].writer,
                  readers |-> mcLock[s][l].readers \ {c}]]
<1>1. \A l \in Locks : mcLock[s][l] \in [writer : McCaller \union {Nobody}, readers : SUBSET McCaller]
  BY LockShape
<1>2. mcLock' = [mcLock EXCEPT ![s] = new]
  BY DEF DropAll
<1>3. new \in McLockType
  BY <1>1 DEF McLockType
<1>4. \A l \in Locks : /\ mcLock[s][l].writer = c => new[l].writer = Nobody
                       /\ mcLock[s][l].writer # c => new[l].writer = mcLock[s][l].writer
                       /\ new[l].readers = mcLock[s][l].readers \ {c}
  OBVIOUS
<1> HIDE DEF new
<1>5. OtherLocks(s) /\ mcLock'[s] = new
  BY <1>2, <1>3, LockReplaced
<1> QED BY <1>4, <1>5

LEMMA SessionReplaced ==
    ASSUME McTypeOK, NEW s \in 1..Len(mcSession), NEW new \in McSessionType,
           mcSession' = [mcSession EXCEPT ![s] = new]
    PROVE  /\ mcSession' \in Seq(McSessionType) /\ Len(mcSession') = Len(mcSession)
           /\ mcSession'[s] = new
           /\ \A t \in 1..Len(mcSession) : t # s => mcSession'[t] = mcSession[t]
<1>1. mcSession \in Seq(McSessionType)
  BY DEF McTypeOK
<1>2. mcSession' \in Seq(McSessionType) /\ Len(mcSession') = Len(mcSession)
  BY <1>1, ExceptSeq
<1>3. \A j \in 1..Len(mcSession) : mcSession'[j] = IF j = s THEN new ELSE mcSession[j]
  BY <1>1, ExceptSeq
<1> QED BY <1>2, <1>3

\* Sessions the step of c does not concern.
LEMMA SessionElsewhere ==
    ASSUME NEW s, NEW c \in McCaller, LocksHeld(s), SessionParts(s),
           mcSession'[s] = mcSession[s], mcLock'[s] = mcLock[s],
           \A d \in McCaller : d # c => mcTask'[d] = mcTask[d],
           mcTask[c].at \in Holding => mcTask[c].s # s,
           mcTask'[c].at \in Holding => mcTask'[c].s # s
    PROVE  LocksHeld(s)' /\ SessionParts(s)'
<1>2. \A d \in McCaller :
        /\ Amid(d, s, {"connect", "connecting"})' <=> Amid(d, s, {"connect", "connecting"})
        /\ Amid(d, s, {"connecting", "forget", "reset"})' <=> Amid(d, s, {"connecting", "forget", "reset"})
        /\ Amid(d, s, {"reset"})' <=> Amid(d, s, {"reset"})
        /\ Amid(d, s, {"called"})' <=> Amid(d, s, {"called"})
        /\ Amid(d, s, {"lookup"})' <=> Amid(d, s, {"lookup"})
        /\ Amid(d, s, {"forget"})' <=> Amid(d, s, {"forget"})
        /\ Amid(d, s, {"connecting"})' <=> Amid(d, s, {"connecting"})
  BY DEF Amid, Holding
<1>3. \A d \in McCaller : Amid(d, s, {"connecting"}) => mcTask'[d] = mcTask[d]
  BY DEF Amid, Holding
<1>4. LocksHeld(s)'
  BY <1>2 DEF LocksHeld
<1>5. SessionParts(s)'
  BY <1>2, <1>3 DEF SessionParts
<1> QED BY <1>4, <1>5


\* A step of c in its session.
LEMMA McStep ==
    ASSUME McInv, NEW c \in McCaller, NEW s, s = mcTask[c].s, s \in 1..Len(mcSession), NEW at, Goes(c, at),
           mcSession' \in Seq(McSessionType), Len(mcSession') = Len(mcSession),
           \A t \in 1..Len(mcSession) : t # s => mcSession'[t] = mcSession[t],
           OtherLocks(s),
           \A p \in DOMAIN mcMap' : mcMap'[p] \in 1..Len(mcSession),
           mcTask'[c].s \in 1..Len(mcSession), at \in Holding => mcTask'[c].s = s,
           mcTask'[c].rest \subseteq 1..Len(mcSession),
           LocksHeld(s)', SessionParts(s)',
           at # "new", at \in {"calling", "called"} => mcTask'[c].op = "call",
           mcTask'[c].op \in {"tools", "try"} => mcTask'[c].got # "server not found"
    PROVE  McInv'
<1>1. McTypeOK /\ TasksSound /\ \A t \in 1..Len(mcSession) : LocksHeld(t) /\ SessionParts(t)
  BY DEF McInv
<1>2. Len(mcLock) = Len(mcSession)
  BY <1>1 DEF McTypeOK
<1>3. mcTask'[c].at = at /\ \A d \in McCaller : d # c => mcTask'[d] = mcTask[d]
  BY DEF Goes
<1>4. McTypeOK'
  BY <1>1, <1>2, <1>3 DEF McTypeOK, OtherLocks, Goes
<1>5. TasksSound'
  BY <1>1, <1>3 DEF TasksSound
<1>6. ASSUME NEW t \in 1..Len(mcSession), t # s PROVE LocksHeld(t)' /\ SessionParts(t)'
  <2>1. mcSession'[t] = mcSession[t] /\ mcLock'[t] = mcLock[t]
    BY <1>2, <1>6 DEF OtherLocks
  <2> QED BY <1>1, <1>3, <1>6, <2>1, SessionElsewhere
<1>7. \A t \in 1..Len(mcSession') : LocksHeld(t)' /\ SessionParts(t)'
  BY <1>6
<1> QED BY <1>4, <1>5, <1>7 DEF McInv

LEMMA HeldFacts ==
    ASSUME McInv, NEW c \in McCaller, mcTask[c].at \notin {"new", "done"}
    PROVE  /\ mcTask[c].s \in 1..Len(mcSession) /\ mcTask[c].rest \subseteq 1..Len(mcSession)
           /\ LocksHeld(mcTask[c].s) /\ SessionParts(mcTask[c].s) /\ McTypeOK /\ TasksSound
           /\ mcTask[c] \in McTaskType /\ mcSession[mcTask[c].s] \in McSessionType
           /\ Nobody \notin McCaller /\ mcSession \in Seq(McSessionType)
           /\ \A p \in DOMAIN mcMap : mcMap[p] \in 1..Len(mcSession)
<1>1. McTypeOK /\ mcTask[c].s \in 1..Len(mcSession)
  BY DEF McInv, McTypeOK
<1>2. mcSession[mcTask[c].s] \in McSessionType
  BY <1>1, ElementOfSeq DEF McTypeOK
<1> QED BY <1>1, <1>2, McAssumption DEF McInv, McTypeOK, Nobody

\* Nobody holds a lock that is free.
LEMMA FreeLocks ==
    ASSUME McTypeOK, NEW s \in 1..Len(mcSession), LocksHeld(s), Nobody \notin McCaller
    PROVE  /\ mcLock[s]["clients"].writer = Nobody =>
                \A d \in McCaller : ~Amid(d, s, {"connecting", "forget", "reset"})
           /\ mcLock[s]["init"].writer = Nobody =>
                \A d \in McCaller : ~Amid(d, s, {"connect", "connecting"})
           /\ mcLock[s]["cache"].writer = Nobody => \A d \in McCaller : ~Amid(d, s, {"reset"})
           /\ mcLock[s]["cache"].readers = {} => \A d \in McCaller : ~Amid(d, s, {"lookup"})
  BY DEF LocksHeld

LEMMA LocksDropped ==
    ASSUME McTypeOK, NEW c \in McCaller, NEW s \in 1..Len(mcSession), LocksHeld(s), DropAll(c, s),
           Nobody \notin McCaller,
           \A d \in McCaller : d # c => mcTask'[d] = mcTask[d], mcTask'[c].at \notin Holding
    PROVE  LocksHeld(s)'
<1>1. \A l \in Locks : /\ mcLock[s][l].writer = c => mcLock'[s][l].writer = Nobody
                       /\ mcLock[s][l].writer # c => mcLock'[s][l].writer = mcLock[s][l].writer
                       /\ mcLock'[s][l].readers = mcLock[s][l].readers \ {c}
  BY DropFacts
<1>2. "init" \in Locks /\ "clients" \in Locks /\ "cache" \in Locks
  BY DEF Locks
<1>3. ASSUME NEW d \in McCaller, d # c
      PROVE  /\ mcLock'[s]["init"].writer = d <=> Amid(d, s, {"connect", "connecting"})'
             /\ mcLock'[s]["clients"].writer = d <=> Amid(d, s, {"connecting", "forget", "reset"})'
             /\ mcLock'[s]["cache"].writer = d <=> Amid(d, s, {"reset"})'
             /\ d \in mcLock'[s]["clients"].readers <=> Amid(d, s, {"called"})'
             /\ d \in mcLock'[s]["cache"].readers <=> Amid(d, s, {"lookup"})'
             /\ d \notin mcLock'[s]["init"].readers
  BY <1>1, <1>2, <1>3 DEF LocksHeld, Amid
<1>4. /\ mcLock'[s]["init"].writer # c /\ mcLock'[s]["clients"].writer # c /\ mcLock'[s]["cache"].writer # c
      /\ c \notin mcLock'[s]["clients"].readers /\ c \notin mcLock'[s]["cache"].readers
      /\ c \notin mcLock'[s]["init"].readers
  BY <1>1, <1>2
<1>5. /\ ~Amid(c, s, {"connect", "connecting"})' /\ ~Amid(c, s, {"connecting", "forget", "reset"})'
      /\ ~Amid(c, s, {"reset"})' /\ ~Amid(c, s, {"called"})' /\ ~Amid(c, s, {"lookup"})'
  BY DEF Amid, Holding
<1>6. \A l \in Locks : mcLock'[s][l].writer # Nobody => mcLock'[s][l].readers = {}
  BY <1>1 DEF LocksHeld
<1> QED BY <1>3, <1>4, <1>5, <1>6 DEF LocksHeld

\* The parts of a session that is left as it is by a task that stays away
\* from the places that say something about it.
LEMMA PartsStay ==
    ASSUME NEW c \in McCaller, NEW s, SessionParts(s), mcSession'[s] = mcSession[s],
           \A d \in McCaller : d # c => mcTask'[d] = mcTask[d], mcTask[c].at \notin {"forget", "reset"},
           mcTask'[c].at \notin Holding
    PROVE  SessionParts(s)'
<1>1. \A d \in McCaller : \A X \in {{"reset"}, {"forget"}} : Amid(d, s, X) => Amid(d, s, X)'
  BY DEF Amid
<1>2. \A d \in McCaller : /\ Amid(d, s, {"connect", "connecting"})' => Amid(d, s, {"connect", "connecting"})
                          /\ Amid(d, s, {"connecting"})' => Amid(d, s, {"connecting"}) /\ mcTask'[d] = mcTask[d]
                          /\ Amid(d, s, {"lookup"})' => Amid(d, s, {"lookup"})
                          /\ Amid(d, s, {"reset"})' => Amid(d, s, {"reset"})
  BY DEF Amid, Holding
<1> QED BY <1>1, <1>2 DEF SessionParts


\* A task that begins its operation, and leaves the sessions as they are.
LEMMA McBegins ==
    ASSUME McInv, NEW c \in McCaller, At(c, "new"), NEW new \in McTaskType, mcTask' = [mcTask EXCEPT ![c] = new],
           mcSession' = mcSession, mcLock' = mcLock,
           \A p \in DOMAIN mcMap' : mcMap'[p] \in 1..Len(mcSession),
           new.at \in {"init", "cache", "hangup", "done"},
           new.at # "done" => new.s \in 1..Len(mcSession), new.rest \subseteq 1..Len(mcSession),
           new.got # "server not found"
    PROVE  McInv'
<1>1. McTypeOK /\ TasksSound /\ \A t \in 1..Len(mcSession) : LocksHeld(t) /\ SessionParts(t)
  BY DEF McInv
<1>2. mcTask'[c] = new /\ mcTask' \in [McCaller -> McTaskType] /\ \A d \in McCaller : d # c => mcTask'[d] = mcTask[d]
  BY <1>1, BeginFacts DEF Goes
<1>3. McTypeOK'
  BY <1>1, <1>2 DEF McTypeOK
<1>4. TasksSound'
  BY <1>1, <1>2 DEF TasksSound
<1>5. ASSUME NEW t \in 1..Len(mcSession) PROVE LocksHeld(t)' /\ SessionParts(t)'
  <2>1. mcTask[c].at \notin Holding /\ mcTask'[c].at \notin Holding
    BY <1>2 DEF At, Holding
  <2> QED BY <1>1, <1>2, <2>1, SessionElsewhere
<1> QED BY <1>3, <1>4, <1>5 DEF McInv

LEMMA McTryGet ==
    ASSUME McInv, NEW c \in McCaller, NEW p, TryGet(c, p)
    PROVE  McInv'
<1>1. McTypeOK /\ TasksSound /\ mcTask[c] \in McTaskType /\ mcTask[c].got = "none" /\ mcTask[c].rest \subseteq 1..Len(mcSession)
  BY DEF McInv, McTypeOK, TasksSound, TryGet, At
<1>2. \A q \in DOMAIN mcMap : mcMap[q] \in 1..Len(mcSession)
  BY <1>1 DEF McTypeOK
<1>3. CASE mcMutex = Nobody /\ p \in DOMAIN mcMap
  <2> DEFINE new == [mcTask[c] EXCEPT !.op = "try", !.s = mcMap[p], !.at = "cache"]
  <2>1. mcMap[p] \in Nat
    BY <1>2, <1>3
  <2>2. new \in McTaskType /\ new.at = "cache" /\ new.s = mcMap[p] /\ new.got = "none" /\ new.rest = mcTask[c].rest
    BY <1>1, <2>1 DEF McTaskType, McPlaces
  <2>3. mcTask' = [mcTask EXCEPT ![c] = new]
    BY <1>3 DEF TryGet
  <2> HIDE DEF new
  <2> QED BY <1>1, <1>2, <1>3, <2>2, <2>3, McBegins DEF TryGet
<1>4. CASE ~(mcMutex = Nobody /\ p \in DOMAIN mcMap)
  <2> DEFINE new == [mcTask[c] EXCEPT !.op = "try", !.at = "done", !.got = "nothing"]
  <2>2. new \in McTaskType /\ new.at = "done" /\ new.got = "nothing" /\ new.rest = mcTask[c].rest
    BY <1>1 DEF McTaskType, McPlaces
  <2>3. mcTask' = [mcTask EXCEPT ![c] = new]
    BY <1>4 DEF TryGet
  <2> HIDE DEF new
  <2> QED BY <1>1, <1>2, <2>2, <2>3, McBegins DEF TryGet
<1> QED BY <1>3, <1>4

LEMMA McClose ==
    ASSUME McInv, NEW c \in McCaller, NEW p, Close(c, p)
    PROVE  McInv'
<1>1. McTypeOK /\ TasksSound /\ mcTask[c] \in McTaskType /\ mcTask[c].got = "none" /\ mcTask[c].rest \subseteq 1..Len(mcSession)
  BY DEF McInv, McTypeOK, TasksSound, Close, At
<1>2. \A q \in DOMAIN mcMap : mcMap[q] \in 1..Len(mcSession)
  BY <1>1 DEF McTypeOK
<1>3. CASE p \in DOMAIN mcMap
  <2> DEFINE new == [mcTask[c] EXCEPT !.op = "close", !.s = mcMap[p], !.at = "hangup"]
  <2>1. mcMap[p] \in Nat
    BY <1>2, <1>3
  <2>2. new \in McTaskType /\ new.at = "hangup" /\ new.s = mcMap[p] /\ new.got = "none" /\ new.rest = mcTask[c].rest
    BY <1>1, <2>1 DEF McTaskType, McPlaces
  <2>3. mcTask' = [mcTask EXCEPT ![c] = new]
    BY <1>3 DEF Close
  <2>4. \A q \in DOMAIN mcMap' : mcMap'[q] \in 1..Len(mcSession)
    BY <1>2, <1>3 DEF Close
  <2> HIDE DEF new
  <2> QED BY <1>1, <1>2, <1>3, <2>2, <2>3, <2>4, McBegins DEF Close
<1>4. CASE p \notin DOMAIN mcMap
  <2> DEFINE new == [mcTask[c] EXCEPT !.op = "close", !.at = "done"]
  <2>2. new \in McTaskType /\ new.at = "done" /\ new.got = "none" /\ new.rest = mcTask[c].rest
    BY <1>1 DEF McTaskType, McPlaces
  <2>3. mcTask' = [mcTask EXCEPT ![c] = new]
    BY <1>4 DEF Close
  <2> HIDE DEF new
  <2> QED BY <1>1, <1>2, <1>4, <2>2, <2>3, McBegins DEF Close
<1> QED BY <1>3, <1>4

LEMMA McShutdown ==
    ASSUME McInv, NEW c \in McCaller, ShutdownManager(c)
    PROVE  McInv'
<1>1. McTypeOK /\ TasksSound /\ mcTask[c] \in McTaskType /\ mcTask[c].got = "none"
  BY DEF McInv, McTypeOK, TasksSound, ShutdownManager, At
<1>2. \A q \in DOMAIN mcMap : mcMap[q] \in 1..Len(mcSession)
  BY <1>1 DEF McTypeOK
<1> DEFINE all == {mcMap[p] : p \in DOMAIN mcMap}
<1>3. all \subseteq 1..Len(mcSession)
  BY <1>2
<1>4. PICK s \in all : mcTask' = [mcTask EXCEPT ![c] =
             [mcTask[c] EXCEPT !.op = "shutdown", !.s = s, !.at = "hangup", !.rest = all \ {s}]]
  BY DEF ShutdownManager
<1> HIDE DEF all
<1> DEFINE new == [mcTask[c] EXCEPT !.op = "shutdown", !.s = s, !.at = "hangup", !.rest = all \ {s}]
<1>5. s \in Nat /\ all \ {s} \subseteq Nat /\ all \ {s} \subseteq 1..Len(mcSession) /\ s \in 1..Len(mcSession)
  BY <1>3
<1>6. new \in McTaskType /\ new.at = "hangup" /\ new.s = s /\ new.got = "none" /\ new.rest = all \ {s}
  BY <1>1, <1>5 DEF McTaskType, McPlaces
<1>7. mcTask' = [mcTask EXCEPT ![c] = new]
  BY <1>4
<1> HIDE DEF new
<1> QED BY <1>1, <1>2, <1>5, <1>6, <1>7, McBegins DEF ShutdownManager

LEMMA McOpen ==
    ASSUME McInv, NEW c \in McCaller, NEW p, NEW op \in {"tools", "call"}, Open(c, p, op)
    PROVE  McInv'
<1>1. McTypeOK /\ TasksSound /\ mcTask[c] \in McTaskType /\ mcTask[c].got = "none" /\ mcTask[c].rest \subseteq 1..Len(mcSession)
  BY DEF McInv, McTypeOK, TasksSound, Open, At
<1>2. \A q \in DOMAIN mcMap : mcMap[q] \in 1..Len(mcSession)
  BY <1>1 DEF McTypeOK
<1>3. CASE p \in DOMAIN mcMap
  <2> DEFINE new == [mcTask[c] EXCEPT !.op = op, !.s = mcMap[p], !.at = "init"]
  <2>1. mcMap[p] \in Nat
    BY <1>2, <1>3
  <2>2. new \in McTaskType /\ new.at = "init" /\ new.s = mcMap[p] /\ new.got = "none" /\ new.rest = mcTask[c].rest
    BY <1>1, <2>1 DEF McTaskType, McPlaces
  <2>3. mcTask' = [mcTask EXCEPT ![c] = new]
    BY <1>3 DEF Open
  <2> HIDE DEF new
  <2> QED BY <1>1, <1>2, <1>3, <2>2, <2>3, McBegins DEF Open
<1>4. CASE p \notin DOMAIN mcMap
  <2>1. mcSession \in Seq(McSessionType) /\ mcLock \in Seq(McLockType) /\ Len(mcLock) = Len(mcSession) /\ Len(mcSession) \in Nat
    BY <1>1 DEF McTypeOK
  <2>0. PICK n \in Nat : n = Len(mcSession) + 1
    BY <2>1
  <2> DEFINE new == [mcTask[c] EXCEPT !.op = op, !.s = n, !.at = "init"]
             lock == [l \in Locks |-> Free]
  <2>2. new \in McTaskType /\ new.at = "init" /\ new.s = n /\ new.op = op /\ new.got = "none" /\ new.rest = mcTask[c].rest
    BY <1>1, <2>1 DEF McTaskType, McPlaces
  <2>3. mcTask' = [mcTask EXCEPT ![c] = new]
    BY <1>4, <2>0 DEF Open
  <2>4. mcSession' = Append(mcSession, NewSession) /\ mcLock' = Append(mcLock, lock)
        /\ mcMap' = [q \in DOMAIN mcMap \union {p} |-> IF q = p THEN n ELSE mcMap[q]]
    BY <1>4, <2>0 DEF Open
  <2> HIDE DEF new
  <2>5. NewSession \in McSessionType
    BY DEF NewSession, McSessionType
  <2>6. lock \in McLockType /\ \A l \in Locks : lock[l].writer = Nobody /\ lock[l].readers = {}
    BY DEF McLockType, Free
  <2> HIDE DEF lock
  <2>7. /\ mcSession' \in Seq(McSessionType) /\ Len(mcSession') = n /\ mcSession'[n] = NewSession
        /\ \A t \in 1..Len(mcSession) : mcSession'[t] = mcSession[t]
    BY <2>0, <2>1, <2>4, <2>5, AppendProperties
  <2>8. /\ mcLock' \in Seq(McLockType) /\ Len(mcLock') = n /\ mcLock'[n] = lock
        /\ \A t \in 1..Len(mcSession) : mcLock'[t] = mcLock[t]
    BY <2>0, <2>1, <2>4, <2>6, AppendProperties
  <2>9. mcTask'[c] = new /\ mcTask' \in [McCaller -> McTaskType] /\ \A d \in McCaller : d # c => mcTask'[d] = mcTask[d]
    BY <1>1, <2>2, <2>3, BeginFacts DEF Goes
  <2>10. \A t \in 1..n : t # n => t \in 1..Len(mcSession)
    BY <2>0, <2>1
  <2>11. 1..Len(mcSession) \subseteq 1..n /\ n \in 1..n
    BY <2>0, <2>1
  <2>12. \A q \in DOMAIN mcMap' : mcMap'[q] \in 1..n
    BY <1>2, <2>4, <2>11
  <2>13. McTypeOK'
    BY <1>1, <2>2, <2>7, <2>8, <2>9, <2>11, <2>12 DEF McTypeOK
  <2>14. TasksSound'
    BY <1>1, <2>2, <2>9 DEF TasksSound
  <2>15. mcTask[c].at \notin Holding /\ mcTask'[c].at \notin Holding
    BY <2>2, <2>9 DEF Holding, Open, At
  <2>16. ASSUME NEW t \in 1..Len(mcSession) PROVE LocksHeld(t)' /\ SessionParts(t)'
    <3>1. LocksHeld(t) /\ SessionParts(t)
      BY DEF McInv
    <3> QED BY <2>7, <2>8, <2>9, <2>15, <3>1, SessionElsewhere
  <2>17. \A d \in McCaller : mcTask'[d].s = n => mcTask'[d].at \notin Holding
    <3>1. n \notin 1..Len(mcSession)
      BY <2>0, <2>1
    <3> QED BY <1>1, <2>9, <2>15, <3>1 DEF McTypeOK, Holding
  <2>18. LocksHeld(n)'
    <3>1. "init" \in Locks /\ "clients" \in Locks /\ "cache" \in Locks
      BY DEF Locks
    <3>2. \A d \in McCaller : d # Nobody
      BY McAssumption DEF Nobody
    <3>3. \A l \in Locks : mcLock'[n][l].writer = Nobody /\ mcLock'[n][l].readers = {}
      BY <2>6, <2>8
    <3>4. \A d \in McCaller : /\ ~Amid(d, n, {"connect", "connecting"})' /\ ~Amid(d, n, {"connecting", "forget", "reset"})'
            /\ ~Amid(d, n, {"reset"})' /\ ~Amid(d, n, {"called"})' /\ ~Amid(d, n, {"lookup"})'
      BY <2>17 DEF Amid, Holding
    <3> QED BY <3>1, <3>2, <3>3, <3>4 DEF LocksHeld
  <2>19. SessionParts(n)'
    <3>1. NewSession.clients = {} /\ NewSession.cache = {} /\ ~NewSession.cached /\ ~NewSession.init
      BY DEF NewSession
    <3> QED BY <2>7, <2>17, <3>1 DEF SessionParts, Amid, Holding
  <2> QED BY <2>7, <2>10, <2>13, <2>14, <2>16, <2>18, <2>19 DEF McInv
<1> QED BY <1>3, <1>4


LEMMA LockNames == "init" \in Locks /\ "clients" \in Locks /\ "cache" \in Locks
  BY DEF Locks

LEMMA LockNamesOnly == \A l \in Locks : l \in {"init", "clients", "cache"}
  BY DEF Locks

LEMMA McInitLock ==
    ASSUME McInv, NEW c \in McCaller, InitLock(c)
    PROVE  McInv'
<1>0. PICK s \in Nat : s = mcTask[c].s
  <2>1. mcTask[c].at \notin {"new", "done"}
    BY DEF InitLock, At
  <2> QED BY <2>1, HeldFacts
<1>1. mcTask[c].at = "init"
  BY DEF InitLock, At
<1>2. /\ s \in 1..Len(mcSession) /\ mcTask[c].rest \subseteq 1..Len(mcSession)
      /\ LocksHeld(s) /\ SessionParts(s) /\ McTypeOK /\ TasksSound /\ mcTask[c] \in McTaskType
      /\ Nobody \notin McCaller /\ mcSession \in Seq(McSessionType)
      /\ \A p \in DOMAIN mcMap : mcMap[p] \in 1..Len(mcSession)
  BY <1>0, <1>1, HeldFacts
<1>3. mcLock[s]["init"].writer = Nobody /\ mcLock[s]["init"].readers = {}
  BY <1>0 DEF InitLock, CanWrite, Free
<1>4. mcSession' = mcSession /\ mcMap' = mcMap
  BY DEF InitLock
<1>5. CASE mcSession[s].init
  <2>1. PICK at \in {"calling", "cache"} : Go(c, at) /\ (at = "calling" => mcTask[c].op = "call")
    BY <1>0, <1>5 DEF InitLock
  <2>2. Goes(c, at) /\ Keeps(c) /\ mcTask'[c].got = mcTask[c].got
    BY <1>2, <2>1, GoFacts DEF McPlaces
  <2>3. mcLock' = mcLock /\ OtherLocks(s)
    BY <1>0, <1>2, <1>5 DEF InitLock, OtherLocks, McTypeOK
  <2>4. LocksHeld(s)' /\ SessionParts(s)'
    <3>1. mcTask[c].at \notin Holding /\ mcTask'[c].at \notin Holding
      BY <1>1, <2>1, <2>2 DEF Goes, Holding
    <3> QED BY <1>2, <1>4, <2>2, <2>3, <3>1, SessionElsewhere DEF Goes
  <2>5. at # "new" /\ at \notin Holding
    BY <2>1 DEF Holding
  <2>6. at \in {"calling", "called"} => mcTask'[c].op = "call"
    BY <2>1, <2>2 DEF Keeps
  <2>7. mcTask'[c].op \in {"tools", "try"} => mcTask'[c].got # "server not found"
    BY <1>2, <2>2 DEF Keeps, TasksSound
  <2>8. mcTask'[c].s = s /\ mcTask'[c].rest \subseteq 1..Len(mcSession)
    BY <1>0, <1>2, <2>2 DEF Keeps
  <2> QED BY <1>0, <1>2, <1>4, <2>2, <2>3, <2>4, <2>5, <2>6, <2>7, <2>8, McStep
<1>6. CASE ~mcSession[s].init
  <2>1. Go(c, "connect") /\ Write(c, s, "init")
    BY <1>0, <1>6 DEF InitLock
  <2>2. Goes(c, "connect") /\ Keeps(c) /\ mcTask'[c].got = mcTask[c].got
    BY <1>2, <2>1, GoFacts DEF McPlaces
  <2>3. /\ OtherLocks(s)
        /\ \A k \in Locks : k # "init" => mcLock'[s][k] = mcLock[s][k]
        /\ mcLock'[s]["init"].writer = c /\ mcLock'[s]["init"].readers = {}
    BY <1>2, <2>1, WriteFacts, LockNames
  <2>4. mcTask'[c].s = s /\ mcTask'[c].at = "connect" /\ \A d \in McCaller : d # c => mcTask'[d] = mcTask[d]
    BY <1>0, <2>2 DEF Goes, Keeps
  <2>5. LocksHeld(s)'
    <3>1. mcLock'[s]["clients"] = mcLock[s]["clients"] /\ mcLock'[s]["cache"] = mcLock[s]["cache"]
      BY <2>3, LockNames
    <3>2. ASSUME NEW d \in McCaller
          PROVE  /\ mcLock'[s]["init"].writer = d <=> Amid(d, s, {"connect", "connecting"})'
                 /\ mcLock'[s]["clients"].writer = d <=> Amid(d, s, {"connecting", "forget", "reset"})'
                 /\ mcLock'[s]["cache"].writer = d <=> Amid(d, s, {"reset"})'
                 /\ d \in mcLock'[s]["clients"].readers <=> Amid(d, s, {"called"})'
                 /\ d \in mcLock'[s]["cache"].readers <=> Amid(d, s, {"lookup"})'
                 /\ d \notin mcLock'[s]["init"].readers
      <4>1. CASE d = c
        BY <1>0, <1>1, <1>2, <2>3, <2>4, <3>1, <4>1 DEF LocksHeld, Amid
      <4>2. CASE d # c
        BY <1>2, <1>3, <2>3, <2>4, <3>1, <4>2 DEF LocksHeld, Amid
      <4> QED BY <4>1, <4>2
    <3>3. \A l \in Locks : mcLock'[s][l].writer # Nobody => mcLock'[s][l].readers = {}
      BY <1>2, <2>3 DEF LocksHeld
    <3> QED BY <3>2, <3>3 DEF LocksHeld
  <2>6. SessionParts(s)'
    BY <1>1, <1>2, <1>4, <1>6, <2>4 DEF SessionParts, Amid
  <2>7. mcTask'[c].op \in {"tools", "try"} => mcTask'[c].got # "server not found"
    BY <1>2, <2>2 DEF Keeps, TasksSound
  <2>8. mcTask'[c].rest \subseteq 1..Len(mcSession)
    BY <1>2, <2>2 DEF Keeps
  <2> QED BY <1>0, <1>2, <1>4, <2>2, <2>3, <2>4, <2>5, <2>6, <2>7, <2>8, McStep
<1> QED BY <1>5, <1>6

LEMMA McConnectLock ==
    ASSUME McInv, NEW c \in McCaller, ConnectLock(c)
    PROVE  McInv'
<1>0. PICK s \in Nat : s = mcTask[c].s
  <2>1. mcTask[c].at \notin {"new", "done"}
    BY DEF ConnectLock, At
  <2> QED BY <2>1, HeldFacts
<1>1. mcTask[c].at = "connect"
  BY DEF ConnectLock, At
<1>2. /\ s \in 1..Len(mcSession) /\ mcTask[c].rest \subseteq 1..Len(mcSession)
      /\ LocksHeld(s) /\ SessionParts(s) /\ McTypeOK /\ TasksSound /\ mcTask[c] \in McTaskType
      /\ Nobody \notin McCaller /\ mcSession \in Seq(McSessionType)
      /\ \A p \in DOMAIN mcMap : mcMap[p] \in 1..Len(mcSession)
  BY <1>0, <1>1, HeldFacts
<1>3. mcSession' = mcSession /\ mcMap' = mcMap /\ Write(c, s, "clients")
  BY <1>0 DEF ConnectLock
<1>4. /\ OtherLocks(s)
      /\ \A k \in Locks : k # "clients" => mcLock'[s][k] = mcLock[s][k]
      /\ mcLock'[s]["clients"].writer = c /\ mcLock'[s]["clients"].readers = {}
      /\ mcLock[s]["clients"].writer = Nobody /\ mcLock[s]["clients"].readers = {}
  BY <1>2, <1>3, WriteFacts, LockNames
<1> DEFINE new == [mcTask[c] EXCEPT !.at = "connecting", !.left = Servers]
<1>5. mcTask' = [mcTask EXCEPT ![c] = new]
  BY <1>2 DEF ConnectLock, McTypeOK
<1>6. /\ new \in McTaskType /\ new.at = "connecting" /\ new.left = Servers /\ new.s = s
      /\ new.op = mcTask[c].op /\ new.rest = mcTask[c].rest /\ new.got = mcTask[c].got
  BY <1>0, <1>2 DEF McTaskType, McPlaces
<1> HIDE DEF new
<1>7. Goes(c, "connecting") /\ mcTask'[c] = new
  BY <1>2, <1>5, <1>6, BeginFacts
<1>8. \A d \in McCaller : d # c => mcTask'[d] = mcTask[d]
  BY <1>7 DEF Goes
<1>9. LocksHeld(s)'
  <2>1. mcLock'[s]["init"] = mcLock[s]["init"] /\ mcLock'[s]["cache"] = mcLock[s]["cache"]
    BY <1>4, LockNames
  <2>2. ASSUME NEW d \in McCaller
        PROVE  /\ mcLock'[s]["init"].writer = d <=> Amid(d, s, {"connect", "connecting"})'
               /\ mcLock'[s]["clients"].writer = d <=> Amid(d, s, {"connecting", "forget", "reset"})'
               /\ mcLock'[s]["cache"].writer = d <=> Amid(d, s, {"reset"})'
               /\ d \in mcLock'[s]["clients"].readers <=> Amid(d, s, {"called"})'
               /\ d \in mcLock'[s]["cache"].readers <=> Amid(d, s, {"lookup"})'
               /\ d \notin mcLock'[s]["init"].readers
    <3>1. CASE d = c
      BY <1>0, <1>1, <1>2, <1>4, <1>6, <1>7, <2>1, <3>1 DEF LocksHeld, Amid
    <3>2. CASE d # c
      BY <1>2, <1>4, <1>8, <2>1, <3>2 DEF LocksHeld, Amid
    <3> QED BY <3>1, <3>2
  <2>3. \A l \in Locks : mcLock'[s][l].writer # Nobody => mcLock'[s][l].readers = {}
    BY <1>2, <1>4 DEF LocksHeld
  <2> QED BY <2>2, <2>3 DEF LocksHeld
<1>10. SessionParts(s)'
  BY <1>0, <1>1, <1>2, <1>3, <1>6, <1>7, <1>8 DEF SessionParts, Amid
<1>11. mcTask'[c].op \in {"tools", "try"} => mcTask'[c].got # "server not found"
  BY <1>2, <1>6, <1>7 DEF TasksSound
<1>12. mcTask'[c].s = s /\ mcTask'[c].rest \subseteq 1..Len(mcSession)
  BY <1>2, <1>6, <1>7
<1> QED BY <1>0, <1>2, <1>3, <1>4, <1>7, <1>9, <1>10, <1>11, <1>12, McStep


\* Task c is at work in session s.
Works(c, s) ==
    /\ s = mcTask[c].s /\ s \in 1..Len(mcSession) /\ mcTask[c].rest \subseteq 1..Len(mcSession)
    /\ LocksHeld(s) /\ SessionParts(s) /\ McTypeOK /\ TasksSound /\ mcTask[c] \in McTaskType
    /\ Nobody \notin McCaller /\ mcSession \in Seq(McSessionType) /\ mcSession[s] \in McSessionType
    /\ \A p \in DOMAIN mcMap : mcMap[p] \in 1..Len(mcSession)

LEMMA WorksSomewhere ==
    ASSUME McInv, NEW c \in McCaller, mcTask[c].at \notin {"new", "done"}
    PROVE  \E s \in Nat : Works(c, s)
<1>1. mcTask[c].s \in 1..Len(mcSession) /\ mcTask[c].s \in Nat
  BY HeldFacts
<1>2. Works(c, mcTask[c].s)
  BY HeldFacts DEF Works
<1> QED BY <1>1, <1>2

\* A task that ends a step without locks of the session it was in.
LEMMA McLetsGo ==
    ASSUME McInv, NEW c \in McCaller, NEW s, Works(c, s), NEW at, Goes(c, at), DropAll(c, s), at \notin Holding,
           mcSession' \in Seq(McSessionType), Len(mcSession') = Len(mcSession),
           \A t \in 1..Len(mcSession) : t # s => mcSession'[t] = mcSession[t],
           \A p \in DOMAIN mcMap' : mcMap'[p] \in 1..Len(mcSession),
           mcTask'[c].s \in 1..Len(mcSession), mcTask'[c].rest \subseteq 1..Len(mcSession),
           SessionParts(s)', at # "new", at = "calling" => mcTask'[c].op = "call",
           mcTask'[c].op \in {"tools", "try"} => mcTask'[c].got # "server not found"
    PROVE  McInv'
<1>1. OtherLocks(s)
  BY DropFacts DEF Works
<1>2. at \notin {"called"}
  BY DEF Holding
<1>3. (\A d \in McCaller : d # c => mcTask'[d] = mcTask[d]) /\ mcTask'[c].at = at
  BY DEF Goes
<1>4. LocksHeld(s)'
  BY <1>3, LocksDropped DEF Works
<1>5. s = mcTask[c].s /\ s \in 1..Len(mcSession)
  BY DEF Works
<1> QED BY <1>1, <1>2, <1>4, <1>5, McStep

LEMMA McConnect ==
    ASSUME McInv, NEW c \in McCaller, Connect(c)
    PROVE  McInv'
<1>1. mcTask[c].at = "connecting" /\ mcTask[c].left # {} /\ mcMap' = mcMap
  BY DEF Connect, At
<1>2. PICK s \in Nat : Works(c, s)
  BY <1>1, WorksSomewhere
<1>3. PICK server : server = Next1(mcTask[c].left)
  OBVIOUS
<1>4. mcTask[c].left \subseteq Servers /\ mcTask[c].left \subseteq Nat
  <2>1. mcTask[c].left \subseteq Servers
    BY <1>2 DEF Works, McTaskType
  <2> QED BY <2>1, McAssumption DEF Servers
<1>5. server \in Servers /\ server \in mcTask[c].left
  BY <1>1, <1>3, <1>4, LeastOf
<1>6. Amid(c, s, {"connecting"}) /\ Amid(c, s, {"connect", "connecting"})
  BY <1>1, <1>2 DEF Works, Amid
<1>7. ~mcSession[s].init /\ ~mcSession[s].cached /\ Servers \ mcTask[c].left \subseteq mcSession[s].clients
  BY <1>2, <1>6 DEF Works, SessionParts
<1>8. CASE /\ mcSession' = [mcSession EXCEPT ![s].clients = @ \union {server}]
           /\ mcTask' = [mcTask EXCEPT ![c].left = @ \ {server}] /\ mcLock' = mcLock
  <2> DEFINE ss == [mcSession[s] EXCEPT !.clients = mcSession[s].clients \union {server}]
             new == [mcTask[c] EXCEPT !.left = mcTask[c].left \ {server}]
  <2>1. /\ ss \in McSessionType /\ ss.clients = mcSession[s].clients \union {server} /\ ss.init = mcSession[s].init
        /\ ss.cached = mcSession[s].cached /\ ss.cache = mcSession[s].cache
    BY <1>2, <1>5 DEF Works, McSessionType
  <2>2. /\ new \in McTaskType /\ new.left = mcTask[c].left \ {server} /\ new.at = mcTask[c].at /\ new.s = s
        /\ new.op = mcTask[c].op /\ new.rest = mcTask[c].rest /\ new.got = mcTask[c].got
    BY <1>2 DEF Works, McTaskType
  <2>3. mcSession' = [mcSession EXCEPT ![s] = ss] /\ mcTask' = [mcTask EXCEPT ![c] = new]
    BY <1>8
  <2> HIDE DEF ss, new
  <2>4. /\ mcSession' \in Seq(McSessionType) /\ Len(mcSession') = Len(mcSession)
        /\ mcSession'[s] = ss /\ \A t \in 1..Len(mcSession) : t # s => mcSession'[t] = mcSession[t]
    BY <1>2, <2>1, <2>3, SessionReplaced DEF Works
  <2>5. Goes(c, "connecting") /\ mcTask'[c] = new
    <3>1. new.at = "connecting" /\ new \in McTaskType
      BY <1>1, <2>2
    <3>2. Goes(c, new.at) /\ mcTask'[c] = new
      BY <1>2, <2>3, <3>1, BeginFacts DEF Works
    <3> QED BY <3>1, <3>2
  <2>6. \A d \in McCaller : d # c => mcTask'[d] = mcTask[d]
    BY <2>5 DEF Goes
  <2>7. OtherLocks(s)
    BY <1>2, <1>8 DEF Works, McTypeOK, OtherLocks
  <2>8. LocksHeld(s)'
    <3>1. \A d \in McCaller : \A X : Amid(d, s, X)' <=> Amid(d, s, X)
      BY <1>1, <1>2, <2>2, <2>5, <2>6 DEF Amid, Works
    <3> QED BY <1>2, <1>8, <3>1 DEF Works, LocksHeld
  <2>9. SessionParts(s)'
    <3>1. \A d \in McCaller : d # c => ~Amid(d, s, {"connect", "connecting"})
      BY <1>2, <1>6 DEF Works, LocksHeld
    <3>2. \A d \in McCaller : \A X : Amid(d, s, X)' <=> Amid(d, s, X)
      BY <1>1, <1>2, <2>2, <2>5, <2>6 DEF Amid, Works
    <3>3. \A d \in McCaller : d # c => ~Amid(d, s, {"connecting"})
      BY <3>1 DEF Amid
    <3>4. Servers \ mcTask'[c].left \subseteq mcSession'[s].clients
      BY <1>7, <2>1, <2>2, <2>4, <2>5
    <3>5. SessionParts(s)
      BY <1>2 DEF Works
    <3> QED BY <1>7, <2>1, <2>4, <3>2, <3>3, <3>4, <3>5 DEF SessionParts
  <2>10. mcTask'[c].op \in {"tools", "try"} => mcTask'[c].got # "server not found"
    BY <1>2, <2>2, <2>5 DEF TasksSound, Works
  <2>11. mcTask'[c].s = s /\ mcTask'[c].rest \subseteq 1..Len(mcSession)
    BY <1>2, <2>2, <2>5 DEF Works
  <2> QED BY <1>1, <1>2, <2>4, <2>5, <2>7, <2>8, <2>9, <2>10, <2>11, McStep DEF Works
<1>9. CASE Return(c, "error") /\ DropAll(c, s) /\ mcSession' = mcSession
  <2>1. Goes(c, "done") /\ Keeps(c) /\ mcTask'[c].got = "error"
    BY <1>2, <1>9, ReturnFacts DEF Works
  <2>2. "done" \notin Holding
    BY DEF Holding
  <2>3. SessionParts(s)'
    BY <1>1, <1>2, <1>9, <2>1, <2>2, PartsStay DEF Works, Goes
  <2>4. mcTask'[c].s \in 1..Len(mcSession) /\ mcTask'[c].rest \subseteq 1..Len(mcSession)
    BY <1>2, <2>1 DEF Keeps, Works
  <2>5. \A p \in DOMAIN mcMap' : mcMap'[p] \in 1..Len(mcSession)
    BY <1>1, <1>2 DEF Works
  <2> QED BY <1>2, <1>9, <2>1, <2>2, <2>3, <2>4, <2>5, McLetsGo DEF Works
<1> QED BY <1>2, <1>3, <1>8, <1>9 DEF Connect, Works

LEMMA McCacheTools ==
    ASSUME McInv, NEW c \in McCaller, CacheTools(c)
    PROVE  McInv'
<1>1. mcTask[c].at = "connecting" /\ mcTask[c].left = {} /\ mcMap' = mcMap
  BY DEF CacheTools, At
<1>2. PICK s \in Nat : Works(c, s)
  BY <1>1, WorksSomewhere
<1>3. PICK at \in {"calling", "cache"} : Go(c, at) /\ (at = "calling" => mcTask[c].op = "call")
  BY DEF CacheTools
<1>4. DropAll(c, s) /\ mcLock[s]["cache"].writer = Nobody /\ mcLock[s]["cache"].readers = {}
  BY <1>2 DEF CacheTools, Works, CanWrite, Free
<1> DEFINE ss == [mcSession[s] EXCEPT !.cache = Servers, !.cached = TRUE, !.init = TRUE]
<1>5. /\ ss \in McSessionType /\ ss.clients = mcSession[s].clients /\ ss.init = TRUE
      /\ ss.cached = TRUE /\ ss.cache = Servers
  BY <1>2 DEF Works, McSessionType
<1>6. mcSession' = [mcSession EXCEPT ![s] = ss]
  BY <1>2 DEF CacheTools, Works
<1> HIDE DEF ss
<1>7. /\ mcSession' \in Seq(McSessionType) /\ Len(mcSession') = Len(mcSession)
      /\ mcSession'[s] = ss /\ \A t \in 1..Len(mcSession) : t # s => mcSession'[t] = mcSession[t]
  BY <1>2, <1>5, <1>6, SessionReplaced DEF Works
<1>8. Goes(c, at) /\ Keeps(c) /\ mcTask'[c].got = mcTask[c].got
  BY <1>2, <1>3, GoFacts DEF Works, McPlaces
<1>9. mcTask'[c].at = at /\ at \notin Holding /\ at # "new" /\ \A d \in McCaller : d # c => mcTask'[d] = mcTask[d]
  BY <1>3, <1>8 DEF Goes, Holding
<1>10. Amid(c, s, {"connecting"}) /\ Amid(c, s, {"connect", "connecting"}) /\ Amid(c, s, {"connecting", "forget", "reset"})
  BY <1>1, <1>2 DEF Works, Amid
<1>11. \A d \in McCaller : d # c => ~Amid(d, s, {"connect", "connecting"}) /\ ~Amid(d, s, {"connecting", "forget", "reset"})
  BY <1>2, <1>10 DEF Works, LocksHeld
<1>12. \A d \in McCaller : /\ ~Amid(d, s, {"connect", "connecting"})' /\ ~Amid(d, s, {"connecting"})'
                           /\ ~Amid(d, s, {"forget"})' /\ ~Amid(d, s, {"reset"})'
  BY <1>9, <1>11 DEF Amid, Holding
<1>13. mcSession[s].clients = Servers
  BY <1>1, <1>2, <1>10 DEF Works, SessionParts, McSessionType
<1>14. SessionParts(s)'
  BY <1>5, <1>7, <1>12, <1>13 DEF SessionParts
<1>15. mcTask'[c].s \in 1..Len(mcSession) /\ mcTask'[c].rest \subseteq 1..Len(mcSession)
  BY <1>2, <1>8 DEF Keeps, Works
<1>16. \A p \in DOMAIN mcMap' : mcMap'[p] \in 1..Len(mcSession)
  BY <1>1, <1>2 DEF Works
<1>17. at = "calling" => mcTask'[c].op = "call"
  BY <1>3, <1>8 DEF Keeps
<1>18. mcTask'[c].op \in {"tools", "try"} => mcTask'[c].got # "server not found"
  BY <1>2, <1>8 DEF Keeps, TasksSound, Works
<1> QED BY <1>2, <1>4, <1>7, <1>8, <1>9, <1>14, <1>15, <1>16, <1>17, <1>18, McLetsGo

LEMMA McReadCache ==
    ASSUME McInv, NEW c \in McCaller, ReadCache(c)
    PROVE  McInv'
<1>1. mcTask[c].at = "cache" /\ mcMap' = mcMap /\ mcSession' = mcSession
  BY DEF ReadCache, At
<1>2. PICK s \in Nat : Works(c, s)
  BY <1>1, WorksSomewhere
<1>3. CASE mcSession[s].cached
  <2>1. Read(c, s, "cache") /\ Go(c, "lookup")
    BY <1>2, <1>3 DEF ReadCache, Works
  <2>2. /\ OtherLocks(s)
        /\ \A k \in Locks : k # "cache" => mcLock'[s][k] = mcLock[s][k]
        /\ mcLock'[s]["cache"].writer = Nobody /\ mcLock'[s]["cache"].readers = mcLock[s]["cache"].readers \union {c}
        /\ mcLock[s]["cache"].writer = Nobody
    BY <1>2, <2>1, ReadFacts, LockNames DEF Works
  <2>3. Goes(c, "lookup") /\ Keeps(c) /\ mcTask'[c].got = mcTask[c].got
    BY <1>2, <2>1, GoFacts DEF Works, McPlaces
  <2>4. mcTask'[c].s = s /\ mcTask'[c].at = "lookup" /\ \A d \in McCaller : d # c => mcTask'[d] = mcTask[d]
    BY <1>2, <2>3 DEF Goes, Keeps, Works
  <2>5. LocksHeld(s)'
    <3>1. mcLock'[s]["clients"] = mcLock[s]["clients"] /\ mcLock'[s]["init"] = mcLock[s]["init"]
      BY <2>2, LockNames
    <3>2. ASSUME NEW d \in McCaller
          PROVE  /\ mcLock'[s]["init"].writer = d <=> Amid(d, s, {"connect", "connecting"})'
                 /\ mcLock'[s]["clients"].writer = d <=> Amid(d, s, {"connecting", "forget", "reset"})'
                 /\ mcLock'[s]["cache"].writer = d <=> Amid(d, s, {"reset"})'
                 /\ d \in mcLock'[s]["clients"].readers <=> Amid(d, s, {"called"})'
                 /\ d \in mcLock'[s]["cache"].readers <=> Amid(d, s, {"lookup"})'
                 /\ d \notin mcLock'[s]["init"].readers
      <4>1. CASE d = c
        BY <1>1, <1>2, <2>2, <2>4, <3>1, <4>1 DEF LocksHeld, Amid, Works
      <4>2. CASE d # c
        BY <1>2, <2>2, <2>4, <3>1, <4>2 DEF LocksHeld, Amid, Works
      <4> QED BY <4>1, <4>2
    <3>3. \A l \in Locks : mcLock'[s][l].writer # Nobody => mcLock'[s][l].readers = {}
      BY <1>2, <2>2 DEF LocksHeld, Works
    <3> QED BY <3>2, <3>3 DEF LocksHeld
  <2>6. SessionParts(s)'
    <3>1. SessionParts(s)
      BY <1>2 DEF Works
    <3> QED BY <1>1, <1>3, <2>4, <3>1 DEF SessionParts, Amid
  <2>7. mcTask'[c].op \in {"tools", "try"} => mcTask'[c].got # "server not found"
    BY <1>2, <2>3 DEF Keeps, TasksSound, Works
  <2>8. mcTask'[c].rest \subseteq 1..Len(mcSession)
    BY <1>2, <2>3 DEF Keeps, Works
  <2> QED BY <1>1, <1>2, <2>2, <2>3, <2>4, <2>5, <2>6, <2>7, <2>8, McStep DEF Works
<1>4. CASE ~mcSession[s].cached
  <2>1. Return(c, "not initialized") /\ mcLock' = mcLock
    BY <1>2, <1>4 DEF ReadCache, Works
  <2>2. Goes(c, "done") /\ Keeps(c) /\ mcTask'[c].got = "not initialized"
    BY <1>2, <2>1, ReturnFacts DEF Works
  <2>3. "done" \notin Holding /\ mcTask[c].at \notin Holding
    BY <1>1 DEF Holding
  <2>4. LocksHeld(s)' /\ SessionParts(s)'
    BY <1>1, <1>2, <2>1, <2>2, <2>3, SessionElsewhere DEF Works, Goes
  <2>5. OtherLocks(s)
    BY <1>2, <2>1 DEF Works, McTypeOK, OtherLocks
  <2>6. mcTask'[c].s = s /\ mcTask'[c].rest \subseteq 1..Len(mcSession)
    BY <1>2, <2>2 DEF Keeps, Works
  <2> QED BY <1>1, <1>2, <2>2, <2>3, <2>4, <2>5, <2>6, McStep DEF Works
<1> QED BY <1>3, <1>4


\* The reader of the cache of a session finds all its clients.
LEMMA ClientsThere ==
    ASSUME McInv, NEW c \in McCaller, mcTask[c].at = "lookup", NEW s, Works(c, s), mcLock[s]["clients"].writer = Nobody
    PROVE  mcSession[s].cache \subseteq mcSession[s].clients
<1>1. Amid(c, s, {"lookup"})
  BY DEF Amid, Works
<1>2. mcSession[s].cached /\ SessionParts(s)
  BY <1>1 DEF Works, SessionParts
<1>3. \A d \in McCaller : ~Amid(d, s, {"forget"})
  BY DEF Works, LocksHeld, Amid
<1> QED BY <1>2, <1>3 DEF SessionParts

LEMMA McReadClients ==
    ASSUME McInv, NEW c \in McCaller, ReadClients(c)
    PROVE  McInv'
<1>1. mcTask[c].at = "lookup" /\ mcMap' = mcMap /\ mcSession' = mcSession
  BY DEF ReadClients, At
<1>2. PICK s \in Nat : Works(c, s)
  BY <1>1, WorksSomewhere
<1>3. mcSession[s].cache \subseteq mcSession[s].clients
  BY <1>1, <1>2, ClientsThere DEF ReadClients, CanRead, Works
<1>4. Return(c, "tools") /\ DropAll(c, s)
  BY <1>2, <1>3 DEF ReadClients, Works
<1>5. Goes(c, "done") /\ Keeps(c) /\ mcTask'[c].got = "tools"
  BY <1>2, <1>4, ReturnFacts DEF Works
<1>6. "done" \notin Holding
  BY DEF Holding
<1>7. SessionParts(s)'
  BY <1>1, <1>2, <1>5, <1>6, PartsStay DEF Works, Goes
<1>8. mcTask'[c].s \in 1..Len(mcSession) /\ mcTask'[c].rest \subseteq 1..Len(mcSession)
  BY <1>2, <1>5 DEF Keeps, Works
<1>9. \A p \in DOMAIN mcMap' : mcMap'[p] \in 1..Len(mcSession)
  BY <1>1, <1>2 DEF Works
<1> QED BY <1>1, <1>2, <1>4, <1>5, <1>6, <1>7, <1>8, <1>9, McLetsGo DEF Works

LEMMA McBeginCall ==
    ASSUME McInv, NEW c \in McCaller, BeginCall(c)
    PROVE  McInv'
<1>1. mcTask[c].at = "calling" /\ mcMap' = mcMap /\ mcSession' = mcSession
  BY DEF BeginCall, At
<1>2. PICK s \in Nat : Works(c, s)
  BY <1>1, WorksSomewhere
<1>3. Read(c, s, "clients") /\ Go(c, "called")
  BY <1>2 DEF BeginCall, Works
<1>4. /\ OtherLocks(s)
      /\ \A k \in Locks : k # "clients" => mcLock'[s][k] = mcLock[s][k]
      /\ mcLock'[s]["clients"].writer = Nobody /\ mcLock'[s]["clients"].readers = mcLock[s]["clients"].readers \union {c}
      /\ mcLock[s]["clients"].writer = Nobody
  BY <1>2, <1>3, ReadFacts, LockNames DEF Works
<1>5. Goes(c, "called") /\ Keeps(c) /\ mcTask'[c].got = mcTask[c].got
  BY <1>2, <1>3, GoFacts DEF Works, McPlaces
<1>6. mcTask'[c].s = s /\ mcTask'[c].at = "called" /\ \A d \in McCaller : d # c => mcTask'[d] = mcTask[d]
  BY <1>2, <1>5 DEF Goes, Keeps, Works
<1>7. LocksHeld(s)'
  <2>1. mcLock'[s]["cache"] = mcLock[s]["cache"] /\ mcLock'[s]["init"] = mcLock[s]["init"]
    BY <1>4, LockNames
  <2>2. ASSUME NEW d \in McCaller
        PROVE  /\ mcLock'[s]["init"].writer = d <=> Amid(d, s, {"connect", "connecting"})'
               /\ mcLock'[s]["clients"].writer = d <=> Amid(d, s, {"connecting", "forget", "reset"})'
               /\ mcLock'[s]["cache"].writer = d <=> Amid(d, s, {"reset"})'
               /\ d \in mcLock'[s]["clients"].readers <=> Amid(d, s, {"called"})'
               /\ d \in mcLock'[s]["cache"].readers <=> Amid(d, s, {"lookup"})'
               /\ d \notin mcLock'[s]["init"].readers
    <3>1. CASE d = c
      BY <1>1, <1>2, <1>4, <1>6, <2>1, <3>1 DEF LocksHeld, Amid, Works
    <3>2. CASE d # c
      BY <1>2, <1>4, <1>6, <2>1, <3>2 DEF LocksHeld, Amid, Works
    <3> QED BY <3>1, <3>2
  <2>3. \A l \in Locks : mcLock'[s][l].writer # Nobody => mcLock'[s][l].readers = {}
    BY <1>2, <1>4 DEF LocksHeld, Works
  <2> QED BY <2>2, <2>3 DEF LocksHeld
<1>8. SessionParts(s)'
  <2>1. SessionParts(s)
    BY <1>2 DEF Works
  <2> QED BY <1>1, <1>6, <2>1 DEF SessionParts, Amid
<1>9. mcTask'[c].op = "call"
  BY <1>1, <1>2, <1>5 DEF Keeps, TasksSound, Works
<1>10. mcTask'[c].rest \subseteq 1..Len(mcSession)
  BY <1>2, <1>5 DEF Keeps, Works
<1> QED BY <1>1, <1>2, <1>4, <1>5, <1>6, <1>7, <1>8, <1>9, <1>10, McStep DEF Works

LEMMA McEndCall ==
    ASSUME McInv, NEW c \in McCaller, EndCall(c)
    PROVE  McInv'
<1>1. mcTask[c].at = "called" /\ mcMap' = mcMap /\ mcSession' = mcSession
  BY DEF EndCall, At
<1>2. PICK s \in Nat : Works(c, s)
  BY <1>1, WorksSomewhere
<1>3. PICK got \in {"tools", "server not found"} : Return(c, got)
  BY DEF EndCall
<1>4. DropAll(c, s)
  BY <1>2 DEF EndCall, Works
<1>5. Goes(c, "done") /\ Keeps(c)
  BY <1>2, <1>3, ReturnFacts DEF Works
<1>6. "done" \notin Holding
  BY DEF Holding
<1>7. SessionParts(s)'
  BY <1>1, <1>2, <1>5, <1>6, PartsStay DEF Works, Goes
<1>8. mcTask'[c].s \in 1..Len(mcSession) /\ mcTask'[c].rest \subseteq 1..Len(mcSession)
  BY <1>2, <1>5 DEF Keeps, Works
<1>9. \A p \in DOMAIN mcMap' : mcMap'[p] \in 1..Len(mcSession)
  BY <1>1, <1>2 DEF Works
<1>10. mcTask'[c].op = "call"
  BY <1>1, <1>2, <1>5 DEF Keeps, TasksSound, Works
<1> QED BY <1>1, <1>2, <1>4, <1>5, <1>6, <1>7, <1>8, <1>9, <1>10, McLetsGo DEF Works

LEMMA McHangUp ==
    ASSUME McInv, NEW c \in McCaller, HangUp(c)
    PROVE  McInv'
<1>1. mcTask[c].at = "hangup" /\ mcMap' = mcMap
  BY DEF HangUp, At
<1>2. PICK s \in Nat : Works(c, s)
  BY <1>1, WorksSomewhere
<1>3. Write(c, s, "clients") /\ Go(c, "forget")
  BY <1>2 DEF HangUp, Works
<1>4. /\ OtherLocks(s)
      /\ \A k \in Locks : k # "clients" => mcLock'[s][k] = mcLock[s][k]
      /\ mcLock'[s]["clients"].writer = c /\ mcLock'[s]["clients"].readers = {}
      /\ mcLock[s]["clients"].writer = Nobody /\ mcLock[s]["clients"].readers = {}
  BY <1>2, <1>3, WriteFacts, LockNames DEF Works
<1>5. Goes(c, "forget") /\ Keeps(c) /\ mcTask'[c].got = mcTask[c].got
  BY <1>2, <1>3, GoFacts DEF Works, McPlaces
<1>6. mcTask'[c].s = s /\ mcTask'[c].at = "forget" /\ \A d \in McCaller : d # c => mcTask'[d] = mcTask[d]
  BY <1>2, <1>5 DEF Goes, Keeps, Works
<1> DEFINE ss == [mcSession[s] EXCEPT !.clients = {}]
<1>7. /\ ss \in McSessionType /\ ss.clients = {} /\ ss.init = mcSession[s].init
      /\ ss.cached = mcSession[s].cached /\ ss.cache = mcSession[s].cache
  BY <1>2 DEF Works, McSessionType
<1>8. mcSession' = [mcSession EXCEPT ![s] = ss]
  BY <1>2 DEF HangUp, Works
<1> HIDE DEF ss
<1>9. /\ mcSession' \in Seq(McSessionType) /\ Len(mcSession') = Len(mcSession)
      /\ mcSession'[s] = ss /\ \A t \in 1..Len(mcSession) : t # s => mcSession'[t] = mcSession[t]
  BY <1>2, <1>7, <1>8, SessionReplaced DEF Works
<1>10. LocksHeld(s)'
  <2>1. mcLock'[s]["cache"] = mcLock[s]["cache"] /\ mcLock'[s]["init"] = mcLock[s]["init"]
    BY <1>4, LockNames
  <2>2. ASSUME NEW d \in McCaller
        PROVE  /\ mcLock'[s]["init"].writer = d <=> Amid(d, s, {"connect", "connecting"})'
               /\ mcLock'[s]["clients"].writer = d <=> Amid(d, s, {"connecting", "forget", "reset"})'
               /\ mcLock'[s]["cache"].writer = d <=> Amid(d, s, {"reset"})'
               /\ d \in mcLock'[s]["clients"].readers <=> Amid(d, s, {"called"})'
               /\ d \in mcLock'[s]["cache"].readers <=> Amid(d, s, {"lookup"})'
               /\ d \notin mcLock'[s]["init"].readers
    <3>1. CASE d = c
      BY <1>1, <1>2, <1>4, <1>6, <2>1, <3>1 DEF LocksHeld, Amid, Works
    <3>2. CASE d # c
      BY <1>2, <1>4, <1>6, <2>1, <3>2 DEF LocksHeld, Amid, Works
    <3> QED BY <3>1, <3>2
  <2>3. \A l \in Locks : mcLock'[s][l].writer # Nobody => mcLock'[s][l].readers = {}
    BY <1>2, <1>4 DEF LocksHeld, Works
  <2> QED BY <2>2, <2>3 DEF LocksHeld
<1>11. SessionParts(s)'
  <2>1. SessionParts(s)
    BY <1>2 DEF Works
  <2>2. \A d \in McCaller : ~Amid(d, s, {"connecting", "forget", "reset"})
    BY <1>2, <1>4 DEF Works, LocksHeld
  <2>3. Amid(c, s, {"forget"})'
    BY <1>6 DEF Amid
  <2>4. \A d \in McCaller : ~Amid(d, s, {"reset"}) /\ ~Amid(d, s, {"connecting"})
    BY <2>2 DEF Amid
  <2>5. \A d \in McCaller : /\ ~Amid(d, s, {"reset"})' /\ ~Amid(d, s, {"connecting"})'
                            /\ Amid(d, s, {"connect", "connecting"})' => Amid(d, s, {"connect", "connecting"})
                            /\ Amid(d, s, {"lookup"})' => Amid(d, s, {"lookup"})
    BY <1>6, <2>4 DEF Amid
  <2> QED BY <1>7, <1>9, <2>1, <2>3, <2>4, <2>5 DEF SessionParts
<1>12. mcTask'[c].op \in {"tools", "try"} => mcTask'[c].got # "server not found"
  BY <1>2, <1>5 DEF Keeps, TasksSound, Works
<1>13. mcTask'[c].rest \subseteq 1..Len(mcSession)
  BY <1>2, <1>5 DEF Keeps, Works
<1> QED BY <1>1, <1>2, <1>4, <1>5, <1>6, <1>9, <1>10, <1>11, <1>12, <1>13, McStep DEF Works

LEMMA McForgetTools ==
    ASSUME McInv, NEW c \in McCaller, ForgetTools(c)
    PROVE  McInv'
<1>1. mcTask[c].at = "forget" /\ mcMap' = mcMap
  BY DEF ForgetTools, At
<1>2. PICK s \in Nat : Works(c, s)
  BY <1>1, WorksSomewhere
<1>3. Write(c, s, "cache") /\ Go(c, "reset")
  BY <1>2 DEF ForgetTools, Works
<1>4. /\ OtherLocks(s)
      /\ \A k \in Locks : k # "cache" => mcLock'[s][k] = mcLock[s][k]
      /\ mcLock'[s]["cache"].writer = c /\ mcLock'[s]["cache"].readers = {}
      /\ mcLock[s]["cache"].writer = Nobody /\ mcLock[s]["cache"].readers = {}
  BY <1>2, <1>3, WriteFacts, LockNames DEF Works
<1>5. Goes(c, "reset") /\ Keeps(c) /\ mcTask'[c].got = mcTask[c].got
  BY <1>2, <1>3, GoFacts DEF Works, McPlaces
<1>6. mcTask'[c].s = s /\ mcTask'[c].at = "reset" /\ \A d \in McCaller : d # c => mcTask'[d] = mcTask[d]
  BY <1>2, <1>5 DEF Goes, Keeps, Works
<1> DEFINE ss == [mcSession[s] EXCEPT !.cache = {}, !.cached = FALSE]
<1>7. /\ ss \in McSessionType /\ ss.clients = mcSession[s].clients /\ ss.init = mcSession[s].init
      /\ ss.cached = FALSE /\ ss.cache = {}
  BY <1>2 DEF Works, McSessionType
<1>8. mcSession' = [mcSession EXCEPT ![s] = ss]
  BY <1>2 DEF ForgetTools, Works
<1> HIDE DEF ss
<1>9. /\ mcSession' \in Seq(McSessionType) /\ Len(mcSession') = Len(mcSession)
      /\ mcSession'[s] = ss /\ \A t \in 1..Len(mcSession) : t # s => mcSession'[t] = mcSession[t]
  BY <1>2, <1>7, <1>8, SessionReplaced DEF Works
<1>10. LocksHeld(s)'
  <2>1. mcLock'[s]["clients"] = mcLock[s]["clients"] /\ mcLock'[s]["init"] = mcLock[s]["init"]
    BY <1>4, LockNames
  <2>2. ASSUME NEW d \in McCaller
        PROVE  /\ mcLock'[s]["init"].writer = d <=> Amid(d, s, {"connect", "connecting"})'
               /\ mcLock'[s]["clients"].writer = d <=> Amid(d, s, {"connecting", "forget", "reset"})'
               /\ mcLock'[s]["cache"].writer = d <=> Amid(d, s, {"reset"})'
               /\ d \in mcLock'[s]["clients"].readers <=> Amid(d, s, {"called"})'
               /\ d \in mcLock'[s]["cache"].readers <=> Amid(d, s, {"lookup"})'
               /\ d \notin mcLock'[s]["init"].readers
    <3>1. CASE d = c
      BY <1>1, <1>2, <1>4, <1>6, <2>1, <3>1 DEF LocksHeld, Amid, Works
    <3>2. CASE d # c
      BY <1>2, <1>4, <1>6, <2>1, <3>2 DEF LocksHeld, Amid, Works
    <3> QED BY <3>1, <3>2
  <2>3. \A l \in Locks : mcLock'[s][l].writer # Nobody => mcLock'[s][l].readers = {}
    BY <1>2, <1>4 DEF LocksHeld, Works
  <2> QED BY <2>2, <2>3 DEF LocksHeld
<1>11. SessionParts(s)'
  <2>1. SessionParts(s)
    BY <1>2 DEF Works
  <2>2. \A d \in McCaller : ~Amid(d, s, {"lookup"})
    BY <1>2, <1>4 DEF Works, LocksHeld
  <2>3. Amid(c, s, {"reset"})'
    BY <1>6 DEF Amid
  <2>4. Amid(c, s, {"connecting", "forget", "reset"})
    BY <1>1, <1>2 DEF Amid, Works
  <2>5. \A d \in McCaller : d # c => ~Amid(d, s, {"connecting", "forget", "reset"})
    BY <1>2, <2>4 DEF Works, LocksHeld
  <2>6. \A d \in McCaller : /\ ~Amid(d, s, {"connecting"})' /\ ~Amid(d, s, {"lookup"})'
                            /\ Amid(d, s, {"connect", "connecting"})' => Amid(d, s, {"connect", "connecting"})
    BY <1>1, <1>6, <2>2, <2>5 DEF Amid
  <2> QED BY <1>7, <1>9, <2>1, <2>3, <2>6 DEF SessionParts
<1>12. mcTask'[c].op \in {"tools", "try"} => mcTask'[c].got # "server not found"
  BY <1>2, <1>5 DEF Keeps, TasksSound, Works
<1>13. mcTask'[c].rest \subseteq 1..Len(mcSession)
  BY <1>2, <1>5 DEF Keeps, Works
<1> QED BY <1>1, <1>2, <1>4, <1>5, <1>6, <1>9, <1>10, <1>11, <1>12, <1>13, McStep DEF Works

LEMMA McReset ==
    ASSUME McInv, NEW c \in McCaller, ResetSession(c)
    PROVE  McInv'
<1>1. mcTask[c].at = "reset"
  BY DEF ResetSession, At
<1>2. PICK s \in Nat : Works(c, s)
  BY <1>1, WorksSomewhere
<1>3. DropAll(c, s)
  BY <1>2 DEF ResetSession, Works
<1> DEFINE ss == [mcSession[s] EXCEPT !.init = FALSE]
<1>4. /\ ss \in McSessionType /\ ss.clients = mcSession[s].clients /\ ss.init = FALSE
      /\ ss.cached = mcSession[s].cached /\ ss.cache = mcSession[s].cache
  BY <1>2 DEF Works, McSessionType
<1>5. mcSession' = [mcSession EXCEPT ![s] = ss]
  BY <1>2 DEF ResetSession, Works
<1> HIDE DEF ss
<1>6. /\ mcSession' \in Seq(McSessionType) /\ Len(mcSession') = Len(mcSession)
      /\ mcSession'[s] = ss /\ \A t \in 1..Len(mcSession) : t # s => mcSession'[t] = mcSession[t]
  BY <1>2, <1>4, <1>5, SessionReplaced DEF Works
<1>7. Amid(c, s, {"reset"}) /\ Amid(c, s, {"connecting", "forget", "reset"})
  BY <1>1, <1>2 DEF Amid, Works
<1>8. ~mcSession[s].cached
  BY <1>2, <1>7 DEF Works, SessionParts
<1>9. \A d \in McCaller : d # c => ~Amid(d, s, {"connecting", "forget", "reset"})
  BY <1>2, <1>7 DEF Works, LocksHeld
<1>10. ASSUME NEW at, Goes(c, at), at \notin Holding PROVE SessionParts(s)'
  <2>1. SessionParts(s)
    BY <1>2 DEF Works
  <2>2. \A d \in McCaller : /\ ~Amid(d, s, {"connecting"})' /\ ~Amid(d, s, {"reset"})'
                            /\ Amid(d, s, {"connect", "connecting"})' => Amid(d, s, {"connect", "connecting"})
                            /\ Amid(d, s, {"lookup"})' => Amid(d, s, {"lookup"})
    BY <1>9, <1>10 DEF Goes, Amid, Holding
  <2> QED BY <1>4, <1>6, <1>8, <2>1, <2>2 DEF SessionParts
<1>11. CASE mcTask[c].rest # {}
  <2>1. PICK next \in mcTask[c].rest : mcTask' = [mcTask EXCEPT ![c] =
               [mcTask[c] EXCEPT !.s = next, !.at = "hangup", !.rest = mcTask[c].rest \ {next}]]
    BY <1>11 DEF ResetSession
  <2> DEFINE new == [mcTask[c] EXCEPT !.s = next, !.at = "hangup", !.rest = mcTask[c].rest \ {next}]
  <2>2. next \in 1..Len(mcSession) /\ next \in Nat /\ mcTask[c].rest \ {next} \subseteq 1..Len(mcSession)
    BY <1>2 DEF Works
  <2>3. /\ new \in McTaskType /\ new.s = next /\ new.at = "hangup" /\ new.rest = mcTask[c].rest \ {next}
        /\ new.op = mcTask[c].op /\ new.got = mcTask[c].got
    BY <1>2, <2>2 DEF Works, McTaskType, McPlaces
  <2>4. mcTask' = [mcTask EXCEPT ![c] = new]
    BY <2>1
  <2> HIDE DEF new
  <2>5. Goes(c, new.at) /\ mcTask'[c] = new
    BY <1>2, <2>3, <2>4, BeginFacts DEF Works
  <2>6. Goes(c, "hangup") /\ "hangup" \notin Holding
    BY <2>3, <2>5 DEF Holding
  <2>7. SessionParts(s)'
    BY <1>10, <2>6
  <2>8. \A p \in DOMAIN mcMap' : mcMap'[p] \in 1..Len(mcSession)
    BY <1>2, <1>11 DEF Works, ResetSession
  <2>9. mcTask'[c].op \in {"tools", "try"} => mcTask'[c].got # "server not found"
    BY <1>2, <2>3, <2>5 DEF TasksSound, Works
  <2>10. mcTask'[c].s \in 1..Len(mcSession) /\ mcTask'[c].rest \subseteq 1..Len(mcSession)
    BY <2>2, <2>3, <2>5
  <2> QED BY <1>2, <1>3, <1>6, <2>6, <2>7, <2>8, <2>9, <2>10, McLetsGo
<1>12. CASE mcTask[c].rest = {}
  <2>1. Return(c, "closed")
    BY <1>12 DEF ResetSession
  <2>2. Goes(c, "done") /\ Keeps(c) /\ mcTask'[c].got = "closed"
    BY <1>2, <2>1, ReturnFacts DEF Works
  <2>3. "done" \notin Holding
    BY DEF Holding
  <2>4. SessionParts(s)'
    BY <1>10, <2>2, <2>3
  <2>5. \A p \in DOMAIN mcMap' : mcMap'[p] \in 1..Len(mcSession)
    BY <1>2, <1>12 DEF Works, ResetSession
  <2>6. mcTask'[c].s \in 1..Len(mcSession) /\ mcTask'[c].rest \subseteq 1..Len(mcSession)
    BY <1>2, <2>2 DEF Keeps, Works
  <2> QED BY <1>2, <1>3, <1>6, <2>2, <2>3, <2>4, <2>5, <2>6, McLetsGo
<1> QED BY <1>11, <1>12

LEMMA McInvEnough == McInv => SessionsSound
<1> SUFFICES ASSUME McInv PROVE SessionsSound
  OBVIOUS
<1>1. ToolsHaveServers
  BY DEF McInv, TasksSound, ToolsHaveServers
<1>2. ASSUME NEW s \in DOMAIN mcSession
      PROVE  /\ ~Locked(s, "clients") /\ ~Locked(s, "cache") => mcSession[s].cache \subseteq mcSession[s].clients
             /\ (\A l \in Locks : ~Locked(s, l)) => (mcSession[s].init <=> mcSession[s].cached)
  <2>1. s \in 1..Len(mcSession) /\ LocksHeld(s) /\ SessionParts(s) /\ mcSession[s] \in McSessionType
    <3>1. mcSession \in Seq(McSessionType)
      BY DEF McInv, McTypeOK
    <3>2. s \in 1..Len(mcSession) /\ mcSession[s] \in McSessionType
      BY <3>1, ElementOfSeq
    <3> QED BY <3>2 DEF McInv
  <2>2. \A d \in McCaller : d # Nobody
    BY McAssumption DEF Nobody
  <2>3. ASSUME ~Locked(s, "clients") PROVE \A d \in McCaller : ~Amid(d, s, {"forget"}) /\ ~Amid(d, s, {"reset"})
    BY <2>1, <2>2, <2>3 DEF Locked, LocksHeld, Amid
  <2>4. ASSUME ~Locked(s, "clients") PROVE mcSession[s].cache \subseteq mcSession[s].clients
    BY <2>1, <2>3, <2>4 DEF SessionParts
  <2>5. ASSUME ~Locked(s, "clients") PROVE mcSession[s].init <=> mcSession[s].cached
    BY <2>1, <2>3, <2>5 DEF SessionParts, McSessionType
  <2> QED BY <2>4, <2>5, LockNames
<1> QED BY <1>1, <1>2 DEF SessionsSound, SessionConsistent

(***************************************************************************)
(* Every session of the MCP client stays in one piece (mcp_client.rs,      *)
(* initialize(), get_cached_tools(), call_tool() and disconnect()): for    *)
(* any number of agents, servers, sessions and concurrent callers, whoever *)
(* may read the cached tools finds a client for each of them, a session    *)
(* nobody has locked is initialized exactly when its tools are cached, and *)
(* no lookup ends in ServerNotFound.                                       *)
(***************************************************************************)
THEOREM SessionsAreSound == McSpec => []SessionsSound
<1>1. McInit => McInv
  <2> SUFFICES ASSUME McInit PROVE McInv
    OBVIOUS
  <2>1. /\ mcSession = << >> /\ mcLock = << >> /\ mcMap = << >>
        /\ mcTask = [c \in McCaller |-> [op |-> "none", at |-> "new",
                                     s |-> 0, left |-> {}, rest |-> {}, got |-> "none"]]
    BY DEF McInit
  <2>2. mcTask \in [McCaller -> McTaskType]
    BY <2>1 DEF McTaskType, McPlaces
  <2>3. \A c \in McCaller : mcTask[c].at = "new" /\ mcTask[c].got = "none" /\ mcTask[c].rest = {}
    BY <2>1
  <2>4. McTypeOK
    BY <2>1, <2>2, <2>3 DEF McTypeOK
  <2>5. 1..Len(mcSession) = {}
    BY <2>1
  <2>6. TasksSound
    BY <2>1, <2>3 DEF TasksSound
  <2> QED BY <2>4, <2>5, <2>6 DEF McInv
<1>2. McInv /\ [McNext]_mcVars => McInv'
  <2> SUFFICES ASSUME McInv, [McNext]_mcVars PROVE McInv'
    OBVIOUS
  <2>1. CASE UNCHANGED mcVars
    <3>1. mcMap' = mcMap /\ mcSession' = mcSession /\ mcLock' = mcLock /\ mcTask' = mcTask
      BY <2>1 DEF mcVars
    <3>2. McTypeOK' /\ TasksSound'
      BY <3>1 DEF McInv, McTypeOK, TasksSound
    <3>3. \A c, t, X : Amid(c, t, X)' <=> Amid(c, t, X)
      BY <3>1 DEF Amid
    <3>4. ASSUME NEW t \in 1..Len(mcSession) PROVE LocksHeld(t)' /\ SessionParts(t)'
      <4>1. LocksHeld(t) /\ SessionParts(t)
        BY DEF McInv
      <4>2. LocksHeld(t)'
        BY <3>1, <3>3, <4>1 DEF LocksHeld
      <4>3. SessionParts(t)'
        BY <3>1, <3>3, <4>1 DEF SessionParts
      <4> QED BY <4>2, <4>3
    <3> QED BY <3>1, <3>2, <3>4 DEF McInv
  <2>2. CASE McNext
    <3>1. PICK c \in McCaller :
             \/ \E p \in McAgent :
                   \/ \E op \in {"tools", "call"} \cap McOps : Open(c, p, op)
                   \/ "try" \in McOps /\ TryGet(c, p)
                   \/ "close" \in McOps /\ Close(c, p)
             \/ "shutdown" \in McOps /\ ShutdownManager(c)
             \/ InitLock(c) \/ ConnectLock(c) \/ Connect(c) \/ CacheTools(c)
             \/ ReadCache(c) \/ ReadClients(c) \/ BeginCall(c) \/ EndCall(c)
             \/ HangUp(c) \/ ForgetTools(c) \/ ResetSession(c)
      BY <2>2 DEF McNext
    <3>2. ASSUME NEW p \in McAgent, NEW op \in {"tools", "call"} \cap McOps, Open(c, p, op) PROVE McInv'
      BY <3>2, McOpen
    <3>3. ASSUME NEW p \in McAgent, TryGet(c, p) \/ Close(c, p) PROVE McInv'
      BY <3>3, McTryGet, McClose
    <3>4. CASE ShutdownManager(c) \/ InitLock(c) \/ ConnectLock(c) \/ Connect(c) \/ CacheTools(c)
      BY <3>4, McShutdown, McInitLock, McConnectLock, McConnect, McCacheTools
    <3>5. CASE ReadCache(c) \/ ReadClients(c) \/ BeginCall(c) \/ EndCall(c)
      BY <3>5, McReadCache, McReadClients, McBeginCall, McEndCall
    <3>6. CASE HangUp(c) \/ ForgetTools(c) \/ ResetSession(c)
      BY <3>6, McHangUp, McForgetTools, McReset
    <3> QED BY <3>1, <3>2, <3>3, <3>4, <3>5, <3>6
  <2> QED BY <2>1, <2>2
<1> QED BY <1>1, <1>2, McInvEnough, PTL DEF McSpec
=============================================================================
