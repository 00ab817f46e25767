---------------------------- MODULE ServicesProofs ----------------------------
(***************************************************************************)
(* Proofs about the stores and services around the scheduler, each for any *)
(* value of its constants: the sessions and tool calls of the MCP and HTTP *)
(* servers, hot code and releases, the event manager, tables in memory and *)
(* checkpoint stores, clusters, swarms, chats, and the second daemon.      *)
(***************************************************************************)
EXTENDS MCServices, StoreProofs, DataProofs, FiniteSetTheorems, SequenceTheorems, TLAPS

-----------------------------------------------------------------------------
(* The MCP server.                                                         *)

McpServerSpec == McpInit /\ [][McpServerNext]_mVars

McpInv ==
    /\ mClock \in Nat /\ mSid \in Nat /\ mIds \in Nat
    /\ 0 \notin DOMAIN mSessions /\ DOMAIN mSessions \subseteq {mSid}

LEMMA OneInitialized ==
    ASSUME McpInv, HandleInitialize
    PROVE  DOMAIN mSessions' = {SessionFor} /\ mSid' = SessionFor /\ SessionFor \in Nat \ {0}
<1>1. SessionFor \in Nat \ {0} /\ DOMAIN mSessions \subseteq {SessionFor}
  BY DEF McpInv, SessionFor
<1>2. DOMAIN mSessions' = {SessionFor} /\ mSessions'[SessionFor] = Initialized
  BY <1>1 DEF HandleInitialize, With
<1>3. Initialized.created = mClock /\ mClock \in Nat
  BY DEF Initialized, McpInv
<1>4. \E s \in DOMAIN mSessions' : \A r \in DOMAIN mSessions' : mSessions'[r].created <= mSessions'[s].created
  BY <1>2, <1>3
<1>5. MostRecent(mSessions') \in DOMAIN mSessions'
  BY <1>4 DEF MostRecent
<1> QED BY <1>1, <1>2, <1>5 DEF HandleInitialize

LEMMA McpInvNext == McpInv /\ [McpServerNext]_mVars => McpInv'
<1> SUFFICES ASSUME McpInv, [McpServerNext]_mVars PROVE McpInv'
  OBVIOUS
<1>1. CASE HandleInitialize
  <2>1. mIds' \in Nat /\ mClock' \in Nat
    BY <1>1, OneInitialized DEF HandleInitialize, McpInv
  <2> QED BY <1>1, <2>1, OneInitialized DEF McpInv
<1>2. CASE Refuse
  BY <1>2 DEF Refuse, McpInv, Purged, Fresh
<1>3. CASE McpTick
  BY <1>3 DEF McpTick, McpInv
<1>4. ASSUME NEW code, Malformed(code) PROVE McpInv'
  BY <1>4 DEF Malformed, McpInv
<1>5. ASSUME NEW method, NEW p, Serve(method, p) PROVE McpInv'
  BY <1>5 DEF Serve, McpInv, Purged, Fresh, With
<1>6. CASE UNCHANGED mVars
  BY <1>6 DEF mVars, McpInv
<1> QED BY <1>1, <1>2, <1>3, <1>4, <1>5, <1>6 DEF McpServerNext

(***************************************************************************)
(* The stdio listener of the MCP server stays in its own session and leaks *)
(* none (mcp_server.rs, handle_initialize() and get_session(), and         *)
(* mcp_stdio.rs): for any timeout and any number of sessions, however      *)
(* often the client initializes and the session expires.                   *)
(***************************************************************************)
THEOREM ListenerKeepsSession == McpServerSpec => []ListenerOwnsSession
<1>1. McpInit => McpInv
  BY DEF McpInit, McpInv
<1>2. McpInv => ListenerOwnsSession
  <2> SUFFICES ASSUME McpInv PROVE ListenerOwnsSession
    OBVIOUS
  <2>1. DOMAIN mSessions \subseteq {mSid}
    BY DEF McpInv
  <2>2. DOMAIN mSessions = {} \/ DOMAIN mSessions = {mSid}
    BY <2>1
  <2>3. Cardinality({}) = 0 /\ Cardinality({mSid}) = 1
    BY FS_EmptySet, FS_Singleton
  <2>4. Cardinality(DOMAIN mSessions) <= 1
    BY <2>2, <2>3
  <2> QED BY <2>1, <2>4 DEF ListenerOwnsSession
<1> QED BY <1>1, <1>2, McpInvNext, PTL DEF McpServerSpec

-----------------------------------------------------------------------------
(* Hot code.                                                               *)

HotSpec == HotInit /\ [][HotNext]_hcVars

\* The versions a process ran are versions that have a factory.
HotInv ==
    /\ hcVersions \in Seq(HotVersion)
    /\ \A p \in Tracked : hcRuns[p] \in HotVersion /\ HasFactory(hcRuns[p])
    /\ DOMAIN hcHistory \subseteq Tracked
    /\ \A p \in DOMAIN hcHistory :
          /\ hcHistory[p] \in Seq(HotVersion) /\ hcHistory[p] # << >>
          /\ \A k \in DOMAIN hcHistory[p] : HasFactory(hcHistory[p][k])

LEMMA LastIn ==
    ASSUME NEW S, NEW s \in Seq(S), s # << >>
    PROVE  Last(s) = s[Len(s)] /\ Len(s) \in DOMAIN s /\ Last(s) \in S
  BY DEF Last

LEMMA HotInvNext == HotInv /\ [HotNext]_hcVars => HotInv'
<1> SUFFICES ASSUME HotInv, [HotNext]_hcVars PROVE HotInv'
  OBVIOUS
<1>0. ASSUME hcVersions' = hcVersions PROVE \A v : HasFactory(v)' <=> HasFactory(v)
  BY <1>0 DEF HasFactory, Range
<1>1. ASSUME NEW v \in HotVersion, Register(v) PROVE HotInv'
  <2>1. hcVersions' \in Seq(HotVersion)
    BY <1>1 DEF Register, HotInv
  <2>2. \A w : HasFactory(w) => HasFactory(w)'
    <3> SUFFICES ASSUME NEW w, HasFactory(w) PROVE HasFactory(w)'
      OBVIOUS
    <3>1. PICK k \in DOMAIN hcVersions : hcVersions[k] = w
      BY DEF HasFactory, Range
    <3>2. k \in DOMAIN hcVersions' /\ hcVersions'[k] = w
      BY <1>1, <3>1 DEF Register, HotInv
    <3> QED BY <3>2 DEF HasFactory, Range
  <2> QED BY <1>1, <2>1, <2>2 DEF Register, HotInv, Tracked
<1>2. ASSUME NEW p \in HotPid, RemoveProcess(p) PROVE HotInv'
  BY <1>0, <1>2 DEF RemoveProcess, HotInv, Tracked, Without
<1>3. ASSUME NEW p \in HotPid, RollbackProcess(p) PROVE HotInv'
  <2>1. p \in DOMAIN hcHistory /\ hcHistory[p] \in Seq(HotVersion) /\ hcHistory[p] # << >>
    BY <1>3 DEF RollbackProcess, PastOf, HotInv
  <2>2. PICK v \in HotVersion : v = Last(hcHistory[p])
    BY <2>1, LastIn
  <2>3. HasFactory(v) /\ hcRuns' = With(hcRuns, p, v) /\ p \in Tracked
    BY <1>3, <2>1, <2>2 DEF RollbackProcess, PastOf
  <2> QED BY <1>0, <1>3, <2>3 DEF RollbackProcess, HotInv, Tracked, With
<1>4. ASSUME NEW p \in HotPid, NEW v \in HotVersion, Track(p, v) PROVE HotInv'
  BY <1>0, <1>4 DEF Track, HotInv, Tracked, With
<1>5. ASSUME NEW p \in HotPid, NEW v \in HotVersion, UpgradeProcess(p, v) PROVE HotInv'
  <2> DEFINE past == Append(PastOf(p), hcRuns[p])
  <2>1. PastOf(p) \in Seq(HotVersion) /\ \A k \in DOMAIN PastOf(p) : HasFactory(PastOf(p)[k])
    BY DEF PastOf, HotInv
  <2>2. p \in Tracked /\ hcRuns[p] \in HotVersion /\ HasFactory(hcRuns[p])
    BY <1>5 DEF UpgradeProcess, HotInv
  <2>3. past \in Seq(HotVersion) /\ past # << >> /\ \A k \in DOMAIN past : HasFactory(past[k])
    BY <2>1, <2>2
  <2>4. hcHistory' = With(hcHistory, p, past) /\ hcRuns' = With(hcRuns, p, v) /\ hcVersions' = hcVersions /\ HasFactory(v)
    BY <1>5 DEF UpgradeProcess
  <2> HIDE DEF past
  <2> QED BY <1>0, <2>2, <2>3, <2>4 DEF HotInv, Tracked, With
<1>6. CASE UNCHANGED hcVars
  BY <1>0, <1>6 DEF hcVars, HotInv, Tracked
<1> QED BY <1>1, <1>2, <1>3, <1>4, <1>5, <1>6 DEF HotNext

LEMMA HotInvEnough == HotInv => RollbackPossible
  BY LastIn DEF HotInv, RollbackPossible

LEMMA HotInvInit == HotInit => HotInv
  BY DEF HotInit, HotInv, Tracked

(***************************************************************************)
(* The version a process would be rolled back to can be built              *)
(* (hot_code.rs, prepare_rollback() and remove_process()), whatever was    *)
(* registered, upgraded, rolled back and removed.                          *)
(***************************************************************************)
THEOREM RollbacksPossible == HotSpec => []RollbackPossible
  BY HotInvInit, HotInvNext, HotInvEnough, PTL DEF HotSpec


-----------------------------------------------------------------------------
(* The chat bridge of the second daemon.                                   *)

LlmSpec == LlmInit /\ [][LlmNext]_lVars

\* The count is past a multiple of CheckpointEvery by more than what is not saved.
Counting(a) ==
    IF lPhase[a] = "idle" THEN lSince[a] <= lCount[a] % CheckpointEvery
    ELSE lPhase[a] # "stopped" =>
           lCount[a] > 0 /\ lSince[a] > 0 /\ lSince[a] - 1 <= (lCount[a] - 1) % CheckpointEvery

LlmTypes ==
    /\ lPhase \in [LlmAgent -> {"idle", "chat", "poll", "handled", "stopped"}]
    /\ lId \in [LlmAgent -> Nat] /\ lGot \in [LlmAgent -> Nat] /\ lSubmitted \in Nat
    /\ lCount \in [LlmAgent -> Nat] /\ lLength \in [LlmAgent -> Nat]
    /\ lSaved \in [LlmAgent -> Nat] /\ lSince \in [LlmAgent -> Nat]

LlmInv ==
    LlmTypes /\ ChatAnswersOwn /\ \A a \in LlmAgent : Counting(a)

\* What comes after a count.
LEMMA ModNext ==
    ASSUME NEW k \in Nat \ {0}, NEW n \in Nat
    PROVE  /\ n % k \in 0..(k - 1)
           /\ (n + 1) % k = 0 \/ (n + 1) % k = (n % k) + 1
<1> DEFINE q == n \div k
           r == n % k
           u == (n + 1) \div k
           t == (n + 1) % k
<1>1. q \in Int /\ r \in 0..(k - 1) /\ n = k * q + r
  OBVIOUS
<1>2. u \in Int /\ t \in 0..(k - 1) /\ n + 1 = k * u + t
  OBVIOUS
<1> HIDE DEF q, r, u, t
<1>3. k * (u - q) = 1 + r - t
  BY <1>1, <1>2
<1>4. u - q \in {0, 1}
  <2>1. CASE u - q < 0
    <3>1. k * (u - q) <= k * (-1)
      BY <1>1, <1>2, <2>1
    <3> QED BY <1>1, <1>2, <1>3, <3>1
  <2>2. CASE u - q > 1
    <3>1. k * (u - q) >= k * 2
      BY <1>1, <1>2, <2>2
    <3> QED BY <1>1, <1>2, <1>3, <3>1
  <2> QED BY <1>1, <1>2, <2>1, <2>2
<1>5. t = 0 \/ t = r + 1
  <2>1. CASE u - q = 0
    BY <1>1, <1>2, <1>3, <2>1
  <2>2. CASE u - q = 1
    BY <1>1, <1>2, <1>3, <2>2
  <2> QED BY <1>4, <2>1, <2>2
<1> QED BY <1>1, <1>5 DEF r, t


LEMMA CountedStep ==
    ASSUME LlmInv, NEW a \in LlmAgent, NEW added \in 0..1, Counted(a, added),
           NEW ph \in {"chat", "handled"}, lPhase' = [lPhase EXCEPT ![a] = ph],
           UNCHANGED <<lId, lSubmitted, lGot, lSaved>>
    PROVE  LlmInv'
<1>1. LlmTypes'
  BY DEF LlmInv, LlmTypes, Counted
<1>2. ChatAnswersOwn'
  BY DEF LlmInv, ChatAnswersOwn
<1>3. ASSUME NEW b \in LlmAgent, b # a PROVE Counting(b)'
  <2>1. lPhase'[b] = lPhase[b] /\ lSince'[b] = lSince[b] /\ lCount'[b] = lCount[b]
    BY <1>3 DEF LlmInv, LlmTypes, Counted
  <2>2. Counting(b)
    BY DEF LlmInv
  <2> QED BY <2>1, <2>2 DEF Counting
<1>4. Counting(a)'
  <2>1. /\ lPhase'[a] = ph /\ lSince'[a] = lSince[a] + 1 /\ lCount'[a] = lCount[a] + 1
        /\ lSince[a] \in Nat /\ lCount[a] \in Nat
    BY DEF LlmInv, LlmTypes, Counted
  <2>2. lPhase[a] = "idle" /\ lSince[a] <= lCount[a] % CheckpointEvery
    BY DEF Counted, LlmInv, Counting
  <2>3. lSince'[a] - 1 = lSince[a] /\ lCount'[a] - 1 = lCount[a] /\ lCount'[a] > 0 /\ lSince'[a] > 0
    BY <2>1
  <2> QED BY <2>1, <2>2, <2>3 DEF Counting
<1> QED BY <1>1, <1>2, <1>3, <1>4 DEF LlmInv

\* A step that counts no message.
LEMMA CountingStays ==
    ASSUME LlmInv, NEW a \in LlmAgent, NEW ph \in {"poll", "handled", "stopped"},
           lPhase' = [lPhase EXCEPT ![a] = ph], ph = "stopped" \/ lPhase[a] \in {"chat", "poll"},
           lCount' = lCount, lSince' = lSince
    PROVE  \A b \in LlmAgent : Counting(b)'
<1> SUFFICES ASSUME NEW b \in LlmAgent PROVE Counting(b)'
  OBVIOUS
<1>1. Counting(b)
  BY DEF LlmInv
<1>2. lPhase' \in [LlmAgent -> {"idle", "chat", "poll", "handled", "stopped"}] /\ lPhase'[a] = ph
      /\ (b # a => lPhase'[b] = lPhase[b])
  BY DEF LlmInv, LlmTypes
<1> QED BY <1>1, <1>2 DEF Counting

LEMMA SubmitStep ==
    ASSUME LlmInv, NEW a \in LlmAgent, SubmitChat(a)
    PROVE  LlmInv'
<1>1. lPhase' = [lPhase EXCEPT ![a] = "poll"] \/ lPhase' = [lPhase EXCEPT ![a] = "handled"]
  BY DEF SubmitChat
<1>2. \A b \in LlmAgent : Counting(b)'
  BY <1>1, CountingStays DEF SubmitChat
<1>3. LlmTypes'
  BY DEF LlmInv, LlmTypes, SubmitChat
<1>4. ChatAnswersOwn'
  BY DEF LlmInv, LlmTypes, ChatAnswersOwn, SubmitChat
<1> QED BY <1>2, <1>3, <1>4 DEF LlmInv

LEMMA PollStep ==
    ASSUME LlmInv, NEW a \in LlmAgent, Poll(a)
    PROVE  LlmInv'
<1>1. CASE lId[a] \in Range(lResponses)
  <2>1. /\ lPhase' = [lPhase EXCEPT ![a] = "handled"] /\ lGot' = [lGot EXCEPT ![a] = lId[a]]
        /\ lLength' = [lLength EXCEPT ![a] = @ + 1] /\ UNCHANGED <<lId, lSubmitted, lCount, lSaved, lSince>>
        /\ lPhase[a] = "poll"
    BY <1>1 DEF Poll, Return
  <2>2. \A b \in LlmAgent : Counting(b)'
    BY <2>1, CountingStays
  <2>3. LlmTypes'
    BY <2>1 DEF LlmInv, LlmTypes
  <2>4. ChatAnswersOwn'
    BY <2>1 DEF LlmInv, LlmTypes, ChatAnswersOwn
  <2> QED BY <2>2, <2>3, <2>4 DEF LlmInv
<1>2. CASE lId[a] \notin Range(lResponses)
  BY <1>2 DEF Poll, LlmInv, LlmTypes, ChatAnswersOwn, Counting
<1> QED BY <1>1, <1>2

LEMMA AfterStep ==
    ASSUME LlmInv, NEW a \in LlmAgent, AfterMessage(a)
    PROVE  LlmInv'
<1>1. LlmTypes' /\ ChatAnswersOwn'
  BY DEF AfterMessage, LlmInv, LlmTypes, ChatAnswersOwn
<1>2. ASSUME NEW b \in LlmAgent, b # a PROVE Counting(b)'
  <2>1. lPhase'[b] = lPhase[b] /\ lSince'[b] = lSince[b] /\ lCount'[b] = lCount[b]
    BY <1>2 DEF LlmInv, LlmTypes, AfterMessage
  <2>2. Counting(b)
    BY DEF LlmInv
  <2> QED BY <2>1, <2>2 DEF Counting
<1>3. Counting(a)'
  <2>1. PICK n \in Nat : n = lCount[a] - 1
    BY DEF LlmInv, LlmTypes, Counting, AfterMessage
  <2>2. lCount[a] = n + 1 /\ lSince[a] \in Nat /\ lSince[a] - 1 <= n % CheckpointEvery /\ lPhase'[a] = "idle" /\ lCount' = lCount
    BY <2>1 DEF LlmInv, LlmTypes, Counting, AfterMessage
  <2>3. CheckpointEvery \in Nat \ {0}
    BY LlmAssumption
  <2>4. n % CheckpointEvery \in 0..(CheckpointEvery - 1) /\ ((n + 1) % CheckpointEvery = 0 \/ (n + 1) % CheckpointEvery = (n % CheckpointEvery) + 1)
    BY <2>3, ModNext
  <2>5. CASE ShouldCheckpoint(a)
    <3>1. lSince'[a] = 0
      BY <2>5 DEF AfterMessage, LlmInv, LlmTypes
    <3>2. (n + 1) % CheckpointEvery >= 0
      BY <2>4
    <3> QED BY <2>2, <3>1, <3>2 DEF Counting
  <2>6. CASE ~ShouldCheckpoint(a)
    <3>1. (n + 1) % CheckpointEvery # 0 /\ lSince'[a] = lSince[a]
      BY <2>2, <2>6 DEF AfterMessage, ShouldCheckpoint
    <3>2. lSince[a] <= (n + 1) % CheckpointEvery
      BY <2>2, <2>4, <3>1
    <3> QED BY <2>2, <3>1, <3>2 DEF Counting
  <2> QED BY <2>5, <2>6
<1> QED BY <1>1, <1>2, <1>3 DEF LlmInv

LEMMA RestartStep ==
    ASSUME LlmInv, LlmRestart
    PROVE  LlmInv'
<1>1. LlmTypes' /\ ChatAnswersOwn'
  BY DEF LlmRestart, LlmInv, LlmTypes, ChatAnswersOwn, Agents
<1>2. ASSUME NEW a \in LlmAgent PROVE Counting(a)'
  <2>1. lPhase'[a] = "idle" /\ lSince'[a] = 0 /\ lCount'[a] = lSaved[a] /\ lSaved[a] \in Nat
    BY DEF LlmRestart, Agents, LlmInv, LlmTypes
  <2>2. lSaved[a] % CheckpointEvery \in 0..(CheckpointEvery - 1)
    BY <2>1, LlmAssumption, ModNext
  <2>3. 0 <= lSaved[a] % CheckpointEvery
    BY <2>2
  <2> QED BY <2>1, <2>3 DEF Counting
<1> QED BY <1>1, <1>2 DEF LlmInv

(***************************************************************************)
(* What an agent of the second daemon keeps of its conversation is its own *)
(* and recent (llm_bridge.rs, chat(), and agent_adapter.rs,                *)
(* should_checkpoint() and init()): for any number of agents and any       *)
(* interval, chat() returns the answer to its own request, and a crash     *)
(* loses fewer than CheckpointEvery messages, although a restored agent    *)
(* counts on from the length of its history.                               *)
(***************************************************************************)
THEOREM ConversationsKept == LlmSpec => []ConversationKept
<1>1. LlmInit => LlmInv
  <2> SUFFICES ASSUME LlmInit PROVE LlmInv
    OBVIOUS
  <2>1. LlmTypes /\ ChatAnswersOwn
    BY DEF LlmInit, LlmTypes, ChatAnswersOwn, Agents
  <2>2. 0 % CheckpointEvery \in 0..(CheckpointEvery - 1)
    BY LlmAssumption, ModNext
  <2>3. 0 <= 0 % CheckpointEvery
    BY <2>2
  <2>4. \A a \in LlmAgent : lPhase[a] = "idle" /\ lSince[a] = 0 /\ lCount[a] = 0
    BY DEF LlmInit, Agents
  <2> QED BY <2>1, <2>3, <2>4 DEF LlmInv, Counting
<1>2. LlmInv /\ [LlmNext]_lVars => LlmInv'
  <2> SUFFICES ASSUME LlmInv, [LlmNext]_lVars PROVE LlmInv'
    OBVIOUS
  <2>1. ASSUME NEW a \in LlmAgent, HandleText(a) PROVE LlmInv'
    <3>1. Counted(a, 1) /\ 1 \in 0..1 /\ lPhase' = [lPhase EXCEPT ![a] = "chat"]
      BY <2>1 DEF HandleText
    <3>2. UNCHANGED <<lId, lSubmitted, lGot, lSaved>>
      BY <2>1 DEF HandleText
    <3> QED BY <3>1, <3>2, CountedStep
  <2>2. ASSUME NEW a \in LlmAgent, NEW added \in 0..1, HandleOther(a, added) PROVE LlmInv'
    BY <2>2, CountedStep DEF HandleOther
  <2>3. ASSUME NEW a \in LlmAgent, HandleStop(a) \/ GiveUp(a) PROVE LlmInv'
    <3>1. \A b \in LlmAgent : Counting(b)'
      BY <2>3, CountingStays DEF HandleStop, GiveUp
    <3>2. LlmTypes'
      BY <2>3 DEF HandleStop, GiveUp, LlmInv, LlmTypes
    <3>3. ChatAnswersOwn'
      BY <2>3 DEF HandleStop, GiveUp, LlmInv, ChatAnswersOwn
    <3> QED BY <3>1, <3>2, <3>3 DEF LlmInv
  <2>4. ASSUME NEW id, BridgeAnswers(id) PROVE LlmInv'
    BY <2>4 DEF BridgeAnswers, LlmInv, LlmTypes, ChatAnswersOwn, Counting
  <2>5. CASE UNCHANGED lVars
    BY <2>5 DEF lVars, LlmInv, LlmTypes, ChatAnswersOwn, Counting
  <2> QED BY <2>1, <2>2, <2>3, <2>4, <2>5, SubmitStep, PollStep, AfterStep, RestartStep DEF LlmNext
<1>3. LlmInv => ConversationKept
  <2> SUFFICES ASSUME LlmInv, NEW a \in LlmAgent, lPhase[a] = "idle" PROVE lSince[a] < CheckpointEvery
    BY DEF ConversationKept, LossBounded, LlmInv
  <2>1. lSince[a] \in Nat /\ lCount[a] \in Nat /\ lSince[a] <= lCount[a] % CheckpointEvery
    BY DEF LlmInv, LlmTypes, Counting
  <2>2. lCount[a] % CheckpointEvery \in 0..(CheckpointEvery - 1) /\ CheckpointEvery \in Nat
    BY <2>1, LlmAssumption, ModNext
  <2> QED BY <2>1, <2>2
<1> QED BY <1>1, <1>2, <1>3, PTL DEF LlmSpec


-----------------------------------------------------------------------------
(* Tables in memory.                                                       *)

EtsSpec == EtsInit /\ [][EtsNext]_eVars

EtsTableOK(id) ==
    LET t == eTables[id]
    IN  /\ t = [access |-> t.access, owner |-> t.owner, heir |-> t.heir, data |-> t.data]
        /\ t.owner \in EPid /\ t.heir \in EPid \union {NoHeir} /\ t.access \in AccessType
        /\ t.owner \in eDead => id \in eLate
        /\ t.heir # NoHeir => t.owner \notin eDead
        /\ IsFiniteSet(DOMAIN t.data) /\ Cardinality(DOMAIN t.data) <= MaxTableSize

EtsInv ==
    /\ eNextId \in Nat /\ \A id \in DOMAIN eTables : id \in Nat /\ id < eNextId
    /\ IsFiniteSet(DOMAIN eTables) /\ Cardinality(DOMAIN eTables) <= MaxTables
    /\ \A id \in DOMAIN eTables : EtsTableOK(id)

LEMMA EtsCreateStep ==
    ASSUME EtsInv, NEW p \in EtsAlive, NEW access \in AccessType, NEW heir \in EPid \union {NoHeir},
           EtsCreate(access, p, heir)
    PROVE  EtsInv'
<1> DEFINE new == [access |-> access, owner |-> p, heir |-> heir, data |-> << >>]
<1>1. /\ DOMAIN eTables' = DOMAIN eTables \union {eNextId} /\ eNextId \notin DOMAIN eTables
      /\ eTables'[eNextId] = new /\ \A id \in DOMAIN eTables : eTables'[id] = eTables[id]
      /\ eDead' = eDead /\ eLate' = eLate /\ eNextId' = eNextId + 1 /\ Cardinality(DOMAIN eTables) < MaxTables
  BY DEF EtsCreate, EtsInv
<1>2. IsFiniteSet(DOMAIN eTables') /\ Cardinality(DOMAIN eTables') <= MaxTables
  <2>1. IsFiniteSet(DOMAIN eTables)
    BY DEF EtsInv
  <2>2. /\ IsFiniteSet(DOMAIN eTables \union {eNextId})
        /\ Cardinality(DOMAIN eTables \union {eNextId}) = Cardinality(DOMAIN eTables) + 1
    BY <1>1, <2>1, FS_AddElement
  <2>3. Cardinality(DOMAIN eTables) \in Nat
    BY <2>1, FS_CardinalityType
  <2> QED BY <1>1, <2>2, <2>3, EtsAssumption
<1>3. /\ new = [access |-> new.access, owner |-> new.owner, heir |-> new.heir, data |-> new.data]
      /\ new.owner = p /\ new.heir = heir /\ new.access = access /\ new.data = << >>
  OBVIOUS
<1> HIDE DEF new
<1>4. p \in EPid /\ p \notin eDead
  BY DEF EtsAlive
<1>5. IsFiniteSet(DOMAIN << >>) /\ Cardinality(DOMAIN << >>) <= MaxTableSize
  <2>1. DOMAIN << >> = {}
    OBVIOUS
  <2> QED BY <2>1, FS_EmptySet, EtsAssumption
<1>6. \A id \in DOMAIN eTables' : EtsTableOK(id)'
  <2> SUFFICES ASSUME NEW id \in DOMAIN eTables' PROVE EtsTableOK(id)'
    OBVIOUS
  <2>1. CASE id \in DOMAIN eTables
    <3>1. EtsTableOK(id)
      BY <2>1 DEF EtsInv
    <3> QED BY <1>1, <2>1, <3>1 DEF EtsTableOK
  <2>2. CASE id = eNextId
    <3>1. eTables'[id] = new
      BY <1>1, <2>2
    <3> QED BY <1>1, <1>3, <1>4, <1>5, <3>1 DEF EtsTableOK
  <2> QED BY <1>1, <2>1, <2>2
<1>7. eNextId' \in Nat /\ \A id \in DOMAIN eTables' : id \in Nat /\ id < eNextId'
  BY <1>1 DEF EtsInv
<1> QED BY <1>2, <1>6, <1>7 DEF EtsInv

LEMMA EtsDestroyStep ==
    ASSUME EtsInv, NEW p, NEW id \in DOMAIN eTables, EtsDestroy(id, p)
    PROVE  EtsInv'
<1>1. /\ DOMAIN eTables' = DOMAIN eTables \ {id} /\ \A i \in DOMAIN eTables' : eTables'[i] = eTables[i]
      /\ eDead' = eDead /\ eLate' = eLate /\ eNextId' = eNextId
  BY DEF EtsDestroy
<1>2. IsFiniteSet(DOMAIN eTables') /\ Cardinality(DOMAIN eTables') <= MaxTables
  <2>1. IsFiniteSet(DOMAIN eTables) /\ Cardinality(DOMAIN eTables) <= MaxTables
    BY DEF EtsInv
  <2>2. IsFiniteSet(DOMAIN eTables') /\ Cardinality(DOMAIN eTables') <= Cardinality(DOMAIN eTables)
    BY <1>1, <2>1, FS_Subset
  <2>3. Cardinality(DOMAIN eTables) \in Nat /\ Cardinality(DOMAIN eTables') \in Nat
    BY <2>1, <2>2, FS_CardinalityType
  <2> QED BY <2>1, <2>2, <2>3, EtsAssumption
<1>3. ASSUME NEW i \in DOMAIN eTables' PROVE EtsTableOK(i)'
  <2>1. EtsTableOK(i)
    BY <1>1 DEF EtsInv
  <2> QED BY <1>1, <2>1 DEF EtsTableOK
<1> QED BY <1>1, <1>2, <1>3 DEF EtsInv

\* A write to a table that keeps within its limit.
LEMMA EtsWriteStep ==
    ASSUME EtsInv, NEW id \in DOMAIN eTables, NEW data, eTables' = Changed(id, data),
           IsFiniteSet(DOMAIN data), Cardinality(DOMAIN data) <= MaxTableSize,
           eNextId' = eNextId, eDead' = eDead, eLate' = eLate
    PROVE  EtsInv'
<1>1. DOMAIN eTables' = DOMAIN eTables /\ \A i \in DOMAIN eTables : i # id => eTables'[i] = eTables[i]
  BY DEF Changed
<1>2. EtsTableOK(id)
  BY DEF EtsInv
<1>3. /\ eTables'[id].owner = eTables[id].owner /\ eTables'[id].heir = eTables[id].heir
      /\ eTables'[id].access = eTables[id].access /\ eTables'[id].data = data
      /\ eTables'[id] = [access |-> eTables[id].access, owner |-> eTables[id].owner, heir |-> eTables[id].heir, data |-> data]
  BY <1>2 DEF Changed, EtsTableOK
<1>4. EtsTableOK(id)'
  BY <1>2, <1>3 DEF EtsTableOK
<1>5. ASSUME NEW i \in DOMAIN eTables, i # id PROVE EtsTableOK(i)'
  <2>1. EtsTableOK(i)
    BY DEF EtsInv
  <2> QED BY <1>1, <1>5, <2>1 DEF EtsTableOK
<1> QED BY <1>1, <1>4, <1>5 DEF EtsInv

LEMMA EtsPutStep ==
    ASSUME EtsInv, NEW p, NEW id \in DOMAIN eTables, NEW k, NEW v, EtsPut(id, k, v, p)
    PROVE  EtsInv'
<1> DEFINE old == eTables[id].data
           data == [x \in DOMAIN old \union {k} |-> IF x = k THEN v ELSE old[x]]
<1>1. IsFiniteSet(DOMAIN old) /\ Cardinality(DOMAIN old) <= MaxTableSize
  BY DEF EtsInv, EtsTableOK
<1>2. Cardinality(DOMAIN old) \in Nat
  BY <1>1, FS_CardinalityType
<1>3. /\ IsFiniteSet(DOMAIN old \union {k})
      /\ k \in DOMAIN old => Cardinality(DOMAIN old \union {k}) = Cardinality(DOMAIN old)
      /\ k \notin DOMAIN old => Cardinality(DOMAIN old \union {k}) = Cardinality(DOMAIN old) + 1
  BY <1>1, FS_AddElement
<1>4. k \in DOMAIN old \/ Cardinality(DOMAIN old) < MaxTableSize
  BY DEF EtsPut
<1>5. IsFiniteSet(DOMAIN data) /\ Cardinality(DOMAIN data) <= MaxTableSize
  <2>1. DOMAIN data = DOMAIN old \union {k}
    OBVIOUS
  <2> HIDE DEF data, old
  <2> QED BY <1>1, <1>2, <1>3, <1>4, <2>1, EtsAssumption
<1>6. eTables' = Changed(id, data) /\ UNCHANGED <<eNextId, eDead, eLate>>
  BY DEF EtsPut
<1> HIDE DEF data
<1> QED BY <1>5, <1>6, EtsWriteStep

LEMMA EtsDeleteStep ==
    ASSUME EtsInv, NEW p, NEW id \in DOMAIN eTables, NEW k, EtsDeleteKey(id, k, p)
    PROVE  EtsInv'
<1> DEFINE old == eTables[id].data
           data == [x \in DOMAIN old \ {k} |-> old[x]]
<1>1. IsFiniteSet(DOMAIN old) /\ Cardinality(DOMAIN old) <= MaxTableSize
  BY DEF EtsInv, EtsTableOK
<1>2. IsFiniteSet(DOMAIN data) /\ Cardinality(DOMAIN data) <= Cardinality(DOMAIN old)
  <2>1. DOMAIN data = DOMAIN old \ {k}
    OBVIOUS
  <2>2. DOMAIN data \subseteq DOMAIN old
    BY <2>1
  <2> QED BY <1>1, <2>2, FS_Subset
<1>3. Cardinality(DOMAIN old) \in Nat /\ Cardinality(DOMAIN data) \in Nat
  BY <1>1, <1>2, FS_CardinalityType
<1>4. Cardinality(DOMAIN data) <= MaxTableSize
  BY <1>1, <1>2, <1>3, EtsAssumption
<1>5. eTables' = Changed(id, data) /\ UNCHANGED <<eNextId, eDead, eLate>>
  BY DEF EtsDeleteKey
<1> HIDE DEF data
<1> QED BY <1>2, <1>4, <1>5, EtsWriteStep

LEMMA InheritedIs ==
    ASSUME NEW a, NEW o, NEW h, NEW d, NEW t, t = [access |-> a, owner |-> o, heir |-> h, data |-> d]
    PROVE  Inherited(t) = [access |-> a, owner |-> h, heir |-> NoHeir, data |-> d]
<1>1. t.heir = h
  OBVIOUS
<1>2. [t EXCEPT !.owner = h] = [access |-> a, owner |-> h, heir |-> h, data |-> d]
  OBVIOUS
<1>3. [[access |-> a, owner |-> h, heir |-> h, data |-> d] EXCEPT !.heir = NoHeir]
        = [access |-> a, owner |-> h, heir |-> NoHeir, data |-> d]
  OBVIOUS
<1>4. Inherited(t) = [[t EXCEPT !.owner = h] EXCEPT !.heir = NoHeir]
  BY <1>1 DEF Inherited
<1> QED BY <1>2, <1>3, <1>4

LEMMA EtsDeathStep ==
    ASSUME EtsInv, NEW p \in EtsAlive, EtsDeath(p)
    PROVE  EtsInv'
<1> DEFINE own == {id \in DOMAIN eTables : eTables[id].owner = p}
           orphans == {id \in own : eTables[id].heir = NoHeir}
<1>1. /\ DOMAIN eTables' = DOMAIN eTables \ orphans
      /\ \A id \in DOMAIN eTables' : eTables'[id] = IF id \in own THEN Inherited(eTables[id]) ELSE eTables[id]
      /\ eDead' = eDead \union {p} /\ eNextId' = eNextId
      /\ eLate' = eLate \union {id \in own \ orphans : eTables[id].heir \in eDead \union {p}}
  BY DEF EtsDeath
<1>2. IsFiniteSet(DOMAIN eTables') /\ Cardinality(DOMAIN eTables') <= MaxTables
  <2>1. IsFiniteSet(DOMAIN eTables) /\ Cardinality(DOMAIN eTables) <= MaxTables
    BY DEF EtsInv
  <2>0. DOMAIN eTables' \subseteq DOMAIN eTables
    BY <1>1
  <2>2. IsFiniteSet(DOMAIN eTables') /\ Cardinality(DOMAIN eTables') <= Cardinality(DOMAIN eTables)
    BY <2>0, <2>1, FS_Subset
  <2>3. Cardinality(DOMAIN eTables) \in Nat /\ Cardinality(DOMAIN eTables') \in Nat
    BY <2>1, <2>2, FS_CardinalityType
  <2> QED BY <2>1, <2>2, <2>3, EtsAssumption
<1>3. ASSUME NEW id \in DOMAIN eTables' PROVE EtsTableOK(id)'
  <2>1. id \in DOMAIN eTables /\ EtsTableOK(id)
    BY <1>1 DEF EtsInv
  <2>2. CASE id \in own
    <3>1. eTables'[id] = Inherited(eTables[id]) /\ eTables[id].heir # NoHeir
      BY <1>1, <2>2
    <3> DEFINE new == Inherited(eTables[id])
    <3>2. /\ new = [access |-> new.access, owner |-> new.owner, heir |-> new.heir, data |-> new.data]
          /\ new.owner = eTables[id].heir /\ new.heir = NoHeir /\ new.access = eTables[id].access /\ new.data = eTables[id].data
      <4>1. PICK a, o, h, d : eTables[id] = [access |-> a, owner |-> o, heir |-> h, data |-> d]
        BY <2>1 DEF EtsTableOK
      <4>2. new = [access |-> a, owner |-> h, heir |-> NoHeir, data |-> d]
        BY <4>1, InheritedIs
      <4> QED BY <4>1, <4>2
    <3>3. eTables[id].heir \in eDead \union {p} => id \in eLate'
      BY <1>1, <2>1, <2>2, <3>1
    <3> HIDE DEF new, own, orphans
    <3> QED BY <1>1, <2>1, <3>1, <3>2, <3>3 DEF EtsTableOK, new
  <2>3. CASE id \notin own
    <3>1. eTables'[id] = eTables[id] /\ eTables[id].owner # p /\ eLate \subseteq eLate'
      BY <1>1, <2>1, <2>3
    <3> HIDE DEF own, orphans
    <3> QED BY <1>1, <2>1, <3>1 DEF EtsTableOK
  <2> QED BY <2>2, <2>3
<1>4. eNextId' \in Nat /\ \A id \in DOMAIN eTables' : id \in Nat /\ id < eNextId'
  BY <1>1 DEF EtsInv
<1> QED BY <1>2, <1>3, <1>4 DEF EtsInv

LEMMA EtsInvInit == EtsInit => EtsInv
<1> SUFFICES ASSUME EtsInit PROVE EtsInv
  OBVIOUS
<1>1. DOMAIN eTables = {} /\ eNextId = 1
  BY DEF EtsInit
<1> QED BY <1>1, FS_EmptySet, EtsAssumption DEF EtsInv

LEMMA EtsInvNext == EtsInv /\ [EtsNext]_eVars => EtsInv'
<1> SUFFICES ASSUME EtsInv, [EtsNext]_eVars PROVE EtsInv'
  OBVIOUS
<1>1. CASE UNCHANGED eVars
  <2>1. eTables' = eTables /\ eNextId' = eNextId /\ eDead' = eDead /\ eLate' = eLate
    BY <1>1 DEF eVars
  <2>2. \A id : EtsTableOK(id) => EtsTableOK(id)'
    BY <2>1 DEF EtsTableOK
  <2> QED BY <2>1, <2>2 DEF EtsInv
<1>2. CASE EtsNext
  <2>1. PICK p \in EtsAlive :
          \/ \E access \in AccessType, heir \in EPid \union {NoHeir} : EtsCreate(access, p, heir)
          \/ \E id \in DOMAIN eTables :
                \/ EtsDestroy(id, p)
                \/ \E k \in EKey : EtsDeleteKey(id, k, p) \/ \E v \in EValue : EtsPut(id, k, v, p)
          \/ EtsDeath(p)
    BY <1>2 DEF EtsNext
  <2> QED BY <2>1, EtsCreateStep, EtsDestroyStep, EtsDeleteStep, EtsPutStep, EtsDeathStep
<1> QED BY <1>1, <1>2

LEMMA EtsInvEnough == EtsInv => TablesHaveOwners
<1> SUFFICES ASSUME EtsInv, NEW id \in DOMAIN eTables
             PROVE  /\ eTables[id].owner \in eDead => id \in eLate
                    /\ id \notin eLate => \E p \in EtsAlive : EtsEntries(id, p) = eTables[id].data
                    /\ eTables[id].heir # NoHeir => eTables[id].owner \notin eDead
                    /\ Cardinality(DOMAIN eTables[id].data) <= MaxTableSize
  BY DEF TablesHaveOwners, EtsInv
<1>1. EtsTableOK(id)
  BY DEF EtsInv
<1>2. MayRead(eTables[id], eTables[id].owner)
  BY DEF MayRead
<1>3. id \notin eLate => eTables[id].owner \in EtsAlive
  BY <1>1 DEF EtsTableOK, EtsAlive
<1> QED BY <1>1, <1>2, <1>3 DEF EtsTableOK, EtsEntries

(***************************************************************************)
(* No table in memory is left to the dead (ets.rs,                         *)
(* handle_process_death()), save one whose heir was dead before it         *)
(* inherited, and the limits on tables and entries hold: for any           *)
(* processes, keys and limits.                                             *)
(***************************************************************************)
THEOREM TablesKeepOwners == EtsSpec => []TablesHaveOwners
  BY EtsInvInit, EtsInvNext, EtsInvEnough, PTL DEF EtsSpec


-----------------------------------------------------------------------------
(* Checkpoint stores.                                                      *)

CkptSpec == CkptInit /\ [][CkptNext]_cVars

CkptThread == [at : {"rest", "write", "rename"}, name : CName \union {""}, val : Nat, fd : {"none", "tmp", "entry"}]
CkptValue(n) == IF n \in DOMAIN cEntry THEN cEntry[n].val ELSE Absent

\* Thread t is saving to the file n.
Saves(t, n) == cThread[t].at # "rest" /\ cThread[t].name = n

\* Whoever alone saves to a file has its temporary file, complete when it
\* is to be renamed.
SaverOK(t, n) ==
    Saves(t, n) => /\ cThread[t].fd = "tmp" /\ n \in DOMAIN cTmp
                   /\ cThread[t].at = "rename" => cTmp[n].val = cThread[t].val

CkptInv ==
    /\ cThread \in [CThread -> CkptThread] /\ DOMAIN cLast = CName /\ cSaves \in Nat
    /\ \A t \in CThread : cThread[t].at # "rest" => cThread[t].name \in CName
    /\ \A n \in CName \ cClash :
          /\ CkptValue(n) = cLast[n]
          /\ \A t \in CThread : SaverOK(t, n)
          /\ \A t, u \in CThread : Saves(t, n) /\ Saves(u, n) => t = u

LEMMA NameInNames == \A k \in CKey : NameOf(k) \in CName /\ k \in CName
  BY CheckpointsAssumption DEF NameOf, CName

\* Entries change together with what the last call left; nobody saves.
LEMMA EntriesStep ==
    ASSUME CkptInv, cThread' = cThread, cTmp' = cTmp, cClash' = cClash, cSaves' \in Nat, DOMAIN cLast' = CName,
           \A n \in CName : CkptValue(n) = cLast[n] => CkptValue(n)' = cLast'[n]
    PROVE  CkptInv'
<1>1. \A t \in CThread : \A n : /\ Saves(t, n)' <=> Saves(t, n)
                                /\ SaverOK(t, n)' <=> SaverOK(t, n)
  BY DEF Saves, SaverOK
<1> QED BY <1>1 DEF CkptInv

LEMMA CreateTmpStep ==
    ASSUME CkptInv, NEW t \in CThread, NEW k \in CKey, CreateTmp(t, k)
    PROVE  CkptInv'
<1>1. PICK n \in CName : n = NameOf(k)
  BY NameInNames
<1> DEFINE new == [at |-> "write", name |-> n, val |-> cSaves + 1, fd |-> "tmp"]
<1>2. /\ cThread' = [cThread EXCEPT ![t] = new] /\ cTmp' = With(cTmp, n, Dated(Partial)) /\ cThread[t].at = "rest"
      /\ cEntry' = cEntry /\ cLast' = cLast /\ cSaves' = cSaves + 1 /\ cSaves \in Nat /\ cThread \in [CThread -> CkptThread]
      /\ cClash' = IF Savers(n) = {} THEN cClash ELSE cClash \union {n}
  BY <1>1 DEF CreateTmp, CkptInv
<1>3. new \in CkptThread /\ new.at = "write" /\ new.name = n /\ new.fd = "tmp"
  <2>1. cSaves + 1 \in Nat
    BY <1>2
  <2>2. new \in CkptThread
    BY <2>1 DEF CkptThread
  <2> QED BY <2>2
<1> HIDE DEF new
<1>4. cThread' \in [CThread -> CkptThread] /\ cThread'[t] = new /\ \A u \in CThread : u # t => cThread'[u] = cThread[u]
  BY <1>2, <1>3
<1>5. ASSUME NEW m \in CName \ cClash'
      PROVE  /\ CkptValue(m)' = cLast'[m]
             /\ \A u \in CThread : SaverOK(u, m)'
             /\ \A u, w \in CThread : Saves(u, m)' /\ Saves(w, m)' => u = w
  <2>1. m \notin cClash /\ (m = n => Savers(n) = {})
    BY <1>2
  <2>2. CkptValue(m)' = cLast'[m]
    BY <1>2, <2>1 DEF CkptInv, CkptValue
  <2>3. \A u \in CThread : u # t => (Saves(u, m)' <=> Saves(u, m))
    BY <1>4 DEF Saves
  <2>4. Saves(t, m)' <=> m = n
    BY <1>3, <1>4 DEF Saves
  <2>5. m = n => \A u \in CThread : ~Saves(u, m)
    BY <2>1 DEF Savers, Saves
  <2>6. \A u, w \in CThread : Saves(u, m)' /\ Saves(w, m)' => u = w
    BY <2>1, <2>3, <2>4, <2>5 DEF CkptInv
  <2>7. ASSUME NEW u \in CThread PROVE SaverOK(u, m)'
    <3>1. CASE m = n
      <4>1. u # t => ~Saves(u, m)'
        BY <2>3, <2>5, <3>1
      <4>2. m \in DOMAIN cTmp'
        BY <1>2, <3>1 DEF With
      <4> QED BY <1>3, <1>4, <4>1, <4>2 DEF SaverOK
    <3>2. CASE m # n
      <4>1. (m \in DOMAIN cTmp <=> m \in DOMAIN cTmp') /\ (m \in DOMAIN cTmp => cTmp'[m] = cTmp[m])
        BY <1>2, <3>2 DEF With
      <4>2. CASE u = t
        BY <2>4, <3>2, <4>2 DEF SaverOK
      <4>3. CASE u # t
        <5>1. SaverOK(u, m) /\ cThread'[u] = cThread[u]
          BY <1>4, <2>1, <4>3 DEF CkptInv
        <5> QED BY <4>1, <5>1 DEF SaverOK, Saves
      <4> QED BY <4>2, <4>3
    <3> QED BY <3>1, <3>2
  <2> QED BY <2>2, <2>6, <2>7
<1>6. \A u \in CThread : cThread'[u].at # "rest" => cThread'[u].name \in CName
  BY <1>3, <1>4 DEF CkptInv
<1> QED BY <1>2, <1>4, <1>5, <1>6 DEF CkptInv

LEMMA FillTmpStep ==
    ASSUME CkptInv, NEW t \in CThread, FillTmp(t)
    PROVE  CkptInv'
<1>1. PICK n \in CName : n = cThread[t].name
  BY DEF FillTmp, CkptInv
<1> DEFINE new == [cThread[t] EXCEPT !.at = "rename"]
<1>2. /\ cThread' = [cThread EXCEPT ![t] = new] /\ cThread[t].at = "write" /\ cThread \in [CThread -> CkptThread]
      /\ cClash' = cClash /\ cLast' = cLast /\ cSaves' = cSaves /\ cThread[t] \in CkptThread
  BY DEF FillTmp, CkptInv
<1>3. new \in CkptThread /\ new.at = "rename" /\ new.name = n /\ new.fd = cThread[t].fd /\ new.val = cThread[t].val
  BY <1>1, <1>2 DEF CkptThread
<1> HIDE DEF new
<1>4. cThread' \in [CThread -> CkptThread] /\ cThread'[t] = new /\ \A u \in CThread : u # t => cThread'[u] = cThread[u]
  BY <1>2, <1>3
<1>5. Saves(t, n)
  BY <1>1, <1>2 DEF Saves
<1>6. \A u \in CThread, m \in CName : Saves(u, m)' <=> Saves(u, m)
  BY <1>1, <1>2, <1>3, <1>4 DEF Saves
<1>7. \A u \in CThread : cThread'[u].at # "rest" => cThread'[u].name \in CName
  BY <1>3, <1>4 DEF CkptInv
<1>8. ASSUME NEW m \in CName \ cClash PROVE CkptValue(m)' = cLast'[m] /\ \A u \in CThread : SaverOK(u, m)'
  <2>1. CkptValue(m) = cLast[m] /\ (\A u \in CThread : SaverOK(u, m)) /\ \A u, w \in CThread : Saves(u, m) /\ Saves(w, m) => u = w
    BY DEF CkptInv
  <2>2. CASE m = n
    <3>1. cThread[t].fd = "tmp"
      BY <1>5, <2>1, <2>2 DEF SaverOK
    <3>2. cTmp' = With(cTmp, n, Dated(cThread[t].val)) /\ cEntry' = cEntry
      BY <1>1, <3>1 DEF FillTmp
    <3>3. m \in DOMAIN cTmp' /\ cTmp'[m].val = cThread[t].val
      BY <2>2, <3>2 DEF With, Dated
    <3>4. \A u \in CThread : u # t => ~Saves(u, m)'
      BY <1>5, <1>6, <2>1, <2>2
    <3>5. SaverOK(t, m)'
      BY <1>3, <1>4, <3>1, <3>3 DEF SaverOK
    <3>6. \A u \in CThread : SaverOK(u, m)'
      BY <3>4, <3>5 DEF SaverOK
    <3> QED BY <1>2, <2>1, <3>2, <3>6 DEF CkptValue
  <2>3. CASE m # n
    <3>1. /\ m \in DOMAIN cTmp' <=> m \in DOMAIN cTmp
          /\ m \in DOMAIN cTmp => cTmp'[m] = cTmp[m]
          /\ m \in DOMAIN cEntry' <=> m \in DOMAIN cEntry
          /\ m \in DOMAIN cEntry => cEntry'[m] = cEntry[m]
      BY <1>1, <2>3 DEF FillTmp, With
    <3>2. ~Saves(t, m)'
      BY <1>3, <1>4, <2>3 DEF Saves
    <3>3. ASSUME NEW u \in CThread PROVE SaverOK(u, m)'
      <4>1. CASE u = t
        BY <3>2, <4>1 DEF SaverOK
      <4>2. CASE u # t
        BY <1>4, <2>1, <3>1, <4>2 DEF SaverOK, Saves
      <4> QED BY <4>1, <4>2
    <3> QED BY <1>2, <2>1, <3>1, <3>3 DEF CkptValue
  <2> QED BY <2>2, <2>3
<1> QED BY <1>2, <1>4, <1>6, <1>7, <1>8 DEF CkptInv

LEMMA RenameTmpStep ==
    ASSUME CkptInv, NEW t \in CThread, RenameTmp(t)
    PROVE  CkptInv'
<1>1. PICK n \in CName : n = cThread[t].name
  BY DEF RenameTmp, CkptInv
<1>2. /\ cThread[t].at = "rename" /\ cThread \in [CThread -> CkptThread] /\ cClash' = cClash /\ cSaves' = cSaves
      /\ Saves(t, n) /\ DOMAIN cLast = CName
  BY <1>1 DEF RenameTmp, CkptInv, Saves
<1>3. AtRest \in CkptThread /\ AtRest.at = "rest"
  BY DEF AtRest, CkptThread, Absent
<1>4. ASSUME NEW m \in CName \ cClash PROVE CkptValue(m) = cLast[m] /\ (\A u \in CThread : SaverOK(u, m))
             /\ \A u, w \in CThread : Saves(u, m) /\ Saves(w, m) => u = w
  BY DEF CkptInv
<1>5. CASE n \in DOMAIN cTmp
  <2> DEFINE moved == [u \in CThread |-> IF cThread[u].name = n /\ cThread[u].fd = "tmp"
                                    THEN [cThread[u] EXCEPT !.fd = "entry"] ELSE cThread[u]]
  <2>1. /\ cEntry' = With(cEntry, n, cTmp[n]) /\ cTmp' = Without(cTmp, n)
        /\ cLast' = [cLast EXCEPT ![n] = cThread[t].val] /\ cThread' = [moved EXCEPT ![t] = AtRest]
    BY <1>1, <1>5 DEF RenameTmp
  <2>2. \A u \in CThread : /\ moved[u] \in CkptThread /\ moved[u].at = cThread[u].at /\ moved[u].name = cThread[u].name
                           /\ moved[u].val = cThread[u].val /\ (cThread[u].name # n => moved[u] = cThread[u])
    BY <1>2 DEF CkptThread
  <2>3. moved \in [CThread -> CkptThread]
    BY <2>2
  <2> HIDE DEF moved
  <2>4. cThread' \in [CThread -> CkptThread] /\ cThread'[t] = AtRest /\ \A u \in CThread : u # t => cThread'[u] = moved[u]
    BY <1>3, <2>1, <2>3
  <2>5. \A u \in CThread : u # t => \A m : Saves(u, m)' <=> Saves(u, m)
    BY <2>2, <2>4 DEF Saves
  <2>6. \A m : ~Saves(t, m)'
    BY <1>3, <2>4 DEF Saves
  <2>7. \A u \in CThread : cThread'[u].at # "rest" => cThread'[u].name \in CName
    BY <1>3, <2>2, <2>4 DEF CkptInv
  <2>8. ASSUME NEW m \in CName \ cClash PROVE CkptValue(m)' = cLast'[m] /\ \A u \in CThread : SaverOK(u, m)'
    <3>1. CASE m = n
      <4>1. cTmp[n].val = cThread[t].val
        BY <1>2, <1>4, <3>1 DEF SaverOK
      <4>2. CkptValue(m)' = cLast'[m]
        BY <1>2, <2>1, <3>1, <4>1 DEF CkptValue, With
      <4>3. \A u \in CThread : ~Saves(u, m)'
        BY <1>2, <1>4, <2>5, <2>6, <3>1
      <4> QED BY <4>2, <4>3 DEF SaverOK
    <3>2. CASE m # n
      <4>1. /\ m \in DOMAIN cTmp' <=> m \in DOMAIN cTmp
            /\ m \in DOMAIN cTmp => cTmp'[m] = cTmp[m]
            /\ m \in DOMAIN cEntry' <=> m \in DOMAIN cEntry
            /\ m \in DOMAIN cEntry => cEntry'[m] = cEntry[m]
            /\ cLast'[m] = cLast[m]
        BY <1>2, <2>1, <3>2 DEF With, Without
      <4>2. ASSUME NEW u \in CThread, Saves(u, m)' PROVE SaverOK(u, m)'
        <5>1. u # t /\ Saves(u, m)
          BY <2>5, <2>6, <4>2
        <5>2. cThread'[u] = cThread[u]
          BY <2>2, <2>4, <3>2, <5>1 DEF Saves
        <5> QED BY <1>4, <4>1, <5>1, <5>2 DEF SaverOK, Saves
      <4> QED BY <1>4, <4>1, <4>2 DEF CkptValue, SaverOK
    <3> QED BY <3>1, <3>2
  <2>9. \A m \in CName \ cClash : \A u, w \in CThread : Saves(u, m)' /\ Saves(w, m)' => u = w
    BY <1>4, <2>5, <2>6
  <2>10. DOMAIN cLast' = CName /\ cSaves' \in Nat
    BY <1>2, <2>1 DEF CkptInv
  <2> QED BY <1>2, <2>4, <2>7, <2>8, <2>9, <2>10 DEF CkptInv
<1>6. CASE n \notin DOMAIN cTmp
  <2>1. cThread' = [cThread EXCEPT ![t] = AtRest] /\ UNCHANGED <<cEntry, cTmp, cLast>>
    BY <1>1, <1>6 DEF RenameTmp
  <2>2. cThread' \in [CThread -> CkptThread] /\ cThread'[t] = AtRest /\ \A u \in CThread : u # t => cThread'[u] = cThread[u]
    BY <1>2, <1>3, <2>1
  <2>3. \A u \in CThread : \A m : Saves(u, m)' => Saves(u, m) /\ cThread'[u] = cThread[u]
    BY <1>3, <2>2 DEF Saves
  <2>4. \A u \in CThread : \A m \in CName \ cClash : SaverOK(u, m)'
    BY <1>4, <2>1, <2>3 DEF SaverOK
  <2>5. \A u \in CThread : cThread'[u].at # "rest" => cThread'[u].name \in CName
    BY <1>3, <2>2 DEF CkptInv
  <2>6. \A m \in CName \ cClash : CkptValue(m)' = cLast'[m]
    BY <1>4, <2>1 DEF CkptValue
  <2> QED BY <1>2, <1>4, <2>1, <2>2, <2>3, <2>4, <2>5, <2>6 DEF CkptInv
<1> QED BY <1>5, <1>6

LEMMA CkptInvInit == CkptInit => CkptInv
<1> SUFFICES ASSUME CkptInit PROVE CkptInv
  OBVIOUS
<1>1. AtRest \in CkptThread /\ AtRest.at = "rest"
  BY DEF AtRest, CkptThread, Absent
<1>2. cThread \in [CThread -> CkptThread] /\ \A t \in CThread : cThread[t].at = "rest"
  BY <1>1 DEF CkptInit
<1>3. cEntry = << >> /\ cLast = [n \in CName |-> Absent] /\ cSaves = 0
  BY DEF CkptInit
<1> QED BY <1>2, <1>3 DEF CkptInv, CkptValue, SaverOK, Saves

LEMMA CkptInvNext == CkptInv /\ [CkptNext]_cVars => CkptInv'
<1> SUFFICES ASSUME CkptInv, [CkptNext]_cVars PROVE CkptInv'
  OBVIOUS
<1>0. DOMAIN cLast = CName /\ cSaves \in Nat
  BY DEF CkptInv
<1>1. ASSUME NEW k \in CKey, SaveAtOnce(k) PROVE CkptInv'
  <2>1. k \in CName
    BY NameInNames
  <2>2. \A n \in CName : CkptValue(n) = cLast[n] => CkptValue(n)' = cLast'[n]
    BY <1>0, <1>1, <2>1 DEF SaveAtOnce, CkptValue, With, Dated
  <2> QED BY <1>0, <1>1, <2>2, EntriesStep DEF SaveAtOnce
<1>2. ASSUME NEW k \in CKey, CkptDelete(k) PROVE CkptInv'
  <2>1. PICK m \in CName : m = NameOf(k)
    BY NameInNames
  <2>2. cEntry' = Without(cEntry, m) /\ cLast' = [cLast EXCEPT ![m] = Absent]
    BY <1>2, <2>1 DEF CkptDelete
  <2>3. \A n \in CName : CkptValue(n) = cLast[n] => CkptValue(n)' = cLast'[n]
    BY <1>0, <2>1, <2>2 DEF CkptValue, Without
  <2> QED BY <1>0, <1>2, <2>2, <2>3, EntriesStep DEF CkptDelete
<1>3. CASE WakePruner
  <2>1. PICK cutoff : cutoff = IF cNow > Ttl THEN cNow - Ttl ELSE 0
    OBVIOUS
  <2>4. UNCHANGED <<cTmp, cThread, cSaves, cClash>>
    BY <1>3 DEF WakePruner
  <2>2. CASE cKind = "sqlite"
    <3>1. /\ cEntry' = [n \in DOMAIN cEntry \ Stale(cutoff) |-> cEntry[n]]
          /\ cLast' = [n \in CName |-> IF n \in Stale(cutoff) THEN Absent ELSE cLast[n]]
      BY <1>3, <2>1, <2>2 DEF WakePruner
    <3>2. \A n \in CName : CkptValue(n) = cLast[n] => CkptValue(n)' = cLast'[n]
      BY <3>1 DEF CkptValue
    <3>3. DOMAIN cLast' = CName
      BY <3>1
    <3> QED BY <1>0, <2>4, <3>2, <3>3, EntriesStep
  <2>3. CASE cKind # "sqlite"
    <3>1. UNCHANGED <<cEntry, cLast>>
      BY <1>3, <2>3 DEF WakePruner
    <3> QED BY <1>0, <2>4, <3>1, EntriesStep DEF CkptValue
  <2> QED BY <2>2, <2>3
<1>4. CASE (\E n \in cPruner.todo : LookAt(n)) \/ CkptTick
  BY <1>0, <1>4, EntriesStep DEF LookAt, CkptTick, CkptValue
<1>5. CASE RemoveStale
  <2>1. PICK m : m = cPruner.name
    OBVIOUS
  <2>2. cEntry' = Without(cEntry, m) /\ cLast' = [cLast EXCEPT ![m] = Absent]
    BY <1>5, <2>1 DEF RemoveStale
  <2>3. \A n \in CName : CkptValue(n) = cLast[n] => CkptValue(n)' = cLast'[n]
    BY <1>0, <2>2 DEF CkptValue, Without
  <2> QED BY <1>0, <1>5, <2>2, <2>3, EntriesStep DEF RemoveStale
<1>6. CASE CkptKill
  <2>1. AtRest \in CkptThread /\ AtRest.at = "rest"
    BY DEF AtRest, CkptThread, Absent
  <2>2. cThread' \in [CThread -> CkptThread] /\ \A t \in CThread : cThread'[t].at = "rest"
    BY <1>6, <2>1 DEF CkptKill
  <2>3. UNCHANGED <<cEntry, cTmp, cLast, cClash, cSaves>>
    BY <1>6 DEF CkptKill
  <2> QED BY <2>2, <2>3 DEF CkptInv, CkptValue, SaverOK, Saves
<1>7. CASE UNCHANGED cVars
  BY <1>0, <1>7, EntriesStep DEF cVars, CkptValue
<1> QED BY <1>1, <1>2, <1>3, <1>4, <1>5, <1>6, <1>7, CreateTmpStep, FillTmpStep, RenameTmpStep DEF CkptNext

LEMMA CkptInvEnough == CkptInv => LoadsLastSave
  BY NameInNames DEF CkptInv, LoadsLastSave, Load, CkptValue

(***************************************************************************)
(* load() returns what the last completed call left (checkpoint.rs and     *)
(* checkpoint_sqlite.rs, save(), load() and delete(), and pruner.rs): for  *)
(* any keys, threads and time to live, whoever is in the middle of saving  *)
(* or pruning or was killed there, a file is never read in part; except    *)
(* where two threads saved to one file at the same time.                   *)
(***************************************************************************)
THEOREM LoadsReturnLastSave == CkptSpec => []LoadsLastSave
  BY CkptInvInit, CkptInvNext, CkptInvEnough, PTL DEF CkptSpec


-----------------------------------------------------------------------------
(* Releases.                                                               *)

RelSpec == RelInit /\ [][RelNext]_rVars

StepType == [item : Item, from : Nat, to : Nat]
CallType == [kind : {"idle", "apply", "undo", "rollback"}, release : Nat, left : Seq(StepType), done : Seq(StepType)]
Configuration == [Item -> Nat]

\* Of the items in some, those the first k steps do not move are in live as in from.
NotMoved(some, from, steps, k, live) ==
    \A i \in some : (\A j \in 1..k : steps[j].item # i) => live[i] = from[i]

\* What the steps after k up to top moved is where the first of them found it,
\* as far as its plan knows.
TakenBack(steps, k, top, live) ==
    \A j \in (k + 1)..top :
        (\A l \in (k + 1)..(j - 1) : steps[l].item # steps[j].item) => live[steps[j].item] = steps[j].from

\* Nothing of the plan is left: an item is as in from or as the plan says it was.
AllTakenBack(some, from, steps, live) ==
    \A i \in some :
        live[i] = from[i] \/ \E k \in DOMAIN steps : IsFirstMove(steps, k, i) /\ live[i] = steps[k].from

\* The items every manifest so far was right about.
Steady == Item \ rAstray
AgreeOn(some, a, b) == \A i \in some : a[i] = b[i]

\* Release n was applied to base.
Based(n, base) ==
    /\ Misstated(rPlan[n], base) \subseteq rAstray
    /\ NotMoved(Steady, base, rPlan[n], Len(rPlan[n]), rTarget[n])

RelTypes ==
    /\ rLive \in Configuration /\ rFrom \in Configuration /\ rPlan \in Seq(Seq(StepType))
    /\ rMade = Len(rPlan) /\ rCurrent \in Nat /\ rHistory \in Seq(Nat) /\ rCall \in CallType
    /\ DOMAIN rTarget \subseteq 1..rMade /\ \A n \in DOMAIN rTarget : rTarget[n] \in Configuration
    /\ rBroken \in BOOLEAN /\ rOutcome \in {"none", "ok", "undone", "stuck"}
    /\ rCurrent # 0 => rCurrent \in DOMAIN rTarget
    /\ \A k \in 1..Len(rHistory) : rHistory[k] \in DOMAIN rTarget
    /\ rCurrent = 0 => rHistory = << >>
    /\ rAstray \subseteq Item \ ConfigKey

\* Each release of the history was applied to the one before it.
Chained(past) ==
    \A k \in 1..Len(past) :
        \E base \in Configuration : Based(past[k], base) /\ (k > 1 => AgreeOn(Steady, base, rTarget[past[k - 1]]))
HistoryChained ==
    /\ Chained(rHistory)
    /\ rCurrent # 0 => \E base \in Configuration :
          Based(rCurrent, base) /\ (rHistory # << >> => AgreeOn(Steady, base, rTarget[rHistory[Len(rHistory)]]))

\* left is what remains of undoing the first steps up to some top.
Undoing(some, from, steps, live) ==
    LET k == Len(rCall.left)
    IN  /\ \A j \in 1..k : rCall.left[j] = steps[(k - j) + 1]
        /\ \E top \in 0..Len(steps) :
              k <= top /\ NotMoved(some, from, steps, top, live) /\ TakenBack(steps, k, top, live)

ApplyingOK ==
    LET steps == rPlan[rCall.release]
        k == Len(rCall.done)
    IN  /\ Len(steps) = k + Len(rCall.left)
        /\ \A j \in 1..k : rCall.done[j] = steps[j]
        /\ \A j \in 1..Len(rCall.left) : rCall.left[j] = steps[k + j]
        /\ NotMoved(Item, rFrom, steps, k, rLive)

CallSound ==
    /\ rCall.kind \in {"apply", "undo"} =>
          /\ rCall.release = rMade /\ rMade > 0 /\ rMade \notin DOMAIN rTarget
          /\ ~rBroken /\ rCurrent # 0 => AgreeOn(Steady, rFrom, rTarget[rCurrent])
          /\ Misstated(rPlan[rMade], rFrom) \subseteq rAstray
    /\ rCall.kind = "apply" => ApplyingOK
    /\ rCall.kind = "undo" => Undoing(Item, rFrom, rPlan[rMade], rLive)
    /\ rCall.kind = "rollback" =>
          /\ rCall.release = rCurrent /\ rCurrent # 0 /\ ~rBroken
          /\ \E base \in Configuration :
                /\ Undoing(Steady, base, rPlan[rCurrent], rLive)
                /\ Misstated(rPlan[rCurrent], base) \subseteq rAstray
                /\ rHistory # << >> => AgreeOn(Steady, base, rTarget[rHistory[Len(rHistory)]])
    /\ rCall.kind = "idle" /\ ~rBroken /\ rCurrent # 0 => AgreeOn(Steady, rLive, rTarget[rCurrent])
    /\ rOutcome = "undone" =>
          /\ rCall.kind = "idle" /\ AllTakenBack(Item, rFrom, rPlan[rMade], rLive)
          /\ Misstated(rPlan[rMade], rFrom) \subseteq rAstray

RelInv == RelTypes /\ (~rBroken => HistoryChained) /\ CallSound

LEMMA NotMovedForward ==
    ASSUME NEW from, NEW steps, NEW k \in Nat, NEW live \in Configuration, NotMoved(Item, from, steps, k, live),
           steps[k + 1].item \in Item, NEW after, after = [live EXCEPT ![steps[k + 1].item] = steps[k + 1].to]
    PROVE  NotMoved(Item, from, steps, k + 1, after)
<1> SUFFICES ASSUME NEW i \in Item, \A j \in 1..(k + 1) : steps[j].item # i PROVE after[i] = from[i]
  BY DEF NotMoved
<1>1. k + 1 \in 1..(k + 1) /\ \A j \in 1..k : j \in 1..(k + 1)
  OBVIOUS
<1>2. after[i] = live[i]
  BY <1>1 DEF Configuration
<1>3. \A j \in 1..k : steps[j].item # i
  BY <1>1
<1> QED BY <1>2, <1>3 DEF NotMoved

LEMMA TakenBackOne ==
    ASSUME NEW steps, NEW top \in Nat, NEW k \in 1..top, NEW live \in Configuration, TakenBack(steps, k, top, live),
           \A j \in 1..top : steps[j].item \in Item, NEW some \in SUBSET Item, NEW from, NotMoved(some, from, steps, top, live),
           NEW after, after = [live EXCEPT ![steps[k].item] = steps[k].from]
    PROVE  TakenBack(steps, k - 1, top, after) /\ NotMoved(some, from, steps, top, after)
<1>1. \A i \in Item : after[i] = IF i = steps[k].item THEN steps[k].from ELSE live[i]
  BY DEF Configuration
<1>2. ASSUME NEW j \in ((k - 1) + 1)..top, \A l \in ((k - 1) + 1)..(j - 1) : steps[l].item # steps[j].item
      PROVE  after[steps[j].item] = steps[j].from
  <2>1. j \in 1..top /\ steps[j].item \in Item
    OBVIOUS
  <2>2. CASE j = k
    BY <1>1, <2>1, <2>2
  <2>3. CASE j # k
    <3>1. j \in (k + 1)..top /\ k \in ((k - 1) + 1)..(j - 1) /\ \A l \in (k + 1)..(j - 1) : l \in ((k - 1) + 1)..(j - 1)
      BY <2>3
    <3>2. steps[k].item # steps[j].item /\ \A l \in (k + 1)..(j - 1) : steps[l].item # steps[j].item
      BY <1>2, <3>1
    <3>3. live[steps[j].item] = steps[j].from
      BY <3>1, <3>2 DEF TakenBack
    <3> QED BY <1>1, <2>1, <3>2, <3>3
  <2> QED BY <2>2, <2>3
<1>3. ASSUME NEW i \in some, \A j \in 1..top : steps[j].item # i PROVE after[i] = from[i]
  BY <1>1, <1>3 DEF NotMoved
<1> QED BY <1>2, <1>3 DEF TakenBack, NotMoved

\* from_manifest
LEMMA PlanTyped ==
    ASSUME NEW moves \in Manifest, rLive \in Configuration
    PROVE  /\ PlanFor(moves) \in Seq(StepType) /\ Len(PlanFor(moves)) = Len(moves)
           /\ Misstated(PlanFor(moves), rLive) \subseteq Item \ ConfigKey
<1>1. moves \in Seq([item : Item, from : Nat, to : Nat])
  BY ReleasesAssumption
<1>2. /\ DOMAIN moves = 1..Len(moves) /\ Len(moves) \in Nat
      /\ \A k \in 1..Len(moves) : moves[k].item \in Item /\ moves[k].from \in Nat /\ moves[k].to \in Nat
  <2>1. \A k \in 1..Len(moves) : moves[k] \in [item : Item, from : Nat, to : Nat]
    BY <1>1, ElementOfSeq
  <2> QED BY <1>1, <2>1
<1> DEFINE start(k) == IF moves[k].item \in ConfigKey THEN rLive[moves[k].item] ELSE moves[k].from
<1>3. PICK plan0 : plan0 = PlanFor(moves)
  OBVIOUS
<1>4. plan0 = [k \in 1..Len(moves) |-> [item |-> moves[k].item, from |-> start(k), to |-> moves[k].to]]
  BY <1>2, <1>3 DEF PlanFor, PlanStep
<1>5. \A k \in 1..Len(moves) : start(k) \in Nat
  BY <1>2 DEF Configuration
<1>6. \A k \in 1..Len(moves) : plan0[k] = [item |-> moves[k].item, from |-> start(k), to |-> moves[k].to]
  BY <1>4
<1> HIDE DEF start
<1>7. ASSUME NEW k \in 1..Len(moves) PROVE plan0[k] \in StepType
  <2>1. /\ moves[k].item \in Item /\ start(k) \in Nat /\ moves[k].to \in Nat
        /\ plan0[k] = [item |-> moves[k].item, from |-> start(k), to |-> moves[k].to]
    BY <1>2, <1>5, <1>6
  <2> QED BY <2>1 DEF StepType
<1>8. plan0 \in Seq(StepType) /\ Len(plan0) = Len(moves) /\ DOMAIN plan0 = 1..Len(moves)
  <2>1. plan0 = [k \in 1..Len(moves) |-> plan0[k]]
    BY <1>4
  <2> QED BY <1>2, <1>7, <2>1
<1>9. ASSUME NEW i \in Misstated(plan0, rLive) PROVE i \in Item \ ConfigKey
  <2>1. PICK k \in 1..Len(moves) : plan0[k].item = i /\ plan0[k].from # rLive[i]
    BY <1>8 DEF Misstated, IsFirstMove
  <2>2. moves[k].item = i /\ start(k) # rLive[i]
    <3>1. plan0[k] = [item |-> moves[k].item, from |-> start(k), to |-> moves[k].to]
      BY <1>6
    <3> QED BY <2>1, <3>1
  <2> QED BY <1>9, <2>2 DEF start, Misstated
<1> QED BY <1>3, <1>8, <1>9


LEMMA ChainKept ==
    ASSUME RelTypes, HistoryChained, rHistory' = rHistory, rCurrent' = rCurrent,
           rAstray \subseteq rAstray',
           \A n \in DOMAIN rTarget : rPlan'[n] = rPlan[n] /\ rTarget'[n] = rTarget[n]
    PROVE  HistoryChained'
<1>1. \A n \in DOMAIN rTarget : \A base : Based(n, base) => Based(n, base)'
  BY DEF Based, Steady, NotMoved
<1>2. ASSUME NEW k \in 1..Len(rHistory)
      PROVE  \E base \in Configuration : Based(rHistory[k], base)' /\ (k > 1 => AgreeOn(Steady', base, rTarget'[rHistory[k - 1]]))
  <2>1. PICK base \in Configuration : Based(rHistory[k], base) /\ (k > 1 => AgreeOn(Steady, base, rTarget[rHistory[k - 1]]))
    BY DEF HistoryChained, Chained
  <2>2. rHistory[k] \in DOMAIN rTarget /\ (k > 1 => rHistory[k - 1] \in DOMAIN rTarget)
    BY DEF RelTypes
  <2>3. PICK n \in DOMAIN rTarget : n = rHistory[k]
    BY <2>2
  <2>4. Based(n, base)'
    BY <1>1, <2>1, <2>3
  <2>5. Based(rHistory[k], base)'
    BY <2>3, <2>4 DEF Based
  <2> QED BY <2>1, <2>2, <2>5 DEF AgreeOn, Steady
<1>3. ASSUME rCurrent # 0
      PROVE  \E base \in Configuration : Based(rCurrent, base)' /\ (rHistory # << >> => AgreeOn(Steady', base, rTarget'[rHistory[Len(rHistory)]]))
  <2>1. PICK base \in Configuration : Based(rCurrent, base) /\ (rHistory # << >> => AgreeOn(Steady, base, rTarget[rHistory[Len(rHistory)]]))
    BY <1>3 DEF HistoryChained
  <2>2. rCurrent \in DOMAIN rTarget /\ (rHistory # << >> => rHistory[Len(rHistory)] \in DOMAIN rTarget)
    BY <1>3 DEF RelTypes
  <2>4. PICK n \in DOMAIN rTarget : n = rCurrent
    BY <2>2
  <2>5. Based(n, base)'
    BY <1>1, <2>1, <2>4
  <2>3. Based(rCurrent, base)'
    BY <2>4, <2>5 DEF Based
  <2> QED BY <2>1, <2>2, <2>3 DEF AgreeOn, Steady
<1> QED BY <1>2, <1>3 DEF HistoryChained, Chained

LEMMA BeginApplyStep ==
    ASSUME RelInv, BeginApply
    PROVE  RelInv'
<1>1. RelTypes /\ CallSound /\ rCall = ReleaseIdle
  BY DEF RelInv, BeginApply
<1>2. PICK moves \in Manifest :
        /\ rPlan' = Append(rPlan, PlanFor(moves))
        /\ rCall' = [kind |-> "apply", release |-> rMade + 1, left |-> PlanFor(moves), done |-> << >>]
        /\ rAstray' = rAstray \union Misstated(PlanFor(moves), rLive)
  BY DEF BeginApply
<1>3. PICK steps : steps = PlanFor(moves)
  OBVIOUS
<1>4. /\ steps \in Seq(StepType) /\ Len(steps) \in Nat /\ Misstated(steps, rLive) \subseteq rAstray'
      /\ rAstray \subseteq rAstray' /\ rAstray' \subseteq Item \ ConfigKey
  BY <1>1, <1>2, <1>3, PlanTyped DEF RelTypes
<1>5. /\ rMade' = rMade + 1 /\ rMade \in Nat /\ rMade = Len(rPlan) /\ rPlan \in Seq(Seq(StepType))
      /\ rFrom' = rLive /\ rOutcome' = "none" /\ UNCHANGED <<rLive, rCurrent, rHistory, rTarget, rBroken>>
  BY <1>1 DEF BeginApply, RelTypes
<1>6. /\ rPlan' \in Seq(Seq(StepType)) /\ Len(rPlan') = rMade + 1 /\ rPlan'[rMade + 1] = steps
      /\ \A n \in 1..rMade : rPlan'[n] = rPlan[n]
  BY <1>2, <1>3, <1>4, <1>5, AppendProperties
<1>7. /\ rCall'.kind = "apply" /\ rCall'.release = rMade + 1 /\ rCall'.left = steps /\ rCall'.done = << >>
      /\ rCall' \in CallType
  BY <1>2, <1>3, <1>4, <1>5 DEF CallType
<1>8. RelTypes'
  <2>1. DOMAIN rTarget \subseteq 1..(rMade + 1)
    BY <1>1, <1>5 DEF RelTypes
  <2> QED BY <1>1, <1>4, <1>5, <1>6, <1>7, <2>1 DEF RelTypes
<1>9. ~rBroken' => HistoryChained'
  <2>1. \A n \in DOMAIN rTarget : rPlan'[n] = rPlan[n] /\ rTarget'[n] = rTarget[n]
    BY <1>1, <1>5, <1>6 DEF RelTypes
  <2> QED BY <1>1, <1>4, <1>5, <2>1, ChainKept DEF RelInv
<1>10. CallSound'
  <2>1. ApplyingOK'
    <3>1. Len(<< >>) = 0 /\ \A j : j \notin 1..0
      OBVIOUS
    <3>2. NotMoved(Item, rLive, steps, 0, rLive)
      BY DEF NotMoved
    <3>3. rPlan'[rCall'.release] = steps /\ Len(rCall'.done) = 0
      BY <1>6, <1>7, <3>1
    <3>4. \A j \in 1..Len(steps) : steps[j] = steps[0 + j]
      OBVIOUS
    <3>5. Len(steps) = 0 + Len(rCall'.left)
      BY <1>4, <1>7
    <3> QED BY <1>4, <1>5, <1>7, <3>1, <3>2, <3>3, <3>4, <3>5 DEF ApplyingOK
  <2>2. rCall.kind = "idle"
    BY <1>1 DEF ReleaseIdle
  <2>3. ~rBroken /\ rCurrent # 0 => AgreeOn(Steady', rLive, rTarget[rCurrent])
    BY <1>1, <1>4, <2>2 DEF CallSound, AgreeOn, Steady
  <2>5. Misstated(rPlan'[rMade'], rFrom') \subseteq rAstray'
    BY <1>4, <1>5, <1>6
  <2>4. rMade + 1 \notin DOMAIN rTarget /\ rMade + 1 > 0
    BY <1>1, <1>5 DEF RelTypes
  <2> QED BY <1>5, <1>7, <2>1, <2>3, <2>4, <2>5 DEF CallSound
<1> QED BY <1>8, <1>9, <1>10 DEF RelInv

\* A step of a plan is a move of an item.
LEMMA StepsMove ==
    ASSUME NEW steps \in Seq(StepType), NEW k \in 1..Len(steps)
    PROVE  steps[k].item \in Item /\ steps[k].from \in Nat /\ steps[k].to \in Nat
<1>1. steps[k] \in StepType
  BY ElementOfSeq
<1> QED BY <1>1 DEF StepType

LEMMA StepAppliedStep ==
    ASSUME RelInv, StepApplied
    PROVE  RelInv'
<1>1. RelTypes /\ CallSound /\ rCall.kind = "apply" /\ rCall.left # << >> /\ rCall \in CallType
  BY DEF RelInv, StepApplied, RelTypes
<1>2. /\ rCall.release = rMade /\ rMade > 0 /\ rMade \notin DOMAIN rTarget /\ ApplyingOK
      /\ (~rBroken /\ rCurrent # 0 => AgreeOn(Steady, rFrom, rTarget[rCurrent])) /\ Misstated(rPlan[rMade], rFrom) \subseteq rAstray /\ rOutcome # "undone"
  BY <1>1 DEF CallSound
<1>3. PICK steps : steps = rPlan[rMade]
  OBVIOUS
<1>4. steps \in Seq(StepType) /\ Len(steps) \in Nat
  <2>1. rPlan \in Seq(Seq(StepType)) /\ rMade \in 1..Len(rPlan)
    BY <1>1, <1>2 DEF RelTypes
  <2> QED BY <1>3, <2>1, ElementOfSeq
<1>5. PICK left \in Seq(StepType), done \in Seq(StepType) : left = rCall.left /\ done = rCall.done /\ left # << >>
  BY <1>1 DEF CallType
<1>6. PICK k \in Nat : k = Len(done)
  BY <1>5
<1>7. /\ Len(steps) = k + Len(left) /\ (\A j \in 1..k : done[j] = steps[j])
      /\ (\A j \in 1..Len(left) : left[j] = steps[k + j]) /\ NotMoved(Item, rFrom, steps, k, rLive)
  BY <1>2, <1>3, <1>5, <1>6 DEF ApplyingOK
<1>8. PICK s : s = Head(left)
  OBVIOUS
<1>9. Len(left) \in Nat /\ Len(left) > 0 /\ s = left[1] /\ 1 \in 1..Len(left)
  BY <1>5, <1>8
<1>10. s = steps[k + 1] /\ k + 1 \in 1..Len(steps) /\ s \in StepType
  BY <1>4, <1>5, <1>7, <1>9, ElementOfSeq
<1>11. s.item \in Item /\ s.to \in Nat
  BY <1>10 DEF StepType
<1>12. /\ rLive' = [rLive EXCEPT ![s.item] = s.to]
       /\ rCall' = [rCall EXCEPT !.left = Tail(left), !.done = Append(done, s)]
       /\ UNCHANGED <<rPlan, rMade, rCurrent, rHistory, rFrom, rTarget, rOutcome, rBroken, rAstray>>
  BY <1>5, <1>8 DEF StepApplied
<1>13. /\ Tail(left) \in Seq(StepType) /\ Len(Tail(left)) = Len(left) - 1
       /\ \A j \in 1..(Len(left) - 1) : Tail(left)[j] = left[j + 1]
  BY <1>5, HeadTailProperties
<1>14. /\ Append(done, s) \in Seq(StepType) /\ Len(Append(done, s)) = k + 1 /\ Append(done, s)[k + 1] = s
       /\ \A j \in 1..k : Append(done, s)[j] = done[j]
  BY <1>5, <1>6, <1>10, AppendProperties
<1>15. /\ rCall' \in CallType /\ rCall'.kind = "apply" /\ rCall'.release = rMade /\ rCall'.left = Tail(left)
       /\ rCall'.done = Append(done, s)
  BY <1>1, <1>2, <1>12, <1>13, <1>14 DEF CallType
<1>16. rLive \in Configuration /\ rLive' \in Configuration
  BY <1>1, <1>11, <1>12 DEF RelTypes, Configuration
<1>17. RelTypes'
  BY <1>1, <1>12, <1>15, <1>16 DEF RelTypes
<1>18. ~rBroken' => HistoryChained'
  BY <1>1, <1>12, ChainKept DEF RelInv
<1>19. ApplyingOK'
  <2>1. NotMoved(Item, rFrom, steps, k + 1, rLive')
    BY <1>7, <1>10, <1>11, <1>12, <1>16, NotMovedForward
  <2>2. Len(steps) = (k + 1) + (Len(left) - 1)
    BY <1>7, <1>9
  <2>3. \A j \in 1..(k + 1) : Append(done, s)[j] = steps[j]
    <3>1. \A j \in 1..(k + 1) : j \in 1..k \/ j = k + 1
      OBVIOUS
    <3> QED BY <1>7, <1>10, <1>14, <3>1
  <2>4. \A j \in 1..(Len(left) - 1) : Tail(left)[j] = steps[(k + 1) + j]
    <3>1. \A j \in 1..(Len(left) - 1) : j + 1 \in 1..Len(left) /\ k + (j + 1) = (k + 1) + j
      BY <1>9
    <3> QED BY <1>7, <1>13, <3>1
  <2>5. rPlan'[rCall'.release] = steps
    BY <1>3, <1>12, <1>15
  <2>6. PICK d, t, m : d = Append(done, s) /\ t = Tail(left) /\ m = k + 1
    OBVIOUS
  <2>7. rCall'.done = d /\ rCall'.left = t /\ rFrom' = rFrom /\ Len(d) = m /\ Len(steps) = m + Len(t)
    BY <1>12, <1>13, <1>14, <1>15, <2>2, <2>6
  <2>8. /\ \A j \in 1..m : d[j] = steps[j]
        /\ \A j \in 1..Len(t) : t[j] = steps[m + j]
    BY <1>13, <2>3, <2>4, <2>6
  <2>9. NotMoved(Item, rFrom', steps, m, rLive')
    BY <1>7, <2>1, <2>6, <2>7
  <2> HIDE <2>6
  <2> QED BY <2>5, <2>7, <2>8, <2>9 DEF ApplyingOK
<1>20. CallSound'
  BY <1>2, <1>12, <1>15, <1>19 DEF CallSound, Steady
<1> QED BY <1>17, <1>18, <1>20 DEF RelInv

LEMMA StepRefusedStep ==
    ASSUME RelInv, StepRefused
    PROVE  RelInv'
<1>1. RelTypes /\ CallSound /\ rCall.kind = "apply" /\ rCall \in CallType
  BY DEF RelInv, StepRefused, RelTypes
<1>2. /\ rCall.release = rMade /\ rMade > 0 /\ rMade \notin DOMAIN rTarget /\ ApplyingOK
      /\ (~rBroken /\ rCurrent # 0 => AgreeOn(Steady, rFrom, rTarget[rCurrent])) /\ Misstated(rPlan[rMade], rFrom) \subseteq rAstray /\ rOutcome # "undone"
  BY <1>1 DEF CallSound
<1>3. PICK steps : steps = rPlan[rMade]
  OBVIOUS
<1>4. steps \in Seq(StepType) /\ Len(steps) \in Nat
  <2>1. rPlan \in Seq(Seq(StepType)) /\ rMade \in 1..Len(rPlan)
    BY <1>1, <1>2 DEF RelTypes
  <2> QED BY <1>3, <2>1, ElementOfSeq
<1>5. PICK left \in Seq(StepType), done \in Seq(StepType) : left = rCall.left /\ done = rCall.done
  BY <1>1 DEF CallType
<1>6. PICK k \in Nat : k = Len(done)
  BY <1>5
<1>7. /\ Len(steps) = k + Len(left) /\ (\A j \in 1..k : done[j] = steps[j])
      /\ NotMoved(Item, rFrom, steps, k, rLive)
  BY <1>2, <1>3, <1>5, <1>6 DEF ApplyingOK
<1>8. PICK back : back = Reverse(done)
  OBVIOUS
<1>9. back = [j \in 1..k |-> done[(k - j) + 1]]
  BY <1>6, <1>8 DEF Reverse
<1>10. \A j \in 1..k : (k - j) + 1 \in 1..k
  OBVIOUS
<1>11. back \in Seq(StepType) /\ Len(back) = k
  <2>1. \A j \in 1..k : done[(k - j) + 1] \in StepType
    BY <1>5, <1>6, <1>10, ElementOfSeq
  <2> QED BY <1>9, <2>1
<1>12. \A j \in 1..k : back[j] = steps[(k - j) + 1]
  BY <1>7, <1>9, <1>10
<1>13. /\ rCall' = [rCall EXCEPT !.kind = "undo", !.left = back, !.done = << >>]
       /\ UNCHANGED <<rLive, rPlan, rMade, rCurrent, rHistory, rFrom, rTarget, rOutcome, rBroken, rAstray>>
  BY <1>5, <1>8 DEF StepRefused
<1>14. rCall' \in CallType /\ rCall'.kind = "undo" /\ rCall'.release = rMade /\ rCall'.left = back
  <2>1. PICK none \in Seq(StepType) : none = << >>
    BY EmptySeq
  <2>2. PICK undo \in {"idle", "apply", "undo", "rollback"} : undo = "undo"
    OBVIOUS
  <2>3. rCall' = [rCall EXCEPT !.kind = undo, !.left = back, !.done = none]
    BY <1>13, <2>1, <2>2
  <2>4. rCall' \in CallType /\ rCall'.kind = undo /\ rCall'.release = rCall.release /\ rCall'.left = back
    BY <1>1, <1>11, <2>3 DEF CallType
  <2> QED BY <1>2, <2>2, <2>4
<1>15. RelTypes'
  BY <1>1, <1>13, <1>14 DEF RelTypes
<1>16. ~rBroken' => HistoryChained'
  BY <1>1, <1>13, ChainKept DEF RelInv
<1>17. Undoing(Item, rFrom, rPlan[rMade], rLive)'
  <2>1. k <= Len(steps)
    <3>1. Len(left) \in Nat
      BY <1>5
    <3> QED BY <1>4, <1>7, <3>1
  <2>2. rPlan'[rMade'] = steps /\ rFrom' = rFrom /\ rLive' = rLive
    BY <1>3, <1>13
  <2>3. TakenBack(steps, k, k, rLive)
    <3>1. \A j : j \notin (k + 1)..k
      OBVIOUS
    <3> QED BY <3>1 DEF TakenBack
  <2>4. k \in 0..Len(steps) /\ k <= k
    BY <1>4, <2>1
  <2> QED BY <1>7, <1>11, <1>12, <1>14, <2>2, <2>3, <2>4 DEF Undoing
<1>18. CallSound'
  BY <1>2, <1>13, <1>14, <1>17 DEF CallSound, Steady
<1> QED BY <1>15, <1>16, <1>18 DEF RelInv


LEMMA NoReleaseCall ==
    ReleaseIdle \in CallType /\ ReleaseIdle.kind = "idle"
<1>1. PICK none \in Seq(StepType) : none = << >>
  BY EmptySeq
<1>2. PICK idle \in {"idle", "apply", "undo", "rollback"} : idle = "idle"
  OBVIOUS
<1>3. ReleaseIdle = [kind |-> idle, release |-> 0, left |-> none, done |-> none]
  BY <1>1, <1>2 DEF ReleaseIdle
<1>4. ReleaseIdle \in CallType /\ ReleaseIdle.kind = idle
  BY <1>3 DEF CallType
<1> QED BY <1>2, <1>4

LEMMA ReverseOf ==
    ASSUME NEW steps \in Seq(StepType)
    PROVE  /\ Reverse(steps) \in Seq(StepType) /\ Len(Reverse(steps)) = Len(steps)
           /\ \A j \in 1..Len(steps) : Reverse(steps)[j] = steps[(Len(steps) - j) + 1]
<1>1. PICK k \in Nat : k = Len(steps)
  OBVIOUS
<1>2. Reverse(steps) = [j \in 1..k |-> steps[(k - j) + 1]]
  BY <1>1 DEF Reverse
<1>3. \A j \in 1..k : (k - j) + 1 \in 1..k
  OBVIOUS
<1>4. \A j \in 1..k : steps[(k - j) + 1] \in StepType
  BY <1>1, <1>3, ElementOfSeq
<1> QED BY <1>1, <1>2, <1>4

\* What a sequence is without its last element.
LEMMA FrontIs ==
    ASSUME NEW A, NEW s \in Seq(A), NEW n \in Nat, n = Len(s), n > 0
    PROVE  Front(s) \in Seq(A) /\ Len(Front(s)) = n - 1 /\ \A k \in 1..(n - 1) : Front(s)[k] = s[k]
<1>1. Front(s) = SubSeq(s, 1, n - 1) /\ n - 1 \in Int /\ 1 \in Int
  BY DEF Front
<1>2. \A k \in 1..(n - 1) : k \in 1..n /\ k \in 1..(((n - 1) - 1) + 1) /\ (1 + k) - 1 = k
  OBVIOUS
<1>3. \A k \in 1..(n - 1) : s[k] \in A
  BY <1>2, ElementOfSeq
<1>4. /\ SubSeq(s, 1, n - 1) \in Seq(A)
      /\ Len(SubSeq(s, 1, n - 1)) = IF 1 <= n - 1 THEN ((n - 1) - 1) + 1 ELSE 0
  BY <1>1, <1>3, SubSeqProperties
<1>5. \A k \in 1..(((n - 1) - 1) + 1) : SubSeq(s, 1, n - 1)[k] = s[(1 + k) - 1]
  BY <1>1, SliceElements
<1>6. n - 1 = IF 1 <= n - 1 THEN ((n - 1) - 1) + 1 ELSE 0
  OBVIOUS
<1>7. \A k \in 1..(n - 1) : SubSeq(s, 1, n - 1)[k] = s[k]
  BY <1>2, <1>5
<1> QED BY <1>1, <1>4, <1>6, <1>7

\* Forgetting the oldest release, and going back to the last one.
LEMMA ChainCut ==
    ASSUME NEW past \in Seq(Nat), past # << >>, Chained(past)
    PROVE  Chained(Tail(past)) /\ Chained(Front(past))
<1>1. PICK n \in Nat : n = Len(past)
  OBVIOUS
<1>2. n > 0
  BY <1>1, EmptySeq
<1>3. /\ Tail(past) \in Seq(Nat) /\ Len(Tail(past)) = n - 1
      /\ \A k \in 1..(n - 1) : Tail(past)[k] = past[k + 1]
  BY <1>1, HeadTailProperties
<1>4. Chained(Tail(past))
  <2> SUFFICES ASSUME NEW k \in 1..(n - 1)
               PROVE  \E base \in Configuration : Based(Tail(past)[k], base) /\ (k > 1 => AgreeOn(Steady, base, rTarget[Tail(past)[k - 1]]))
    BY <1>3 DEF Chained
  <2>1. k + 1 \in 1..n /\ k + 1 > 1 /\ (k + 1) - 1 = k /\ (k > 1 => k - 1 \in 1..(n - 1) /\ (k - 1) + 1 = k)
    BY <1>2
  <2>2. PICK base \in Configuration : Based(past[k + 1], base) /\ (k + 1 > 1 => AgreeOn(Steady, base, rTarget[past[(k + 1) - 1]]))
    BY <1>1, <2>1 DEF Chained
  <2>3. Tail(past)[k] = past[k + 1] /\ (k > 1 => Tail(past)[k - 1] = past[k])
    BY <1>3, <2>1
  <2>4. Based(Tail(past)[k], base)
    BY <2>2, <2>3 DEF Based
  <2> QED BY <2>1, <2>2, <2>3, <2>4
<1>5. n \in Nat
  BY <1>1
<1>6. Len(Front(past)) = n - 1 /\ \A k \in 1..(n - 1) : Front(past)[k] = past[k]
  BY <1>1, <1>2, <1>5, FrontIs
<1>7. Chained(Front(past))
  <2> SUFFICES ASSUME NEW k \in 1..(n - 1)
               PROVE  \E base \in Configuration : Based(Front(past)[k], base) /\ (k > 1 => AgreeOn(Steady, base, rTarget[Front(past)[k - 1]]))
    BY <1>6 DEF Chained
  <2>1. k \in 1..n /\ (k > 1 => k - 1 \in 1..(n - 1))
    OBVIOUS
  <2>2. PICK base \in Configuration : Based(past[k], base) /\ (k > 1 => AgreeOn(Steady, base, rTarget[past[k - 1]]))
    BY <1>1, <2>1 DEF Chained
  <2>3. Based(Front(past)[k], base)
    BY <1>6, <2>2 DEF Based
  <2> QED BY <1>6, <2>1, <2>2, <2>3
<1> QED BY <1>4, <1>7


LEMMA ChainShort == \A past \in Seq(Nat) : past # << >> /\ Chained(past) => Chained(Tail(past)) /\ Chained(Front(past))
  BY ChainCut

LEMMA RecordApplyStep ==
    ASSUME RelInv, RecordApply
    PROVE  RelInv'
<1>1. RelTypes /\ CallSound /\ rCall.kind = "apply" /\ rCall.left = << >> /\ rCall \in CallType
  BY DEF RelInv, RecordApply, RelTypes
<1>2. /\ rCall.release = rMade /\ rMade > 0 /\ rMade \notin DOMAIN rTarget /\ ApplyingOK
      /\ (~rBroken /\ rCurrent # 0 => AgreeOn(Steady, rFrom, rTarget[rCurrent])) /\ Misstated(rPlan[rMade], rFrom) \subseteq rAstray
  BY <1>1 DEF CallSound
<1>3. /\ rMade \in Nat /\ rLive \in Configuration /\ rFrom \in Configuration /\ rHistory \in Seq(Nat) /\ rCurrent \in Nat
      /\ DOMAIN rTarget \subseteq 1..rMade /\ rMade \in 1..rMade
  BY <1>1, <1>2 DEF RelTypes
<1>4. Based(rMade, rFrom)'
  <2>1. rTarget' = [n \in DOMAIN rTarget \cup {rMade} |-> IF n = rMade THEN rLive ELSE rTarget[n]]
    BY <1>2 DEF RecordApply
  <2>2. rTarget'[rMade] = rLive /\ UNCHANGED <<rMade, rFrom, rPlan>>
    BY <2>1 DEF RecordApply
  <2>3. Len(rCall.left) = 0
    BY <1>1, EmptySeq
  <2>4. Len(rCall.done) \in Nat
    BY <1>1 DEF CallType
  <2>5. Len(rPlan[rMade]) = Len(rCall.done) + 0
    BY <1>2, <2>3 DEF ApplyingOK
  <2>6. Len(rPlan[rMade]) = Len(rCall.done)
    BY <2>4, <2>5
  <2>7. NotMoved(Item, rFrom, rPlan[rMade], Len(rPlan[rMade]), rLive)
    BY <1>2, <2>6 DEF ApplyingOK
  <2>8. NotMoved(Steady, rFrom, rPlan[rMade], Len(rPlan[rMade]), rLive) /\ UNCHANGED rAstray
    BY <2>7 DEF NotMoved, Steady, RecordApply
  <2> QED BY <1>2, <2>2, <2>8 DEF Based, Steady
<1>5. PICK grown : grown = IF rCurrent = 0 THEN rHistory ELSE Append(rHistory, rCurrent)
  OBVIOUS
<1>6. /\ rHistory' = (IF Len(grown) > MaxHistory THEN Tail(grown) ELSE grown)
      /\ rCurrent' = rMade /\ rCall' = ReleaseIdle /\ rOutcome' = "ok"
      /\ UNCHANGED <<rLive, rPlan, rMade, rFrom, rBroken, rAstray>>
      /\ rTarget' = [n \in DOMAIN rTarget \cup {rMade} |-> IF n = rMade THEN rLive ELSE rTarget[n]]
  BY <1>2, <1>5 DEF RecordApply
<1>7. /\ DOMAIN rTarget' = DOMAIN rTarget \cup {rMade} /\ rTarget'[rMade] = rLive
      /\ \A n \in DOMAIN rTarget : rTarget'[n] = rTarget[n] /\ rPlan'[n] = rPlan[n]
  BY <1>2, <1>6
<1>8. PICK size \in Nat : size = Len(rHistory)
  BY <1>3
<1>12. /\ DOMAIN rTarget' \subseteq 1..rMade' /\ (\A n \in DOMAIN rTarget' : rTarget'[n] \in Configuration)
       /\ rCurrent' \in Nat /\ rCurrent' \in DOMAIN rTarget' /\ rCurrent' # 0
       /\ rCall' \in CallType /\ rBroken' \in BOOLEAN /\ rOutcome' \in {"none", "ok", "undone", "stuck"}
       /\ rLive' \in Configuration /\ rFrom' \in Configuration /\ rPlan' \in Seq(Seq(StepType)) /\ rMade' = Len(rPlan')
       /\ rAstray' \subseteq Item \ ConfigKey
  <2>1. \A n \in DOMAIN rTarget : rTarget[n] \in Configuration
    BY <1>1 DEF RelTypes
  <2>2. \A n \in DOMAIN rTarget' : rTarget'[n] \in Configuration
    BY <1>3, <1>7, <2>1
  <2>3. DOMAIN rTarget' \subseteq 1..rMade'
    BY <1>3, <1>6, <1>7
  <2>4. rOutcome' \in {"none", "ok", "undone", "stuck"}
    BY <1>6
  <2>5. rBroken' \in BOOLEAN /\ rPlan' \in Seq(Seq(StepType)) /\ rMade' = Len(rPlan')
    BY <1>1, <1>6 DEF RelTypes
  <2>6. rCurrent' \in Nat /\ rCurrent' \in DOMAIN rTarget' /\ rCurrent' # 0
    BY <1>2, <1>3, <1>6, <1>7
  <2>7. rCall' \in CallType
    BY <1>6, NoReleaseCall
  <2>8. rLive' \in Configuration /\ rFrom' \in Configuration
    BY <1>3, <1>6
  <2>9. rAstray' \subseteq Item \ ConfigKey
    BY <1>1, <1>6 DEF RelTypes
  <2> QED BY <2>2, <2>3, <2>4, <2>5, <2>6, <2>7, <2>8, <2>9
<1>9. \A k \in 1..size : rHistory[k] \in DOMAIN rTarget
  BY <1>1, <1>8 DEF RelTypes
<1>10. CASE rCurrent = 0
  <2>1. grown = << >> /\ rHistory = << >>
    BY <1>1, <1>5, <1>10 DEF RelTypes
  <2>2. Len(grown) = 0 /\ Len(<< >>) = 0
    BY <2>1, EmptySeq
  <2>3. rHistory' = << >>
    BY <1>6, <2>1, <2>2, ReleasesAssumption
  <2>4. Chained(rHistory)'
    <3>1. \A k : k \notin 1..0
      OBVIOUS
    <3> QED BY <2>2, <2>3, <3>1 DEF Chained
  <2>5. HistoryChained'
    <3>1. PICK base \in Configuration : base = rFrom
      BY <1>3
    <3>2. Based(rCurrent, base)'
      BY <1>4, <1>6, <3>1 DEF Based
    <3> QED BY <2>3, <2>4, <3>2 DEF HistoryChained
  <2>6. RelTypes'
    <3>1. \A k : k \notin 1..0
      OBVIOUS
    <3>2. rHistory' \in Seq(Nat) /\ \A k \in 1..Len(rHistory') : rHistory'[k] \in DOMAIN rTarget'
      BY <2>2, <2>3, <3>1
    <3> QED BY <1>12, <3>2 DEF RelTypes
  <2>7. AgreeOn(Steady', rLive', rTarget'[rCurrent'])
    BY <1>6, <1>7 DEF AgreeOn
  <2> QED BY <1>6, <2>5, <2>6, <2>7, NoReleaseCall DEF RelInv, CallSound
<1>11. CASE rCurrent # 0
  <2>1. /\ grown \in Seq(Nat) /\ Len(grown) = size + 1 /\ grown[size + 1] = rCurrent
        /\ \A k \in 1..size : grown[k] = rHistory[k]
    BY <1>3, <1>5, <1>8, <1>11, AppendProperties
  <2>2. rCurrent \in DOMAIN rTarget /\ \A k \in 1..(size + 1) : k \in 1..size \/ k = size + 1
    BY <1>1, <1>8, <1>11 DEF RelTypes
  <2>3. \A k \in 1..(size + 1) : grown[k] \in DOMAIN rTarget
    BY <1>9, <2>1, <2>2
  <2>4. grown # << >>
    BY <2>1, EmptySeq
  <2>5. /\ Tail(grown) \in Seq(Nat) /\ Len(Tail(grown)) = size /\ \A k \in 1..size : Tail(grown)[k] = grown[k + 1]
    <3>1. Len(grown) - 1 = size
      BY <2>1
    <3> QED BY <2>1, <2>4, <3>1, HeadTailProperties
  <2>6. \A k \in 1..size : Tail(grown)[k] \in DOMAIN rTarget
    <3>1. \A k \in 1..size : k + 1 \in 1..(size + 1)
      OBVIOUS
    <3> QED BY <2>3, <2>5, <3>1
  <2>7. rHistory' = Tail(grown) \/ rHistory' = grown
    BY <1>6
  <2>8. rHistory' \in Seq(Nat) /\ \A k \in 1..Len(rHistory') : rHistory'[k] \in DOMAIN rTarget'
    BY <1>7, <2>1, <2>3, <2>5, <2>6, <2>7
  <2>9. RelTypes'
    BY <1>12, <2>8 DEF RelTypes
  <2>10. rHistory' # << >> => rHistory'[Len(rHistory')] = rCurrent
    <3>1. CASE rHistory' = grown
      BY <2>1, <3>1
    <3>2. CASE rHistory' = Tail(grown) /\ size = 0
      BY <2>5, <3>2, EmptySeq
    <3>3. CASE rHistory' = Tail(grown) /\ size # 0
      <4>1. size \in 1..size
        BY <3>3
      <4> QED BY <2>1, <2>5, <3>3, <4>1
    <3> QED BY <2>7, <3>1, <3>2, <3>3
  <2>11. ASSUME ~rBroken PROVE HistoryChained'
    <3>1. HistoryChained
      BY <2>11 DEF RelInv
    <3>2. \A n \in DOMAIN rTarget : \A base : Based(n, base) => Based(n, base)'
      BY <1>6, <1>7 DEF Based, NotMoved, Steady
    <3>3. ASSUME NEW k \in 1..(size + 1)
          PROVE  \E base \in Configuration : Based(grown[k], base)' /\ (k > 1 => AgreeOn(Steady', base, rTarget'[grown[k - 1]]))
      <4>1. CASE k \in 1..size
        <5>1. PICK base \in Configuration : Based(rHistory[k], base) /\ (k > 1 => AgreeOn(Steady, base, rTarget[rHistory[k - 1]]))
          BY <1>8, <3>1, <4>1 DEF HistoryChained, Chained
        <5>2. PICK n \in DOMAIN rTarget : n = rHistory[k] /\ n = grown[k]
          BY <1>9, <2>1, <4>1
        <5>3. Based(n, base)'
          BY <3>2, <5>1, <5>2
        <5>4. Based(grown[k], base)'
          BY <5>2, <5>3 DEF Based
        <5>5. k > 1 => k - 1 \in 1..size
          BY <4>1
        <5>6. k > 1 => rTarget'[grown[k - 1]] = rTarget[rHistory[k - 1]]
          BY <1>7, <1>9, <2>1, <5>5
        <5> QED BY <1>6, <5>1, <5>4, <5>6 DEF Steady
      <4>2. CASE k = size + 1
        <5>1. PICK base \in Configuration : Based(rCurrent, base) /\ (rHistory # << >> => AgreeOn(Steady, base, rTarget[rHistory[Len(rHistory)]]))
          BY <1>11, <3>1 DEF HistoryChained
        <5>2. PICK n \in DOMAIN rTarget : n = rCurrent /\ n = grown[k]
          BY <2>1, <2>2, <4>2
        <5>3. Based(n, base)'
          BY <3>2, <5>1, <5>2
        <5>4. Based(grown[k], base)'
          BY <5>2, <5>3 DEF Based
        <5>5. k > 1 => k - 1 = size /\ size \in 1..size
          BY <4>2
        <5>6. k > 1 => rTarget'[grown[k - 1]] = rTarget[rHistory[size]]
          BY <1>7, <1>9, <2>1, <5>5
        <5>7. k > 1 => rHistory # << >>
          BY <1>8, <5>5, EmptySeq
        <5> QED BY <1>6, <1>8, <5>1, <5>4, <5>6, <5>7 DEF Steady
      <4> QED BY <2>2, <4>1, <4>2
    <3>4. Chained(grown)'
      BY <2>1, <3>3 DEF Chained
    <3>5. Chained(Tail(grown))'
      <4>1. (\A past \in Seq(Nat) : past # << >> /\ Chained(past) => Chained(Tail(past)) /\ Chained(Front(past)))'
        BY ChainShort, PTL
      <4> QED BY <2>1, <2>4, <3>4, <4>1
    <3>6. Chained(rHistory)'
      BY <2>7, <3>4, <3>5 DEF Chained
    <3>7. PICK base \in Configuration : base = rFrom
      BY <1>3
    <3>8. Based(rCurrent, base)'
      BY <1>4, <1>6, <3>7 DEF Based
    <3>9. rHistory' # << >> => AgreeOn(Steady', base, rTarget'[rHistory'[Len(rHistory')]])
      <4>1. AgreeOn(Steady, base, rTarget[rCurrent])
        BY <1>2, <1>11, <2>11, <3>7
      <4>2. Steady' = Steady /\ rTarget'[rCurrent] = rTarget[rCurrent]
        BY <1>6, <1>7, <2>2 DEF Steady
      <4> QED BY <2>10, <4>1, <4>2
    <3> QED BY <3>6, <3>8, <3>9 DEF HistoryChained
  <2>12. AgreeOn(Steady', rLive', rTarget'[rCurrent']) /\ rBroken' = rBroken
    BY <1>6, <1>7 DEF AgreeOn
  <2> QED BY <1>6, <2>9, <2>11, <2>12, NoReleaseCall DEF RelInv, CallSound
<1> QED BY <1>10, <1>11


LEMMA BeginRollbackStep ==
    ASSUME RelInv, BeginRollback
    PROVE  RelInv'
<1>1. RelTypes /\ CallSound /\ rCall = ReleaseIdle /\ rCurrent # 0 /\ ~rBroken /\ HistoryChained
  BY DEF RelInv, BeginRollback
<1>2. PICK steps : steps = rPlan[rCurrent]
  OBVIOUS
<1>3. steps \in Seq(StepType) /\ Len(steps) \in Nat
  <2>1. rPlan \in Seq(Seq(StepType)) /\ rCurrent \in 1..Len(rPlan)
    BY <1>1 DEF RelTypes
  <2> QED BY <1>2, <2>1, ElementOfSeq
<1>4. PICK back : back = Reverse(steps)
  OBVIOUS
<1>5. /\ back \in Seq(StepType) /\ Len(back) = Len(steps)
      /\ \A j \in 1..Len(steps) : back[j] = steps[(Len(steps) - j) + 1]
  BY <1>3, <1>4, ReverseOf
<1>6. /\ rCall' = [kind |-> "rollback", release |-> rCurrent, left |-> back, done |-> << >>]
      /\ rFrom' = rLive /\ rOutcome' = "none"
      /\ UNCHANGED <<rLive, rPlan, rMade, rCurrent, rHistory, rTarget, rBroken, rAstray>>
  BY <1>2, <1>4 DEF BeginRollback
<1>7. rCall' \in CallType /\ rCall'.kind = "rollback" /\ rCall'.release = rCurrent /\ rCall'.left = back
  <2>1. PICK none \in Seq(StepType) : none = << >>
    BY EmptySeq
  <2>2. PICK kind \in {"idle", "apply", "undo", "rollback"} : kind = "rollback"
    OBVIOUS
  <2>3. rCall' = [kind |-> kind, release |-> rCurrent, left |-> back, done |-> none]
    BY <1>6, <2>1, <2>2
  <2>4. rCall' \in CallType /\ rCall'.kind = kind /\ rCall'.release = rCurrent /\ rCall'.left = back
    BY <1>1, <1>5, <2>3 DEF CallType, RelTypes
  <2> QED BY <2>2, <2>4
<1>8. RelTypes'
  BY <1>1, <1>6, <1>7 DEF RelTypes
<1>9. HistoryChained'
  BY <1>1, <1>6, ChainKept
<1>10. AgreeOn(Steady, rLive, rTarget[rCurrent])
  BY <1>1, NoReleaseCall DEF CallSound
<1>11. PICK base \in Configuration : Based(rCurrent, base) /\ (rHistory # << >> => AgreeOn(Steady, base, rTarget[rHistory[Len(rHistory)]]))
  BY <1>1 DEF HistoryChained
<1>12. Misstated(steps, base) \subseteq rAstray /\ NotMoved(Steady, base, steps, Len(steps), rLive)
  BY <1>2, <1>10, <1>11 DEF Based, NotMoved, AgreeOn
<1>13. Undoing(Steady, base, rPlan[rCurrent], rLive)'
  <2>1. Len(steps) <= Len(steps)
    BY <1>3
  <2>2. rPlan'[rCurrent'] = steps /\ rLive' = rLive
    BY <1>2, <1>6
  <2>3. TakenBack(steps, Len(steps), Len(steps), rLive)
    <3>1. \A j : j \notin (Len(steps) + 1)..Len(steps)
      BY <1>3
    <3> QED BY <3>1 DEF TakenBack
  <2>4. Len(steps) \in 0..Len(steps) /\ Steady' = Steady
    BY <1>3, <1>6 DEF Steady
  <2> QED BY <1>5, <1>7, <1>12, <2>1, <2>2, <2>3, <2>4 DEF Undoing
<1>14. CallSound'
  <2>1. Misstated(rPlan'[rCurrent'], base) \subseteq rAstray' /\ Steady' = Steady
    BY <1>2, <1>6, <1>12 DEF Steady
  <2> QED BY <1>1, <1>6, <1>7, <1>11, <1>13, <2>1 DEF CallSound
<1> QED BY <1>8, <1>9, <1>14 DEF RelInv

\* What one rollback_step does, for an undo and for a rollback alike.
LEMMA StepBack ==
    ASSUME RelTypes, StepUndone, NEW some \in SUBSET Item, NEW from \in Configuration, NEW n \in 1..rMade,
           Undoing(some, from, rPlan[n], rLive)
    PROVE  /\ rLive' \in Configuration /\ rCall' \in CallType
           /\ rCall'.kind = rCall.kind /\ rCall'.release = rCall.release
           /\ Undoing(some, from, rPlan[n], rLive)'
<1>1. PICK steps \in Seq(StepType) : steps = rPlan[n]
  <2>1. rPlan \in Seq(Seq(StepType)) /\ n \in 1..Len(rPlan)
    BY DEF RelTypes
  <2> QED BY <2>1, ElementOfSeq
<1>2. PICK left \in Seq(StepType) : left = rCall.left /\ left # << >>
  BY DEF RelTypes, CallType, StepUndone
<1>3. PICK k \in Nat : k = Len(left) /\ k > 0
  BY <1>2, EmptySeq
<1>4. Len(steps) \in Nat
  OBVIOUS
<1>5. PICK top \in 0..Len(steps) :
          /\ k <= top /\ NotMoved(some, from, steps, top, rLive) /\ TakenBack(steps, k, top, rLive)
          /\ \A j \in 1..k : left[j] = steps[(k - j) + 1]
  BY <1>1, <1>2, <1>3 DEF Undoing
<1>6. PICK s : s = Head(left)
  OBVIOUS
<1>7. 1 \in 1..k /\ (k - 1) + 1 = k /\ k \in 1..Len(steps) /\ top \in Nat /\ k \in 1..top /\ k - 1 <= top
  BY <1>3, <1>4, <1>5
<1>8. s = steps[k] /\ s.item \in Item /\ s.from \in Nat
  <2>1. s = left[1]
    BY <1>2, <1>6, HeadTailProperties
  <2>2. left[1] = steps[(k - 1) + 1]
    BY <1>5, <1>7
  <2> QED BY <1>7, <2>1, <2>2, StepsMove
<1>9. rLive' = [rLive EXCEPT ![s.item] = s.from] /\ rCall' = [rCall EXCEPT !.left = Tail(left)] /\ rPlan' = rPlan
  BY <1>2, <1>6 DEF StepUndone
<1>10. /\ Tail(left) \in Seq(StepType) /\ Len(Tail(left)) = k - 1 /\ \A j \in 1..(k - 1) : Tail(left)[j] = left[j + 1]
  BY <1>2, <1>3, HeadTailProperties
<1>11. rCall' \in CallType /\ rCall'.kind = rCall.kind /\ rCall'.release = rCall.release /\ rCall'.left = Tail(left)
  BY <1>9, <1>10 DEF RelTypes, CallType
<1>12. rLive \in Configuration /\ rLive' \in Configuration
  BY <1>8, <1>9 DEF RelTypes, Configuration
<1>13. NotMoved(some, from, steps, top, rLive') /\ TakenBack(steps, k - 1, top, rLive')
  <2>1. \A j \in 1..top : steps[j].item \in Item
    <3>1. \A j \in 1..top : j \in 1..Len(steps)
      BY <1>4
    <3> QED BY <3>1, StepsMove
  <2> QED BY <1>4, <1>5, <1>7, <1>8, <1>9, <1>12, <2>1, TakenBackOne
<1>14. \A j \in 1..(k - 1) : Tail(left)[j] = steps[((k - 1) - j) + 1]
  <2>1. \A j \in 1..(k - 1) : j + 1 \in 1..k /\ (k - (j + 1)) + 1 = ((k - 1) - j) + 1
    OBVIOUS
  <2> QED BY <1>5, <1>10, <2>1
<1>16. Undoing(some, from, rPlan[n], rLive)'
  BY <1>1, <1>7, <1>9, <1>10, <1>11, <1>13, <1>14 DEF Undoing
<1> QED BY <1>11, <1>12, <1>16


LEMMA StepUndoneStep ==
    ASSUME RelInv, StepUndone
    PROVE  RelInv'
<1>1. RelTypes /\ CallSound
  BY DEF RelInv
<1>2. UNCHANGED <<rPlan, rMade, rCurrent, rHistory, rFrom, rTarget, rOutcome, rBroken, rAstray>>
  BY DEF StepUndone
<1>3. ~rBroken' => HistoryChained'
  BY <1>1, <1>2, ChainKept DEF RelInv
<1>4. CASE rCall.kind = "undo"
  <2>1. /\ rCall.release = rMade /\ rMade > 0 /\ rMade \notin DOMAIN rTarget /\ rOutcome # "undone"
        /\ (~rBroken /\ rCurrent # 0 => AgreeOn(Steady, rFrom, rTarget[rCurrent])) /\ Misstated(rPlan[rMade], rFrom) \subseteq rAstray
        /\ Undoing(Item, rFrom, rPlan[rMade], rLive)
    BY <1>1, <1>4 DEF CallSound
  <2>2. PICK from \in Configuration, n \in 1..rMade : from = rFrom /\ n = rMade
    BY <1>1, <2>1 DEF RelTypes
  <2>3. Undoing(Item, from, rPlan[n], rLive)
    BY <2>1, <2>2
  <2>4. rLive' \in Configuration /\ rCall' \in CallType /\ rCall'.kind = rCall.kind /\ rCall'.release = rCall.release
    BY <1>1, <2>3, StepBack
  <2>5. Undoing(Item, from, rPlan[n], rLive)'
    BY <1>1, <2>3, StepBack
  <2>6. Undoing(Item, rFrom, rPlan[rMade], rLive)'
    BY <1>2, <2>2, <2>5 DEF Undoing
  <2>7. RelTypes'
    BY <1>1, <1>2, <2>4 DEF RelTypes
  <2>8. CallSound'
    BY <1>2, <1>4, <2>1, <2>4, <2>6 DEF CallSound, Steady
  <2> QED BY <1>3, <2>7, <2>8 DEF RelInv
<1>5. CASE rCall.kind = "rollback"
  <2>1. rCall.release = rCurrent /\ rCurrent # 0 /\ ~rBroken /\ rOutcome # "undone"
    BY <1>1, <1>5 DEF CallSound
  <2>2. PICK base \in Configuration :
          Undoing(Steady, base, rPlan[rCurrent], rLive) /\ Misstated(rPlan[rCurrent], base) \subseteq rAstray /\ (rHistory # << >> => AgreeOn(Steady, base, rTarget[rHistory[Len(rHistory)]]))
    BY <1>1, <1>5 DEF CallSound
  <2>3. PICK n \in 1..rMade, some \in SUBSET Item : n = rCurrent /\ some = Steady
    BY <1>1, <2>1 DEF RelTypes, Steady
  <2>4. Undoing(some, base, rPlan[n], rLive)
    BY <2>2, <2>3
  <2>5. rLive' \in Configuration /\ rCall' \in CallType /\ rCall'.kind = rCall.kind /\ rCall'.release = rCall.release
    BY <1>1, <2>4, StepBack
  <2>6. Undoing(some, base, rPlan[n], rLive)'
    BY <1>1, <2>4, StepBack
  <2>7. Undoing(Steady, base, rPlan[rCurrent], rLive)'
    BY <1>2, <2>3, <2>6 DEF Undoing, Steady
  <2>8. RelTypes'
    BY <1>1, <1>2, <2>5 DEF RelTypes
  <2>9. CallSound'
    BY <1>2, <1>5, <2>1, <2>2, <2>5, <2>7 DEF CallSound, Steady
  <2> QED BY <1>3, <2>8, <2>9 DEF RelInv
<1> QED BY <1>4, <1>5 DEF StepUndone

LEMMA UndoRefusedStep ==
    ASSUME RelInv, UndoRefused
    PROVE  RelInv'
<1>1. RelTypes /\ rCall' = ReleaseIdle /\ rOutcome' = "stuck" /\ rBroken' = TRUE
  BY DEF RelInv, UndoRefused
<1>2. UNCHANGED <<rLive, rPlan, rMade, rCurrent, rHistory, rFrom, rTarget, rAstray>>
  BY DEF UndoRefused
<1>3. rCall' \in CallType /\ rCall'.kind = "idle"
  BY <1>1, NoReleaseCall
<1>4. RelTypes'
  BY <1>1, <1>2, <1>3 DEF RelTypes
<1>5. CallSound'
  BY <1>1, <1>3 DEF CallSound
<1> QED BY <1>1, <1>4, <1>5 DEF RelInv

\* Every step has been undone.
LEMMA UndoneAll ==
    ASSUME NEW some \in SUBSET Item, NEW from, NEW n, Undoing(some, from, rPlan[n], rLive), rPlan[n] \in Seq(StepType),
           rCall.left = << >>
    PROVE  AllTakenBack(some, from, rPlan[n], rLive)
<1>1. Len(rCall.left) = 0
  BY EmptySeq
<1>2. PICK steps \in Seq(StepType) : steps = rPlan[n]
  OBVIOUS
<1>3. PICK top \in 0..Len(steps) : NotMoved(some, from, steps, top, rLive) /\ TakenBack(steps, 0, top, rLive)
  BY <1>1, <1>2 DEF Undoing
<1>4. Len(steps) \in Nat /\ DOMAIN steps = 1..Len(steps)
  OBVIOUS
<1>5. ASSUME NEW i \in some, rLive[i] # from[i]
      PROVE  \E k \in DOMAIN steps : IsFirstMove(steps, k, i) /\ rLive[i] = steps[k].from
  <2> DEFINE moved == {j \in 1..top : steps[j].item = i}
  <2>1. moved \subseteq Nat /\ moved # {}
    BY <1>3, <1>5 DEF NotMoved
  <2>2. PICK k \in moved : \A j \in moved : k <= j
    BY <2>1, LeastThere
  <2>3. k \in 1..top /\ k \in DOMAIN steps /\ steps[k].item = i
    BY <1>3, <1>4, <2>2
  <2>4. \A j \in DOMAIN steps : j < k => steps[j].item # i
    BY <1>3, <1>4, <2>2, <2>3
  <2>5. \A j \in (0 + 1)..(k - 1) : j \in DOMAIN steps /\ j < k
    BY <1>3, <1>4, <2>3
  <2>6. k \in (0 + 1)..top /\ \A j \in (0 + 1)..(k - 1) : steps[j].item # steps[k].item
    BY <2>3, <2>4, <2>5
  <2>7. rLive[i] = steps[k].from
    BY <1>3, <2>3, <2>6 DEF TakenBack
  <2> QED BY <2>3, <2>4, <2>7 DEF IsFirstMove
<1> QED BY <1>2, <1>5 DEF AllTakenBack

\* Where the plan is right, that is the configuration it was applied to.
LEMMA BackWhereRight ==
    ASSUME NEW some \in SUBSET Item, NEW from, NEW steps, NEW live, AllTakenBack(some, from, steps, live),
           NEW wrong, Misstated(steps, from) \subseteq wrong
    PROVE  AgreeOn(some \ wrong, live, from)
  BY DEF AllTakenBack, Misstated, AgreeOn

LEMMA EndUndoStep ==
    ASSUME RelInv, EndUndo
    PROVE  RelInv'
<1>1. RelTypes /\ CallSound /\ rCall.left = << >> /\ rCall' = ReleaseIdle
  BY DEF RelInv, EndUndo
<1>2. UNCHANGED <<rLive, rPlan, rMade, rFrom, rTarget, rBroken, rAstray>>
  BY DEF EndUndo
<1>3. rCall' \in CallType /\ rCall'.kind = "idle"
  BY <1>1, NoReleaseCall
<1>4. CASE rCall.kind = "undo"
  <2>1. rOutcome' = "undone" /\ UNCHANGED <<rCurrent, rHistory>>
    BY <1>4 DEF EndUndo
  <2>2. /\ (~rBroken /\ rCurrent # 0 => AgreeOn(Steady, rFrom, rTarget[rCurrent])) /\ Misstated(rPlan[rMade], rFrom) \subseteq rAstray
        /\ Undoing(Item, rFrom, rPlan[rMade], rLive) /\ rMade > 0
    BY <1>1, <1>4 DEF CallSound
  <2>7. rPlan[rMade] \in Seq(StepType)
    <3>1. rPlan \in Seq(Seq(StepType)) /\ rMade \in 1..Len(rPlan)
      BY <1>1, <2>2 DEF RelTypes
    <3> QED BY <3>1, ElementOfSeq
  <2>3. AllTakenBack(Item, rFrom, rPlan[rMade], rLive)
    BY <1>1, <2>2, <2>7, UndoneAll
  <2>8. ~rBroken /\ rCurrent # 0 => AgreeOn(Steady, rLive, rTarget[rCurrent])
    BY <2>2, <2>3, BackWhereRight DEF AgreeOn, Steady
  <2>4. RelTypes'
    BY <1>1, <1>2, <1>3, <2>1 DEF RelTypes
  <2>5. ~rBroken' => HistoryChained'
    BY <1>1, <1>2, <2>1, ChainKept DEF RelInv
  <2>6. CallSound'
    BY <1>2, <1>3, <2>1, <2>2, <2>3, <2>8 DEF CallSound, Steady
  <2> QED BY <2>4, <2>5, <2>6 DEF RelInv
<1>5. CASE rCall.kind = "rollback"
  <2>1. /\ rOutcome' = "ok" /\ rCurrent' = (IF rHistory = << >> THEN 0 ELSE Last(rHistory))
        /\ rHistory' = (IF rHistory = << >> THEN << >> ELSE Front(rHistory))
    BY <1>5 DEF EndUndo
  <2>2. rCurrent # 0 /\ ~rBroken /\ HistoryChained
    BY <1>1, <1>5 DEF CallSound, RelInv
  <2>3. PICK base \in Configuration :
          Undoing(Steady, base, rPlan[rCurrent], rLive) /\ Misstated(rPlan[rCurrent], base) \subseteq rAstray /\ (rHistory # << >> => AgreeOn(Steady, base, rTarget[rHistory[Len(rHistory)]]))
    BY <1>1, <1>5 DEF CallSound
  <2>7. PICK steps \in Seq(StepType) : steps = rPlan[rCurrent]
    <3>1. rPlan \in Seq(Seq(StepType)) /\ rCurrent \in 1..Len(rPlan)
      BY <1>1, <2>2 DEF RelTypes
    <3> QED BY <3>1, ElementOfSeq
  <2>4. AgreeOn(Steady, rLive, base)
    <3>1. Steady \in SUBSET Item /\ Steady \ rAstray = Steady
      BY DEF Steady
    <3>2. AllTakenBack(Steady, base, rPlan[rCurrent], rLive)
      BY <1>1, <2>3, <2>7, <3>1, UndoneAll
    <3>3. AgreeOn(Steady \ rAstray, rLive, base)
      BY <2>3, <3>1, <3>2, BackWhereRight
    <3> QED BY <3>1, <3>3
  <2>5. CASE rHistory = << >>
    <3>1. rCurrent' = 0 /\ rHistory' = rHistory /\ Len(rHistory) = 0 /\ Chained(rHistory)
      BY <2>1, <2>2, <2>5, EmptySeq DEF HistoryChained
    <3>2. RelTypes'
      <4>1. rCurrent' \in Nat /\ rOutcome' \in {"none", "ok", "undone", "stuck"}
        BY <2>1, <3>1
      <4> QED BY <1>1, <1>2, <1>3, <2>5, <3>1, <4>1 DEF RelTypes
    <3>3. Chained(rHistory)'
      <4>1. \A k : k \notin 1..0
        OBVIOUS
      <4> QED BY <3>1, <4>1 DEF Chained
    <3>4. HistoryChained' /\ CallSound'
      BY <1>3, <2>1, <3>1, <3>3 DEF HistoryChained, CallSound
    <3> QED BY <3>2, <3>4 DEF RelInv
  <2>6. CASE rHistory # << >>
    <3>1. PICK n \in Nat : n = Len(rHistory) /\ n > 0 /\ rHistory \in Seq(Nat)
      BY <1>1, <2>6, EmptySeq DEF RelTypes
    <3>2. rCurrent' = rHistory[n] /\ rHistory' = Front(rHistory)
      BY <2>1, <2>6, <3>1 DEF Last
    <3>3. /\ Front(rHistory) \in Seq(Nat) /\ Len(Front(rHistory)) = n - 1
          /\ \A k \in 1..(n - 1) : Front(rHistory)[k] = rHistory[k]
      BY <3>1, FrontIs
    <3>4. /\ Len(rHistory') = n - 1 /\ \A k \in 1..(n - 1) : rHistory'[k] = rHistory[k]
      BY <3>2, <3>3
    <3>5. \A k \in 1..n : rHistory[k] \in DOMAIN rTarget /\ rHistory[k] \in Nat
      BY <1>1, <3>1 DEF RelTypes
    <3>6. n \in 1..n /\ \A k \in 1..(n - 1) : k \in 1..n
      BY <3>1
    <3>7. rHistory' \in Seq(Nat)
      BY <3>2, <3>3
    <3>8. rCurrent' \in DOMAIN rTarget /\ rCurrent' # 0 /\ rCurrent' \in Nat
      <4>1. DOMAIN rTarget \subseteq 1..rMade /\ 0 \notin 1..rMade
        BY <1>1 DEF RelTypes
      <4> QED BY <3>2, <3>5, <3>6, <4>1
    <3>9. RelTypes'
      <4>1. \A k \in 1..Len(rHistory') : rHistory'[k] \in DOMAIN rTarget'
        BY <1>2, <3>4, <3>5, <3>6
      <4>2. rOutcome' \in {"none", "ok", "undone", "stuck"}
        BY <2>1
      <4> QED BY <1>1, <1>2, <1>3, <3>7, <3>8, <4>1, <4>2 DEF RelTypes
    <3>10. PICK old \in Configuration : Based(rHistory[n], old) /\ (n > 1 => AgreeOn(Steady, old, rTarget[rHistory[n - 1]]))
      BY <2>2, <3>1, <3>6 DEF HistoryChained, Chained
    <3>11. Based(rCurrent, old)'
      BY <1>2, <3>2, <3>10 DEF Based, Steady
    <3>12. rHistory' # << >> => AgreeOn(Steady', old, rTarget'[rHistory'[Len(rHistory')]])
      <4>1. rHistory' # << >> => Len(rHistory') # 0
        BY <3>7, EmptySeq
      <4>2. n - 1 # 0 => n > 1 /\ n - 1 \in 1..(n - 1)
        BY <3>1
      <4> QED BY <1>2, <3>4, <3>10, <4>1, <4>2 DEF Steady
    <3>13. Chained(rHistory)'
      <4>1. Chained(Front(rHistory))
        BY <2>2, <2>6, <3>1, ChainCut DEF HistoryChained
      <4>2. PICK past : past = Front(rHistory)
        OBVIOUS
      <4>3. Chained(past)
        BY <4>1, <4>2 DEF Chained, Based, Steady
      <4>4. Chained(past)'
        BY <1>2, <4>3 DEF Chained, Based, Steady
      <4> QED BY <3>2, <4>2, <4>4 DEF Chained, Based, Steady
    <3>14. HistoryChained'
      BY <3>11, <3>12, <3>13 DEF HistoryChained
    <3>15. AgreeOn(Steady', rLive', rTarget'[rCurrent'])
      BY <1>2, <2>3, <2>4, <2>6, <3>1, <3>2 DEF AgreeOn, Steady
    <3>16. CallSound'
      BY <1>3, <2>1, <3>15 DEF CallSound
    <3> QED BY <3>9, <3>14, <3>16 DEF RelInv
  <2> QED BY <2>5, <2>6
<1> QED BY <1>4, <1>5 DEF EndUndo

LEMMA RelInvInit == RelInit => RelInv
<1> SUFFICES ASSUME RelInit PROVE RelInv
  OBVIOUS
<1>1. rCall \in CallType /\ rCall.kind = "idle"
  BY NoReleaseCall DEF RelInit
<1>2. rLive \in Configuration /\ rFrom \in Configuration
  BY DEF RelInit, Configuration
<1>3. /\ rPlan \in Seq(Seq(StepType)) /\ Len(rPlan) = 0 /\ rHistory \in Seq(Nat) /\ Len(rHistory) = 0
  <2>1. << >> \in Seq(Seq(StepType)) /\ << >> \in Seq(Nat)
    BY EmptySeq
  <2> QED BY <2>1, EmptySeq DEF RelInit
<1>4. \A k : k \notin 1..0
  OBVIOUS
<1>5. DOMAIN rTarget = {}
  BY DEF RelInit
<1>6. RelTypes
  <2>1. rCurrent \in Nat /\ rBroken \in BOOLEAN /\ rOutcome \in {"none", "ok", "undone", "stuck"} /\ rMade = 0
    BY DEF RelInit
  <2>2. rCurrent = 0 /\ rHistory = << >> /\ rAstray = {}
    BY DEF RelInit
  <2> QED BY <1>1, <1>2, <1>3, <1>4, <1>5, <2>1, <2>2 DEF RelTypes
<1>7. HistoryChained
  <2>1. Chained(rHistory)
    BY <1>3, <1>4 DEF Chained
  <2>2. rCurrent = 0
    BY DEF RelInit
  <2> QED BY <2>1, <2>2 DEF HistoryChained
<1>8. CallSound
  <2>1. rCurrent = 0 /\ rOutcome = "none"
    BY DEF RelInit
  <2> QED BY <1>1, <2>1 DEF CallSound
<1> QED BY <1>6, <1>7, <1>8 DEF RelInv

LEMMA RelInvNext == RelInv /\ [RelNext]_rVars => RelInv'
<1> SUFFICES ASSUME RelInv, [RelNext]_rVars PROVE RelInv'
  OBVIOUS
<1>1. CASE RelNext
  BY <1>1, BeginApplyStep, BeginRollbackStep, StepAppliedStep, StepRefusedStep, RecordApplyStep, StepUndoneStep,
     UndoRefusedStep, EndUndoStep DEF RelNext
<1>2. CASE UNCHANGED rVars
  <2>1. UNCHANGED <<rLive, rPlan, rMade, rCurrent, rHistory, rCall, rFrom, rTarget, rOutcome, rBroken, rAstray>>
    BY <1>2 DEF rVars
  <2>2. RelTypes'
    BY <2>1 DEF RelInv, RelTypes
  <2>3. ~rBroken' => HistoryChained'
    BY <2>1, ChainKept DEF RelInv
  <2>4. CallSound'
    BY <2>1 DEF RelInv, CallSound, ApplyingOK, Undoing, Steady
  <2> QED BY <2>2, <2>3, <2>4 DEF RelInv
<1> QED BY <1>1, <1>2

LEMMA RelInvEnough == RelInv => AllOrNothing /\ CurrentIsLive
<1> SUFFICES ASSUME RelInv PROVE AllOrNothing /\ CurrentIsLive
  OBVIOUS
<1>1. ASSUME rOutcome = "undone", NEW i \in Item
      PROVE  \/ rLive[i] = rFrom[i]
             \/ i \notin ConfigKey /\ \E k \in DOMAIN rPlan[rMade] :
                   IsFirstMove(rPlan[rMade], k, i) /\ rLive[i] = rPlan[rMade][k].from
  <2>1. /\ AllTakenBack(Item, rFrom, rPlan[rMade], rLive)
        /\ Misstated(rPlan[rMade], rFrom) \subseteq rAstray /\ rAstray \subseteq Item \ ConfigKey
    BY <1>1 DEF RelInv, CallSound, RelTypes
  <2> QED BY <1>1, <2>1 DEF AllTakenBack, Misstated
<1>2. rCall = ReleaseIdle => rCall.kind = "idle"
  BY NoReleaseCall
<1>3. rCall.kind = "idle" /\ ~rBroken /\ rCurrent # 0 => AgreeOn(Steady, rLive, rTarget[rCurrent])
  BY DEF RelInv, CallSound
<1>4. rAstray \subseteq Item \ ConfigKey
  BY DEF RelInv, RelTypes
<1> QED BY <1>1, <1>2, <1>3, <1>4 DEF AllOrNothing, CurrentIsLive, AgreeOn, Steady

(***************************************************************************)
(* agent_rt/release.rs: an apply() that fails and is undone leaves every   *)
(* item as it was, and the release called current is the one the runtime   *)
(* is on until a rollback_step fails, for any manifests (an item may be    *)
(* moved by several steps) and any bound of the history.  What a manifest  *)
(* misstates the version of may stay at the version it states; this never  *)
(* happens to a configuration key.                                         *)
(***************************************************************************)
THEOREM ReleasesUndoable == RelSpec => [](AllOrNothing /\ CurrentIsLive)
  BY RelInvInit, RelInvNext, RelInvEnough, PTL DEF RelSpec


-----------------------------------------------------------------------------
(* The components side by side.                                            *)

\* Each component starts as it does alone, and a step of the subject is a step
\* of it and none of the others.
LEMMA SuiteStarts ==
    SuiteInit => DetsInit /\ EtsInit /\ CkptInit /\ RelInit /\ HotInit
  BY DEF SuiteInit

LEMMA SuiteSteps ==
    [SuiteNext]_mcvVars =>
        [DetsNext]_dVars /\ [EtsNext]_eVars /\ [CkptNext]_cVars /\ [RelNext]_rVars /\ [HotNext]_hcVars
<1> SUFFICES ASSUME [SuiteNext]_mcvVars
             PROVE  [DetsNext]_dVars /\ [EtsNext]_eVars /\ [CkptNext]_cVars /\ [RelNext]_rVars /\ [HotNext]_hcVars
  OBVIOUS
<1>1. CASE UNCHANGED <<storeVars, serviceVars>>
  BY <1>1 DEF storeVars, serviceVars
<1>2. CASE StoreNext /\ UNCHANGED serviceVars
  BY <1>2 DEF StoreNext, serviceVars
<1>3. CASE ServiceNext /\ UNCHANGED storeVars
  BY <1>3 DEF ServiceNext, storeVars
<1> QED BY <1>1, <1>2, <1>3 DEF SuiteNext, mcvVars

(***************************************************************************)
(* agent_rt/dets.rs, ets.rs and checkpoint*.rs: a disk table answers what  *)
(* a restart would read, a table in memory has a live owner who can read   *)
(* it, and load() returns the last save, whatever the sizes of all three.  *)
(***************************************************************************)
THEOREM StoresKeep == SuiteSpec => []StoresKept
<1>1. SuiteInit => DetsInit /\ EtsInit /\ CkptInit
  BY SuiteStarts
<1>2. [SuiteNext]_mcvVars => [DetsNext]_dVars /\ [EtsNext]_eVars /\ [CkptNext]_cVars
  BY SuiteSteps
<1>3. CacheIsDurable /\ TablesHaveOwners /\ LoadsLastSave => StoresKept
  BY DEF StoresKept
<1> QED BY <1>1, <1>2, <1>3, CacheKeepsUp, TablesKeepOwners, LoadsReturnLastSave, PTL
        DEF SuiteSpec, DetsSpec, EtsSpec, CkptSpec

(***************************************************************************)
(* agent_rt/release.rs and hot_code.rs: a failed apply() leaves every item *)
(* as it was and the release called current is the one that runs, but for  *)
(* what a manifest misstates; and the version a process would be rolled    *)
(* back to can still be built.                                             *)
(***************************************************************************)
THEOREM UpgradesCanBeUndone == SuiteSpec => []UpgradesUndoable
<1>1. SuiteInit => RelInit /\ HotInit
  BY SuiteStarts
<1>2. [SuiteNext]_mcvVars => [RelNext]_rVars /\ [HotNext]_hcVars
  BY SuiteSteps
<1>3. (AllOrNothing /\ CurrentIsLive) /\ RollbackPossible => UpgradesUndoable
  BY DEF UpgradesUndoable
<1> QED BY <1>1, <1>2, <1>3, ReleasesUndoable, RollbacksPossible, PTL DEF SuiteSpec, RelSpec, HotSpec


-----------------------------------------------------------------------------
(* The HTTP server and its runtime worker.                                 *)

HttpSpec == HttpInit /\ [][HttpNext]_hVars

ToolCall == [nr : Nat \ {0}, op : {"send", "cancel"}, pid : HttpPid]
Executed == [nr : Nat, result : {"ok", "fail"}]

HttpTypes ==
    /\ hSessions \in [DOMAIN hSessions -> Nat] /\ hClock \in Nat /\ hNr \in Nat
    /\ hQueue \in Seq(ToolCall \cup {Shutdown}) /\ hDone \in Seq(Executed)
    /\ hPhase \in {"up", "draining", "signalled", "stopped"} /\ hWorker \in BOOLEAN
    /\ DOMAIN hReply \subseteq 1..hNr /\ DOMAIN hAnswer \subseteq 1..hNr
    /\ hCall \in [HttpClient -> ToolCall \cup {NoRequest}] /\ \A c \in HttpClient : hCall[c].nr <= hNr

\* A command is in the queue once, and no longer when it has been executed;
\* Shutdown is the last one.
QueueOnce ==
    /\ \A k \in 1..Len(hQueue) : hQueue[k].nr <= hNr /\ hQueue[k].nr \notin DOMAIN hReply
    /\ \A j, k \in 1..Len(hQueue) : hQueue[j].nr = hQueue[k].nr => j = k
    /\ hPhase \in {"up", "draining"} => hWorker /\ \A k \in 1..Len(hQueue) : hQueue[k].nr # 0
    /\ \A k \in 1..Len(hQueue) : hQueue[k].nr = 0 => k = Len(hQueue)
    /\ ~hWorker => \A k \in 1..Len(hQueue) : hQueue[k].nr = 0

\* Replies are the results of what was executed.
RepliesTrue ==
    /\ \A i \in 1..Len(hDone) : hDone[i].nr \in DOMAIN hReply /\ hReply[hDone[i].nr] = hDone[i].result
    /\ \A i, j \in 1..Len(hDone) : hDone[i].nr = hDone[j].nr => i = j
    /\ \A nr \in DOMAIN hReply : \E i \in 1..Len(hDone) : hDone[i].nr = nr

\* A request is answered with its reply, or has timed out.
AnswersTrue ==
    /\ \A nr \in DOMAIN hAnswer : nr \in DOMAIN hReply => hAnswer[nr] \in {"timeout", hReply[nr]}
    /\ \A k \in 1..Len(hQueue) : hQueue[k].nr \in DOMAIN hAnswer => hAnswer[hQueue[k].nr] = "timeout"

HttpInv == HttpTypes /\ QueueOnce /\ RepliesTrue /\ AnswersTrue

LEMMA UnexpiredIs ==
    ASSUME HttpTypes
    PROVE  /\ Unexpired \in [DOMAIN Unexpired -> Nat] /\ DOMAIN Unexpired = {s \in DOMAIN hSessions : hClock - hSessions[s] <= SessionTimeout}
           /\ \A s : Touched(s) \in [DOMAIN Touched(s) -> Nat] /\ DOMAIN Touched(s) = DOMAIN Unexpired \cup {s}
                     /\ Touched(s)[s] = hClock /\ \A x \in DOMAIN Unexpired : x # s => Touched(s)[x] = hSessions[x]
<1>1. Unexpired = [s \in {x \in DOMAIN hSessions : hClock - hSessions[x] <= SessionTimeout} |-> hSessions[s]]
  BY DEF Unexpired
<1>2. \A s \in DOMAIN Unexpired : s \in DOMAIN hSessions /\ Unexpired[s] = hSessions[s] /\ hSessions[s] \in Nat
  BY <1>1 DEF HttpTypes
<1>3. ASSUME NEW s
      PROVE  Touched(s) \in [DOMAIN Touched(s) -> Nat] /\ DOMAIN Touched(s) = DOMAIN Unexpired \cup {s}
             /\ Touched(s)[s] = hClock /\ \A x \in DOMAIN Unexpired : x # s => Touched(s)[x] = hSessions[x]
  <2>1. PICK live : live = Unexpired
    OBVIOUS
  <2>2. Touched(s) = [x \in DOMAIN live \cup {s} |-> IF x = s THEN hClock ELSE live[x]]
    BY <2>1 DEF Touched, With
  <2> QED BY <1>2, <2>1, <2>2 DEF HttpTypes
<1> QED BY <1>1, <1>2, <1>3

\* The calls that leave the worker alone.
LEMMA CalmStep ==
    ASSUME HttpInv, UNCHANGED <<hQueue, hReply, hDone, hWorker>>,
           hSessions' \in [DOMAIN hSessions' -> Nat], hClock' \in Nat, hNr' \in Nat, hNr <= hNr',
           hPhase' = hPhase \/ (hPhase = "up" /\ hPhase' = "draining") \/ (hPhase = "signalled" /\ hPhase' = "stopped"),
           hCall' \in [HttpClient -> ToolCall \cup {NoRequest}], \A c \in HttpClient : hCall'[c].nr <= hNr',
           DOMAIN hAnswer' \subseteq 1..hNr', AnswersTrue'
    PROVE  HttpInv'
<1>1. HttpTypes'
  <2>1. 1..hNr \subseteq 1..hNr'
    BY DEF HttpInv, HttpTypes
  <2>2. hPhase' \in {"up", "draining", "signalled", "stopped"}
    BY DEF HttpInv, HttpTypes
  <2>3. hQueue' \in Seq(ToolCall \cup {Shutdown}) /\ hDone' \in Seq(Executed) /\ hWorker' \in BOOLEAN /\ DOMAIN hReply' \subseteq 1..hNr'
    BY <2>1 DEF HttpInv, HttpTypes
  <2> QED BY <2>2, <2>3 DEF HttpTypes
<1>2. \A k \in 1..Len(hQueue) : hQueue[k].nr <= hNr'
  <2> SUFFICES ASSUME NEW k \in 1..Len(hQueue) PROVE hQueue[k].nr <= hNr'
    OBVIOUS
  <2>1. hQueue[k] \in ToolCall \cup {Shutdown}
    BY ElementOfSeq DEF HttpInv, HttpTypes
  <2>2. hQueue[k].nr \in Nat /\ hQueue[k].nr <= hNr
    BY <2>1 DEF HttpInv, QueueOnce, ToolCall, Shutdown
  <2> QED BY <2>2 DEF HttpInv, HttpTypes
<1>3. QueueOnce'
  BY <1>2 DEF HttpInv, QueueOnce
<1>4. RepliesTrue'
  BY DEF HttpInv, RepliesTrue
<1> QED BY <1>1, <1>3, <1>4 DEF HttpInv

LEMMA AnsweredIs ==
    ASSUME HttpInv, NEW nr \in 1..hNr', hNr <= hNr', hNr' \in Nat, NEW a, Answered(nr, a), UNCHANGED <<hReply, hQueue>>,
           nr \in DOMAIN hReply => a \in {"timeout", hReply[nr]},
           (\E k \in 1..Len(hQueue) : hQueue[k].nr = nr) => a = "timeout"
    PROVE  DOMAIN hAnswer' \subseteq 1..hNr' /\ AnswersTrue'
<1>1. hAnswer' = [x \in DOMAIN hAnswer \cup {nr} |-> IF x = nr THEN a ELSE hAnswer[x]]
  BY DEF Answered, With
<1>2. 1..hNr \subseteq 1..hNr' /\ DOMAIN hAnswer \subseteq 1..hNr
  BY DEF HttpInv, HttpTypes
<1>3. DOMAIN hAnswer' \subseteq 1..hNr'
  BY <1>1, <1>2
<1>4. \A x \in DOMAIN hAnswer' : x \in DOMAIN hReply => hAnswer'[x] \in {"timeout", hReply[x]}
  BY <1>1 DEF HttpInv, AnswersTrue
<1>5. \A k \in 1..Len(hQueue) : hQueue[k].nr \in DOMAIN hAnswer' => hAnswer'[hQueue[k].nr] = "timeout"
  BY <1>1 DEF HttpInv, AnswersTrue
<1> QED BY <1>3, <1>4, <1>5 DEF AnswersTrue

\* A new request is in no queue and has no reply.
LEMMA NewRequest ==
    ASSUME HttpInv
    PROVE  /\ hNr + 1 \in Nat /\ hNr + 1 \in 1..(hNr + 1) /\ hNr + 1 \notin DOMAIN hReply /\ hNr + 1 \notin DOMAIN hAnswer
           /\ \A k \in 1..Len(hQueue) : hQueue[k].nr # hNr + 1
           /\ \A c \in HttpClient : hCall[c].nr <= hNr + 1
<1>1. hNr \in Nat /\ DOMAIN hReply \subseteq 1..hNr /\ DOMAIN hAnswer \subseteq 1..hNr
  BY DEF HttpInv, HttpTypes
<1>2. ASSUME NEW k \in 1..Len(hQueue) PROVE hQueue[k].nr # hNr + 1
  <2>1. hQueue[k] \in ToolCall \cup {Shutdown}
    BY ElementOfSeq DEF HttpInv, HttpTypes
  <2>2. hQueue[k].nr \in Nat /\ hQueue[k].nr <= hNr
    BY <2>1 DEF HttpInv, QueueOnce, ToolCall, Shutdown
  <2> QED BY <1>1, <2>2
<1>3. ASSUME NEW c \in HttpClient PROVE hCall[c].nr <= hNr + 1
  <2>1. hCall[c] \in ToolCall \cup {NoRequest} /\ hCall[c].nr <= hNr
    BY DEF HttpInv, HttpTypes
  <2>2. hCall[c].nr \in Nat
    BY <2>1 DEF ToolCall, NoRequest
  <2> QED BY <1>1, <2>1, <2>2
<1> QED BY <1>1, <1>2, <1>3

LEMMA SessionStep ==
    ASSUME HttpInv, NEW c \in HttpClient,
           \/ PostInitialize(c) \/ PostRefused(c) \/ (\E tool \in {"ping", "spawn_orchestration"} : PostAnswered(c, tool))
           \/ GetStream(c) \/ Heartbeat(c) \/ StreamCloses(c) \/ DeleteSession(c)
    PROVE  HttpInv'
<1>1. HttpTypes /\ AnswersTrue
  BY DEF HttpInv
<1>2. UNCHANGED <<hQueue, hReply, hDone, hWorker, hClock, hPhase, hCall>>
  BY DEF PostInitialize, PostRefused, PostAnswered, GetStream, Heartbeat, StreamCloses, DeleteSession
<1>3. hSessions' = hSessions \/ hSessions' = Unexpired \/ (\E s : hSessions' = Touched(s)) \/ DeleteSession(c)
  BY DEF PostInitialize, PostRefused, PostAnswered, GetStream, Heartbeat, StreamCloses
<1>4. hSessions' \in [DOMAIN hSessions' -> Nat]
  <2>1. CASE DeleteSession(c)
    <3>1. hSessions' = [s \in DOMAIN Unexpired \ {hKnows[c]} |-> hSessions[s]]
      BY <2>1 DEF DeleteSession
    <3>2. \A s \in DOMAIN Unexpired : hSessions[s] \in Nat
      BY <1>1, UnexpiredIs DEF HttpTypes
    <3> QED BY <3>1, <3>2
  <2>2. CASE hSessions' = hSessions
    BY <1>1, <2>2 DEF HttpTypes
  <2>3. CASE hSessions' = Unexpired
    BY <1>1, <2>3, UnexpiredIs
  <2>4. CASE \E s : hSessions' = Touched(s)
    BY <1>1, <2>4, UnexpiredIs
  <2> QED BY <1>3, <2>1, <2>2, <2>3, <2>4
<1>5. CASE hNr' = hNr + 1 /\ \E a : Answered(hNr + 1, a)
  <2>1. PICK a : Answered(hNr + 1, a)
    BY <1>5
  <2>2. hNr + 1 \in 1..hNr' /\ hNr <= hNr' /\ hNr' \in Nat
    BY <1>1, <1>5, NewRequest DEF HttpTypes
  <2>3. DOMAIN hAnswer' \subseteq 1..hNr' /\ AnswersTrue'
    BY <1>2, <2>1, <2>2, NewRequest, AnsweredIs
  <2>4. \A x \in HttpClient : hCall'[x].nr <= hNr'
    BY <1>2, <1>5, NewRequest
  <2>5. hCall' \in [HttpClient -> ToolCall \cup {NoRequest}] /\ hClock' \in Nat
    BY <1>1, <1>2 DEF HttpTypes
  <2> QED BY <1>2, <1>4, <2>2, <2>3, <2>4, <2>5, CalmStep
<1>6. CASE UNCHANGED <<hNr, hAnswer>>
  <2>1. DOMAIN hAnswer' \subseteq 1..hNr' /\ AnswersTrue'
    BY <1>1, <1>2, <1>6 DEF HttpTypes, AnswersTrue
  <2>2. \A x \in HttpClient : hCall'[x].nr <= hNr'
    BY <1>1, <1>2, <1>6 DEF HttpTypes
  <2>3. hCall' \in [HttpClient -> ToolCall \cup {NoRequest}] /\ hClock' \in Nat /\ hNr' \in Nat /\ hNr <= hNr'
    BY <1>1, <1>2, <1>6 DEF HttpTypes
  <2> QED BY <1>2, <1>4, <2>1, <2>2, <2>3, CalmStep
<1>7. (hNr' = hNr + 1 /\ \E a : Answered(hNr + 1, a)) \/ UNCHANGED <<hNr, hAnswer>>
  BY DEF PostInitialize, PostRefused, PostAnswered, GetStream, Heartbeat, StreamCloses, DeleteSession
<1> QED BY <1>5, <1>6, <1>7


LEMMA AnswerStep ==
    ASSUME HttpInv, NEW c \in HttpClient, CallReturns(c) \/ CallTimesOut(c)
    PROVE  HttpInv'
<1>1. PICK call \in ToolCall : call = hCall[c] /\ call # NoRequest /\ call.nr \in 1..hNr /\ call.nr \in Nat \ {0}
  <2>1. hCall[c] \in ToolCall /\ hCall[c] # NoRequest /\ hCall[c].nr <= hNr /\ hNr \in Nat
    BY DEF HttpInv, HttpTypes, CallReturns, CallTimesOut
  <2>2. hCall[c].nr \in Nat \ {0}
    BY <2>1 DEF ToolCall
  <2> QED BY <2>1, <2>2
<1>2. /\ UNCHANGED <<hQueue, hReply, hDone, hWorker, hClock, hPhase, hNr, hSessions>>
      /\ hCall' = [hCall EXCEPT ![c] = NoRequest]
  BY DEF CallReturns, CallTimesOut
<1>3. HttpTypes /\ hNr \in Nat /\ hNr <= hNr
  BY DEF HttpInv, HttpTypes
<1>4. DOMAIN hAnswer' \subseteq 1..hNr' /\ AnswersTrue'
  <2>1. CASE CallReturns(c)
    <3>1. Answered(call.nr, hReply[call.nr]) /\ call.nr \in DOMAIN hReply
      BY <1>1, <2>1 DEF CallReturns
    <3>2. ~(\E k \in 1..Len(hQueue) : hQueue[k].nr = call.nr)
      BY <3>1 DEF HttpInv, QueueOnce
    <3> QED BY <1>1, <1>2, <1>3, <3>1, <3>2, AnsweredIs
  <2>2. CASE CallTimesOut(c)
    <3>1. Answered(call.nr, "timeout")
      BY <1>1, <2>2 DEF CallTimesOut
    <3> QED BY <1>1, <1>2, <1>3, <3>1, AnsweredIs
  <2> QED BY <2>1, <2>2
<1>5. hCall' \in [HttpClient -> ToolCall \cup {NoRequest}] /\ \A x \in HttpClient : hCall'[x].nr <= hNr'
  <2>1. NoRequest.nr <= hNr
    BY <1>3 DEF NoRequest
  <2> QED BY <1>2, <1>3, <2>1 DEF HttpTypes
<1>6. hSessions' \in [DOMAIN hSessions' -> Nat] /\ hClock' \in Nat
  BY <1>2, <1>3 DEF HttpTypes
<1> QED BY <1>2, <1>3, <1>4, <1>5, <1>6, CalmStep

LEMMA PhaseStep ==
    ASSUME HttpInv, HttpTick \/ Signal \/ Joined
    PROVE  HttpInv'
<1>1. UNCHANGED <<hQueue, hReply, hDone, hWorker, hNr, hSessions, hCall, hAnswer>>
  BY DEF HttpTick, Signal, Joined
<1>2. HttpTypes /\ AnswersTrue
  BY DEF HttpInv
<1>3. hClock' \in Nat
  BY <1>2 DEF HttpTypes, HttpTick, Signal, Joined
<1>4. DOMAIN hAnswer' \subseteq 1..hNr' /\ AnswersTrue' /\ hNr' \in Nat /\ hNr <= hNr'
  BY <1>1, <1>2 DEF HttpTypes, AnswersTrue
<1>5. hCall' \in [HttpClient -> ToolCall \cup {NoRequest}] /\ (\A x \in HttpClient : hCall'[x].nr <= hNr')
      /\ hSessions' \in [DOMAIN hSessions' -> Nat]
  BY <1>1, <1>2 DEF HttpTypes
<1>6. hPhase' = hPhase \/ (hPhase = "up" /\ hPhase' = "draining") \/ (hPhase = "signalled" /\ hPhase' = "stopped")
  BY DEF HttpTick, Signal, Joined
<1> QED BY <1>1, <1>3, <1>4, <1>5, <1>6, CalmStep

LEMMA ToolStep ==
    ASSUME HttpInv, NEW c \in HttpClient, NEW tool \in {"send", "cancel"}, NEW p \in HttpPid, PostToolCall(c, tool, p)
    PROVE  HttpInv'
<1>1. HttpTypes /\ QueueOnce /\ RepliesTrue /\ AnswersTrue /\ hWorker
  BY DEF HttpInv, QueueOnce, PostToolCall, MayAsk, MayCall
<1>2. PICK call \in ToolCall : call = [nr |-> hNr + 1, op |-> tool, pid |-> p]
  <2>1. hNr + 1 \in Nat \ {0}
    BY <1>1 DEF HttpTypes
  <2> QED BY <2>1 DEF ToolCall
<1>3. /\ hCall' = [hCall EXCEPT ![c] = call] /\ hQueue' = Append(hQueue, call) /\ hNr' = hNr + 1
      /\ UNCHANGED <<hAnswer, hClock, hReply, hDone, hPhase, hWorker>> /\ hSessions' = Touched(hKnows[c]) /\ hPhase = "up"
  BY <1>1, <1>2 DEF PostToolCall, MayAsk, MayCall
<1>4. call.nr = hNr + 1 /\ call.nr # 0 /\ hNr \in Nat
  BY <1>1, <1>2 DEF HttpTypes
<1>5. PICK size \in Nat : size = Len(hQueue)
  BY <1>1 DEF HttpTypes
<1>6. /\ hQueue' \in Seq(ToolCall \cup {Shutdown}) /\ Len(hQueue') = size + 1 /\ hQueue'[size + 1] = call
      /\ \A k \in 1..size : hQueue'[k] = hQueue[k]
  BY <1>1, <1>2, <1>3, <1>5, AppendProperties DEF HttpTypes
<1>7. \A k \in 1..(size + 1) : k \in 1..size \/ k = size + 1
  OBVIOUS
<1>8. HttpTypes'
  <2>1. 1..hNr \subseteq 1..(hNr + 1)
    BY <1>4
  <2>2. hCall' \in [HttpClient -> ToolCall \cup {NoRequest}]
    BY <1>1, <1>2, <1>3 DEF HttpTypes
  <2>3. \A x \in HttpClient : hCall'[x].nr <= hNr'
    BY <1>1, <1>3, <1>4, NewRequest DEF HttpTypes
  <2>4. hSessions' \in [DOMAIN hSessions' -> Nat]
    BY <1>1, <1>3, UnexpiredIs
  <2>5. DOMAIN hReply' \subseteq 1..hNr' /\ DOMAIN hAnswer' \subseteq 1..hNr' /\ hNr' \in Nat /\ hClock' \in Nat
    BY <1>1, <1>3, <1>4, <2>1 DEF HttpTypes
  <2>6. hDone' \in Seq(Executed) /\ hPhase' \in {"up", "draining", "signalled", "stopped"} /\ hWorker' \in BOOLEAN
    BY <1>1, <1>3 DEF HttpTypes
  <2> QED BY <1>6, <2>2, <2>3, <2>4, <2>5, <2>6 DEF HttpTypes
<1>9. QueueOnce'
  <2>1. \A k \in 1..size : hQueue[k].nr <= hNr /\ hQueue[k].nr # hNr + 1 /\ hQueue[k].nr # 0 /\ hQueue[k].nr \notin DOMAIN hReply
    BY <1>1, <1>3, <1>5, NewRequest DEF QueueOnce
  <2>2. \A k \in 1..size : hQueue[k].nr <= hNr + 1
    <3> SUFFICES ASSUME NEW k \in 1..size PROVE hQueue[k].nr <= hNr + 1
      OBVIOUS
    <3>1. hQueue[k] \in ToolCall \cup {Shutdown}
      BY <1>1, <1>5, ElementOfSeq DEF HttpTypes
    <3>2. hQueue[k].nr \in Nat
      BY <3>1 DEF ToolCall, Shutdown
    <3> QED BY <1>4, <2>1, <3>2
  <2>3. hNr + 1 \notin DOMAIN hReply /\ hNr + 1 <= hNr + 1
    BY <1>4, NewRequest
  <2>4. \A k \in 1..(size + 1) : hQueue'[k].nr <= hNr' /\ hQueue'[k].nr \notin DOMAIN hReply' /\ hQueue'[k].nr # 0
    BY <1>3, <1>4, <1>6, <1>7, <2>1, <2>2, <2>3
  <2>5. \A j, k \in 1..(size + 1) : hQueue'[j].nr = hQueue'[k].nr => j = k
    <3>1. \A j, k \in 1..size : hQueue[j].nr = hQueue[k].nr => j = k
      BY <1>1, <1>5 DEF QueueOnce
    <3> QED BY <1>4, <1>6, <1>7, <2>1, <3>1
  <2> QED BY <1>1, <1>3, <1>6, <2>4, <2>5 DEF QueueOnce
<1>10. RepliesTrue'
  BY <1>1, <1>3 DEF RepliesTrue
<1>11. AnswersTrue'
  <2>1. \A k \in 1..(size + 1) : hQueue'[k].nr \in DOMAIN hAnswer => hAnswer[hQueue'[k].nr] = "timeout"
    <3>1. \A k \in 1..size : hQueue[k].nr \in DOMAIN hAnswer => hAnswer[hQueue[k].nr] = "timeout"
      BY <1>1, <1>5 DEF AnswersTrue
    <3>2. hNr + 1 \notin DOMAIN hAnswer
      BY NewRequest
    <3> QED BY <1>4, <1>6, <1>7, <3>1, <3>2
  <2> QED BY <1>1, <1>3, <1>6, <2>1 DEF AnswersTrue
<1> QED BY <1>8, <1>9, <1>10, <1>11 DEF HttpInv

LEMMA ServerDownStep ==
    ASSUME HttpInv, ServerDown
    PROVE  HttpInv'
<1>1. HttpTypes /\ QueueOnce /\ RepliesTrue /\ AnswersTrue
  BY DEF HttpInv
<1>2. /\ hPhase = "draining" /\ hPhase' = "signalled" /\ hQueue' = Append(hQueue, Shutdown)
      /\ UNCHANGED <<hSessions, hClock, hCall, hNr, hReply, hAnswer, hDone, hWorker>>
  BY DEF ServerDown
<1>3. hWorker /\ \A k \in 1..Len(hQueue) : hQueue[k].nr # 0
  BY <1>1, <1>2 DEF QueueOnce
<1>4. PICK size \in Nat : size = Len(hQueue)
  BY <1>1 DEF HttpTypes
<1>5. /\ hQueue' \in Seq(ToolCall \cup {Shutdown}) /\ Len(hQueue') = size + 1 /\ hQueue'[size + 1] = Shutdown
      /\ \A k \in 1..size : hQueue'[k] = hQueue[k]
  BY <1>1, <1>2, <1>4, AppendProperties DEF HttpTypes
<1>6. \A k \in 1..(size + 1) : k \in 1..size \/ k = size + 1
  OBVIOUS
<1>7. Shutdown.nr = 0 /\ hNr \in Nat /\ 0 <= hNr /\ 0 \notin DOMAIN hReply /\ 0 \notin DOMAIN hAnswer
  <2>1. 0 \notin 1..hNr
    BY <1>1 DEF HttpTypes
  <2> QED BY <1>1, <2>1 DEF HttpTypes, Shutdown
<1>8. HttpTypes'
  BY <1>1, <1>2, <1>5 DEF HttpTypes
<1>9. QueueOnce'
  <2>1. \A j, k \in 1..size : hQueue[j].nr = hQueue[k].nr => j = k
    BY <1>1, <1>4 DEF QueueOnce
  <2>2. \A k \in 1..size : hQueue[k].nr <= hNr /\ hQueue[k].nr \notin DOMAIN hReply /\ hQueue[k].nr # 0
    BY <1>1, <1>3, <1>4 DEF QueueOnce
  <2>3. \A j, k \in 1..(size + 1) : hQueue'[j].nr = hQueue'[k].nr => j = k
    BY <1>5, <1>6, <1>7, <2>1, <2>2
  <2>4. \A k \in 1..(size + 1) : hQueue'[k].nr <= hNr /\ hQueue'[k].nr \notin DOMAIN hReply /\ (hQueue'[k].nr = 0 => k = size + 1)
    BY <1>5, <1>6, <1>7, <2>2
  <2> QED BY <1>2, <1>3, <1>5, <2>3, <2>4 DEF QueueOnce
<1>10. RepliesTrue' /\ AnswersTrue'
  <2>1. \A k \in 1..(size + 1) : hQueue'[k].nr \in DOMAIN hAnswer => hAnswer[hQueue'[k].nr] = "timeout"
    <3>1. \A k \in 1..size : hQueue[k].nr \in DOMAIN hAnswer => hAnswer[hQueue[k].nr] = "timeout"
      BY <1>1, <1>4 DEF AnswersTrue
    <3> QED BY <1>5, <1>6, <1>7, <3>1
  <2> QED BY <1>1, <1>2, <1>5, <2>1 DEF AnswersTrue, RepliesTrue
<1> QED BY <1>8, <1>9, <1>10 DEF HttpInv


LEMMA WorkerTakes ==
    ASSUME HttpInv, WorkerStep
    PROVE  HttpInv'
<1>1. HttpTypes /\ QueueOnce /\ RepliesTrue /\ AnswersTrue /\ hWorker /\ hQueue # << >> /\ Head(hQueue) # Shutdown
  BY DEF HttpInv, WorkerStep
<1>2. PICK call, result : call = Head(hQueue) /\ result = ResultOf(call)
  OBVIOUS
<1>3. PICK size \in Nat : size = Len(hQueue) /\ size > 0 /\ hQueue \in Seq(ToolCall \cup {Shutdown})
  BY <1>1, EmptySeq DEF HttpTypes
<1>4. 1 \in 1..size /\ call = hQueue[1]
  BY <1>1, <1>2, <1>3, HeadTailProperties
<1>5. call \in ToolCall
  BY <1>1, <1>2, <1>3, <1>4, ElementOfSeq
<1>6. PICK nr \in Nat \ {0} : nr = call.nr
  BY <1>5 DEF ToolCall
<1>7. result \in {"ok", "fail"}
  BY <1>2 DEF ResultOf
<1>8. /\ hReply' = [x \in DOMAIN hReply \cup {nr} |-> IF x = nr THEN result ELSE hReply[x]]
      /\ hDone' = Append(hDone, [nr |-> nr, result |-> result])
      /\ hQueue' = Tail(hQueue) /\ UNCHANGED <<hSessions, hClock, hCall, hNr, hAnswer, hPhase, hWorker>>
  BY <1>2, <1>6 DEF WorkerStep, With
<1>9. /\ hQueue' \in Seq(ToolCall \cup {Shutdown}) /\ Len(hQueue') = size - 1
      /\ \A k \in 1..(size - 1) : hQueue'[k] = hQueue[k + 1] /\ k + 1 \in 1..size
  BY <1>1, <1>3, <1>8, HeadTailProperties
<1>10. PICK n \in Nat : n = Len(hDone) /\ hDone \in Seq(Executed)
  BY <1>1 DEF HttpTypes
<1>11. PICK d \in Executed : d = [nr |-> nr, result |-> result]
  BY <1>6, <1>7 DEF Executed
<1>12. /\ hDone' \in Seq(Executed) /\ Len(hDone') = n + 1 /\ hDone'[n + 1] = d
       /\ \A i \in 1..n : hDone'[i] = hDone[i]
  BY <1>8, <1>10, <1>11, AppendProperties
<1>13. nr <= hNr /\ hNr \in Nat /\ nr \in 1..hNr /\ nr \notin DOMAIN hReply
  BY <1>1, <1>3, <1>4, <1>6 DEF QueueOnce, HttpTypes
<1>14. HttpTypes'
  <2>1. DOMAIN hReply' \subseteq 1..hNr
    BY <1>1, <1>8, <1>13 DEF HttpTypes
  <2> QED BY <1>1, <1>8, <1>9, <1>12, <2>1 DEF HttpTypes
<1>15. \A k \in 1..(size - 1) : hQueue'[k].nr # nr
  <2>1. \A k \in 1..(size - 1) : k + 1 # 1
    OBVIOUS
  <2> QED BY <1>1, <1>3, <1>4, <1>6, <1>9, <2>1 DEF QueueOnce
<1>16. QueueOnce'
  <2>1. \A k \in 1..(size - 1) : hQueue'[k].nr <= hNr /\ hQueue'[k].nr \notin DOMAIN hReply'
    BY <1>1, <1>3, <1>8, <1>9, <1>15 DEF QueueOnce
  <2>2. ASSUME NEW j \in 1..(size - 1), NEW k \in 1..(size - 1), hQueue'[j].nr = hQueue'[k].nr PROVE j = k
    <3>1. hQueue[j + 1].nr = hQueue[k + 1].nr /\ j + 1 \in 1..size /\ k + 1 \in 1..size
      BY <1>9, <2>2
    <3>2. j + 1 = k + 1
      BY <1>1, <1>3, <3>1 DEF QueueOnce
    <3> QED BY <3>2
  <2>3. \A k \in 1..(size - 1) : hQueue'[k].nr = 0 => k = size - 1
    <3>1. \A k \in 1..(size - 1) : k + 1 = size => k = size - 1
      BY <1>3
    <3> QED BY <1>1, <1>3, <1>9, <3>1 DEF QueueOnce
  <2>4. hPhase \in {"up", "draining"} => \A k \in 1..(size - 1) : hQueue'[k].nr # 0
    BY <1>1, <1>3, <1>9 DEF QueueOnce
  <2> QED BY <1>1, <1>8, <1>9, <2>1, <2>2, <2>3, <2>4 DEF QueueOnce
<1>17. RepliesTrue'
  <2>1. \A i \in 1..(n + 1) : i \in 1..n \/ i = n + 1
    OBVIOUS
  <2>2. d.nr = nr /\ d.result = result /\ hReply'[nr] = result /\ nr \in DOMAIN hReply'
    BY <1>8, <1>11
  <2>3. \A i \in 1..n : hDone[i].nr \in DOMAIN hReply /\ hReply[hDone[i].nr] = hDone[i].result /\ hDone[i].nr # nr
    BY <1>1, <1>10, <1>13 DEF RepliesTrue
  <2>4. \A i \in 1..(n + 1) : hDone'[i].nr \in DOMAIN hReply' /\ hReply'[hDone'[i].nr] = hDone'[i].result
    BY <1>8, <1>12, <2>1, <2>2, <2>3
  <2>5. \A i, j \in 1..(n + 1) : hDone'[i].nr = hDone'[j].nr => i = j
    <3>1. \A i, j \in 1..n : hDone[i].nr = hDone[j].nr => i = j
      BY <1>1, <1>10 DEF RepliesTrue
    <3> QED BY <1>12, <2>1, <2>2, <2>3, <3>1
  <2>6. \A x \in DOMAIN hReply' : \E i \in 1..(n + 1) : hDone'[i].nr = x
    <3>1. \A x \in DOMAIN hReply : \E i \in 1..n : hDone[i].nr = x
      BY <1>1, <1>10 DEF RepliesTrue
    <3>2. n + 1 \in 1..(n + 1) /\ \A i \in 1..n : i \in 1..(n + 1)
      OBVIOUS
    <3> QED BY <1>8, <1>12, <2>2, <3>1, <3>2
  <2> QED BY <1>12, <2>4, <2>5, <2>6 DEF RepliesTrue
<1>18. AnswersTrue'
  <2>1. nr \in DOMAIN hAnswer => hAnswer[nr] = "timeout"
    BY <1>1, <1>3, <1>4, <1>6 DEF AnswersTrue
  <2>2. \A x \in DOMAIN hAnswer : x \in DOMAIN hReply' => hAnswer[x] \in {"timeout", hReply'[x]}
    BY <1>1, <1>8, <2>1 DEF AnswersTrue
  <2>3. \A k \in 1..(size - 1) : hQueue'[k].nr \in DOMAIN hAnswer => hAnswer[hQueue'[k].nr] = "timeout"
    BY <1>1, <1>3, <1>9 DEF AnswersTrue
  <2> QED BY <1>8, <1>9, <2>2, <2>3 DEF AnswersTrue
<1> QED BY <1>14, <1>16, <1>17, <1>18 DEF HttpInv

LEMMA WorkerEnds ==
    ASSUME HttpInv, WorkerStops
    PROVE  HttpInv'
<1>1. HttpTypes /\ QueueOnce /\ RepliesTrue /\ AnswersTrue /\ hQueue # << >> /\ Head(hQueue) = Shutdown
  BY DEF HttpInv, WorkerStops
<1>2. hWorker' = FALSE /\ UNCHANGED <<hSessions, hClock, hCall, hNr, hQueue, hReply, hAnswer, hDone, hPhase>>
  BY DEF WorkerStops
<1>3. PICK size \in Nat : size = Len(hQueue) /\ size > 0 /\ hQueue \in Seq(ToolCall \cup {Shutdown})
  BY <1>1, EmptySeq DEF HttpTypes
<1>4. 1 \in 1..size /\ hQueue[1].nr = 0
  BY <1>1, <1>3, HeadTailProperties DEF Shutdown
<1>5. size = 1 /\ hPhase \notin {"up", "draining"}
  BY <1>1, <1>3, <1>4 DEF QueueOnce
<1>6. \A k \in 1..size : hQueue[k].nr = 0
  <2>1. \A k \in 1..size : k = 1
    BY <1>5
  <2> QED BY <1>4, <2>1
<1>7. HttpTypes'
  BY <1>1, <1>2 DEF HttpTypes
<1>8. QueueOnce'
  BY <1>1, <1>2, <1>3, <1>5, <1>6 DEF QueueOnce
<1>9. RepliesTrue' /\ AnswersTrue'
  BY <1>1, <1>2 DEF RepliesTrue, AnswersTrue
<1> QED BY <1>7, <1>8, <1>9 DEF HttpInv

LEMMA HttpInvInit == HttpInit => HttpInv
<1> SUFFICES ASSUME HttpInit PROVE HttpInv
  OBVIOUS
<1>1. DOMAIN << >> = {} /\ \A k : k \notin 1..0
  OBVIOUS
<1>2. /\ hQueue \in Seq(ToolCall \cup {Shutdown}) /\ hDone \in Seq(Executed) /\ Len(hQueue) = 0 /\ Len(hDone) = 0
  BY EmptySeq DEF HttpInit
<1>3. hNr = 0 /\ hClock = 0 /\ hPhase = "up" /\ hWorker = TRUE /\ DOMAIN hReply = {} /\ DOMAIN hAnswer = {}
  BY <1>1 DEF HttpInit
<1>4. hSessions \in [DOMAIN hSessions -> Nat]
  BY DEF HttpInit
<1>5. hCall \in [HttpClient -> ToolCall \cup {NoRequest}] /\ \A c \in HttpClient : hCall[c].nr <= 0
  BY DEF HttpInit, NoRequest
<1>6. HttpTypes
  BY <1>2, <1>3, <1>4, <1>5 DEF HttpTypes
<1>7. QueueOnce
  BY <1>1, <1>2, <1>3 DEF QueueOnce
<1>8. RepliesTrue
  BY <1>1, <1>2, <1>3 DEF RepliesTrue
<1>9. AnswersTrue
  BY <1>1, <1>2, <1>3 DEF AnswersTrue
<1> QED BY <1>6, <1>7, <1>8, <1>9 DEF HttpInv

LEMMA HttpInvNext == HttpInv /\ [HttpNext]_hVars => HttpInv'
<1> SUFFICES ASSUME HttpInv, [HttpNext]_hVars PROVE HttpInv'
  OBVIOUS
<1>1. CASE HttpNext
  BY <1>1, SessionStep, AnswerStep, PhaseStep, ToolStep, ServerDownStep, WorkerTakes, WorkerEnds DEF HttpNext
<1>2. CASE UNCHANGED hVars
  BY <1>2 DEF hVars, HttpInv, HttpTypes, QueueOnce, RepliesTrue, AnswersTrue
<1> QED BY <1>1, <1>2

LEMMA HttpInvEnough == HttpInv => AnswersMatch /\ ShutdownDrains
<1> SUFFICES ASSUME HttpInv PROVE AnswersMatch /\ ShutdownDrains
  OBVIOUS
<1>1. DOMAIN hDone = 1..Len(hDone) /\ DOMAIN hQueue = 1..Len(hQueue)
  BY DEF HttpInv, HttpTypes
<1>2. \A i, j \in DOMAIN hDone : i # j => hDone[i].nr # hDone[j].nr
  BY <1>1 DEF HttpInv, RepliesTrue
<1>3. ASSUME NEW nr \in DOMAIN hAnswer \cap DOMAIN hReply, hAnswer[nr] # "timeout"
      PROVE  \E d \in Range(hDone) : d.nr = nr /\ d.result = hAnswer[nr]
  <2>1. hAnswer[nr] = hReply[nr]
    BY <1>3 DEF HttpInv, AnswersTrue
  <2>2. PICK i \in 1..Len(hDone) : hDone[i].nr = nr
    BY DEF HttpInv, RepliesTrue
  <2>3. hReply[nr] = hDone[i].result
    BY <2>2 DEF HttpInv, RepliesTrue
  <2>4. hDone[i] \in Range(hDone)
    BY <1>1, <2>2 DEF Range
  <2> QED BY <2>1, <2>2, <2>3, <2>4
<1>4. ASSUME ~hWorker, NEW k \in DOMAIN hQueue PROVE hQueue[k] = Shutdown
  <2>1. hQueue[k].nr = 0 /\ hQueue[k] \in ToolCall \cup {Shutdown}
    BY <1>1, <1>4, ElementOfSeq DEF HttpInv, HttpTypes, QueueOnce
  <2> QED BY <2>1 DEF ToolCall
<1> QED BY <1>2, <1>3, <1>4 DEF AnswersMatch, ShutdownDrains

\* Every request but initialize needs a session that is there.
LEMMA NoRevival == HttpInv /\ [HttpNext]_hVars => NoRevivalStep \/ UNCHANGED hVars
<1> SUFFICES ASSUME HttpInv, HttpNext, NEW s, s \in (DOMAIN Unexpired)', s \notin DOMAIN Unexpired,
                    ~(\E c \in HttpClient : PostInitialize(c))
             PROVE  FALSE
  BY DEF NoRevivalStep
<1>1. HttpTypes /\ HttpTypes'
  BY HttpInvNext DEF HttpInv
<1>2. DOMAIN Unexpired = {x \in DOMAIN hSessions : hClock - hSessions[x] <= SessionTimeout}
  BY DEF Unexpired
<1>3. (DOMAIN Unexpired)' = {x \in DOMAIN hSessions' : hClock' - hSessions'[x] <= SessionTimeout}
  BY DEF Unexpired
<1>4. s \in DOMAIN hSessions' /\ hClock' - hSessions'[s] <= SessionTimeout
  BY <1>3
<1>5. hClock \in Nat /\ SessionTimeout \in Nat /\ \A x \in DOMAIN hSessions : hSessions[x] \in Nat
  BY <1>1, HttpAssumption DEF HttpTypes
<1>6. CASE hSessions' = hSessions
  <2>1. hClock' \in {hClock, hClock + 1}
    BY <1>6 DEF HttpNext, PostInitialize, PostRefused, PostAnswered, GetStream, Heartbeat, StreamCloses, DeleteSession,
                CallReturns, CallTimesOut, PostToolCall, WorkerStep, WorkerStops, HttpTick, Signal, ServerDown, Joined
  <2>2. hClock - hSessions[s] <= SessionTimeout
    BY <1>4, <1>5, <1>6, <2>1
  <2> QED BY <1>2, <1>4, <1>6, <2>2
<1>7. CASE \E c \in HttpClient : hSessions' = Touched(hKnows[c]) /\ hKnows[c] \in DOMAIN Unexpired
  <2>1. PICK c \in HttpClient : hSessions' = Touched(hKnows[c]) /\ hKnows[c] \in DOMAIN Unexpired
    BY <1>7
  <2>2. DOMAIN hSessions' = DOMAIN Unexpired \cup {hKnows[c]}
    BY <1>1, <2>1, UnexpiredIs
  <2> QED BY <1>4, <2>1, <2>2
<1>8. CASE DOMAIN hSessions' \subseteq DOMAIN Unexpired
  BY <1>4, <1>8
<1>9. \/ hSessions' = hSessions \/ DOMAIN hSessions' \subseteq DOMAIN Unexpired
      \/ \E c \in HttpClient : hSessions' = Touched(hKnows[c]) /\ hKnows[c] \in DOMAIN Unexpired
  BY DEF HttpNext, PostRefused, PostAnswered, GetStream, Heartbeat, StreamCloses, DeleteSession, HasSession,
         CallReturns, CallTimesOut, PostToolCall, WorkerStep, WorkerStops, HttpTick, Signal, ServerDown, Joined
<1> QED BY <1>6, <1>7, <1>8, <1>9

(***************************************************************************)
(* agent_rt/server.rs and the runtime worker of zeptobeam: an answer is    *)
(* the result of a command executed once, a stopped worker leaves no       *)
(* command in its queue, and only an initialize brings back a session that *)
(* is over.                                                                *)
(***************************************************************************)
THEOREM ToolCallsSound == HttpSpec => CallsSound
<1>1. HttpInv /\ HttpInv' /\ [HttpNext]_hVars => [AnswersMatch' /\ ShutdownDrains' /\ NoRevivalStep]_hVars
  <2> SUFFICES ASSUME HttpInv, HttpInv', [HttpNext]_hVars PROVE [AnswersMatch' /\ ShutdownDrains' /\ NoRevivalStep]_hVars
    OBVIOUS
  <2>1. (HttpInv => AnswersMatch /\ ShutdownDrains)'
    BY HttpInvEnough, PTL
  <2> QED BY <2>1, NoRevival
<1> QED BY <1>1, HttpInvInit, HttpInvNext, PTL DEF HttpSpec, CallsSound


-----------------------------------------------------------------------------
(* Swarms.                                                                 *)

SwarmSpec == SwarmInit /\ [][SwarmNext]_wVars

\* Nothing more is free once these steps are out.
ClosedUnder(depends, out) == \A s \in SwarmStep : depends[s] \subseteq out => s \in out

SwarmInv ==
    /\ wDepends \in [SwarmStep -> SUBSET (SwarmStep \cup {Nowhere})]
    /\ wPending \subseteq SwarmStep /\ wWave \subseteq SwarmStep /\ wCompleted \subseteq SwarmStep
    /\ wPending = SwarmStep \ (wWave \cup wCompleted)
    /\ StartsAfterItsDependencies
    /\ \A out \in SUBSET SwarmStep : ClosedUnder(wDepends, out) => wWave \cup wCompleted \subseteq out
    /\ wOver => wWave = {} /\ Ready = {}

LEMMA SwarmInvInit == SwarmInit => SwarmInv
  BY DEF SwarmInit, SwarmInv, StartsAfterItsDependencies

LEMMA SwarmInvNext == SwarmInv /\ [SwarmNext]_wVars => SwarmInv'
<1> SUFFICES ASSUME SwarmInv, [SwarmNext]_wVars PROVE SwarmInv'
  OBVIOUS
<1>1. CASE StartWave
  <2>1. wWave' \subseteq Ready /\ wPending' = wPending \ wWave' /\ wWave = {} /\ wOver' = wOver /\ ~wOver
        /\ UNCHANGED <<wDepends, wCompleted>>
    BY <1>1 DEF StartWave
  <2>2. \A s \in Ready : s \in wPending /\ wDepends[s] \subseteq wCompleted
    BY DEF Ready
  <2>3. /\ wPending' \subseteq SwarmStep /\ wWave' \subseteq SwarmStep /\ wPending' = SwarmStep \ (wWave' \cup wCompleted')
    BY <2>1, <2>2 DEF SwarmInv
  <2>4. StartsAfterItsDependencies'
    BY <2>1, <2>2 DEF SwarmInv, StartsAfterItsDependencies
  <2>5. ASSUME NEW out \in SUBSET SwarmStep, ClosedUnder(wDepends, out) PROVE wWave' \cup wCompleted' \subseteq out
    <3>1. wCompleted \subseteq out
      BY <2>5 DEF SwarmInv
    <3>2. \A s \in wWave' : s \in SwarmStep /\ wDepends[s] \subseteq out
      BY <2>1, <2>2, <2>3, <3>1
    <3> QED BY <2>1, <2>5, <3>1, <3>2 DEF ClosedUnder
  <2> QED BY <2>1, <2>3, <2>4, <2>5 DEF SwarmInv, ClosedUnder
<1>2. CASE SwarmReturns
  BY <1>2 DEF SwarmReturns, SwarmInv, StartsAfterItsDependencies, Ready
<1>3. ASSUME NEW s \in SwarmStep, NEW failed \in BOOLEAN, Join(s, failed) PROVE SwarmInv'
  <2>1. /\ s \in wWave /\ wWave' = wWave \ {s} /\ wCompleted' = wCompleted \cup {s}
        /\ UNCHANGED <<wDepends, wPending, wOver>>
    BY <1>3 DEF Join
  <2>2. ~wOver
    BY <2>1 DEF SwarmInv
  <2>3. wWave' \cup wCompleted' = wWave \cup wCompleted
    BY <2>1
  <2>4. StartsAfterItsDependencies'
    BY <2>1, <2>3 DEF SwarmInv, StartsAfterItsDependencies
  <2> QED BY <2>1, <2>2, <2>3, <2>4 DEF SwarmInv
<1>4. CASE UNCHANGED wVars
  BY <1>4 DEF wVars, SwarmInv, StartsAfterItsDependencies, Ready
<1> QED BY <1>1, <1>2, <1>3, <1>4 DEF SwarmNext

\* One round of validate_dag's loop.
TakeOut(out) ==
    LET free == {s \in SwarmStep \ out : wDepends[s] \subseteq out}
    IN  IF free = {} THEN out ELSE out \cup {CHOOSE s \in free : TRUE}

KahnRounds(f) ==
    f = [n \in 0..Cardinality(SwarmStep) |-> IF n = 0 THEN {} ELSE TakeOut(f[n - 1])]

LEMMA KahnSteps ==
    ASSUME NEW out \in SUBSET SwarmStep
    PROVE  /\ TakeOut(out) \in SUBSET SwarmStep
           /\ (\A c \in SUBSET SwarmStep : ClosedUnder(wDepends, c) /\ out \subseteq c => TakeOut(out) \subseteq c)
           /\ \/ ClosedUnder(wDepends, out) /\ TakeOut(out) = out
              \/ \E s \in SwarmStep \ out : TakeOut(out) = out \cup {s}
<1>1. PICK free : free = {s \in SwarmStep \ out : wDepends[s] \subseteq out}
  OBVIOUS
<1>2. TakeOut(out) = IF free = {} THEN out ELSE out \cup {CHOOSE s \in free : TRUE}
  BY <1>1 DEF TakeOut
<1>3. CASE free = {}
  BY <1>1, <1>2, <1>3 DEF ClosedUnder
<1>4. CASE free # {}
  <2>1. PICK s \in free : s = CHOOSE x \in free : TRUE
    BY <1>4
  <2>2. TakeOut(out) = out \cup {s} /\ s \in SwarmStep \ out /\ wDepends[s] \subseteq out
    BY <1>1, <1>2, <1>4, <2>1
  <2> QED BY <2>2 DEF ClosedUnder
<1> QED BY <1>3, <1>4

\* Kahn's algorithm visits the least closed set.
LEMMA KahnVisits ==
    /\ Visited \in SUBSET SwarmStep /\ ClosedUnder(wDepends, Visited)
    /\ \A c \in SUBSET SwarmStep : ClosedUnder(wDepends, c) => Visited \subseteq c
<1>1. PICK N \in Nat : N = Cardinality(SwarmStep)
  BY SwarmAssumption, FS_CardinalityType
<1>2. \E f : KahnRounds(f)
  <2>1. PICK X, none, G : X = SUBSET SwarmStep /\ none = {} /\ G = [p \in (1..N) \X X |-> TakeOut(p[2])]
    OBVIOUS
  <2>2. \A m \in 1..N, x \in X : G[<<m, x>>] = TakeOut(x) /\ TakeOut(x) \in X
    BY <2>1, KahnSteps
  <2>3. none \in X
    BY <2>1
  <2>4. PICK f \in [0..N -> X] : f[0] = none /\ \A m \in 1..N : f[m] = G[<<m, f[m - 1]>>]
    <3>1. StaysIn(G, N, X)
      BY <2>2 DEF StaysIn
    <3>2. \E f \in [0..N -> X] : Along(f, N, none, G)
      BY <2>3, <3>1, Iterates
    <3> QED BY <3>2 DEF Along
  <2>5. ASSUME NEW m \in 0..N PROVE f[m] = IF m = 0 THEN {} ELSE TakeOut(f[m - 1])
    <3>1. m # 0 => m \in 1..N /\ m - 1 \in 0..N
      OBVIOUS
    <3> QED BY <2>1, <2>2, <2>4, <3>1
  <2>6. f = [n \in 0..N |-> IF n = 0 THEN {} ELSE TakeOut(f[n - 1])]
    BY <2>5
  <2> QED BY <1>1, <2>6 DEF KahnRounds
<1> DEFINE after == CHOOSE f : KahnRounds(f)
<1>3. KahnRounds(after)
  BY <1>2
<1>4. Visited = after[N]
  BY <1>1 DEF Visited, KahnRounds, TakeOut
<1> HIDE DEF after
<1>5. PICK f : f = after
  OBVIOUS
<1>6. f[0] = {} /\ \A n \in 1..N : f[n] = TakeOut(f[n - 1])
  <2>1. f = [n \in 0..N |-> IF n = 0 THEN {} ELSE TakeOut(f[n - 1])]
    BY <1>1, <1>3, <1>5 DEF KahnRounds
  <2>2. 0 \in 0..N /\ \A n \in 1..N : n \in 0..N /\ n # 0
    OBVIOUS
  <2> QED BY <2>1, <2>2
<1> DEFINE Good(n) ==
        /\ f[n] \in SUBSET SwarmStep
        /\ \A c \in SUBSET SwarmStep : ClosedUnder(wDepends, c) => f[n] \subseteq c
        /\ ClosedUnder(wDepends, f[n]) \/ Cardinality(f[n]) = n
           T == {n \in 0..N : ~Good(n)}
<1>7. ASSUME T # {} PROVE FALSE
  <2>1. T \subseteq Nat
    OBVIOUS
  <2>2. PICK z \in T : \A y \in T : z <= y
    BY <1>7, <2>1, LeastThere
  <2>3. Good(0)
    BY <1>6, FS_EmptySet
  <2>4. z \in 1..N /\ z - 1 \in 0..N /\ ~(z <= z - 1) /\ z \in Nat /\ (z - 1) + 1 = z
    BY <2>2, <2>3
  <2>5. Good(z - 1)
    BY <2>2, <2>4
  <2>6. PICK out \in SUBSET SwarmStep : out = f[z - 1] /\ f[z] = TakeOut(out)
    BY <1>6, <2>4, <2>5
  <2>7. \A c \in SUBSET SwarmStep : ClosedUnder(wDepends, c) => f[z] \subseteq c
    BY <2>5, <2>6, KahnSteps
  <2>8. f[z] \in SUBSET SwarmStep
    BY <2>6, KahnSteps
  <2>9. CASE ClosedUnder(wDepends, out)
    <3>1. f[z] = out
      <4>1. TakeOut(out) = out \/ \E s \in SwarmStep \ out : TakeOut(out) = out \cup {s}
        BY KahnSteps
      <4>2. TakeOut(out) \subseteq out
        BY <2>9, KahnSteps
      <4> QED BY <2>6, <4>1, <4>2
    <3> QED BY <2>2, <2>7, <2>8, <2>9, <3>1
  <2>10. CASE ~ClosedUnder(wDepends, out)
    <3>1. PICK s \in SwarmStep \ out : TakeOut(out) = out \cup {s}
      BY <2>10, KahnSteps
    <3>2. Cardinality(out) = z - 1
      BY <2>5, <2>6, <2>10
    <3>3. IsFiniteSet(out)
      BY SwarmAssumption, FS_Subset
    <3>4. Cardinality(out \cup {s}) = Cardinality(out) + 1
      BY <3>1, <3>3, FS_AddElement
    <3>5. Cardinality(f[z]) = z
      BY <2>4, <2>6, <3>1, <3>2, <3>4
    <3> QED BY <2>2, <2>7, <2>8, <3>5
  <2> QED BY <2>9, <2>10
<1>8. N \in 0..N
  OBVIOUS
<1>9. Good(N)
  BY <1>7, <1>8
<1>10. Visited = f[N]
  BY <1>4, <1>5
<1>11. ClosedUnder(wDepends, f[N])
  <2>1. CASE Cardinality(f[N]) = N
    <3>1. f[N] = SwarmStep
      BY <1>1, <1>9, <2>1, SwarmAssumption, FS_Subset
    <3> QED BY <3>1 DEF ClosedUnder
  <2> QED BY <1>9, <2>1
<1> QED BY <1>9, <1>10, <1>11

LEMMA SwarmInvEnough == SwarmInv => DagRunsInOrder
<1> SUFFICES ASSUME SwarmInv PROVE DagRunsInOrder
  OBVIOUS
<1>1. ASSUME wOver PROVE ValidDag <=> wPending = {}
  <2>1. wWave = {} /\ Ready = {} /\ wPending = SwarmStep \ wCompleted /\ wCompleted \in SUBSET SwarmStep
    BY <1>1 DEF SwarmInv
  <2>2. ClosedUnder(wDepends, wCompleted)
    BY <2>1 DEF ClosedUnder, Ready
  <2>3. Visited = wCompleted
    <3>1. Visited \subseteq wCompleted
      BY <2>1, <2>2, KahnVisits
    <3>2. wCompleted \subseteq Visited
      BY KahnVisits DEF SwarmInv
    <3> QED BY <3>1, <3>2
  <2>4. ASSUME wPending = {} PROVE ValidDag
    <3>1. wCompleted = SwarmStep
      BY <2>1, <2>4
    <3>2. \A s \in SwarmStep : wDepends[s] \subseteq SwarmStep
      BY <3>1 DEF SwarmInv, StartsAfterItsDependencies
    <3> QED BY <2>3, <3>1, <3>2, SwarmAssumption DEF ValidDag
  <2>5. ASSUME ValidDag PROVE wPending = {}
    BY <2>1, <2>3, <2>5 DEF ValidDag
  <2> QED BY <2>4, <2>5
<1> QED BY <1>1 DEF SwarmInv, DagRunsInOrder, ValidatedRunsAll

(***************************************************************************)
(* zeptobeam/src/swarm.rs: validate_dag accepts just the swarms all of     *)
(* whose steps run_dag runs, each after what it depends on, for any finite *)
(* set of steps and any dependencies.                                      *)
(***************************************************************************)
THEOREM WavesInOrder == SwarmSpec => []DagRunsInOrder
  BY SwarmInvInit, SwarmInvNext, SwarmInvEnough, PTL DEF SwarmSpec



-----------------------------------------------------------------------------
(* Event handlers.                                                         *)

GenSpec == GenInit /\ [][GenNext]_gVars

\* No two handlers have the same serial number.
Numbered(g) == \A j, k \in DOMAIN g : g[j].nr = g[k].nr => j = k

GenInv ==
    /\ gHandlers \in Seq(Handler) /\ gAdded \in 0..MaxHandlers
    /\ \A k \in DOMAIN gHandlers : gHandlers[k].nr < gAdded
    /\ Numbered(gHandlers)

LEMMA GenInvInit == GenInit => GenInv
<1> SUFFICES ASSUME GenInit PROVE GenInv
  OBVIOUS
<1>1. gHandlers = << >> /\ gAdded = 0 /\ gAdded \in 0..MaxHandlers
  BY BehaviorsAssumption DEF GenInit
<1>2. gHandlers \in Seq(Handler)
  BY <1>1, EmptySeq
<1>3. \A k \in DOMAIN gHandlers : FALSE
  BY <1>1
<1> QED BY <1>1, <1>2, <1>3 DEF GenInv, Numbered

\* What a filter leaves keeps the invariant.
LEMMA FilterNumbered ==
    ASSUME GenInv, NEW S
    PROVE  LET q == Only(gHandlers, S)
           IN  q \in Seq(Handler) /\ (\A k \in DOMAIN q : q[k].nr < gAdded) /\ Numbered(q)
<1>0. PICK q : q = Only(gHandlers, S)
  OBVIOUS
<1>1. gHandlers \in Seq(Handler)
  BY DEF GenInv
<1>2. q \in Seq(Handler \cap S)
  BY <1>0, <1>1, OnlyType
<1>3. q \in Seq(Handler)
  BY <1>2, SeqMonotonic
<1>4. StandsIn(q, gHandlers)
  BY <1>0, <1>1, OnlyInOrder
<1>5. \A k \in DOMAIN q : q[k].nr < gAdded
  BY <1>4 DEF StandsIn, GenInv
<1>6. ASSUME NEW i \in DOMAIN q, NEW j \in DOMAIN q, i < j PROVE q[i].nr # q[j].nr
  <2>1. PICK a \in DOMAIN gHandlers, b \in DOMAIN gHandlers : a < b /\ q[i] = gHandlers[a] /\ q[j] = gHandlers[b]
    BY <1>4, <1>6 DEF StandsIn
  <2>2. a \in Nat /\ b \in Nat
    BY <1>1, LenProperties
  <2>3. a # b
    BY <2>1, <2>2
  <2> QED BY <2>1, <2>3 DEF GenInv, Numbered
<1>7. \A i, j \in DOMAIN q : i = j \/ i < j \/ j < i
  BY <1>3, LenProperties
<1>8. Numbered(q)
  BY <1>6, <1>7 DEF Numbered
<1> QED BY <1>0, <1>3, <1>5, <1>8

\* Removed from the last to the first, the handlers that asked are filtered out.
LEMMA RemovedFilters ==
    ASSUME GenInv, NEW asked \in SUBSET DOMAIN gHandlers
    PROVE  Removed(asked) = Only(gHandlers, {h \in Handler : h.nr \notin {gHandlers[i].nr : i \in asked}})
<1>0. PICK S : S = {h \in Handler : h.nr \notin {gHandlers[i].nr : i \in asked}}
  OBVIOUS
<1>a. PICK A : A = Handler
  OBVIOUS
<1>1. PICK g \in Seq(A), N \in Nat : g = gHandlers /\ N = Len(g)
  BY <1>a DEF GenInv
<1>2. DOMAIN g = 1..N
  BY <1>1, LenProperties
<1>3. \A i \in 1..N : g[i] \in S <=> i \notin asked
  <2>1. \A i \in 1..N : g[i] \in A
    BY <1>1, ElementOfSeq
  <2> QED BY <1>0, <1>1, <1>2, <1>a, <2>1 DEF GenInv, Numbered
<1> DEFINE From(f) == f = [i \in 1..(N + 1) |->
                              IF i > N THEN g ELSE IF i \in asked THEN DropAt(f[i + 1], i) ELSE f[i + 1]]
           at(i) == SubSeq(g, 1, i - 1) \o Only(SubSeq(g, i, N), S)
<1>4. ASSUME NEW i \in 1..(N + 1)
      PROVE  SubSeq(g, 1, i - 1) \in Seq(A) /\ Len(SubSeq(g, 1, i - 1)) = i - 1
             /\ SubSeq(g, i, N) \in Seq(A)
  <2>1. \A k \in 1..(i - 1) : k \in 1..N
    OBVIOUS
  <2>2. \A k \in i..N : k \in 1..N
    OBVIOUS
  <2>3. \A k \in 1..N : g[k] \in A
    BY <1>1, ElementOfSeq
  <2>4. i - 1 \in Int /\ 1 \in Int /\ N \in Int /\ i \in Int
    OBVIOUS
  <2>5. SubSeq(g, 1, i - 1) \in Seq(A) /\ Len(SubSeq(g, 1, i - 1)) = i - 1
    BY <2>1, <2>3, <2>4, SubSeqProperties
  <2>6. SubSeq(g, i, N) \in Seq(A)
    BY <2>2, <2>3, <2>4, SubSeqProperties
  <2> QED BY <2>5, <2>6
<1>5. at(N + 1) = g
  <2>1. SubSeq(g, N + 1, N) = << >>
    BY SubSeqEmpty
  <2>2. (N + 1) - 1 = N
    OBVIOUS
  <2>3. SubSeq(g, 1, N) = g
    BY <1>1, SubSeqFull
  <2>4. Only(<< >>, S) = << >>
    BY OnlyNone
  <2> QED BY <2>1, <2>2, <2>3, <2>4, ConcatEmptySeq
<1>6. ASSUME NEW i \in 1..N
      PROVE  at(i) = IF i \in asked THEN DropAt(at(i + 1), i) ELSE at(i + 1)
  <2>1. i \in 1..(N + 1) /\ i + 1 \in 1..(N + 1) /\ (i + 1) - 1 = i /\ i \in 1..Len(g)
    BY <1>1
  <2>2. PICK u \in Seq(A) : u = SubSeq(g, 1, i - 1) /\ Len(u) = i - 1
    BY <1>4, <2>1
  <2>3. PICK v \in Seq(A) : v = SubSeq(g, 1, i) /\ Len(v) = i
    BY <1>4, <2>1
  <2>4. PICK w \in Seq(A) : w = SubSeq(g, i + 1, N)
    BY <1>4, <2>1
  <2>5. PICK e \in A : e = g[i]
    BY <1>1, <2>1, ElementOfSeq
  <2>6. PICK one \in Seq(A) : one = <<e>>
    BY OneSeq
  <2>7. v = u \o one
    <3>1. 1 \in 1..Len(g) /\ i \in 1..Len(g)
      BY <2>1
    <3>2. SubSeq(g, 1, i) = SubSeq(g, 1, i - 1) \o <<g[i]>>
      BY <3>1, SubSeqRecursiveSecond
    <3> QED BY <2>2, <2>3, <2>5, <2>6, <3>2
  <2>8. SubSeq(g, i, N) = one \o w
    <3>1. N \in i..Len(g)
      BY <1>1
    <3>2. SubSeq(g, i, N) = <<g[i]>> \o SubSeq(g, i + 1, N)
      BY <2>1, <3>1, SubSeqRecursiveFirst
    <3> QED BY <2>4, <2>5, <2>6, <3>2
  <2>9. PICK r \in Seq(A) : r = Only(w, S)
    <3>1. Only(w, S) \in Seq(A \cap S)
      BY OnlyType
    <3> QED BY <3>1, SeqMonotonic
  <2>10. u \o Only(one \o w, S) = IF e \in S THEN (u \o one) \o r ELSE u \o r
    <3>1. OneFurther(u, e, w, S)
      BY OneBack
    <3> QED BY <2>6, <2>9, <3>1 DEF OneFurther
  <2>11. at(i) = IF e \in S THEN (u \o one) \o r ELSE u \o r
    BY <2>2, <2>8, <2>10
  <2>12. at(i + 1) = (u \o one) \o r
    BY <2>1, <2>3, <2>4, <2>7, <2>9
  <2>13. e \in S <=> i \notin asked
    BY <1>3, <2>5
  <2>14. i \in asked => DropAt(at(i + 1), i) = u \o r
    <3>1. PICK x : x = (u \o one) \o r
      OBVIOUS
    <3>2. i - 1 = Len(u) /\ i + 1 = Len(u) + 2
      BY <2>2
    <3>3. SubSeq(x, 1, Len(u)) = u /\ SubSeq(x, Len(u) + 2, Len(x)) = r
      BY <2>6, <3>1, DropMiddle
    <3>4. at(i + 1) = x
      BY <2>12, <3>1
    <3> QED BY <3>2, <3>3, <3>4 DEF DropAt
  <2> HIDE DEF at
  <2> QED BY <2>11, <2>12, <2>13, <2>14
<1>7. \E f : From(f)
  <2>1. PICK f : f = [i \in 1..(N + 1) |-> at(i)]
    OBVIOUS
  <2>2. ASSUME NEW i \in 1..(N + 1)
        PROVE  f[i] = IF i > N THEN g ELSE IF i \in asked THEN DropAt(f[i + 1], i) ELSE f[i + 1]
    <3>1. CASE i > N
      <4>1. i = N + 1
        BY <3>1
      <4> QED BY <1>5, <2>1, <3>1, <4>1
    <3>2. CASE ~(i > N)
      <4>1. i \in 1..N /\ i + 1 \in 1..(N + 1)
        BY <3>2
      <4> QED BY <1>6, <2>1, <3>2, <4>1
    <3> QED BY <3>1, <3>2
  <2>3. From(f)
    BY <2>1, <2>2
  <2> QED BY <2>3
<1> DEFINE from == CHOOSE f : From(f)
<1>8. From(from)
  BY <1>7
<1>9. Removed(asked) = from[1]
  BY <1>1 DEF Removed
<1> HIDE DEF from
<1>10. \A i \in 1..(N + 1) : from[i] = IF i > N THEN g ELSE IF i \in asked THEN DropAt(from[i + 1], i) ELSE from[i + 1]
  BY <1>8
<1> DEFINE T == {d \in 0..N : from[(N + 1) - d] # at((N + 1) - d)}
<1> HIDE DEF From, at
<1>11. ASSUME T # {} PROVE FALSE
  <2>1. T \subseteq Nat
    OBVIOUS
  <2>2. PICK z \in T : \A y \in T : z <= y
    BY <1>11, <2>1, LeastThere
  <2>3. PICK i \in 1..(N + 1) : i = (N + 1) - z /\ z \in 0..N
    BY <2>2
  <2>4. from[i] # at(i)
    BY <2>2, <2>3
  <2>5. CASE z = 0
    <3>1. i = N + 1 /\ i > N
      BY <2>3, <2>5
    <3> QED BY <1>5, <1>10, <2>4, <3>1
  <2>6. CASE z # 0
    <3>1. z - 1 \in 0..N /\ ~(z <= z - 1) /\ (N + 1) - (z - 1) = i + 1 /\ i \in 1..N /\ ~(i > N)
      BY <2>3, <2>6
    <3>2. from[i + 1] = at(i + 1)
      BY <2>2, <3>1
    <3>3. from[i] = IF i \in asked THEN DropAt(from[i + 1], i) ELSE from[i + 1]
      BY <1>10, <2>3, <3>1
    <3> QED BY <1>6, <2>4, <3>1, <3>2, <3>3
  <2> QED BY <2>5, <2>6
<1>12. N \in 0..N /\ (N + 1) - N = 1
  OBVIOUS
<1>13. from[1] = at(1)
  BY <1>11, <1>12
<1>14. at(1) = Only(g, S)
  <2>1. SubSeq(g, 1, 1 - 1) = << >>
    BY SubSeqEmpty
  <2>2. SubSeq(g, 1, N) = g
    BY <1>1, SubSeqFull
  <2>3. Only(g, S) \in Seq(A \cap S)
    BY OnlyType
  <2>4. << >> \o Only(g, S) = Only(g, S)
    BY <2>3, ConcatEmptySeq
  <2> QED BY <2>1, <2>2, <2>4 DEF at
<1> QED BY <1>0, <1>1, <1>9, <1>13, <1>14

LEMMA GenInvNext == GenInv /\ [GenNext]_gVars => GenInv'
<1> SUFFICES ASSUME GenInv, [GenNext]_gVars PROVE GenInv'
  OBVIOUS
<1>1. ASSUME gAdded' = gAdded, NEW S, gHandlers' = Only(gHandlers, S) PROVE GenInv'
  BY <1>1, FilterNumbered DEF GenInv
<1>2. ASSUME gAdded' = gAdded, gHandlers' = gHandlers PROVE GenInv'
  BY <1>2 DEF GenInv
<1>3. ASSUME NEW fields, Dispatch(fields) PROVE GenInv'
  BY <1>2, <1>3 DEF Dispatch
<1>4. ASSUME NEW id \in HandlerId, AddHandler(id) PROVE GenInv'
  <2>1. PICK g \in Seq(Handler) : g = gHandlers
    BY DEF GenInv
  <2>2. PICK h \in Handler : h = [id |-> id, nr |-> gAdded]
    BY DEF Handler, GenInv
  <2>3. gHandlers' = Append(g, h) /\ gAdded' = gAdded + 1 /\ gAdded \in Nat /\ gAdded' \in 0..MaxHandlers
    BY <1>4, <2>1, <2>2, BehaviorsAssumption DEF AddHandler, GenInv
  <2>4. gHandlers' \in Seq(Handler) /\ DOMAIN gHandlers' = 1..(Len(g) + 1) /\ DOMAIN g = 1..Len(g) /\ Len(g) \in Nat
    BY <2>3, AppendProperties, LenProperties
  <2>5. gHandlers'[Len(g) + 1] = h /\ \A k \in 1..Len(g) : gHandlers'[k] = g[k]
    BY <2>3, AppendProperties
  <2>6. h.nr = gAdded /\ \A k \in 1..Len(g) : g[k].nr < gAdded /\ g[k].nr \in Nat
    <3>1. \A k \in 1..Len(g) : g[k] \in Handler
      BY ElementOfSeq
    <3> QED BY <2>1, <2>2, <2>4, <3>1, SMTT(30) DEF GenInv, Handler
  <2>7. \A k \in 1..(Len(g) + 1) : gHandlers'[k].nr < gAdded'
    BY <2>3, <2>4, <2>5, <2>6
  <2>8. \A j, k \in 1..Len(g) : g[j].nr = g[k].nr => j = k
    BY <2>1, <2>4 DEF GenInv, Numbered
  <2>9. \A k \in 1..Len(g) : g[k].nr # gAdded
    BY <2>3, <2>6
  <2>10. \A k \in 1..(Len(g) + 1) : k \in 1..Len(g) \/ k = Len(g) + 1
    BY <2>4
  <2>11. Numbered(gHandlers')
    BY <2>4, <2>5, <2>6, <2>8, <2>9, <2>10 DEF Numbered
  <2> QED BY <2>3, <2>4, <2>7, <2>11 DEF GenInv
<1>5. ASSUME NEW id \in HandlerId, RemoveHandler(id) PROVE GenInv'
  BY <1>1, <1>5 DEF RemoveHandler
<1>6. ASSUME Notify PROVE GenInv'
  <2>1. PICK asked \in SUBSET DOMAIN gHandlers : gHandlers' = Removed(asked) /\ gAdded' = gAdded
    BY <1>6 DEF Notify
  <2> QED BY <1>1, <2>1, RemovedFilters
<1>7. CASE UNCHANGED gVars
  BY <1>2, <1>7 DEF gVars
<1> QED BY <1>3, <1>4, <1>5, <1>6, <1>7 DEF GenNext

(***************************************************************************)
(* EventManager::notify (agent_rt/behaviors.rs): however many handlers ask *)
(* to be removed, and in whatever positions they stand, exactly those are  *)
(* gone afterwards, and the others keep their order.                       *)
(***************************************************************************)
THEOREM AskersLeave == GenSpec => NotifyRemovesAskers
<1> DEFINE Asks == gBefore' # gBefore \/ gAsked' # gAsked =>
                      gHandlers' = Only(gBefore', {h \in Handler : h.nr \notin gAsked'})
<1>1. GenInv /\ [GenNext]_gVars => [Asks]_gVars
  <2> SUFFICES ASSUME GenInv, [GenNext]_gVars, gBefore' # gBefore \/ gAsked' # gAsked
               PROVE  gHandlers' = Only(gBefore', {h \in Handler : h.nr \notin gAsked'})
    OBVIOUS
  <2>1. Notify
    BY DEF GenNext, Dispatch, AddHandler, RemoveHandler, gVars
  <2>2. PICK asked \in SUBSET DOMAIN gHandlers :
            gHandlers' = Removed(asked) /\ gBefore' = gHandlers /\ gAsked' = {gHandlers[i].nr : i \in asked}
    BY <2>1 DEF Notify
  <2> QED BY <2>2, RemovedFilters
<1> QED BY <1>1, GenInvInit, GenInvNext, PTL DEF GenSpec, NotifyRemovesAskers



-----------------------------------------------------------------------------
(* The cluster.                                                            *)

ClusterSpec == ClusterInit /\ [][ClusterNext]_kVars

KMsg == [from : 0..MaxClusterPids, nr : Nat]
KOutbound == [to : KPid, msg : KMsg]

ClusterTypes ==
    /\ kLive \in [Part -> SUBSET (1..kPids)] /\ kPids \in 0..MaxClusterPids /\ kSent \in Nat
    /\ kBox \in [KPid -> Seq(KMsg)] /\ kOut \in [Part -> Seq(KOutbound)]
    /\ kPhase \in 0..Partitions /\ kTickAt \in Part /\ kSpawnAt \in Part

\* A process is in one partition.
LiveOnce == \A i, j \in Part : i # j => kLive[i] \cap kLive[j] = {}

\* The partitions still to tick have not ticked in the round.
TurnsLeft ==
    /\ \A d \in kPhase..(Partitions - 1) : (kTickAt + d) % Partitions \notin kTurn
    /\ kPhase = 0 => kTurn = {}

\* A partition that has ticked left one message at most, of a process of its
\* own, and that process has sent nothing since.
OutOnce ==
    /\ \A i \in Part : kOut[i] # << >> => i \in kTurn /\ Len(kOut[i]) = 1
                                         /\ kOut[i][1].msg.from \in kLive[i] /\ kOut[i][1].msg.nr <= kSent
    /\ \A p \in KPid : \A j \in 1..Len(kBox[p]) : kBox[p][j].nr <= kSent
    /\ \A p \in KPid, i \in Part : \A j \in 1..Len(kBox[p]) :
           kOut[i] # << >> /\ kBox[p][j].from = kOut[i][1].msg.from => kBox[p][j].nr < kOut[i][1].msg.nr

BoxesBounded == \A p \in KPid : Len(kBox[p]) <= ClusterMailbox

ClusterInv == ClusterTypes /\ LiveOnce /\ TurnsLeft /\ OutOnce /\ PairOrder /\ BoxesBounded

LEMMA ModDiffers ==
    ASSUME NEW k \in Nat \ {0}, NEW n \in Nat, NEW a \in 0..(k - 1), NEW b \in 0..(k - 1), a < b
    PROVE  (n + a) % k # (n + b) % k
<1> DEFINE q == (n + a) \div k
           r == (n + a) % k
           u == (n + b) \div k
           t == (n + b) % k
<1>1. q \in Int /\ r \in 0..(k - 1) /\ n + a = k * q + r
  OBVIOUS
<1>2. u \in Int /\ t \in 0..(k - 1) /\ n + b = k * u + t
  OBVIOUS
<1> HIDE DEF q, r, u, t
<1>3. ASSUME r = t PROVE FALSE
  <2>1. k * (u - q) = b - a
    BY <1>1, <1>2, <1>3
  <2>2. CASE u - q <= 0
    <3>1. k * (u - q) <= 0
      BY <1>1, <1>2, <2>2
    <3> QED BY <2>1, <3>1
  <2>3. CASE u - q >= 1
    <3>1. k * (u - q) >= k
      BY <1>1, <1>2, <2>3
    <3> QED BY <2>1, <3>1
  <2> QED BY <1>1, <1>2, <2>2, <2>3
<1> QED BY <1>3 DEF r, t

LEMMA ClusterInvInit == ClusterInit => ClusterInv
<1> SUFFICES ASSUME ClusterInit PROVE ClusterInv
  OBVIOUS
<1>1. PICK none : none = << >> /\ none \in Seq(KMsg) /\ none \in Seq(KOutbound) /\ Len(none) = 0
  BY EmptySeq
<1>2. 0 \in Part /\ 0 \in 0..Partitions /\ 0 \in 0..MaxClusterPids
  BY ClusterAssumption DEF Part
<1>3. kBox = [p \in KPid |-> none] /\ kOut = [i \in Part |-> none]
  BY <1>1 DEF ClusterInit
<1>4. ClusterTypes
  BY <1>1, <1>2, <1>3 DEF ClusterInit, ClusterTypes
<1>5. LiveOnce /\ TurnsLeft
  BY DEF ClusterInit, LiveOnce, TurnsLeft
<1>6. \A p \in KPid : DOMAIN kBox[p] = {} /\ 1..Len(kBox[p]) = {}
  BY <1>1, <1>3
<1>7. OutOnce /\ PairOrder
  BY <1>1, <1>3, <1>6 DEF OutOnce, PairOrder
<1>8. BoxesBounded
  BY <1>1, <1>3, ClusterAssumption DEF BoxesBounded
<1> QED BY <1>4, <1>5, <1>7, <1>8 DEF ClusterInv

-----------------------------------------------------------------------------
\* Mailboxes in order, as a step leaves them: with what kSent' and kOut' are
MailInOrder(box) ==
    \A p \in KPid : \A i, j \in DOMAIN box[p] :
        (i < j /\ box[p][i].from = box[p][j].from) => box[p][i].nr < box[p][j].nr
OlderThan(box, sent) == \A p \in KPid : \A j \in 1..Len(box[p]) : box[p][j].nr <= sent
OlderThanOut(box, out) ==
    \A p \in KPid, i \in Part : \A j \in 1..Len(box[p]) :
        out[i] # << >> /\ box[p][j].from = out[i][1].msg.from => box[p][j].nr < out[i][1].msg.nr

LEMMA FirstOfIs ==
    ASSUME NEW S, NEW s \in Seq(S), NEW n \in Nat
    PROVE  /\ FirstOf(s, n) \in Seq(S)
           /\ Len(FirstOf(s, n)) = IF Len(s) > n THEN n ELSE Len(s)
           /\ \A j \in 1..Len(FirstOf(s, n)) : j \in 1..Len(s) /\ FirstOf(s, n)[j] = s[j]
<1>1. PICK N \in Nat : N = Len(s)
  OBVIOUS
<1>2. CASE N > n
  <2>1. PICK q : q = SubSeq(s, 1, n)
    OBVIOUS
  <2>2. 1 \in 1..(N + 1) /\ n \in 0..N /\ \A i \in 1..n : i \in 1..N
    BY <1>2
  <2>3. q \in Seq(S) /\ Len(q) = n /\ \A i \in 1..n : q[i] = s[i]
    <3>1. \A i \in 1..n : s[i] \in S
      BY <1>1, <2>2, ElementOfSeq
    <3>2. q = [i \in 1..n |-> s[i]]
      BY <1>1, <2>1, <2>2
    <3>3. q \in [1..n -> S]
      BY <3>1, <3>2
    <3> QED BY <3>2, <3>3
  <2> QED BY <1>1, <1>2, <2>1, <2>2, <2>3 DEF FirstOf
<1>3. CASE ~(N > n)
  BY <1>1, <1>3 DEF FirstOf
<1> QED BY <1>2, <1>3

\* A full mailbox keeps what it has.
LEMMA ShorterInOrder ==
    ASSUME NEW box \in [KPid -> Seq(KMsg)], NEW short \in [KPid -> Seq(KMsg)],
           NEW sent, NEW out, MailInOrder(box), OlderThan(box, sent), OlderThanOut(box, out),
           \A p \in KPid : \A j \in 1..Len(short[p]) : j \in 1..Len(box[p]) /\ short[p][j] = box[p][j]
    PROVE  MailInOrder(short) /\ OlderThan(short, sent) /\ OlderThanOut(short, out)
<1>1. \A p \in KPid : DOMAIN short[p] = 1..Len(short[p]) /\ DOMAIN box[p] = 1..Len(box[p])
  BY LenProperties
<1>2. MailInOrder(short)
  BY <1>1 DEF MailInOrder
<1>3. OlderThan(short, sent)
  BY DEF OlderThan
<1>4. OlderThanOut(short, out)
  BY DEF OlderThanOut
<1> QED BY <1>2, <1>3, <1>4

\* One message at the end of a mailbox
LEMMA OneMore ==
    ASSUME ClusterInv, NEW to \in KPid, NEW from \in 0..MaxClusterPids,
           NEW box, box = [kBox EXCEPT ![to] = Append(@, Msg0(from))],
           \A i \in Part : kOut[i] # << >> => kOut[i][1].msg.from # from
    PROVE  /\ box \in [KPid -> Seq(KMsg)]
           /\ MailInOrder(box) /\ OlderThan(box, kSent + 1) /\ OlderThanOut(box, kOut)
<1>1. PICK m \in KMsg : m = Msg0(from) /\ m.nr = kSent + 1 /\ m.from = from
  <2>1. PICK n \in Nat : n = kSent + 1
    BY DEF ClusterInv, ClusterTypes
  <2>2. PICK m \in KMsg : m = [from |-> from, nr |-> n]
    BY DEF KMsg
  <2>3. m.nr = n /\ m.from = from
    BY <2>2
  <2> QED BY <2>1, <2>2, <2>3 DEF Msg0
<1>2. kBox \in [KPid -> Seq(KMsg)] /\ kSent \in Nat
  BY DEF ClusterInv, ClusterTypes
<1>3. box[to] = Append(kBox[to], m) /\ \A p \in KPid : p # to => box[p] = kBox[p]
  BY <1>1, <1>2
<1>4. PICK N \in Nat : N = Len(kBox[to])
  BY <1>2
<1>5. box[to] \in Seq(KMsg) /\ DOMAIN box[to] = 1..(N + 1) /\ Len(box[to]) = N + 1
      /\ box[to][N + 1] = m /\ \A j \in 1..N : box[to][j] = kBox[to][j]
  <2>1. kBox[to] \in Seq(KMsg)
    BY <1>2
  <2> QED BY <1>3, <1>4, <2>1, AppendProperties, LenProperties
<1>6. box \in [KPid -> Seq(KMsg)]
  BY <1>2, <1>3, <1>5
<1>7. \A j \in 1..(N + 1) : j \in 1..N \/ j = N + 1
  OBVIOUS
<1>8. \A p \in KPid : \A j \in 1..Len(kBox[p]) : kBox[p][j].nr <= kSent /\ kBox[p][j].nr \in Nat
  <2>1. \A p \in KPid : \A j \in 1..Len(kBox[p]) : kBox[p][j] \in KMsg
    BY <1>2, ElementOfSeq
  <2> QED BY <2>1 DEF KMsg, ClusterInv, OutOnce
<1>9. \A p \in KPid : \A j \in 1..Len(box[p]) : box[p][j].nr <= kSent + 1
  <2>1. \A j \in 1..(N + 1) : box[to][j].nr <= kSent + 1
    BY <1>1, <1>2, <1>4, <1>5, <1>7, <1>8
  <2> QED BY <1>2, <1>3, <1>5, <1>8, <2>1
<1>10. ASSUME NEW p \in KPid, NEW i \in Part, NEW j \in 1..Len(box[p]),
              kOut[i] # << >>, box[p][j].from = kOut[i][1].msg.from
       PROVE  box[p][j].nr < kOut[i][1].msg.nr
  <2>1. CASE p # to
    BY <1>3, <1>10, <2>1 DEF ClusterInv, OutOnce
  <2>2. CASE p = to
    <3>1. j # N + 1
      BY <1>1, <1>5, <1>10, <2>2
    <3>2. j \in 1..N /\ box[to][j] = kBox[to][j]
      BY <1>5, <1>7, <2>2, <3>1
    <3> QED BY <1>4, <1>10, <2>2, <3>2 DEF ClusterInv, OutOnce
  <2> QED BY <2>1, <2>2
<1>11. MailInOrder(box)
  <2> SUFFICES ASSUME NEW p \in KPid, NEW i \in DOMAIN box[p], NEW j \in DOMAIN box[p],
                      i < j, box[p][i].from = box[p][j].from
               PROVE  box[p][i].nr < box[p][j].nr
    BY DEF MailInOrder
  <2>1. CASE p # to
    BY <1>3, <2>1 DEF ClusterInv, PairOrder
  <2>2. CASE p = to
    <3>1. i \in 1..(N + 1) /\ j \in 1..(N + 1)
      BY <1>5, <2>2
    <3>2. i \in 1..N /\ box[to][i] = kBox[to][i]
      BY <1>5, <3>1
    <3>3. DOMAIN kBox[to] = 1..N
      BY <1>2, <1>4, LenProperties
    <3>4. CASE j \in 1..N
      BY <1>5, <2>2, <3>2, <3>3, <3>4, SMTT(30) DEF ClusterInv, PairOrder
    <3>5. CASE j = N + 1
      BY <1>1, <1>2, <1>4, <1>5, <1>8, <2>2, <3>2, <3>5
    <3> QED BY <3>1, <3>4, <3>5
  <2> QED BY <2>1, <2>2
<1> QED BY <1>6, <1>9, <1>10, <1>11 DEF OlderThan, OlderThanOut

\* It may be refused, by the hook or by a full mailbox.
LEMMA BoxGrows ==
    ASSUME ClusterInv, NEW to \in KPid, NEW from \in 0..MaxClusterPids,
           kBox' = kBox \/ kBox' = Delivered(to, Msg0(from)), kSent' = kSent + 1,
           kOut' = kOut, \A i \in Part : kOut[i] # << >> => kOut[i][1].msg.from # from
    PROVE  /\ kBox' \in [KPid -> Seq(KMsg)] /\ PairOrder' /\ BoxesBounded'
           /\ \A p \in KPid : \A j \in 1..Len(kBox'[p]) : kBox'[p][j].nr <= kSent'
           /\ \A p \in KPid, i \in Part : \A j \in 1..Len(kBox'[p]) :
                  kOut'[i] # << >> /\ kBox'[p][j].from = kOut'[i][1].msg.from => kBox'[p][j].nr < kOut'[i][1].msg.nr
<1>1. PICK box : box = [kBox EXCEPT ![to] = Append(@, Msg0(from))]
  OBVIOUS
<1>2. /\ box \in [KPid -> Seq(KMsg)]
      /\ MailInOrder(box) /\ OlderThan(box, kSent + 1) /\ OlderThanOut(box, kOut)
  BY <1>1, OneMore
<1>3. kBox \in [KPid -> Seq(KMsg)] /\ ClusterMailbox \in Nat
  BY ClusterAssumption DEF ClusterInv, ClusterTypes
<1>4. box[to] = Append(kBox[to], Msg0(from)) /\ \A p \in KPid : p # to => box[p] = kBox[p]
  BY <1>1, <1>3
<1>5. CASE kBox' = Delivered(to, Msg0(from))
  <2>1. kBox'[to] = FirstOf(box[to], ClusterMailbox) /\ \A p \in KPid : p # to => kBox'[p] = kBox[p]
    BY <1>3, <1>4, <1>5 DEF Delivered
  <2>2. /\ kBox'[to] \in Seq(KMsg)
        /\ Len(kBox'[to]) = IF Len(box[to]) > ClusterMailbox THEN ClusterMailbox ELSE Len(box[to])
        /\ \A j \in 1..Len(kBox'[to]) : j \in 1..Len(box[to]) /\ kBox'[to][j] = box[to][j]
    BY <1>2, <1>3, <2>1, FirstOfIs
  <2>3. kBox' \in [KPid -> Seq(KMsg)]
    BY <1>3, <1>5, <2>1, <2>2 DEF Delivered
  <2>4. \A p \in KPid : \A j \in 1..Len(kBox'[p]) : j \in 1..Len(box[p]) /\ kBox'[p][j] = box[p][j]
    BY <1>4, <2>1, <2>2
  <2>5. MailInOrder(kBox') /\ OlderThan(kBox', kSent + 1) /\ OlderThanOut(kBox', kOut)
    BY <1>2, <2>3, <2>4, ShorterInOrder
  <2>6. Len(kBox'[to]) <= ClusterMailbox
    <3>1. Len(box[to]) \in Nat
      BY <1>2
    <3> QED BY <1>3, <2>2, <3>1
  <2>7. BoxesBounded'
    BY <2>1, <2>6 DEF ClusterInv, BoxesBounded
  <2> QED BY <2>3, <2>5, <2>7 DEF MailInOrder, OlderThan, OlderThanOut, PairOrder
<1>6. CASE kBox' = kBox
  <2>1. \A p \in KPid : \A j \in 1..Len(kBox[p]) : kBox[p][j].nr <= kSent /\ kBox[p][j].nr \in Nat
    <3>1. \A p \in KPid : \A j \in 1..Len(kBox[p]) : kBox[p][j] \in KMsg
      BY <1>3, ElementOfSeq
    <3> QED BY <3>1 DEF KMsg, ClusterInv, OutOnce
  <2>2. kSent \in Nat
    BY DEF ClusterInv, ClusterTypes
  <2> QED BY <1>3, <1>6, <2>1, <2>2 DEF ClusterInv, OutOnce, PairOrder, BoxesBounded
<1> QED BY <1>5, <1>6

\* A mailbox that has become shorter at its head, or is gone
LEMMA BoxShrinks ==
    ASSUME ClusterInv, NEW p \in KPid, NEW q,
           q = << >> \/ (kBox[p] # << >> /\ q = Tail(kBox[p])),
           kBox' = [kBox EXCEPT ![p] = q], kSent' = kSent
    PROVE  /\ kBox' \in [KPid -> Seq(KMsg)] /\ PairOrder' /\ BoxesBounded'
           /\ \A r \in KPid : \A j \in 1..Len(kBox'[r]) :
                  \E k \in 1..Len(kBox[r]) : kBox'[r][j] = kBox[r][k]
<1>1. kBox \in [KPid -> Seq(KMsg)]
  BY DEF ClusterInv, ClusterTypes
<1>2. kBox'[p] = q /\ \A r \in KPid : r # p => kBox'[r] = kBox[r]
  BY <1>1
<1>3. CASE q = << >>
  <2>1. q \in Seq(KMsg) /\ DOMAIN q = {} /\ 1..Len(q) = {}
    BY <1>3, EmptySeq
  <2>2. PairOrder'
    BY <1>2, <2>1 DEF ClusterInv, PairOrder
  <2>3. BoxesBounded'
    BY <1>2, <1>3, EmptySeq, ClusterAssumption DEF ClusterInv, BoxesBounded
  <2> QED BY <1>1, <1>2, <2>1, <2>2, <2>3
<1>4. CASE kBox[p] # << >> /\ q = Tail(kBox[p])
  <2>1. PICK N \in Nat : N = Len(kBox[p])
    BY <1>1
  <2>2. q \in Seq(KMsg) /\ Len(q) = N - 1 /\ \A j \in 1..(N - 1) : q[j] = kBox[p][j + 1]
    BY <1>1, <1>4, <2>1, HeadTailProperties
  <2>3. DOMAIN q = 1..(N - 1) /\ DOMAIN kBox[p] = 1..N /\ \A j \in 1..(N - 1) : j + 1 \in 1..N
    BY <1>1, <2>1, <2>2, LenProperties
  <2>4. PairOrder'
    <3> SUFFICES ASSUME NEW r \in KPid, NEW i \in DOMAIN kBox'[r], NEW j \in DOMAIN kBox'[r],
                        i < j, kBox'[r][i].from = kBox'[r][j].from
                 PROVE  kBox'[r][i].nr < kBox'[r][j].nr
      BY DEF PairOrder
    <3>1. CASE r # p
      BY <1>2, <3>1 DEF ClusterInv, PairOrder
    <3>2. CASE r = p
      <4>1. i \in 1..(N - 1) /\ j \in 1..(N - 1)
        BY <1>2, <2>3, <3>2
      <4>2. i + 1 < j + 1 /\ i + 1 \in DOMAIN kBox[p] /\ j + 1 \in DOMAIN kBox[p]
        BY <2>3, <4>1
      <4>3. kBox'[p][i] = kBox[p][i + 1] /\ kBox'[p][j] = kBox[p][j + 1]
        BY <1>2, <2>2, <4>1
      <4> QED BY <3>2, <4>2, <4>3 DEF ClusterInv, PairOrder
    <3> QED BY <3>1, <3>2
  <2>5. BoxesBounded'
    BY <1>2, <2>1, <2>2, ClusterAssumption DEF ClusterInv, BoxesBounded
  <2> QED BY <1>1, <1>2, <2>1, <2>2, <2>3, <2>4, <2>5
<1> QED BY <1>3, <1>4


-----------------------------------------------------------------------------
\* What the partitions left, in their order: one message each at most
Left(n) ==
    {s \in Seq(KOutbound) :
        /\ \A a \in DOMAIN s : \E i \in Part : i < n /\ kOut[i] # << >> /\ s[a] = kOut[i][1]
        /\ \A a, b \in DOMAIN s : a < b => s[a].msg.from # s[b].msg.from}

LEMMA LeftMore ==
    ASSUME ClusterInv, NEW n \in Part, NEW s \in Left(n)
    PROVE  s \o kOut[n] \in Left(n + 1)
<1>1. PICK t \in Seq(KOutbound) : t = kOut[n]
  BY DEF ClusterInv, ClusterTypes
<1>2. s \in Seq(KOutbound) /\ n \in Nat
  BY DEF Left, Part
<1>3. \A i \in Part : i < n => i < n + 1
  BY DEF Part
<1>4. CASE t = << >>
  <2>1. s \o t = s
    BY <1>2, <1>4, ConcatEmptySeq
  <2> QED BY <1>1, <1>3, <2>1 DEF Left
<1>5. CASE t # << >>
  <2>1. Len(t) = 1 /\ t[1].msg.from \in kLive[n]
    BY <1>1, <1>5 DEF ClusterInv, OutOnce
  <2>a. 1 \in 1..Len(t)
    BY <2>1
  <2>2. PICK e \in KOutbound : e = t[1]
    BY <2>a, ElementOfSeq
  <2>3. PICK one \in Seq(KOutbound) : one = <<e>>
    BY OneSeq
  <2>4. t = one
    BY <2>1, <2>2, <2>3, SeqEqual
  <2>5. s \o t = Append(s, e)
    BY <1>2, <2>3, <2>4, AppendIsConcat
  <2>6. PICK r : r = s \o t
    OBVIOUS
  <2>7. PICK N \in Nat : N = Len(s)
    BY <1>2
  <2>8. r \in Seq(KOutbound) /\ DOMAIN r = 1..(N + 1) /\ DOMAIN s = 1..N /\ r[N + 1] = e
        /\ \A a \in 1..N : r[a] = s[a]
    BY <1>2, <2>5, <2>6, <2>7, AppendProperties, LenProperties
  <2>9. \A a \in 1..(N + 1) : a \in 1..N \/ a = N + 1
    OBVIOUS
  <2>10. \A a \in DOMAIN s : \E i \in Part : i < n /\ kOut[i] # << >> /\ s[a] = kOut[i][1]
    BY DEF Left
  <2>11. n < n + 1 /\ kOut[n] # << >> /\ r[N + 1] = kOut[n][1]
    BY <1>1, <1>2, <1>5, <2>2, <2>8
  <2>12. \A a \in DOMAIN r : \E i \in Part : i < n + 1 /\ kOut[i] # << >> /\ r[a] = kOut[i][1]
    BY <1>3, <2>8, <2>9, <2>10, <2>11
  <2>13. ASSUME NEW a \in DOMAIN r, NEW b \in DOMAIN r, a < b PROVE r[a].msg.from # r[b].msg.from
    <3>1. a \in 1..N /\ r[a] = s[a]
      BY <2>8, <2>13
    <3>2. CASE b \in 1..N
      BY <2>8, <2>13, <3>1, <3>2 DEF Left
    <3>3. CASE b = N + 1
      <4>1. PICK i \in Part : i < n /\ kOut[i] # << >> /\ s[a] = kOut[i][1]
        BY <2>8, <2>10, <3>1
      <4>2. s[a].msg.from \in kLive[i] /\ i # n
        BY <1>2, <4>1 DEF ClusterInv, OutOnce, Part
      <4> QED BY <2>1, <2>2, <2>8, <3>1, <3>3, <4>2 DEF ClusterInv, LiveOnce
    <3> QED BY <2>8, <2>9, <3>2, <3>3
  <2>14. r \in Left(n + 1)
    <3>1. r \in Seq(KOutbound)
      BY <2>8
    <3>2. \A a, b \in DOMAIN r : a < b => r[a].msg.from # r[b].msg.from
      BY <2>13
    <3> QED BY <2>12, <3>1, <3>2 DEF Left
  <2> QED BY <1>1, <2>6, <2>14
<1> QED BY <1>4, <1>5

\* Nothing of what the partitions before n left is missing.
AllLeft(n) ==
    {s \in Left(n) : \A i \in Part : \A a \in DOMAIN kOut[i] :
                        i < n => \E b \in DOMAIN s : s[b] = kOut[i][a]}

LEMMA AllLeftMore ==
    ASSUME ClusterInv, NEW n \in Part, NEW s \in AllLeft(n)
    PROVE  s \o kOut[n] \in AllLeft(n + 1)
<1>1. s \o kOut[n] \in Left(n + 1)
  BY LeftMore DEF AllLeft
<1>2. PICK t \in Seq(KOutbound) : t = kOut[n]
  BY DEF ClusterInv, ClusterTypes
<1>3. PICK u \in Seq(KOutbound) : u = s
  BY DEF AllLeft, Left
<1>4. PICK q : q = u \o t
  OBVIOUS
<1>5. q \in Seq(KOutbound) /\ Len(q) = Len(u) + Len(t)
      /\ \A j \in 1..(Len(u) + Len(t)) : q[j] = IF j <= Len(u) THEN u[j] ELSE t[j - Len(u)]
  BY <1>4, ConcatProperties
<1>6. DOMAIN q = 1..(Len(u) + Len(t)) /\ DOMAIN u = 1..Len(u) /\ DOMAIN t = 1..Len(t)
      /\ Len(u) \in Nat /\ Len(t) \in Nat
  BY <1>5, LenProperties
<1>7. ASSUME NEW i \in Part, NEW a \in DOMAIN kOut[i], i < n + 1 PROVE \E b \in DOMAIN q : q[b] = kOut[i][a]
  <2>1. i < n \/ i = n
    BY <1>7 DEF Part
  <2>2. CASE i < n
    <3>1. PICK b \in DOMAIN u : u[b] = kOut[i][a]
      BY <1>3, <2>2 DEF AllLeft
    <3>2. b \in DOMAIN q /\ q[b] = u[b]
      BY <1>5, <1>6, <3>1
    <3> QED BY <3>1, <3>2
  <2>3. CASE i = n
    <3>1. a \in 1..Len(t) /\ t[a] = kOut[i][a]
      BY <1>2, <1>6, <2>3
    <3>2. PICK b : b = Len(u) + a
      OBVIOUS
    <3>3. b \in DOMAIN q /\ q[b] = t[a]
      BY <1>5, <1>6, <3>1, <3>2
    <3> QED BY <3>1, <3>3
  <2> QED BY <2>1, <2>2, <2>3
<1> QED BY <1>1, <1>2, <1>3, <1>4, <1>7 DEF AllLeft

LEMMA OutboundLeft ==
    ASSUME ClusterInv
    PROVE  Outbound \in AllLeft(Partitions)
<1>0. Partitions \in Nat
  BY ClusterAssumption
<1> DEFINE All(f) == f = [i \in 0..Partitions |-> IF i = 0 THEN << >> ELSE f[i - 1] \o kOut[i - 1]]
<1>1. \E f : All(f)
  <2>1. PICK X, none, G : X = Seq(KOutbound) /\ none = << >>
                          /\ G = [p \in (1..Partitions) \X X |-> p[2] \o kOut[p[1] - 1]]
    OBVIOUS
  <2>2. \A m \in 1..Partitions, x \in X : G[<<m, x>>] = x \o kOut[m - 1]
    BY <2>1
  <2>3. \A m \in 1..Partitions : kOut[m - 1] \in Seq(KOutbound)
    BY <1>0 DEF ClusterInv, ClusterTypes, Part
  <2>4. \A m \in 1..Partitions, x \in X : G[<<m, x>>] \in X
    BY <2>1, <2>2, <2>3, ConcatProperties
  <2>5. StaysIn(G, Partitions, X)
    BY <2>4 DEF StaysIn
  <2>6. none \in X
    BY <2>1, EmptySeq
  <2>7. PICK f \in [0..Partitions -> X] : Along(f, Partitions, none, G)
    BY <1>0, <2>5, <2>6, Iterates
  <2>8. ASSUME NEW i \in 0..Partitions
        PROVE  f[i] = IF i = 0 THEN << >> ELSE f[i - 1] \o kOut[i - 1]
    <3>1. i # 0 => i \in 1..Partitions /\ i - 1 \in 0..Partitions
      BY <1>0
    <3> QED BY <2>1, <2>2, <2>7, <3>1 DEF Along
  <2>9. All(f)
    BY <2>7, <2>8
  <2> QED BY <2>9
<1> DEFINE upTo == CHOOSE f : All(f)
<1>2. All(upTo)
  BY <1>1
<1>3. Outbound = upTo[Partitions]
  BY DEF Outbound
<1> HIDE DEF upTo
<1>4. \A i \in 0..Partitions : upTo[i] = IF i = 0 THEN << >> ELSE upTo[i - 1] \o kOut[i - 1]
  BY <1>2
<1> DEFINE T == {i \in 0..Partitions : upTo[i] \notin AllLeft(i)}
<1> HIDE DEF All
<1>5. ASSUME T # {} PROVE FALSE
  <2>1. T \subseteq Nat
    OBVIOUS
  <2>2. PICK z \in T : \A y \in T : z <= y
    BY <1>5, <2>1, LeastThere
  <2>3. z \in 0..Partitions /\ upTo[z] \notin AllLeft(z)
    BY <2>2
  <2>4. CASE z = 0
    <3>1. upTo[z] = << >>
      BY <1>4, <2>3, <2>4
    <3>2. << >> \in Seq(KOutbound) /\ DOMAIN << >> = {}
      BY EmptySeq
    <3>3. << >> \in AllLeft(0)
      BY <3>2 DEF AllLeft, Left, Part
    <3> QED BY <2>3, <2>4, <3>1, <3>2, <3>3
  <2>5. CASE z # 0
    <3>1. z - 1 \in 0..Partitions /\ ~(z <= z - 1) /\ z - 1 \in Part /\ (z - 1) + 1 = z
      BY <1>0, <2>3, <2>5 DEF Part
    <3>2. upTo[z - 1] \in AllLeft(z - 1)
      BY <2>2, <3>1
    <3>3. upTo[z - 1] \o kOut[z - 1] \in AllLeft((z - 1) + 1)
      BY <3>1, <3>2, AllLeftMore
    <3> QED BY <1>4, <2>3, <2>5, <3>1, <3>3
  <2> QED BY <2>4, <2>5
<1>6. Partitions \in 0..Partitions
  BY <1>0
<1> QED BY <1>3, <1>5, <1>6

\* What the routing hands over, from any of the filters it passes
LEMMA FilteredLeft ==
    ASSUME NEW n, NEW s \in Left(n), NEW S
    PROVE  Only(s, S) \in Left(n) /\ \A j \in DOMAIN Only(s, S) : Only(s, S)[j] \in S
<1>1. PICK q : q = Only(s, S)
  OBVIOUS
<1>2. s \in Seq(KOutbound)
  BY DEF Left
<1>3. q \in Seq(KOutbound \cap S)
  BY <1>1, <1>2, OnlyType
<1>4. q \in Seq(KOutbound)
  BY <1>3, SeqMonotonic
<1>5. \A j \in DOMAIN q : q[j] \in S
  <2>1. DOMAIN q = 1..Len(q)
    BY <1>3, LenProperties
  <2>2. \A j \in 1..Len(q) : q[j] \in KOutbound \cap S
    BY <1>3, ElementOfSeq
  <2> QED BY <2>1, <2>2
<1>6. StandsIn(q, s)
  BY <1>1, <1>2, OnlyInOrder
<1>7. \A a \in DOMAIN q : \E i \in Part : i < n /\ kOut[i] # << >> /\ q[a] = kOut[i][1]
  BY <1>6 DEF Left, StandsIn
<1>8. \A a, b \in DOMAIN q : a < b => q[a].msg.from # q[b].msg.from
  BY <1>6 DEF Left, StandsIn
<1> QED BY <1>1, <1>4, <1>5, <1>7, <1>8 DEF Left

\* What the routing puts behind the mail of p, but for the room it needs
Arriving(p, refused) ==
    Only(Outbound, {o \in {o \in Range(Outbound) : Routable(o.to)} :
                      o.to = p /\ o.msg.nr \notin refused})
Mail(p, refused) ==
    kBox[p] \o [j \in DOMAIN Arriving(p, refused) |-> Arriving(p, refused)[j].msg]

LEMMA RouteIs ==
    ASSUME Route
    PROVE  \E refused :
              /\ kRefused' = refused
              /\ kBox' = [p \in KPid |->
                    IF p \in AllLive THEN FirstOf(Mail(p, refused), ClusterMailbox) ELSE kBox[p]]
  BY DEF Route, Mail, Arriving

LEMMA RouteKeeps ==
    ASSUME ClusterInv, Route
    PROVE  ClusterInv'
<1>1. PICK refused :
          kBox' = [p \in KPid |->
             IF p \in AllLive THEN FirstOf(Mail(p, refused), ClusterMailbox) ELSE kBox[p]]
  BY RouteIs
<1>2. Outbound \in Left(Partitions)
  BY OutboundLeft DEF AllLeft
<1> DEFINE new(p) == Arriving(p, refused)
           whole(p) == IF p \in AllLive THEN Mail(p, refused) ELSE kBox[p]
<1>4. kBox' = [p \in KPid |-> IF p \in AllLive THEN FirstOf(whole(p), ClusterMailbox) ELSE whole(p)]
  BY <1>1
<1>8. ASSUME NEW p \in KPid
      PROVE  /\ whole(p) \in Seq(KMsg) /\ \A j \in 1..Len(whole(p)) : whole(p)[j].nr <= kSent
             /\ \A i, j \in DOMAIN whole(p) :
                    (i < j /\ whole(p)[i].from = whole(p)[j].from) => whole(p)[i].nr < whole(p)[j].nr
  <2>1. kBox[p] \in Seq(KMsg) /\ DOMAIN kBox[p] = 1..Len(kBox[p]) /\ Len(kBox[p]) \in Nat
    BY LenProperties DEF ClusterInv, ClusterTypes
  <2>2. CASE p \notin AllLive
    <3>1. whole(p) = kBox[p]
      BY <2>2
    <3> QED BY <2>1, <3>1 DEF ClusterInv, OutOnce, PairOrder
  <2>3. CASE p \in AllLive
    <3>1. PICK q : q = new(p)
      OBVIOUS
    <3>2. q \in Left(Partitions)
      BY <1>2, <3>1, FilteredLeft DEF Arriving
    <3>3. PICK M \in Nat : M = Len(q) /\ DOMAIN q = 1..M
      BY <3>2, LenProperties DEF Left
    <3>4. \A a \in 1..M : q[a] \in KOutbound
      BY <3>2, <3>3, ElementOfSeq DEF Left
    <3>5. PICK m : m = [j \in 1..M |-> q[j].msg]
      OBVIOUS
    <3>6. \A a \in 1..M : m[a] \in KMsg
      BY <3>4, <3>5 DEF KOutbound
    <3>7. m \in [1..M -> KMsg]
      BY <3>5, <3>6
    <3>8. m \in Seq(KMsg) /\ Len(m) = M
      BY <3>7
    <3>9. PICK N \in Nat : N = Len(kBox[p])
      BY <2>1
    <3>10. whole(p) = kBox[p] \o m
      BY <2>3, <3>1, <3>3, <3>5 DEF Mail
    <3>11. whole(p) \in Seq(KMsg) /\ Len(whole(p)) = N + M
           /\ \A j \in 1..(N + M) : whole(p)[j] = IF j <= N THEN kBox[p][j] ELSE m[j - N]
      <4>1. PICK u \in Seq(KMsg) : u = kBox[p]
        BY <2>1
      <4>2. PICK r : r = u \o m
        OBVIOUS
      <4>3. r \in Seq(KMsg) /\ Len(r) = Len(u) + Len(m)
            /\ \A j \in 1..(Len(u) + Len(m)) : r[j] = IF j <= Len(u) THEN u[j] ELSE m[j - Len(u)]
        BY <3>8, <4>2, ConcatProperties
      <4> QED BY <3>8, <3>9, <3>10, <4>1, <4>2, <4>3
    <3>12. DOMAIN whole(p) = 1..(N + M)
      BY <3>11, LenProperties
    <3>13. ASSUME NEW a \in 1..M
           PROVE  m[a].nr <= kSent /\ \A j \in 1..N : kBox[p][j].from = m[a].from => kBox[p][j].nr < m[a].nr
      <4>1. PICK i \in Part : kOut[i] # << >> /\ q[a] = kOut[i][1]
        BY <3>2, <3>3 DEF Left
      <4>2. m[a] = kOut[i][1].msg
        BY <3>5, <4>1
      <4> QED BY <3>9, <4>1, <4>2 DEF ClusterInv, OutOnce
    <3>14. \A j \in 1..(N + M) : j \in 1..N \/ (~(j <= N) /\ j - N \in 1..M)
      OBVIOUS
    <3>15. \A j \in 1..(N + M) : whole(p)[j].nr <= kSent
      <4>1. \A j \in 1..N : kBox[p][j].nr <= kSent
        BY <3>9 DEF ClusterInv, OutOnce
      <4>2. \A j \in 1..N : j <= N
        OBVIOUS
      <4> QED BY <3>11, <3>13, <3>14, <4>1, <4>2
    <3>16. ASSUME NEW i \in 1..(N + M), NEW j \in 1..(N + M), i < j, whole(p)[i].from = whole(p)[j].from
           PROVE  whole(p)[i].nr < whole(p)[j].nr
      <4>1. CASE j <= N
        <5>1. i \in 1..N /\ j \in 1..N /\ whole(p)[i] = kBox[p][i] /\ whole(p)[j] = kBox[p][j]
          BY <3>11, <3>16, <4>1
        <5> QED BY <2>1, <3>9, <3>16, <5>1 DEF ClusterInv, PairOrder
      <4>2. CASE ~(j <= N) /\ i <= N
        <5>1. i \in 1..N /\ whole(p)[i] = kBox[p][i] /\ whole(p)[j] = m[j - N] /\ j - N \in 1..M
          BY <3>11, <3>14, <4>2
        <5> QED BY <3>13, <3>16, <5>1
      <4>3. CASE ~(i <= N)
        <5>1. i - N \in 1..M /\ j - N \in 1..M /\ i - N < j - N /\ ~(j <= N)
          BY <3>16, <4>3
        <5>2. whole(p)[i] = m[i - N] /\ whole(p)[j] = m[j - N]
          BY <3>11, <4>3, <5>1
        <5>3. q[i - N].msg.from # q[j - N].msg.from
          BY <3>2, <3>3, <5>1 DEF Left
        <5>4. m[i - N].from # m[j - N].from
          BY <3>5, <5>1, <5>3
        <5> QED BY <3>16, <5>2, <5>4
      <4> QED BY <4>1, <4>2, <4>3
    <3> QED BY <3>11, <3>12, <3>15, <3>16
  <2> QED BY <2>2, <2>3
<1>18. ASSUME NEW p \in KPid
       PROVE  /\ kBox'[p] \in Seq(KMsg) /\ \A j \in 1..Len(kBox'[p]) : kBox'[p][j].nr <= kSent
              /\ \A i, j \in DOMAIN kBox'[p] :
                     (i < j /\ kBox'[p][i].from = kBox'[p][j].from) => kBox'[p][i].nr < kBox'[p][j].nr
              /\ Len(kBox'[p]) <= ClusterMailbox
  <2>1. CASE p \notin AllLive
    <3>1. kBox'[p] = whole(p) /\ whole(p) = kBox[p]
      BY <1>4, <2>1
    <3> QED BY <1>8, <3>1 DEF ClusterInv, BoxesBounded
  <2>2. CASE p \in AllLive
    <3>1. PICK w : w = whole(p)
      OBVIOUS
    <3>2. /\ w \in Seq(KMsg) /\ \A j \in 1..Len(w) : w[j].nr <= kSent
          /\ \A i, j \in DOMAIN w : (i < j /\ w[i].from = w[j].from) => w[i].nr < w[j].nr
      BY <1>8, <3>1
    <3>3. kBox'[p] = FirstOf(w, ClusterMailbox) /\ ClusterMailbox \in Nat
      BY <1>4, <2>2, <3>1, ClusterAssumption
    <3>4. PICK q : q = kBox'[p]
      OBVIOUS
    <3>5. /\ q \in Seq(KMsg) /\ Len(q) = IF Len(w) > ClusterMailbox THEN ClusterMailbox ELSE Len(w)
          /\ \A j \in 1..Len(q) : j \in 1..Len(w) /\ q[j] = w[j]
      BY <3>2, <3>3, <3>4, FirstOfIs
    <3>6. DOMAIN q = 1..Len(q) /\ DOMAIN w = 1..Len(w) /\ Len(w) \in Nat
      BY <3>2, <3>5, LenProperties
    <3>7. Len(q) <= ClusterMailbox
      BY <3>3, <3>5, <3>6
    <3> QED BY <3>2, <3>4, <3>5, <3>6, <3>7
  <2> QED BY <2>1, <2>2
<1>9. PICK none : none = << >> /\ none \in Seq(KOutbound)
  BY EmptySeq
<1>10. kOut' = [i \in Part |-> none] /\ kSent' = kSent /\ kLive' = kLive /\ kPids' = kPids
       /\ kPhase' = 0 /\ kTurn' = {} /\ kTickAt' = (kTickAt + 1) % Partitions /\ kSpawnAt' = kSpawnAt
  BY <1>9 DEF Route
<1>11. kTickAt' \in Part /\ 0 \in 0..Partitions
  BY <1>10, ClusterAssumption DEF ClusterInv, ClusterTypes, Part
<1>12. kBox' \in [KPid -> Seq(KMsg)]
  <2>1. kBox' \in [KPid -> Seq(KMsg)] <=> \A p \in KPid : kBox'[p] \in Seq(KMsg)
    BY <1>4
  <2> QED BY <1>18, <2>1
<1>13. ClusterTypes'
  BY <1>9, <1>10, <1>11, <1>12 DEF ClusterInv, ClusterTypes
<1>14. LiveOnce' /\ TurnsLeft'
  BY <1>10 DEF ClusterInv, LiveOnce, TurnsLeft
<1>15. \A i \in Part : kOut'[i] = << >>
  BY <1>9, <1>10
<1>16. OutOnce'
  BY <1>10, <1>15, <1>18 DEF OutOnce
<1>17. PairOrder' /\ BoxesBounded'
  BY <1>18 DEF PairOrder, BoxesBounded
<1> QED BY <1>13, <1>14, <1>16, <1>17 DEF ClusterInv


LEMMA TickingKeeps ==
    ASSUME ClusterInv, NEW i \in Part, Ticking(i)
    PROVE  /\ kPhase' \in 0..Partitions /\ kTickAt' = kTickAt /\ kSpawnAt' = kSpawnAt
           /\ TurnsLeft' /\ kOut[i] = << >> /\ i \in kTurn' /\ kTurn \subseteq kTurn'
<1>1. kPhase \in 0..Partitions /\ kPhase < Partitions /\ kPhase' = kPhase + 1 /\ kTurn' = kTurn \union {i}
      /\ i = (kTickAt + kPhase) % Partitions /\ kTickAt' = kTickAt /\ kSpawnAt' = kSpawnAt
      /\ Partitions \in Nat \ {0} /\ kTickAt \in Nat
  BY ClusterAssumption DEF ClusterInv, ClusterTypes, Ticking, Part
<1>2. kPhase \in kPhase..(Partitions - 1) /\ kPhase' \in 0..Partitions /\ kPhase' # 0
  BY <1>1
<1>3. i \notin kTurn
  BY <1>1, <1>2 DEF ClusterInv, TurnsLeft
<1>4. kOut[i] = << >>
  BY <1>3 DEF ClusterInv, OutOnce
<1>5. ASSUME NEW d \in (kPhase + 1)..(Partitions - 1) PROVE (kTickAt + d) % Partitions \notin kTurn \union {i}
  <2>1. d \in kPhase..(Partitions - 1) /\ d \in 0..(Partitions - 1) /\ kPhase \in 0..(Partitions - 1) /\ kPhase < d
    BY <1>1
  <2>2. (kTickAt + kPhase) % Partitions # (kTickAt + d) % Partitions
    BY <1>1, <2>1, ModDiffers
  <2> QED BY <1>1, <2>1, <2>2 DEF ClusterInv, TurnsLeft
<1>6. TurnsLeft'
  BY <1>1, <1>2, <1>5 DEF TurnsLeft
<1> QED BY <1>1, <1>2, <1>4, <1>6

\* A step that leaves the mail alone
LEMMA MailKept ==
    ASSUME ClusterInv, ClusterTypes', LiveOnce', TurnsLeft', kTurn \subseteq kTurn',
           \A i \in Part : kLive[i] \subseteq kLive'[i] \/ kOut[i] = << >>,
           UNCHANGED <<kBox, kOut, kSent>>
    PROVE  ClusterInv'
<1>1. OutOnce'
  BY DEF ClusterInv, OutOnce
<1>2. PairOrder' /\ BoxesBounded'
  BY DEF ClusterInv, PairOrder, BoxesBounded
<1> QED BY <1>1, <1>2 DEF ClusterInv

LEMMA SpawnGrows ==
    ASSUME ClusterInv, NEW i \in Part, kPids < MaxClusterPids, kPids' = kPids + 1,
           kLive' = [kLive EXCEPT ![i] = @ \union {kPids + 1}]
    PROVE  /\ kLive' \in [Part -> SUBSET (1..kPids')] /\ kPids' \in 0..MaxClusterPids /\ LiveOnce'
           /\ \A j \in Part : kLive[j] \subseteq kLive'[j]
<1>1. kLive \in [Part -> SUBSET (1..kPids)] /\ kPids \in 0..MaxClusterPids /\ MaxClusterPids \in Nat
  BY ClusterAssumption DEF ClusterInv, ClusterTypes
<1>2. kPids' \in 0..MaxClusterPids /\ kPids + 1 \in 1..kPids' /\ 1..kPids \subseteq 1..kPids' /\ kPids + 1 \notin 1..kPids
  BY <1>1
<1>3. kLive'[i] = kLive[i] \union {kPids + 1} /\ \A j \in Part : j # i => kLive'[j] = kLive[j]
  BY <1>1
<1>4. kLive' \in [Part -> SUBSET (1..kPids')]
  BY <1>1, <1>2
<1>5. LiveOnce'
  BY <1>1, <1>2, <1>3 DEF ClusterInv, LiveOnce
<1> QED BY <1>2, <1>3, <1>4, <1>5

LEMMA SpawnOnKeeps ==
    ASSUME ClusterInv, Between, NEW i \in Part, SpawnOn(i), kSpawnAt' \in Part
    PROVE  ClusterInv'
<1>1. kPids < MaxClusterPids /\ kPids' = kPids + 1 /\ kLive' = [kLive EXCEPT ![i] = @ \union {kPids + 1}]
      /\ UNCHANGED <<kBox, kOut, kTickAt, kPhase, kTurn, kSent>>
  BY DEF SpawnOn
<1>2. kLive' \in [Part -> SUBSET (1..kPids')] /\ kPids' \in 0..MaxClusterPids /\ LiveOnce'
      /\ \A j \in Part : kLive[j] \subseteq kLive'[j]
  BY <1>1, SpawnGrows
<1>3. ClusterTypes' /\ TurnsLeft'
  BY <1>1, <1>2 DEF ClusterInv, ClusterTypes, TurnsLeft
<1> QED BY <1>1, <1>2, <1>3, MailKept

\* A process stops: its mailbox goes with it.
LEMMA StopKeeps ==
    ASSUME ClusterInv, NEW i \in Part, NEW p \in kLive[i], kOut[i] = << >>,
           kLive' = [kLive EXCEPT ![i] = @ \ {p}], kBox' = [kBox EXCEPT ![p] = << >>],
           UNCHANGED <<kOut, kPids, kSent, kTickAt, kSpawnAt>>, kPhase' \in 0..Partitions,
           TurnsLeft', kTurn \subseteq kTurn'
    PROVE  ClusterInv'
<1>1. kLive \in [Part -> SUBSET (1..kPids)] /\ kPids \in 0..MaxClusterPids /\ MaxClusterPids \in Nat
  BY ClusterAssumption DEF ClusterInv, ClusterTypes
<1>2. p \in KPid
  BY <1>1 DEF KPid
<1>3. kLive'[i] = kLive[i] \ {p} /\ \A j \in Part : j # i => kLive'[j] = kLive[j]
  BY <1>1
<1>4. kLive' \in [Part -> SUBSET (1..kPids)] /\ LiveOnce'
  BY <1>1, <1>3 DEF ClusterInv, LiveOnce
<1>5. kBox' \in [KPid -> Seq(KMsg)] /\ PairOrder' /\ BoxesBounded'
      /\ \A r \in KPid : \A j \in 1..Len(kBox'[r]) : \E k \in 1..Len(kBox[r]) : kBox'[r][j] = kBox[r][k]
  <2>1. kSent' = kSent
    OBVIOUS
  <2> QED BY <1>2, <2>1, BoxShrinks
<1>6. ClusterTypes'
  BY <1>4, <1>5 DEF ClusterInv, ClusterTypes
<1>7. OutOnce'
  BY <1>3, <1>5 DEF ClusterInv, OutOnce
<1> QED BY <1>4, <1>5, <1>6, <1>7 DEF ClusterInv

LEMMA TurnSendsKeeps ==
    ASSUME ClusterInv, NEW i \in Part, NEW p \in kLive[i], NEW to \in KPid, TurnSends(i, p, to)
    PROVE  ClusterInv'
<1>1. /\ kPhase' \in 0..Partitions /\ kTickAt' = kTickAt /\ kSpawnAt' = kSpawnAt
      /\ TurnsLeft' /\ kOut[i] = << >> /\ i \in kTurn' /\ kTurn \subseteq kTurn'
  BY TickingKeeps DEF TurnSends
<1>2. kLive' = kLive /\ kPids' = kPids /\ kSent' = kSent + 1 /\ kSent \in Nat
  BY DEF TurnSends, ClusterInv, ClusterTypes
<1>3. kLive \in [Part -> SUBSET (1..kPids)] /\ kPids \in 0..MaxClusterPids /\ MaxClusterPids \in Nat
  BY ClusterAssumption DEF ClusterInv, ClusterTypes
<1>4. p \in KPid /\ p \in 0..MaxClusterPids
  BY <1>3 DEF KPid
<1>5. LiveOnce'
  BY <1>2 DEF ClusterInv, LiveOnce
<1>6. \A j \in Part : kOut[j] # << >> => kOut[j][1].msg.from # p
  BY <1>1 DEF ClusterInv, OutOnce, LiveOnce
<1>7. CASE (kBox' = kBox \/ kBox' = Delivered(to, Msg0(p))) /\ kOut' = kOut
  <2>1. (kBox' = kBox \/ kBox' = Delivered(to, Msg0(p))) /\ kOut' = kOut
    BY <1>7
  <2>2. /\ kBox' \in [KPid -> Seq(KMsg)] /\ PairOrder' /\ BoxesBounded'
        /\ \A q \in KPid : \A j \in 1..Len(kBox'[q]) : kBox'[q][j].nr <= kSent'
        /\ \A q \in KPid, k \in Part : \A j \in 1..Len(kBox'[q]) :
              kOut'[k] # << >> /\ kBox'[q][j].from = kOut'[k][1].msg.from => kBox'[q][j].nr < kOut'[k][1].msg.nr
    BY <1>2, <1>4, <1>6, <2>1, BoxGrows
  <2>3. ClusterTypes'
    BY <1>1, <1>2, <2>1, <2>2 DEF ClusterInv, ClusterTypes
  <2>4. \A k \in Part : kOut[k] # << >> => kOut[k][1].msg.nr <= kSent + 1
    <3>1. \A k \in Part : kOut[k] # << >> => kOut[k][1] \in KOutbound
      <4>1. \A k \in Part : kOut[k] # << >> => 1 \in 1..Len(kOut[k]) /\ kOut[k] \in Seq(KOutbound)
        BY DEF ClusterInv, ClusterTypes, OutOnce
      <4> QED BY <4>1, ElementOfSeq
    <3> QED BY <1>2, <3>1 DEF ClusterInv, OutOnce, KOutbound, KMsg
  <2>5. OutOnce'
    BY <1>1, <1>2, <2>1, <2>2, <2>4 DEF ClusterInv, OutOnce
  <2> QED BY <1>1, <1>5, <2>2, <2>3, <2>5 DEF ClusterInv
<1>8. CASE kBox' = kBox /\ kOut' = [kOut EXCEPT ![i] = Append(@, [to |-> to, msg |-> Msg0(p)])]
  <2>1. PICK m \in KMsg : m = Msg0(p) /\ m.nr = kSent + 1 /\ m.from = p
    <3>1. PICK n \in Nat : n = kSent + 1
      BY <1>2
    <3>2. PICK m \in KMsg : m = [from |-> p, nr |-> n]
      BY <1>4 DEF KMsg
    <3>3. m.nr = n /\ m.from = p
      BY <3>2
    <3> QED BY <3>1, <3>2, <3>3 DEF Msg0
  <2>2. PICK e \in KOutbound : e = [to |-> to, msg |-> m]
    BY DEF KOutbound
  <2>3. e.msg = m
    BY <2>2
  <2>4. kBox' = kBox /\ kOut' = [kOut EXCEPT ![i] = Append(@, e)]
    BY <1>8, <2>1, <2>2
  <2>5. kOut \in [Part -> Seq(KOutbound)]
    BY DEF ClusterInv, ClusterTypes
  <2>6. PICK one \in Seq(KOutbound) : one = Append(<< >>, e) /\ Len(one) = 1 /\ one[1] = e /\ one # << >>
    <3>1. << >> \in Seq(KOutbound) /\ Len(<< >>) = 0
      BY EmptySeq
    <3>2. PICK none \in Seq(KOutbound) : none = << >> /\ Len(none) = 0
      BY <3>1
    <3>3. PICK one : one = Append(none, e)
      OBVIOUS
    <3>4. one \in Seq(KOutbound) /\ Len(one) = Len(none) + 1 /\ one[Len(none) + 1] = e /\ one # << >>
      BY <3>3, AppendProperties
    <3>5. Len(one) = 1 /\ one[1] = e
      BY <3>2, <3>4
    <3> QED BY <3>2, <3>3, <3>4, <3>5
  <2>7. kOut'[i] = one /\ (\A j \in Part : j # i => kOut'[j] = kOut[j]) /\ kOut' \in [Part -> Seq(KOutbound)]
    BY <1>1, <2>4, <2>5, <2>6
  <2>8. ClusterTypes'
    BY <1>1, <1>2, <2>4, <2>7 DEF ClusterInv, ClusterTypes
  <2>9. PairOrder' /\ BoxesBounded'
    BY <2>4 DEF ClusterInv, PairOrder, BoxesBounded
  <2>10. \A q \in KPid : \A j \in 1..Len(kBox[q]) : kBox[q][j].nr <= kSent /\ kBox[q][j].nr \in Nat
    <3>1. \A q \in KPid : kBox[q] \in Seq(KMsg)
      BY DEF ClusterInv, ClusterTypes
    <3>2. \A q \in KPid : \A j \in 1..Len(kBox[q]) : kBox[q][j] \in KMsg
      BY <3>1, ElementOfSeq
    <3> QED BY <3>2 DEF KMsg, ClusterInv, OutOnce
  <2>11. \A q \in KPid : \A j \in 1..Len(kBox'[q]) : kBox'[q][j].nr <= kSent' /\ kBox'[q][j].nr < kSent + 1
    BY <1>2, <2>4, <2>10
  <2>12. \A k \in Part : kOut[k] # << >> => kOut[k][1].msg.nr <= kSent + 1
    <3>1. \A k \in Part : kOut[k] # << >> => kOut[k][1] \in KOutbound
      <4>1. \A k \in Part : kOut[k] # << >> => 1 \in 1..Len(kOut[k]) /\ kOut[k] \in Seq(KOutbound)
        BY DEF ClusterInv, ClusterTypes, OutOnce
      <4> QED BY <4>1, ElementOfSeq
    <3> QED BY <1>2, <3>1 DEF ClusterInv, OutOnce, KOutbound, KMsg
  <2>13. \A k \in Part : kOut'[k] # << >> => k \in kTurn' /\ Len(kOut'[k]) = 1
                                          /\ kOut'[k][1].msg.from \in kLive'[k] /\ kOut'[k][1].msg.nr <= kSent'
    <3> SUFFICES ASSUME NEW k \in Part, kOut'[k] # << >>
                 PROVE  k \in kTurn' /\ Len(kOut'[k]) = 1
                        /\ kOut'[k][1].msg.from \in kLive'[k] /\ kOut'[k][1].msg.nr <= kSent'
      OBVIOUS
    <3>1. CASE k = i
      BY <1>1, <1>2, <2>1, <2>3, <2>6, <2>7, <3>1
    <3>2. CASE k # i
      BY <1>1, <1>2, <2>7, <2>12, <3>2 DEF ClusterInv, OutOnce
    <3> QED BY <3>1, <3>2
  <2>14. \A q \in KPid, k \in Part : \A j \in 1..Len(kBox'[q]) :
             kOut'[k] # << >> /\ kBox'[q][j].from = kOut'[k][1].msg.from => kBox'[q][j].nr < kOut'[k][1].msg.nr
    <3> SUFFICES ASSUME NEW q \in KPid, NEW k \in Part, NEW j \in 1..Len(kBox'[q]),
                        kOut'[k] # << >>, kBox'[q][j].from = kOut'[k][1].msg.from
                 PROVE  kBox'[q][j].nr < kOut'[k][1].msg.nr
      OBVIOUS
    <3>1. CASE k = i
      BY <2>1, <2>3, <2>6, <2>7, <2>11, <3>1
    <3>2. CASE k # i
      BY <2>4, <2>7, <3>2 DEF ClusterInv, OutOnce
    <3> QED BY <3>1, <3>2
  <2>15. OutOnce'
    BY <2>11, <2>13, <2>14 DEF OutOnce
  <2> QED BY <1>1, <1>5, <2>8, <2>9, <2>15 DEF ClusterInv
<1> QED BY <1>7, <1>8 DEF TurnSends, HookRefuses

LEMMA ClusterSendKeeps ==
    ASSUME ClusterInv, NEW to \in KPid, ClusterSend(to)
    PROVE  ClusterInv'
<1>1. (kBox' = kBox \/ kBox' = Delivered(to, Msg0(0))) /\ kSent' = kSent + 1 /\ kOut' = kOut
      /\ UNCHANGED <<kLive, kOut, kSpawnAt, kTickAt, kPhase, kTurn, kPids>> /\ kPhase = 0
  BY DEF ClusterSend, Between, HookRefuses
<1>2. \A i \in Part : kOut[i] = << >>
  BY <1>1 DEF ClusterInv, TurnsLeft, OutOnce
<1>3. 0 \in 0..MaxClusterPids /\ kSent' \in Nat
  BY <1>1, ClusterAssumption DEF ClusterInv, ClusterTypes
<1>4. /\ kBox' \in [KPid -> Seq(KMsg)] /\ PairOrder' /\ BoxesBounded'
      /\ \A p \in KPid : \A j \in 1..Len(kBox'[p]) : kBox'[p][j].nr <= kSent'
      /\ \A p \in KPid, i \in Part : \A j \in 1..Len(kBox'[p]) :
            kOut'[i] # << >> /\ kBox'[p][j].from = kOut'[i][1].msg.from => kBox'[p][j].nr < kOut'[i][1].msg.nr
  <2>1. \A i \in Part : kOut[i] # << >> => kOut[i][1].msg.from # 0
    BY <1>2
  <2> QED BY <1>1, <1>3, <2>1, BoxGrows
<1>5. ClusterTypes' /\ LiveOnce' /\ TurnsLeft'
  BY <1>1, <1>3, <1>4 DEF ClusterInv, ClusterTypes, LiveOnce, TurnsLeft
<1>6. OutOnce'
  BY <1>1, <1>2, <1>4 DEF OutOnce
<1> QED BY <1>1, <1>4, <1>5, <1>6 DEF ClusterInv

LEMMA ClusterInvNext == ClusterInv /\ [ClusterNext]_kVars => ClusterInv'
<1> SUFFICES ASSUME ClusterInv, [ClusterNext]_kVars PROVE ClusterInv'
  OBVIOUS
<1>0. \A i \in Part : Between => kOut[i] = << >>
  BY DEF ClusterInv, TurnsLeft, OutOnce, Between
<1>1. ASSUME ClusterSpawn PROVE ClusterInv'
  <2>1. kSpawnAt \in Part /\ kSpawnAt' \in Part
    BY <1>1, ClusterAssumption DEF ClusterSpawn, ClusterInv, ClusterTypes, Part
  <2> QED BY <1>1, <2>1, SpawnOnKeeps DEF ClusterSpawn
<1>2. ASSUME NEW to \in KPid, ClusterSend(to) PROVE ClusterInv'
  BY <1>2, ClusterSendKeeps
<1>3. ASSUME Route PROVE ClusterInv'
  BY <1>3, RouteKeeps
<1>4. ASSUME ClusterShutdown PROVE ClusterInv'
  <2>1. PICK none : none = << >> /\ none \in Seq(KMsg)
    BY EmptySeq
  <2>2. kLive' = [i \in Part |-> {}] /\ kBox' = [p \in KPid |-> none]
        /\ UNCHANGED <<kOut, kSpawnAt, kTickAt, kPhase, kTurn, kPids, kSent>> /\ Between
    BY <1>4, <2>1 DEF ClusterShutdown
  <2>3. \A p \in KPid : DOMAIN kBox'[p] = {} /\ 1..Len(kBox'[p]) = {}
    <3>1. Len(<< >>) = 0 /\ DOMAIN << >> = {}
      BY EmptySeq
    <3> QED BY <2>1, <2>2, <3>1
  <2>4. ClusterTypes' /\ LiveOnce' /\ TurnsLeft'
    BY <2>1, <2>2 DEF ClusterInv, ClusterTypes, LiveOnce, TurnsLeft
  <2>5. OutOnce' /\ PairOrder'
    BY <1>0, <2>2, <2>3 DEF OutOnce, PairOrder
  <2>6. BoxesBounded'
    <3>1. \A p \in KPid : Len(kBox'[p]) = 0
      BY <2>1, <2>2, EmptySeq
    <3> QED BY <3>1, ClusterAssumption DEF BoxesBounded
  <2> QED BY <2>2, <2>4, <2>5, <2>6 DEF ClusterInv
<1>5. ASSUME NEW i \in Part, Between, UNCHANGED kSpawnAt, SpawnOn(i) PROVE ClusterInv'
  <2>1. kSpawnAt' \in Part
    BY <1>5 DEF ClusterInv, ClusterTypes
  <2> QED BY <1>5, <2>1, SpawnOnKeeps
<1>6. ASSUME NEW i \in Part, TickIdle(i) PROVE ClusterInv'
  <2>1. /\ kPhase' \in 0..Partitions /\ kTickAt' = kTickAt /\ kSpawnAt' = kSpawnAt
        /\ TurnsLeft' /\ kTurn \subseteq kTurn'
    BY <1>6, TickingKeeps DEF TickIdle
  <2>2. UNCHANGED <<kLive, kBox, kOut, kPids, kSent>>
    BY <1>6 DEF TickIdle
  <2>3. ClusterTypes' /\ LiveOnce' /\ \A j \in Part : kLive[j] \subseteq kLive'[j]
    BY <2>1, <2>2 DEF ClusterInv, ClusterTypes, LiveOnce
  <2> QED BY <2>1, <2>2, <2>3, MailKept
<1>7. ASSUME NEW i \in Part, NEW p \in kLive[i], HostStops(i, p) PROVE ClusterInv'
  <2>1. kLive' = [kLive EXCEPT ![i] = @ \ {p}] /\ kBox' = [kBox EXCEPT ![p] = << >>]
        /\ UNCHANGED <<kOut, kPids, kSent, kTickAt, kSpawnAt, kPhase, kTurn>> /\ Between
    BY <1>7 DEF HostStops
  <2>2. kPhase' \in 0..Partitions /\ TurnsLeft' /\ kTurn \subseteq kTurn' /\ kOut[i] = << >>
    BY <1>0, <2>1 DEF ClusterInv, ClusterTypes, TurnsLeft
  <2> QED BY <2>1, <2>2, StopKeeps
<1>8. ASSUME NEW i \in Part, NEW p \in kLive[i], TurnTakes(i, p) PROVE ClusterInv'
  <2>1. /\ kPhase' \in 0..Partitions /\ kTickAt' = kTickAt /\ kSpawnAt' = kSpawnAt
        /\ TurnsLeft' /\ kTurn \subseteq kTurn'
    BY <1>8, TickingKeeps DEF TurnTakes
  <2>2. kBox[p] # << >> /\ kBox' = [kBox EXCEPT ![p] = Tail(kBox[p])] /\ UNCHANGED <<kLive, kOut, kPids, kSent>>
    BY <1>8 DEF TurnTakes
  <2>3. p \in KPid
    BY ClusterAssumption DEF ClusterInv, ClusterTypes, KPid
  <2>4. kBox' \in [KPid -> Seq(KMsg)] /\ PairOrder' /\ BoxesBounded'
        /\ \A r \in KPid : \A j \in 1..Len(kBox'[r]) : \E k \in 1..Len(kBox[r]) : kBox'[r][j] = kBox[r][k]
    BY <2>2, <2>3, BoxShrinks
  <2>5. ClusterTypes' /\ LiveOnce'
    BY <2>1, <2>2, <2>4 DEF ClusterInv, ClusterTypes, LiveOnce
  <2>6. OutOnce'
    BY <2>1, <2>2, <2>4 DEF ClusterInv, OutOnce
  <2> QED BY <2>1, <2>4, <2>5, <2>6 DEF ClusterInv
<1>9. ASSUME NEW i \in Part, NEW p \in kLive[i], TurnStops(i, p) PROVE ClusterInv'
  <2>1. /\ kPhase' \in 0..Partitions /\ kTickAt' = kTickAt /\ kSpawnAt' = kSpawnAt
        /\ TurnsLeft' /\ kOut[i] = << >> /\ kTurn \subseteq kTurn'
    BY <1>9, TickingKeeps DEF TurnStops
  <2>2. kLive' = [kLive EXCEPT ![i] = @ \ {p}] /\ kBox' = [kBox EXCEPT ![p] = << >>]
        /\ UNCHANGED <<kOut, kPids, kSent>>
    BY <1>9 DEF TurnStops
  <2> QED BY <2>1, <2>2, StopKeeps
<1>10. ASSUME NEW i \in Part, NEW p \in kLive[i], TurnSpawns(i, p) PROVE ClusterInv'
  <2>1. /\ kPhase' \in 0..Partitions /\ kTickAt' = kTickAt /\ kSpawnAt' = kSpawnAt
        /\ TurnsLeft' /\ kTurn \subseteq kTurn'
    BY <1>10, TickingKeeps DEF TurnSpawns
  <2>2. kPids < MaxClusterPids /\ kPids' = kPids + 1 /\ kLive' = [kLive EXCEPT ![i] = @ \union {kPids + 1}]
        /\ UNCHANGED <<kBox, kOut, kSent>>
    BY <1>10 DEF TurnSpawns
  <2>3. kLive' \in [Part -> SUBSET (1..kPids')] /\ kPids' \in 0..MaxClusterPids /\ LiveOnce'
        /\ \A j \in Part : kLive[j] \subseteq kLive'[j]
    BY <2>2, SpawnGrows
  <2>4. ClusterTypes'
    BY <2>1, <2>2, <2>3 DEF ClusterInv, ClusterTypes
  <2> QED BY <2>1, <2>2, <2>3, <2>4, MailKept
<1>11. ASSUME NEW i \in Part, NEW p \in kLive[i], NEW to \in KPid, TurnSends(i, p, to) PROVE ClusterInv'
  BY <1>11, TurnSendsKeeps
<1>12. CASE UNCHANGED kVars
  BY <1>12 DEF kVars, ClusterInv, ClusterTypes, LiveOnce, TurnsLeft, OutOnce, PairOrder, BoxesBounded
<1> QED BY <1>1, <1>2, <1>3, <1>4, <1>5, <1>6, <1>7, <1>8, <1>9, <1>10, <1>11, <1>12 DEF ClusterNext

LEMMA RoundEnds ==
    ASSUME ClusterInv, [ClusterNext]_kVars, kPhase # 0, kPhase' = 0
    PROVE  Route
<1>1. \A j \in Part : ~Ticking(j)
  BY DEF Ticking, ClusterInv, ClusterTypes
<1>2. ~Between /\ ~UNCHANGED kVars
  BY DEF Between, kVars
<1> QED
  BY <1>1, <1>2 DEF ClusterNext, ClusterSpawn, ClusterSend, ClusterShutdown, HostStops, TickIdle,
                    TurnTakes, TurnStops, TurnSpawns, TurnSends

LEMMA OwnersExact ==
    ASSUME ClusterInv, [ClusterNext]_kVars
    PROVE  OwnersCurrentStep
<1> SUFFICES ASSUME kPhase # 0, kPhase' = 0, NEW p \in KPid, NEW i \in Part
             PROVE  p \in kLive'[i] <=> (p \in DOMAIN kOwner' /\ kOwner'[p] = i)
  BY DEF OwnersCurrentStep
<1>3. Route
  BY RoundEnds
<1>4. kOwner' = Reconcile(kLive) /\ kLive' = kLive
  BY <1>3 DEF Route
<1>5. p \in DOMAIN kOwner' <=> \E j \in Part : p \in kLive[j]
  BY <1>4 DEF Reconcile
<1>6. p \in DOMAIN kOwner' => kOwner'[p] \in Part /\ p \in kLive[kOwner'[p]]
  <2> SUFFICES ASSUME p \in DOMAIN kOwner' PROVE kOwner'[p] \in Part /\ p \in kLive[kOwner'[p]]
    OBVIOUS
  <2>1. kOwner'[p] = CHOOSE j \in Part : p \in kLive[j]
    BY <1>4 DEF Reconcile
  <2> QED BY <1>5, <2>1
<1> QED BY <1>4, <1>5, <1>6 DEF ClusterInv, LiveOnce

\* What is put behind b in a mailbox with room for n leaves b where it is, and
\* is all there unless the mailbox is full.
LEMMA Delivery ==
    ASSUME NEW S, NEW b \in Seq(S), NEW m \in Seq(S), NEW n \in Nat, NEW q, q = FirstOf(b \o m, n)
    PROVE  /\ Len(b) <= n => \A j \in DOMAIN b : j \in DOMAIN q /\ q[j] = b[j]
           /\ Len(q) = n \/ \A d \in 1..Len(m) : \E k \in DOMAIN q : q[k] = m[d]
<1>1. PICK w : w = b \o m
  OBVIOUS
<1>2. PICK B \in Nat, M \in Nat : B = Len(b) /\ M = Len(m)
  OBVIOUS
<1>3. w \in Seq(S) /\ Len(w) = B + M /\ \A k \in 1..(B + M) : w[k] = IF k <= B THEN b[k] ELSE m[k - B]
  BY <1>1, <1>2, ConcatProperties
<1>4. q \in Seq(S) /\ Len(q) = IF B + M > n THEN n ELSE B + M
  BY <1>1, <1>3, FirstOfIs
<1>5. \A k \in 1..Len(q) : q[k] = w[k]
  BY <1>1, <1>3, FirstOfIs
<1>6. DOMAIN b = 1..B /\ DOMAIN q = 1..Len(q)
  BY <1>2, <1>4, LenProperties
<1>7. ASSUME B <= n, NEW j \in 1..B PROVE j \in 1..Len(q) /\ q[j] = b[j]
  <2>1. j \in 1..Len(q) /\ j \in 1..(B + M) /\ j <= B
    BY <1>2, <1>4, <1>7
  <2>2. q[j] = w[j] /\ w[j] = b[j]
    BY <1>3, <1>5, <2>1
  <2> QED BY <2>1, <2>2
<1>8. ASSUME Len(q) # n, NEW d \in 1..M PROVE \E k \in 1..Len(q) : q[k] = m[d]
  <2>1. Len(q) = B + M /\ B + d \in 1..Len(q) /\ ~(B + d <= B) /\ (B + d) - B = d
    BY <1>2, <1>4, <1>8
  <2>2. q[B + d] = w[B + d] /\ w[B + d] = m[d]
    BY <1>3, <1>5, <2>1
  <2> QED BY <2>1, <2>2
<1> QED BY <1>2, <1>6, <1>7, <1>8

LEMMA AllRouted ==
    ASSUME ClusterInv, [ClusterNext]_kVars
    PROVE  RoutedOrGoneStep
<1> SUFFICES ASSUME kPhase # 0, kPhase' = 0, NEW i \in Part
             PROVE  /\ kOut'[i] = << >>
                    /\ \A o \in Range(kOut[i]) : o.to \in AllLive =>
                          \/ o.msg \in Range(kBox'[o.to])
                          \/ Len(kBox'[o.to]) = ClusterMailbox
                          \/ o.msg.nr \in kRefused'
                    /\ \A p \in kLive[i] : \A j \in DOMAIN kBox[p] :
                          j \in DOMAIN kBox'[p] /\ kBox'[p][j] = kBox[p][j]
  BY DEF RoutedOrGoneStep
<1>1. Route
  BY RoundEnds
<1>2. PICK refused :
          /\ kRefused' = refused
          /\ kBox' = [p \in KPid |->
                IF p \in AllLive THEN FirstOf(Mail(p, refused), ClusterMailbox) ELSE kBox[p]]
  BY <1>1, RouteIs
<1>3. kOut'[i] = << >>
  BY <1>1 DEF Route
<1>4. Outbound \in AllLeft(Partitions) /\ Outbound \in Seq(KOutbound) /\ ClusterMailbox \in Nat
  BY OutboundLeft, ClusterAssumption DEF AllLeft, Left
<1>5. AllLive \subseteq KPid
  BY ClusterAssumption DEF AllLive, ClusterInv, ClusterTypes, KPid
<1>6. kBox \in [KPid -> Seq(KMsg)] /\ kOut \in [Part -> Seq(KOutbound)]
  BY DEF ClusterInv, ClusterTypes
\* The mail of one receiver: what it had, then what arrives, as far as it fits
<1>7. ASSUME NEW p \in AllLive
      PROVE  \E b \in Seq(KMsg), n \in Seq(KOutbound), m \in Seq(KMsg) :
                /\ b = kBox[p] /\ n = Arriving(p, refused) /\ Len(m) = Len(n)
                /\ \A j \in 1..Len(n) : m[j] = n[j].msg
                /\ kBox'[p] = FirstOf(b \o m, ClusterMailbox)
  <2>1. PICK b \in Seq(KMsg) : b = kBox[p]
    BY <1>5, <1>6
  <2>2. PICK n : n = Arriving(p, refused)
    OBVIOUS
  <2>3. n \in Seq(KOutbound)
    <3>1. Outbound \in Left(Partitions)
      BY <1>4 DEF AllLeft
    <3>2. n \in Left(Partitions)
      BY <2>2, <3>1, FilteredLeft DEF Arriving
    <3> QED BY <3>2 DEF Left
  <2>4. PICK N \in Nat : N = Len(n) /\ DOMAIN n = 1..N
    BY <2>3, LenProperties
  <2>5. PICK m : m = [j \in 1..N |-> n[j].msg]
    OBVIOUS
  <2>6. \A j \in 1..N : m[j] \in KMsg /\ m[j] = n[j].msg
    <3>1. \A j \in 1..N : n[j] \in KOutbound
      BY <2>3, <2>4, ElementOfSeq
    <3> QED BY <2>5, <3>1 DEF KOutbound
  <2>7. m \in [1..N -> KMsg]
    BY <2>5, <2>6
  <2>8. m \in Seq(KMsg) /\ Len(m) = N
    BY <2>7
  <2>9. kBox'[p] = FirstOf(b \o m, ClusterMailbox)
    <3>1. kBox'[p] = FirstOf(Mail(p, refused), ClusterMailbox)
      BY <1>2, <1>5
    <3>2. Mail(p, refused) = b \o m
      BY <2>1, <2>2, <2>4, <2>5 DEF Mail
    <3> QED BY <3>1, <3>2
  <2> QED BY <2>1, <2>2, <2>3, <2>4, <2>6, <2>8, <2>9
<1>8. ASSUME NEW p \in kLive[i], NEW j \in DOMAIN kBox[p]
      PROVE  j \in DOMAIN kBox'[p] /\ kBox'[p][j] = kBox[p][j]
  <2>1. p \in AllLive
    BY DEF AllLive
  <2>2. PICK b \in Seq(KMsg), n \in Seq(KOutbound), m \in Seq(KMsg) :
            b = kBox[p] /\ kBox'[p] = FirstOf(b \o m, ClusterMailbox)
    BY <1>7, <2>1
  <2>3. Len(b) <= ClusterMailbox
    BY <1>5, <2>1, <2>2 DEF ClusterInv, BoxesBounded
  <2>4. PICK q : q = FirstOf(b \o m, ClusterMailbox)
    OBVIOUS
  <2>5. \A k \in DOMAIN b : k \in DOMAIN q /\ q[k] = b[k]
    BY <1>4, <2>3, <2>4, Delivery
  <2> QED BY <2>2, <2>4, <2>5
<1>9. ASSUME NEW o \in Range(kOut[i]), o.to \in AllLive, o.msg.nr \notin refused
      PROVE  o.msg \in Range(kBox'[o.to]) \/ Len(kBox'[o.to]) = ClusterMailbox
  <2>1. PICK a \in DOMAIN kOut[i] : o = kOut[i][a]
    BY DEF Range
  <2>2. i < Partitions
    BY ClusterAssumption DEF Part
  <2>3. PICK c \in DOMAIN Outbound : Outbound[c] = o
    BY <1>4, <2>1, <2>2 DEF AllLeft
  <2>4. c \in 1..Len(Outbound)
    BY <1>4, <2>3, LenProperties
  <2>5. o \in {o2 \in {o1 \in Range(Outbound) : Routable(o1.to)} :
                   o2.to = o.to /\ o2.msg.nr \notin refused}
    BY <1>9, <2>3 DEF Range, Routable, Reconcile, AllLive
  <2>6. \E d \in 1..Len(Arriving(o.to, refused)) : Arriving(o.to, refused)[d] = o
    <3>1. PICK S : S = {o2 \in {o1 \in Range(Outbound) : Routable(o1.to)} :
                          o2.to = o.to /\ o2.msg.nr \notin refused}
      OBVIOUS
    <3>2. Arriving(o.to, refused) = Only(Outbound, S)
      BY <3>1 DEF Arriving
    <3>3. PICK out \in Seq(KOutbound) : out = Outbound
      BY <1>4
    <3>4. c \in 1..Len(out) /\ out[c] \in S /\ out[c] = o
      BY <2>3, <2>4, <2>5, <3>1, <3>3
    <3>5. \E d \in 1..Len(Only(out, S)) : Only(out, S)[d] = out[c]
      BY <3>4, OnlyHas
    <3> QED BY <3>2, <3>3, <3>4, <3>5
  <2>7. PICK b \in Seq(KMsg), n \in Seq(KOutbound), m \in Seq(KMsg) :
            /\ n = Arriving(o.to, refused) /\ Len(m) = Len(n) /\ \A j \in 1..Len(n) : m[j] = n[j].msg
            /\ kBox'[o.to] = FirstOf(b \o m, ClusterMailbox)
    BY <1>7, <1>9
  <2>8. PICK d \in 1..Len(m) : m[d] = o.msg
    BY <2>6, <2>7
  <2>9. PICK q : q = FirstOf(b \o m, ClusterMailbox)
    OBVIOUS
  <2>10. Len(q) = ClusterMailbox \/ \E k \in DOMAIN q : q[k] = m[d]
    BY <1>4, <2>9, Delivery
  <2> QED BY <2>7, <2>8, <2>9, <2>10 DEF Range
<1> QED BY <1>2, <1>3, <1>8, <1>9

(***************************************************************************)
(* The cluster (agent_rt/cluster.rs) for any number of partitions and any  *)
(* mailbox capacity: what one process sends another arrives in its order;  *)
(* of what is outbound at the end of a tick nothing is left behind, and    *)
(* nothing lost but to a receiver that is gone, to a full mailbox or to a  *)
(* message hook; and pid_owner is exact after every round.                 *)
(***************************************************************************)
THEOREM ClusterActsAsOne == ClusterSpec => ClusterRoutes
<1>1. ClusterInv /\ ClusterInv' /\ [ClusterNext]_kVars
         => [PairOrder' /\ RoutedOrGoneStep /\ OwnersCurrentStep]_kVars
  <2> SUFFICES ASSUME ClusterInv, ClusterInv', [ClusterNext]_kVars
               PROVE  PairOrder' /\ RoutedOrGoneStep /\ OwnersCurrentStep
    OBVIOUS
  <2>1. PairOrder'
    BY DEF ClusterInv
  <2> QED BY <2>1, AllRouted, OwnersExact
<1> QED BY <1>1, ClusterInvInit, ClusterInvNext, PTL DEF ClusterSpec, ClusterRoutes

-----------------------------------------------------------------------------
(* The second daemon.                                                      *)

DaemonSpec == DaemonInit /\ [][DaemonNext]_vVars

ConfigAgent == UNION {Range(f.agents) : f \in ConfigFile}
ConfigName == {a.name : a \in ConfigAgent}
HandleOf == [name : ConfigName, pid : Nat]

DaemonTypes ==
    /\ vFile \in ConfigFile /\ vPids \in Nat
    /\ vSending \in Seq(Seq(ConfigAgent)) /\ vChannel \in Seq(Seq(ConfigAgent))
    /\ vHandles \in Seq(HandleOf)
    /\ vTodo \in [busy : BOOLEAN, remove : Seq(ConfigName), add : Seq(ConfigAgent)]

\* Whom the table names has a handle, in the midst of a reload too.
TableHeld == \A n \in DOMAIN vTable : [name |-> n, pid |-> vTable[n]] \in Range(vHandles)

RunningHeld == \A p \in vAlive \ vKilled : \E k \in DOMAIN vHandles : vHandles[k].pid = p

\* The names to remove are those of the handles, but for some names, in the
\* order of the handles: whoever is to be removed has a handle.
NamesRun == [k \in DOMAIN vHandles |-> vHandles[k].name]
RemovesHandled == \E gone : vTodo.remove = Only(NamesRun, gone)

DaemonInv == DaemonTypes /\ TableHeld /\ RunningHeld /\ RemovesHandled

LEMMA ResolvedAgents ==
    ASSUME NEW f \in ConfigFile
    PROVE  Resolved(f) \in Seq(ConfigAgent)
<1>1. PICK R : R = Range(f.agents)
  OBVIOUS
<1>2. f.agents \in Seq(R) /\ R \subseteq ConfigAgent
  BY <1>1, DaemonAssumption DEF ConfigAgent
<1>3. Only(f.agents, {a \in R : a.auto}) \in Seq(R \cap {a \in R : a.auto})
  BY <1>2, OnlyType
<1> QED BY <1>1, <1>2, <1>3, SeqMonotonic DEF Resolved

LEMMA NamesRunSeq ==
    ASSUME vHandles \in Seq(HandleOf)
    PROVE  /\ NamesRun \in Seq(ConfigName) /\ Len(NamesRun) = Len(vHandles)
           /\ DOMAIN vHandles = 1..Len(vHandles)
           /\ \A k \in 1..Len(vHandles) : NamesRun[k] = vHandles[k].name /\ vHandles[k] \in HandleOf
<1>1. PICK N \in Nat : N = Len(vHandles) /\ DOMAIN vHandles = 1..N
  BY LenProperties
<1>2. \A k \in 1..N : vHandles[k] \in HandleOf
  BY <1>1, ElementOfSeq
<1>3. NamesRun = [k \in 1..N |-> vHandles[k].name]
  BY <1>1 DEF NamesRun
<1>4. NamesRun \in [1..N -> ConfigName]
  BY <1>2, <1>3 DEF HandleOf
<1> QED BY <1>1, <1>2, <1>3, <1>4

LEMMA DaemonInvInit == DaemonInit => DaemonInv
<1> SUFFICES ASSUME DaemonInit PROVE DaemonInv
  OBVIOUS
<1>1. vFile \in ConfigFile
  BY DEF DaemonInit
<1>2. PICK r \in Seq(ConfigAgent), N \in Nat : r = Resolved(vFile) /\ N = Len(r)
  BY <1>1, ResolvedAgents
<1>3. vPids = N /\ vHandles = [k \in 1..N |-> [name |-> r[k].name, pid |-> k]] /\ vAlive = 1..N /\ vTodo = NoReload
  BY <1>2 DEF DaemonInit
<1>4. \A k \in 1..N : r[k].name \in ConfigName
  BY <1>2, ElementOfSeq DEF ConfigName
<1>5. \A k \in 1..N : vHandles[k] \in HandleOf /\ vHandles[k].pid = k
  BY <1>3, <1>4 DEF HandleOf
<1>6. DOMAIN vHandles = 1..N
  BY <1>3
<1>7. vHandles \in Seq(HandleOf)
  <2>1. vHandles \in [1..N -> HandleOf]
    BY <1>3, <1>5
  <2> QED BY <2>1
<1>8. PICK none : none = << >> /\ none \in Seq(Seq(ConfigAgent)) /\ none \in Seq(ConfigName) /\ none \in Seq(ConfigAgent)
  BY EmptySeq
<1>9. vSending = none /\ vChannel = none /\ vTodo = [busy |-> FALSE, remove |-> none, add |-> none]
  BY <1>8 DEF DaemonInit, NoReload
<1>10. DaemonTypes
  BY <1>1, <1>2, <1>3, <1>7, <1>8, <1>9 DEF DaemonTypes
<1>11. RunningHeld
  BY <1>3, <1>5, <1>6 DEF RunningHeld
<1>12. RemovesHandled
  <2>1. NamesRun \in Seq(ConfigName) /\ {} \cap ConfigName = {}
    BY <1>7, NamesRunSeq
  <2>2. Only(NamesRun, {}) = << >>
    BY <2>1, OnlyNothing
  <2>3. vTodo.remove = Only(NamesRun, {})
    BY <1>8, <1>9, <2>2
  <2> QED BY <2>3 DEF RemovesHandled
<1>13. ASSUME NEW n \in DOMAIN vTable PROVE [name |-> n, pid |-> vTable[n]] \in Range(vHandles)
  <2>1. n \in NamesOf(vHandles) /\ vTable[n] = CHOOSE p \in 1..N : vHandles[p].name = n /\ \A q \in (p + 1)..N : vHandles[q].name # n
    BY <1>3 DEF DaemonInit
  <2> DEFINE T == {d \in 0..N : N - d \in 1..N /\ vHandles[N - d].name = n}
  <2>2. PICK k \in 1..N : vHandles[k].name = n
    BY <1>6, <2>1 DEF NamesOf
  <2>3. N - k \in T
    BY <2>2
  <2>4. T # {} /\ T \subseteq Nat
    BY <2>3
  <2>5. PICK z \in T : \A y \in T : z <= y
    BY <2>4, LeastThere
  <2>6. N - z \in 1..N /\ vHandles[N - z].name = n /\ z \in 0..N
    BY <2>5
  <2>7. ASSUME NEW q \in ((N - z) + 1)..N, vHandles[q].name = n PROVE FALSE
    <3>1. N - q \in 0..N /\ N - (N - q) = q /\ q \in 1..N /\ ~(z <= N - q)
      BY <2>6
    <3> QED BY <2>5, <2>7, <3>1
  <2>8. \E p \in 1..N : vHandles[p].name = n /\ \A q \in (p + 1)..N : vHandles[q].name # n
    BY <2>6, <2>7
  <2>9. PICK p \in 1..N : p = vTable[n] /\ vHandles[p].name = n
    BY <2>1, <2>8
  <2>10. vHandles[p] = [name |-> n, pid |-> p]
    BY <1>3, <2>9
  <2> QED BY <1>6, <2>9, <2>10 DEF Range
<1> QED BY <1>10, <1>11, <1>12, <1>13 DEF DaemonInv, TableHeld

\* A step that leaves handles and names to remove alone
LEMMA HandlesKept ==
    ASSUME DaemonInv, DaemonTypes', vHandles' = vHandles, vTodo'.remove = vTodo.remove, vTable' = vTable,
           vAlive' \subseteq vAlive, vKilled \subseteq vKilled'
    PROVE  DaemonInv'
<1>1. NamesRun' = NamesRun
  BY DEF NamesRun
<1>2. RemovesHandled'
  BY <1>1 DEF DaemonInv, RemovesHandled
<1>3. TableHeld' /\ RunningHeld'
  BY DEF DaemonInv, TableHeld, RunningHeld
<1> QED BY <1>2, <1>3 DEF DaemonInv

\* The handle that RemoveAgent finds
LEMMA PositionFound ==
    ASSUME DaemonInv, vTodo.remove # << >>
    PROVE  /\ PositionOf(Head(vTodo.remove)) \in 1..Len(vHandles)
           /\ vHandles[PositionOf(Head(vTodo.remove))].name = Head(vTodo.remove)
           /\ \E gone : Tail(vTodo.remove) = Only(RemoveAt(NamesRun, PositionOf(Head(vTodo.remove))), gone)
<1>1. PICK gone : vTodo.remove = Only(NamesRun, gone)
  BY DEF DaemonInv, RemovesHandled
<1>2. vHandles \in Seq(HandleOf)
  BY DEF DaemonInv, DaemonTypes
<1>3. NamesRun \in Seq(ConfigName) /\ Len(NamesRun) = Len(vHandles) /\ DOMAIN vHandles = 1..Len(vHandles)
      /\ \A k \in 1..Len(vHandles) : NamesRun[k] = vHandles[k].name
  BY <1>2, NamesRunSeq
<1>4. PICK s \in Seq(ConfigName), N \in Nat : s = NamesRun /\ N = Len(s)
  BY <1>3
<1>5. Only(s, gone) # << >>
  BY <1>1, <1>4
<1>6. PICK k \in 1..Len(s) : FirstKept(s, k, gone)
  BY <1>5, OnlyHead
<1>7. PICK n : n = Head(vTodo.remove)
  OBVIOUS
<1>8. n = s[k] /\ s[k] \in gone /\ \A j \in 1..(k - 1) : s[j] \notin gone
  BY <1>1, <1>4, <1>6, <1>7 DEF FirstKept
<1>9. Tail(vTodo.remove) = Only(RemoveAt(NamesRun, k), gone)
  BY <1>1, <1>4, <1>6 DEF FirstKept, RemoveAt
<1>10. vHandles[k].name = n /\ \A j \in 1..(k - 1) : vHandles[j].name # n
  <2>1. \A j \in 1..(k - 1) : j \in 1..N
    BY <1>4
  <2> QED BY <1>3, <1>4, <1>8, <2>1
<1>11. \A i \in 1..N : (vHandles[i].name = n /\ \A j \in 1..(i - 1) : vHandles[j].name # n) => i = k
  <2> SUFFICES ASSUME NEW i \in 1..N, vHandles[i].name = n, \A j \in 1..(i - 1) : vHandles[j].name # n
               PROVE  i = k
    OBVIOUS
  <2>1. k \in 1..N
    BY <1>4
  <2>2. i < k => i \in 1..(k - 1)
    BY <2>1
  <2>3. k < i => k \in 1..(i - 1)
    BY <2>1
  <2> QED BY <1>10, <2>1, <2>2, <2>3
<1>12. PositionOf(n) = k
  <2>1. k \in DOMAIN vHandles /\ DOMAIN vHandles = 1..N
    BY <1>3, <1>4
  <2> QED BY <1>10, <1>11, <2>1 DEF PositionOf
<1> QED BY <1>3, <1>4, <1>7, <1>9, <1>10, <1>12

LEMMA RemoveAgentKeeps ==
    ASSUME DaemonInv, RemoveAgent
    PROVE  DaemonInv'
<1>1. vTodo.remove # << >>
  BY DEF RemoveAgent
<1>2. PICK n : n = Head(vTodo.remove)
  OBVIOUS
<1>3. PICK k : k = PositionOf(n)
  OBVIOUS
<1>4. k \in 1..Len(vHandles) /\ vHandles[k].name = n
  BY <1>1, <1>2, <1>3, PositionFound
<1>5. PICK gone : Tail(vTodo.remove) = Only(RemoveAt(NamesRun, k), gone)
  BY <1>1, <1>2, <1>3, PositionFound
<1>6. /\ vKilled' = vKilled \cup {vHandles[k].pid} /\ vHandles' = RemoveAt(vHandles, k)
      /\ vTable' = Without(vTable, n) /\ vTodo' = [vTodo EXCEPT !.remove = Tail(@)]
      /\ UNCHANGED <<vFile, vSending, vChannel, vPids, vAlive>>
  BY <1>2, <1>3 DEF RemoveAgent
<1>7. PICK s \in Seq(HandleOf), N \in Nat : s = vHandles /\ N = Len(s)
  BY DEF DaemonInv, DaemonTypes
<1>8. PICK t : t = RemoveAt(s, k)
  OBVIOUS
<1>9. LeftOut(s, k, t) /\ k \in 1..Len(s)
  BY <1>4, <1>7, <1>8 DEF RemoveAt, LeftOut
<1>10. /\ t \in Seq(HandleOf) /\ Len(t) = N - 1
       /\ \A j \in 1..(N - 1) : t[j] = IF j < k THEN s[j] ELSE s[j + 1]
  <2>1. t \in Seq(HandleOf) /\ OneLess(s, k, t)
    BY <1>9, WithoutOne
  <2> QED BY <1>7, <2>1 DEF OneLess
<1>11. DOMAIN t = 1..(N - 1) /\ DOMAIN s = 1..N /\ k \in 1..N
  BY <1>4, <1>7, <1>10, LenProperties
<1>12. \A j \in DOMAIN s : j # k => \E i \in DOMAIN t : t[i] = s[j]
  <2> SUFFICES ASSUME NEW j \in 1..N, j # k PROVE \E i \in 1..(N - 1) : t[i] = s[j]
    BY <1>11
  <2>1. CASE j < k
    <3>1. j \in 1..(N - 1)
      BY <1>11, <2>1
    <3> QED BY <1>10, <2>1, <3>1
  <2>2. CASE ~(j < k)
    <3>1. j - 1 \in 1..(N - 1) /\ ~(j - 1 < k) /\ (j - 1) + 1 = j
      BY <1>11, <2>2
    <3> QED BY <1>10, <3>1
  <2> QED BY <2>1, <2>2
<1>13. vHandles' = t
  BY <1>6, <1>7, <1>8
<1>14. RunningHeld'
  <2> SUFFICES ASSUME NEW p \in vAlive' \ vKilled' PROVE \E i \in DOMAIN t : t[i].pid = p
    BY <1>13 DEF RunningHeld
  <2>1. p \in vAlive \ vKilled /\ p # s[k].pid
    BY <1>6, <1>7
  <2>2. PICK j \in DOMAIN s : s[j].pid = p
    BY <1>7, <2>1 DEF DaemonInv, RunningHeld
  <2> QED BY <1>12, <2>1, <2>2
<1>15. TableHeld'
  <2> SUFFICES ASSUME NEW m \in DOMAIN vTable' PROVE [name |-> m, pid |-> vTable'[m]] \in Range(t)
    BY <1>13 DEF TableHeld
  <2>1. m \in DOMAIN vTable /\ m # n /\ vTable'[m] = vTable[m]
    BY <1>6 DEF Without
  <2>2. PICK j \in DOMAIN s : s[j] = [name |-> m, pid |-> vTable[m]]
    BY <1>7, <2>1 DEF DaemonInv, TableHeld, Range
  <2>3. j # k
    BY <1>4, <1>7, <2>1, <2>2
  <2>4. PICK i \in DOMAIN t : t[i] = s[j]
    BY <1>12, <2>3
  <2> QED BY <2>1, <2>2, <2>4 DEF Range
<1>16. vTodo'.remove = Tail(vTodo.remove) /\ vTodo' \in [busy : BOOLEAN, remove : Seq(ConfigName), add : Seq(ConfigAgent)]
  <2>1. vTodo \in [busy : BOOLEAN, remove : Seq(ConfigName), add : Seq(ConfigAgent)]
    BY DEF DaemonInv, DaemonTypes
  <2>2. PICK r \in Seq(ConfigName) : r = Tail(vTodo.remove)
    BY <1>1, <2>1, HeadTailProperties
  <2> QED BY <1>6, <2>1, <2>2
<1>17. RemovesHandled'
  <2>1. PICK names \in Seq(ConfigName) : names = NamesRun /\ Len(names) = N /\ \A j \in 1..N : names[j] = s[j].name
    BY <1>7, NamesRunSeq
  <2>2. PICK u : u = RemoveAt(names, k)
    OBVIOUS
  <2>3. k \in 1..Len(names) /\ LeftOut(names, k, u)
    BY <1>11, <2>1, <2>2 DEF RemoveAt, LeftOut
  <2>4. /\ u \in Seq(ConfigName) /\ Len(u) = N - 1
        /\ \A j \in 1..(N - 1) : u[j] = IF j < k THEN names[j] ELSE names[j + 1]
    <3>1. u \in Seq(ConfigName) /\ OneLess(names, k, u)
      BY <2>3, WithoutOne
    <3> QED BY <2>1, <3>1 DEF OneLess
  <2>5. NamesRun' = [j \in DOMAIN t |-> t[j].name]
    BY <1>13 DEF NamesRun
  <2>6. \A j \in 1..(N - 1) : u[j] = t[j].name
    <3>1. \A j \in 1..(N - 1) : j \in 1..N /\ j + 1 \in 1..N
      OBVIOUS
    <3> QED BY <1>10, <2>1, <2>4, <3>1
  <2>7. DOMAIN u = 1..(N - 1) /\ u \in [1..(N - 1) -> ConfigName]
    BY <2>4, LenProperties
  <2>8. NamesRun' = u
    BY <1>11, <2>5, <2>6, <2>7
  <2> QED BY <1>5, <1>16, <2>1, <2>2, <2>8 DEF RemovesHandled
<1>18. DaemonTypes'
  BY <1>6, <1>10, <1>13, <1>16 DEF DaemonInv, DaemonTypes
<1> QED BY <1>14, <1>15, <1>17, <1>18 DEF DaemonInv

LEMMA AddAgentKeeps ==
    ASSUME DaemonInv, AddAgent
    PROVE  DaemonInv'
<1>1. vTodo \in [busy : BOOLEAN, remove : Seq(ConfigName), add : Seq(ConfigAgent)] /\ vTodo.add # << >>
      /\ vTodo.remove = << >> /\ vPids \in Nat
  BY DEF DaemonInv, DaemonTypes, AddAgent
<1>2. PICK a \in ConfigAgent, rest \in Seq(ConfigAgent) : a = Head(vTodo.add) /\ rest = Tail(vTodo.add)
  BY <1>1, HeadTailProperties
<1>3. PICK h \in HandleOf : h = [name |-> a.name, pid |-> vPids + 1] /\ h.pid = vPids + 1
  <2>1. PICK p \in Nat : p = vPids + 1
    BY <1>1
  <2>2. a.name \in ConfigName
    BY DEF ConfigName
  <2>3. PICK h : h = [name |-> a.name, pid |-> p]
    OBVIOUS
  <2>4. h \in HandleOf /\ h.pid = p
    BY <2>2, <2>3 DEF HandleOf
  <2> QED BY <2>1, <2>3, <2>4
<1>4. /\ vPids' = vPids + 1 /\ vAlive' = vAlive \cup {vPids + 1} /\ vHandles' = Append(vHandles, h)
      /\ vTable' = With(vTable, a.name, vPids + 1) /\ vTodo' = [vTodo EXCEPT !.add = rest]
      /\ UNCHANGED <<vFile, vSending, vChannel, vKilled>>
  BY <1>2, <1>3 DEF AddAgent
<1>5. vTodo' \in [busy : BOOLEAN, remove : Seq(ConfigName), add : Seq(ConfigAgent)] /\ vTodo'.remove = << >>
  BY <1>1, <1>4
<1>6. PICK s \in Seq(HandleOf), N \in Nat : s = vHandles /\ N = Len(s) /\ DOMAIN s = 1..N
  BY LenProperties DEF DaemonInv, DaemonTypes
<1>7. PICK t : t = Append(s, h)
  OBVIOUS
<1>8. t \in Seq(HandleOf) /\ DOMAIN t = 1..(N + 1) /\ t[N + 1] = h /\ \A j \in 1..N : t[j] = s[j]
  BY <1>6, <1>7, AppendProperties, LenProperties
<1>9. vHandles' = t /\ N + 1 \in DOMAIN t /\ \A j \in DOMAIN s : j \in DOMAIN t /\ t[j] = s[j]
  BY <1>4, <1>6, <1>7, <1>8
<1>10. DaemonTypes'
  BY <1>1, <1>4, <1>5, <1>8, <1>9, SMTT(30) DEF DaemonInv, DaemonTypes
<1>11. RunningHeld'
  <2> SUFFICES ASSUME NEW p \in vAlive' \ vKilled' PROVE \E i \in DOMAIN t : t[i].pid = p
    BY <1>9 DEF RunningHeld
  <2>1. CASE p \in vAlive \ vKilled
    BY <1>6, <1>9, <2>1 DEF DaemonInv, RunningHeld
  <2>2. CASE p = vPids + 1
    BY <1>3, <1>8, <1>9, <2>2
  <2> QED BY <1>4, <2>1, <2>2
<1>12. TableHeld'
  <2> SUFFICES ASSUME NEW m \in DOMAIN vTable' PROVE [name |-> m, pid |-> vTable'[m]] \in Range(t)
    BY <1>9 DEF TableHeld
  <2>1. CASE m = a.name
    <3>1. vTable'[m] = vPids + 1
      BY <1>4, <2>1 DEF With
    <3> QED BY <1>3, <1>8, <1>9, <2>1, <3>1 DEF Range
  <2>2. CASE m # a.name
    <3>1. m \in DOMAIN vTable /\ vTable'[m] = vTable[m]
      BY <1>4, <2>2 DEF With
    <3>2. PICK j \in DOMAIN s : s[j] = [name |-> m, pid |-> vTable[m]]
      BY <1>6, <3>1 DEF DaemonInv, TableHeld, Range
    <3> QED BY <1>9, <3>1, <3>2 DEF Range
  <2> QED BY <2>1, <2>2
<1>13. RemovesHandled'
  <2>1. \A j \in 1..(N + 1) : t[j] \in HandleOf
    BY <1>8, LenProperties, ElementOfSeq
  <2>2. PICK u : u = [j \in 1..(N + 1) |-> t[j].name]
    OBVIOUS
  <2>3. u \in [1..(N + 1) -> ConfigName]
    BY <2>1, <2>2 DEF HandleOf
  <2>4. u \in Seq(ConfigName) /\ {} \cap ConfigName = {}
    BY <1>6, <2>3
  <2>5. NamesRun' = u
    BY <1>8, <1>9, <2>2 DEF NamesRun
  <2>6. Only(u, {}) = << >>
    BY <2>4, OnlyNothing
  <2> QED BY <1>5, <2>5, <2>6 DEF RemovesHandled
<1> QED BY <1>10, <1>11, <1>12, <1>13 DEF DaemonInv

LEMMA DaemonInvNext == DaemonInv /\ [DaemonNext]_vVars => DaemonInv'
<1> SUFFICES ASSUME DaemonInv, [DaemonNext]_vVars PROVE DaemonInv'
  OBVIOUS
<1>1. ASSUME NEW f \in ConfigFile, EditFile(f) PROVE DaemonInv'
  BY <1>1, HandlesKept DEF EditFile, DaemonInv, DaemonTypes
<1>2. ASSUME CheckForChanges PROVE DaemonInv'
  <2>1. PICK r \in Seq(ConfigAgent) : r = Resolved(vFile)
    BY ResolvedAgents DEF DaemonInv, DaemonTypes
  <2>2. <<r>> \in Seq(Seq(ConfigAgent))
    BY OneSeq
  <2>3. DaemonTypes'
    BY <1>2, <2>1, <2>2 DEF CheckForChanges, DaemonInv, DaemonTypes
  <2> QED BY <1>2, <2>3, HandlesKept DEF CheckForChanges
<1>3. ASSUME SendChange PROVE DaemonInv'
  <2>1. vChannel' \in Seq(Seq(ConfigAgent)) /\ vSending' \in Seq(Seq(ConfigAgent))
    BY <1>3, ConcatProperties, EmptySeq DEF SendChange, DaemonInv, DaemonTypes
  <2>2. DaemonTypes'
    BY <1>3, <2>1 DEF SendChange, DaemonInv, DaemonTypes
  <2> QED BY <1>3, <2>2, HandlesKept DEF SendChange
<1>4. ASSUME ReceiveChange PROVE DaemonInv'
  <2>1. PICK agents \in Seq(ConfigAgent), rest \in Seq(Seq(ConfigAgent)) : agents = Head(vChannel) /\ rest = Tail(vChannel)
    BY <1>4, HeadTailProperties DEF ReceiveChange, DaemonInv, DaemonTypes
  <2>2. NamesRun \in Seq(ConfigName)
    BY NamesRunSeq DEF DaemonInv, DaemonTypes
  <2>3. PICK gone, new : gone = Range(NamesRun) \ NamesOf(agents)
                         /\ new = {a \in Range(agents) : a.name \notin NamesOf(vHandles)}
    OBVIOUS
  <2>4. PICK remove \in Seq(ConfigName) : remove = Only(NamesRun, gone)
    <3>1. Only(NamesRun, gone) \in Seq(ConfigName \cap gone)
      BY <2>2, OnlyType
    <3> QED BY <3>1, SeqMonotonic
  <2>5. PICK add \in Seq(ConfigAgent) : add = Only(agents, new)
    <3>1. Only(agents, new) \in Seq(ConfigAgent \cap new)
      BY OnlyType
    <3> QED BY <3>1, SeqMonotonic
  <2>6. vTodo' = [busy |-> TRUE, remove |-> remove, add |-> add] /\ vChannel' = rest
        /\ UNCHANGED <<vFile, vSending, vHandles, vTable, vPids, vAlive, vKilled>>
    BY <1>4, <2>1, <2>3, <2>4, <2>5 DEF ReceiveChange, NamesRun
  <2>7. DaemonTypes'
    BY <2>6 DEF DaemonInv, DaemonTypes
  <2>8. NamesRun' = NamesRun
    BY <2>6 DEF NamesRun
  <2>9. RemovesHandled'
    BY <2>4, <2>6, <2>8 DEF RemovesHandled
  <2> QED BY <2>6, <2>7, <2>9 DEF DaemonInv, TableHeld, RunningHeld
<1>5. ASSUME RemoveAgent PROVE DaemonInv'
  BY <1>5, RemoveAgentKeeps
<1>6. ASSUME AddAgent PROVE DaemonInv'
  BY <1>6, AddAgentKeeps
<1>7. ASSUME ReloadComplete PROVE DaemonInv'
  <2>1. PICK none : none = << >> /\ none \in Seq(ConfigName) /\ none \in Seq(ConfigAgent)
    BY EmptySeq
  <2>2. vTodo' = [busy |-> FALSE, remove |-> none, add |-> none] /\ vTodo.remove = none
        /\ UNCHANGED <<vFile, vSending, vChannel, vHandles, vTable, vPids, vAlive, vKilled>>
    BY <1>7, <2>1 DEF ReloadComplete, NoReload
  <2>3. vTodo'.remove = vTodo.remove
    BY <2>2
  <2>4. DaemonTypes'
    BY <2>1, <2>2 DEF DaemonInv, DaemonTypes
  <2> QED BY <2>2, <2>3, <2>4, HandlesKept
<1>8. ASSUME NEW n \in DOMAIN vTable, CancelProcess(n) PROVE DaemonInv'
  BY <1>8, HandlesKept DEF CancelProcess, DaemonInv, DaemonTypes
<1>9. ASSUME NEW p \in vAlive, AgentExits(p) PROVE DaemonInv'
  BY <1>9, HandlesKept DEF AgentExits, DaemonInv, DaemonTypes
<1>10. ASSUME SignalV2 PROVE DaemonInv'
  BY <1>10, HandlesKept DEF SignalV2, DaemonInv, DaemonTypes
<1>11. ASSUME KillAll PROVE DaemonInv'
  BY <1>11, HandlesKept DEF KillAll, DaemonInv, DaemonTypes
<1>12. ASSUME JoinAll PROVE DaemonInv'
  BY <1>12, HandlesKept DEF JoinAll, DaemonInv, DaemonTypes
<1>13. CASE UNCHANGED vVars
  BY <1>13, HandlesKept DEF vVars, DaemonInv, DaemonTypes
<1> QED BY <1>1, <1>2, <1>3, <1>4, <1>5, <1>6, <1>7, <1>8, <1>9, <1>10, <1>11, <1>12, <1>13 DEF DaemonNext

(***************************************************************************)
(* The second daemon (zeptobeam/src/main.rs, runtime_ops.rs): whatever the *)
(* file's contents, a running process that nobody has killed is one the    *)
(* daemon has a handle of, and the table its tools use names no other.     *)
(***************************************************************************)
THEOREM NobodyStrays == DaemonSpec => []NoStrayAgent
<1>1. DaemonInv => NoStrayAgent
  BY DEF DaemonInv, TableHeld, RunningHeld, NoStrayAgent
<1> QED BY <1>1, DaemonInvInit, DaemonInvNext, PTL DEF DaemonSpec
=============================================================================
