------------------------------- MODULE McpServer -------------------------------
(***************************************************************************)
(* The MCP protocol handler (agent_rt/mcp_server.rs) behind the stdio      *)
(* listener (agent_rt/mcp_stdio.rs): one request at a time, a session that *)
(* the listener learns from the server's table after initialize, expiry,   *)
(* and tools that reach the scheduler.                                     *)
(***************************************************************************)
EXTENDS Naturals, FiniteSets, Collections

CONSTANTS
    McpPid,          \* processes of the scheduler
    McpTimeout,      \* session_timeout, in ticks of the clock
    MaxMcpSessions,  \* bound: session ids given out
    MaxMcpClock      \* bound: ticks

ASSUME McpServerAssumption ==
    McpTimeout \in Nat /\ MaxMcpSessions \in Nat /\ MaxMcpClock \in Nat

VARIABLES
    mSessions,  \* sessions: id -> [created, active, initialized]
    mIds,       \* ids generate_uuid has given out
    mSid,       \* the listener's session_id, 0 for None
    mClock,     \* the clock
    mAlive,     \* processes in the scheduler's registry
    mSent,      \* processes the scheduler took a message for
    mAnswer     \* the last response: "none", "ok", "not_sent" or an error
mVars == <<mSessions, mIds, mSid, mClock, mAlive, mSent, mAnswer>>

McpInit ==
    /\ mSessions = << >> /\ mIds = 0 /\ mSid = 0 /\ mClock = 0
    /\ mAlive = McpPid /\ mSent = {} /\ mAnswer = "none"

Initialized == [created |-> mClock, active |-> mClock, initialized |-> TRUE]

\* Faulty variant: initialize gives a new id although the listener has one.
SessionForNew == mIds + 1
\* handle_initialize: the listener's id, or one of create_session.
SessionFor == IF mSid = 0 THEN mIds + 1 ELSE mSid

\* most_recent_session_id; of sessions created at the same instant, any one.
MostRecent(sessions) ==
    CHOOSE s \in DOMAIN sessions : \A r \in DOMAIN sessions : sessions[r].created <= sessions[s].created

\* A session is made, marked and stored whatever was there; the listener looks it up.
HandleInitialize ==
    /\ SessionFor <= MaxMcpSessions
    /\ mSessions' = With(mSessions, SessionFor, Initialized)
    /\ mIds' = IF SessionFor > mIds THEN SessionFor ELSE mIds
    /\ mSid' = MostRecent(mSessions')
    /\ mAnswer' = "ok"
    /\ UNCHANGED <<mClock, mAlive, mSent>>

\* Unreadable lines, missing or wrong parameters, another protocol version.
Malformed(code) ==
    /\ code \in {"parse_error", "invalid_params"}
    /\ mAnswer' = code /\ UNCHANGED <<mSessions, mIds, mSid, mClock, mAlive, mSent>>

\* get_session removes what has expired.
Fresh == {s \in DOMAIN mSessions : mClock - mSessions[s].active <= McpTimeout}
Purged == [s \in Fresh |-> mSessions[s]]

\* Every method but initialize without a usable session.
Refuse ==
    /\ \/ mSid = 0 /\ mAnswer' = "session_not_initialized" /\ UNCHANGED mSessions
       \/ /\ mSid # 0 /\ mSid \notin Fresh
          /\ mAnswer' = "session_expired" /\ mSessions' = Purged
       \/ /\ mSid \in Fresh /\ ~mSessions[mSid].initialized
          /\ mAnswer' = "session_not_initialized" /\ mSessions' = Purged
    /\ UNCHANGED <<mIds, mSid, mClock, mAlive, mSent>>

(***************************************************************************)
(* handle_request in a session, which update_session stores again with the *)
(* time of the answer.  tools/call: sending reports what the scheduler     *)
(* said, cancelling reports success even if there is no such process, the  *)
(* orchestration tools are placeholders.                                   *)
(***************************************************************************)
Serve(method, p) ==
    /\ mSid \in Fresh /\ mSessions[mSid].initialized
    /\ mSessions' = With(Purged, mSid, [mSessions[mSid] EXCEPT !.active = mClock])
    /\ CASE method = "send_message" ->
              /\ mAnswer' = IF p \in mAlive THEN "ok" ELSE "not_sent"
              /\ mSent' = mSent \cup ({p} \cap mAlive)
              /\ UNCHANGED mAlive
         [] method = "cancel_process" ->
              mAnswer' = "ok" /\ mAlive' = mAlive \ {p} /\ UNCHANGED mSent
         [] method = "unknown" -> mAnswer' = "method_not_found" /\ UNCHANGED <<mAlive, mSent>>
         [] method = "unknown_tool" -> mAnswer' = "tool_not_found" /\ UNCHANGED <<mAlive, mSent>>
         [] OTHER -> mAnswer' = "ok" /\ UNCHANGED <<mAlive, mSent>>
    /\ UNCHANGED <<mIds, mSid, mClock>>

Methods == {"tools/list", "ping", "unknown", "unknown_tool", "spawn_orchestration",
            "get_orchestration_status", "list_processes", "get_metrics", "send_message", "cancel_process"}

McpTick ==
    /\ mClock < MaxMcpClock /\ mClock' = mClock + 1
    /\ UNCHANGED <<mSessions, mIds, mSid, mAlive, mSent, mAnswer>>

McpServerNext ==
    \/ HandleInitialize \/ Refuse \/ McpTick
    \/ \E code \in {"parse_error", "invalid_params"} : Malformed(code)
    \/ \E method \in Methods, p \in McpPid : Serve(method, p)

-----------------------------------------------------------------------------
(***************************************************************************)
(* The listener is in its own session and leaks none: the table holds at   *)
(* most one session, and it is the one the listener sends its requests in, *)
(* however often the client initializes and the session expires.           *)
(***************************************************************************)
ListenerOwnsSession ==
    Cardinality(DOMAIN mSessions) <= 1 /\ DOMAIN mSessions \subseteq {mSid}
=============================================================================
