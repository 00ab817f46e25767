----------------------------- MODULE McpClient -----------------------------
(***************************************************************************)
(* The MCP client of the bridge (agent_rt/mcp_client.rs): a manager with   *)
(* one session for each agent, and in every session three locks, around    *)
(* the clients, the cached tools and the flag `initialized'.  Tasks of the *)
(* bridge call the manager concurrently; a lock is held across the awaits  *)
(* that follow it.  Which tools a server has, and what a call returns, is  *)
(* left out; connecting, initializing and listing may fail.                *)
(***************************************************************************)
EXTENDS Naturals, FiniteSets, Sequences

CONSTANTS
    McAgent,      \* agent PIDs
    McServer,     \* number of configured servers
    McCaller,     \* tasks that call the manager, one operation each
    McOps,        \* their operations
    MaxSession    \* bound: sessions ever made

ASSUME McAssumption ==
    /\ McServer \in Nat \ {0} /\ MaxSession \in Nat /\ 0 \notin McCaller
    /\ McOps \subseteq {"tools", "call", "try", "close", "shutdown"}

VARIABLES
    mcMap,      \* sessions: PID -> session
    mcMutex,    \* who holds the mutex around it
    mcSession,  \* every session made: clients, cache, initialized
    mcLock,     \* of every session, who holds which lock how
    mcTask      \* of every caller, its operation and place in it

mcVars == <<mcMap, mcMutex, mcSession, mcLock, mcTask>>

Nobody == 0
Locks == {"init", "clients", "cache"}
Free == [writer |-> Nobody, readers |-> {}]
NewSession == [clients |-> {}, cache |-> {}, cached |-> FALSE, init |-> FALSE]
Servers == 1..McServer

McInit ==
    /\ mcMap = << >> /\ mcMutex = Nobody
    /\ mcSession = << >> /\ mcLock = << >>
    /\ mcTask = [c \in McCaller |-> [op |-> "none", at |-> "new",
                                     s |-> 0, left |-> {}, rest |-> {}, got |-> "none"]]

-----------------------------------------------------------------------------
(* Locks: tokio's RwLock and Mutex.                                        *)
CanWrite(s, l) == mcLock[s][l] = Free
CanRead(s, l) == mcLock[s][l].writer = Nobody

Write(c, s, l) == CanWrite(s, l) /\ mcLock' = [mcLock EXCEPT ![s][l].writer = c]
Read(c, s, l) == CanRead(s, l) /\ mcLock' = [mcLock EXCEPT ![s][l].readers = @ \union {c}]
DropAll(c, s) ==
    mcLock' = [mcLock EXCEPT ![s] = [l \in Locks |->
                 [writer |-> IF @[l].writer = c THEN Nobody ELSE @[l].writer,
                  readers |-> @[l].readers \ {c}]]]

At(c, at) == mcTask[c].at = at
Go(c, at) == mcTask' = [mcTask EXCEPT ![c].at = at]
Return(c, got) == mcTask' = [mcTask EXCEPT ![c].at = "done", ![c].got = got]

-----------------------------------------------------------------------------
(* McpClientManager                                                        *)

\* get_or_create_session; then list_tools() or call_tool().
Open(c, p, op) ==
    /\ At(c, "new") /\ mcMutex = Nobody
    /\ LET n == Len(mcSession) + 1
           known == p \in DOMAIN mcMap
           s == IF known THEN mcMap[p] ELSE n
       IN  /\ known \/ n <= MaxSession
           /\ mcTask' = [mcTask EXCEPT ![c] = [@ EXCEPT !.op = op, !.s = s,
                                                        !.at = "init"]]
           /\ IF known THEN UNCHANGED <<mcMap, mcSession, mcLock>>
              ELSE /\ mcMap' = [q \in DOMAIN mcMap \union {p} |-> IF q = p THEN n ELSE mcMap[q]]
                   /\ mcSession' = Append(mcSession, NewSession)
                   /\ mcLock' = Append(mcLock, [l \in Locks |-> Free])
    /\ UNCHANGED mcMutex

\* try_get_tools_for_agent: nothing while the mutex is held or there is no
\* session; otherwise the cached tools, with the mutex held.
TryGet(c, p) ==
    /\ At(c, "new")
    /\ IF mcMutex = Nobody /\ p \in DOMAIN mcMap
       THEN /\ mcMutex' = c
            /\ mcTask' = [mcTask EXCEPT ![c] = [@ EXCEPT !.op = "try",
                                                         !.s = mcMap[p], !.at = "cache"]]
       ELSE /\ mcTask' = [mcTask EXCEPT ![c] = [@ EXCEPT !.op = "try", !.at = "done",
                                                         !.got = "nothing"]]
            /\ UNCHANGED mcMutex
    /\ UNCHANGED <<mcMap, mcSession, mcLock>>

\* close_session holds the mutex until the session is disconnected.
Close(c, p) ==
    /\ At(c, "new") /\ mcMutex = Nobody
    /\ IF p \in DOMAIN mcMap
       THEN /\ mcMutex' = c
            /\ mcMap' = [q \in DOMAIN mcMap \ {p} |-> mcMap[q]]
            /\ mcTask' = [mcTask EXCEPT ![c] = [@ EXCEPT !.op = "close",
                                                         !.s = mcMap[p], !.at = "hangup"]]
       ELSE /\ mcTask' = [mcTask EXCEPT ![c] = [@ EXCEPT !.op = "close", !.at = "done"]]
            /\ UNCHANGED <<mcMutex, mcMap>>
    /\ UNCHANGED <<mcSession, mcLock>>

\* shutdown disconnects one session after the other, then clears the map.
ShutdownManager(c) ==
    /\ At(c, "new") /\ mcMutex = Nobody /\ DOMAIN mcMap # {}
    /\ mcMutex' = c
    /\ \E s \in {mcMap[p] : p \in DOMAIN mcMap} :
          mcTask' = [mcTask EXCEPT ![c] =
             [@ EXCEPT !.op = "shutdown", !.s = s, !.at = "hangup",
                       !.rest = {mcMap[p] : p \in DOMAIN mcMap} \ {s}]]
    /\ UNCHANGED <<mcMap, mcSession, mcLock>>

-----------------------------------------------------------------------------
(* McpClientSession::initialize                                            *)
InitLock(c) ==
    LET s == mcTask[c].s
    IN  /\ At(c, "init") /\ CanWrite(s, "init")
        /\ IF mcSession[s].init
           THEN Go(c, IF mcTask[c].op = "call" THEN "calling" ELSE "cache") /\ UNCHANGED mcLock
           ELSE Write(c, s, "init") /\ Go(c, "connect")
        /\ UNCHANGED <<mcMap, mcMutex, mcSession>>

ConnectLock(c) ==
    /\ At(c, "connect") /\ Write(c, mcTask[c].s, "clients")
    /\ mcTask' = [mcTask EXCEPT ![c].at = "connecting", ![c].left = Servers]
    /\ UNCHANGED <<mcMap, mcMutex, mcSession>>

Next1(set) == CHOOSE x \in set : \A y \in set : x <= y

\* connect_to_server, initialize and list_tools of the next server.  When
\* one fails the clients made so far stay.
Connect(c) ==
    LET s == mcTask[c].s
        server == Next1(mcTask[c].left)
    IN  /\ At(c, "connecting") /\ mcTask[c].left # {}
        /\ \/ /\ mcSession' = [mcSession EXCEPT ![s].clients = @ \union {server}]
              /\ mcTask' = [mcTask EXCEPT ![c].left = @ \ {server}]
              /\ UNCHANGED mcLock
           \/ Return(c, "error") /\ DropAll(c, s) /\ UNCHANGED mcSession
        /\ UNCHANGED <<mcMap, mcMutex>>

\* Faulty variant: the flag is set although nothing was cached.
CacheToolsLate(c) ==
    LET s == mcTask[c].s
    IN  /\ At(c, "connecting") /\ mcTask[c].left = {} /\ CanWrite(s, "cache")
        /\ mcSession' = [mcSession EXCEPT ![s].init = TRUE]
        /\ DropAll(c, s) /\ Go(c, IF mcTask[c].op = "call" THEN "calling" ELSE "cache")
        /\ UNCHANGED <<mcMap, mcMutex>>

CacheTools(c) ==
    LET s == mcTask[c].s
    IN  /\ At(c, "connecting") /\ mcTask[c].left = {} /\ CanWrite(s, "cache")
        /\ mcSession' = [mcSession EXCEPT ![s] = [@ EXCEPT !.cache = Servers, !.cached = TRUE,
                                                           !.init = TRUE]]
        /\ DropAll(c, s) /\ Go(c, IF mcTask[c].op = "call" THEN "calling" ELSE "cache")
        /\ UNCHANGED <<mcMap, mcMutex>>

(* get_cached_tools                                                        *)
Unlocked(c) == mcMutex' = IF mcMutex = c THEN Nobody ELSE mcMutex

ReadCache(c) ==
    LET s == mcTask[c].s
    IN  /\ At(c, "cache") /\ CanRead(s, "cache")
        /\ IF mcSession[s].cached
           THEN Read(c, s, "cache") /\ Go(c, "lookup") /\ UNCHANGED mcMutex
           ELSE Return(c, "not initialized") /\ Unlocked(c) /\ UNCHANGED mcLock
        /\ UNCHANGED <<mcMap, mcSession>>

ReadClients(c) ==
    LET s == mcTask[c].s
    IN  /\ At(c, "lookup") /\ CanRead(s, "clients")
        /\ Return(c, IF mcSession[s].cache \subseteq mcSession[s].clients THEN "tools"
                     ELSE "server not found")
        /\ DropAll(c, s) /\ Unlocked(c)
        /\ UNCHANGED <<mcMap, mcSession>>

(* call_tool: the clients stay locked during the call.                     *)
BeginCall(c) ==
    /\ At(c, "calling") /\ Read(c, mcTask[c].s, "clients")
    /\ Go(c, "called") /\ UNCHANGED <<mcMap, mcMutex, mcSession>>

EndCall(c) ==
    /\ At(c, "called") /\ DropAll(c, mcTask[c].s)
    /\ Return(c, IF mcSession[mcTask[c].s].clients = {} THEN "server not found" ELSE "tools")
    /\ UNCHANGED <<mcMap, mcMutex, mcSession>>

(* disconnect                                                              *)

HangUp(c) ==
    LET s == mcTask[c].s
    IN  /\ At(c, "hangup") /\ Write(c, s, "clients")
        /\ mcSession' = [mcSession EXCEPT ![s].clients = {}]
        /\ Go(c, "forget") /\ UNCHANGED <<mcMap, mcMutex>>

ForgetTools(c) ==
    LET s == mcTask[c].s
    IN  /\ At(c, "forget") /\ Write(c, s, "cache")
        /\ mcSession' = [mcSession EXCEPT ![s] = [@ EXCEPT !.cache = {}, !.cached = FALSE]]
        /\ Go(c, "reset") /\ UNCHANGED <<mcMap, mcMutex>>

ResetSession(c) ==
    LET s == mcTask[c].s
        rest == mcTask[c].rest
    IN  /\ At(c, "reset") /\ CanWrite(s, "init")
        /\ mcSession' = [mcSession EXCEPT ![s].init = FALSE]
        /\ DropAll(c, s)
        /\ IF rest # {}
           THEN /\ \E next \in rest :
                     mcTask' = [mcTask EXCEPT ![c] = [@ EXCEPT !.s = next, !.at = "hangup",
                                                               !.rest = rest \ {next}]]
                /\ UNCHANGED <<mcMap, mcMutex>>
           ELSE /\ Return(c, "closed") /\ mcMutex' = Nobody
                /\ mcMap' = IF mcTask[c].op = "shutdown" THEN << >> ELSE mcMap

McNext ==
    \E c \in McCaller :
        \/ \E p \in McAgent :
              \/ \E op \in {"tools", "call"} \cap McOps : Open(c, p, op)
              \/ "try" \in McOps /\ TryGet(c, p)
              \/ "close" \in McOps /\ Close(c, p)
        \/ "shutdown" \in McOps /\ ShutdownManager(c)
        \/ InitLock(c) \/ ConnectLock(c) \/ Connect(c) \/ CacheTools(c)
        \/ ReadCache(c) \/ ReadClients(c) \/ BeginCall(c) \/ EndCall(c)
        \/ HangUp(c) \/ ForgetTools(c) \/ ResetSession(c)

-----------------------------------------------------------------------------
Locked(s, l) == mcLock[s][l].writer # Nobody

(***************************************************************************)
(* Whoever may read the cached tools of a session finds a client for every *)
(* one of them, and a session that calls itself initialized has its tools  *)
(* cached: connecting, failing half way and closing in any interleaving    *)
(* never leave the three parts of a session in disagreement.               *)
(***************************************************************************)
SessionConsistent ==
    \A s \in DOMAIN mcSession :
        /\ ~Locked(s, "clients") /\ ~Locked(s, "cache") =>
              mcSession[s].cache \subseteq mcSession[s].clients
        /\ (\A l \in Locks : ~Locked(s, l)) => (mcSession[s].init <=> mcSession[s].cached)

(***************************************************************************)
(* list_tools() and get_cached_tools() never end in ServerNotFound, also   *)
(* for a caller that still holds a session somebody else has closed.       *)
(***************************************************************************)
ToolsHaveServers ==
    \A c \in McCaller : mcTask[c].op \in {"tools", "try"} => mcTask[c].got # "server not found"

(***************************************************************************)
(* The clients, the tool cache and the initialized flag of a session agree *)
(* for whoever may read them, also for the holder of a closed session.     *)
(***************************************************************************)
SessionsSound == SessionConsistent /\ ToolsHaveServers

\* The locks of the same session somebody waits for, and who has them.
WaitsFor(c) ==
    LET t == mcTask[c]
        lock == CASE t.at \in {"init", "reset"} -> "init"
                  [] t.at \in {"connect", "hangup", "lookup", "calling"} -> "clients"
                  [] t.at = "cache" \/ t.at = "forget" \/ (t.at = "connecting" /\ t.left = {}) ->
                       "cache"
                  [] OTHER -> "none"
    IN  IF lock = "none" THEN {}
        ELSE ({mcLock[t.s][lock].writer} \ {Nobody}) \union
             (IF t.at \in {"lookup", "calling", "cache"} THEN {} ELSE mcLock[t.s][lock].readers)

(***************************************************************************)
(* What the comment in try_get_tools_for_agent is after: no tasks wait for *)
(* each other's locks in a circle.                                         *)
(***************************************************************************)
NoWaitingCircle ==
    \A circle \in SUBSET McCaller :
        circle # {} => \E c \in circle : WaitsFor(c) \cap circle = {}
=============================================================================
