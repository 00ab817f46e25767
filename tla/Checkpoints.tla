----------------------------- MODULE Checkpoints -----------------------------
(***************************************************************************)
(* The checkpoint stores (checkpoint.rs, checkpoint_sqlite.rs) and the     *)
(* pruner (pruner.rs).  Threads save, load and delete while the pruner     *)
(* looks for old entries.  In memory and in SQLite a call is one step      *)
(* under a mutex; in the file store it is several steps of the file        *)
(* system, which tell an open file from the name it was opened under.      *)
(***************************************************************************)
EXTENDS Naturals, FiniteSets, Collections

CONSTANTS
    CKey, CPath,      \* keys, and the file name each is turned into
    FileName,         \* checkpoint_path: CKey -> CPath
    CThread,          \* threads that use the store
    CStores,          \* kinds of store: "memory", "file", "sqlite"
    Ttl,              \* ttl_secs
    MaxTime, MaxSaves \* bounds: the clock, the saves

ASSUME CheckpointsAssumption ==
    /\ FileName \in [CKey -> CPath]
    /\ CStores \subseteq {"memory", "file", "sqlite"}
    /\ Ttl \in Nat /\ MaxTime \in Nat /\ MaxSaves \in Nat

VARIABLES
    cKind,      \* the store in use
    cEntry,     \* entries by name: value and time of the last change
    cTmp,       \* .json.tmp files, by name, in the same way
    cThread,    \* of each thread, its place in save()
    cPruner,    \* of the pruner, its place in prune_before()
    cNow,       \* the clock
    cSaves,     \* saves begun; the number is the value saved
    cLast,      \* history: of each name, the value of the last call that ended
    cClash      \* history: names two threads saved to at the same time

cVars == <<cKind, cEntry, cTmp, cThread, cPruner, cNow, cSaves, cLast, cClash>>

Absent == 0        \* no value; values are 1, 2, ...
Partial == MaxSaves + 1   \* a file cut to nothing, not written yet
AtRest == [at |-> "rest", name |-> "", val |-> Absent, fd |-> "none"]
Sleeping == [at |-> "rest", todo |-> {}, name |-> "", cutoff |-> 0]

\* Keys that differ only in other characters than letters, digits, - and _
\* share a file.
NameOf(k) == IF cKind = "file" THEN FileName[k] ELSE k
CName == CKey \union CPath

Dated(v) == [val |-> v, time |-> cNow]

CkptInit ==
    /\ cKind \in CStores
    /\ cEntry = << >> /\ cTmp = << >>
    /\ cThread = [t \in CThread |-> AtRest] /\ cPruner = Sleeping
    /\ cNow = 0 /\ cSaves = 0
    /\ cLast = [n \in CName |-> Absent] /\ cClash = {}

\* save() in memory: insert; in SQLite: INSERT OR REPLACE with updated_at now.
SaveAtOnce(k) ==
    /\ cKind # "file" /\ cSaves < MaxSaves
    /\ cSaves' = cSaves + 1
    /\ cEntry' = With(cEntry, k, Dated(cSaves + 1))
    /\ cLast' = [cLast EXCEPT ![k] = cSaves + 1]
    /\ UNCHANGED <<cKind, cTmp, cThread, cPruner, cNow, cClash>>

Savers(n) == {t \in CThread : cThread[t].at # "rest" /\ cThread[t].name = n}

\* fs::write creates the temporary file or cuts the one there is.
CreateTmp(t, k) ==
    LET n == NameOf(k)
    IN  /\ cKind = "file" /\ cThread[t].at = "rest" /\ cSaves < MaxSaves
        /\ cSaves' = cSaves + 1
        /\ cTmp' = With(cTmp, n, Dated(Partial))
        /\ cThread' = [cThread EXCEPT ![t] = [at |-> "write", name |-> n, val |-> cSaves + 1,
                                              fd |-> "tmp"]]
        /\ cClash' = IF Savers(n) = {} THEN cClash ELSE cClash \union {n}
        /\ UNCHANGED <<cKind, cEntry, cPruner, cNow, cLast>>

\* Faulty variant: the value goes to the file itself.
FillInPlace(t) ==
    LET me == cThread[t]
    IN  /\ me.at = "write"
        /\ cEntry' = With(cEntry, me.name, Dated(IF me.fd = "tmp" THEN Partial ELSE me.val))
        /\ cThread' = IF me.fd = "tmp" THEN [cThread EXCEPT ![t].fd = "entry"]
                      ELSE [cThread EXCEPT ![t].at = "rename"]
        /\ UNCHANGED <<cKind, cTmp, cPruner, cNow, cSaves, cLast, cClash>>

\* The bytes go to the open file, which another thread may have renamed.
FillTmp(t) ==
    LET me == cThread[t]
    IN  /\ me.at = "write"
        /\ IF me.fd = "tmp"
           THEN cTmp' = With(cTmp, me.name, Dated(me.val)) /\ UNCHANGED cEntry
           ELSE /\ cEntry' = IF me.name \in DOMAIN cEntry
                             THEN With(cEntry, me.name, Dated(me.val)) ELSE cEntry
                /\ UNCHANGED cTmp
        /\ cThread' = [cThread EXCEPT ![t].at = "rename"]
        /\ UNCHANGED <<cKind, cPruner, cNow, cSaves, cLast, cClash>>

\* Rename, which carries along the files other threads have open; it fails
\* when another thread has renamed already.
RenameTmp(t) ==
    LET n == cThread[t].name
        moved == [u \in CThread |-> IF cThread[u].name = n /\ cThread[u].fd = "tmp"
                                    THEN [cThread[u] EXCEPT !.fd = "entry"] ELSE cThread[u]]
    IN  /\ cThread[t].at = "rename"
        /\ IF n \in DOMAIN cTmp
           THEN /\ cEntry' = With(cEntry, n, cTmp[n])
                /\ cTmp' = Without(cTmp, n)
                /\ cLast' = [cLast EXCEPT ![n] = cThread[t].val]
                /\ cThread' = [moved EXCEPT ![t] = AtRest]
           ELSE /\ cThread' = [cThread EXCEPT ![t] = AtRest]
                /\ UNCHANGED <<cEntry, cTmp, cLast>>
        /\ UNCHANGED <<cKind, cPruner, cNow, cSaves, cClash>>

\* delete(); a file is unlinked whether or not somebody is saving it.
CkptDelete(k) ==
    /\ NameOf(k) \in DOMAIN cEntry
    /\ cEntry' = Without(cEntry, NameOf(k))
    /\ cLast' = [cLast EXCEPT ![NameOf(k)] = Absent]
    /\ UNCHANGED <<cKind, cTmp, cThread, cPruner, cNow, cSaves, cClash>>

\* load(): nothing, a value, or an error for a file that cannot be parsed.
Load(k) == IF NameOf(k) \in DOMAIN cEntry THEN cEntry[NameOf(k)].val ELSE Absent

-----------------------------------------------------------------------------
\* The pruner wakes up.  prune_before() is not implemented in memory, is one
\* statement in SQLite and lists the directory of the file store.
Stale(cutoff) == {n \in DOMAIN cEntry : cEntry[n].time < cutoff}

WakePruner ==
    LET cutoff == IF cNow > Ttl THEN cNow - Ttl ELSE 0
    IN  /\ cPruner.at = "rest"
        /\ CASE cKind = "sqlite" ->
                  /\ Stale(cutoff) # {}
                  /\ cEntry' = [n \in DOMAIN cEntry \ Stale(cutoff) |-> cEntry[n]]
                  /\ cLast' = [n \in CName |-> IF n \in Stale(cutoff) THEN Absent ELSE cLast[n]]
                  /\ UNCHANGED cPruner
             [] cKind = "file" ->
                  /\ cPruner' = [at |-> "look", todo |-> DOMAIN cEntry, name |-> "",
                                 cutoff |-> cutoff]
                  /\ UNCHANGED <<cEntry, cLast>>
             [] OTHER -> UNCHANGED <<cEntry, cLast, cPruner>>
        /\ UNCHANGED <<cKind, cTmp, cThread, cNow, cSaves, cClash>>

\* metadata() of the next file; one that is gone is skipped.
LookAt(n) ==
    /\ cPruner.at = "look" /\ n \in cPruner.todo
    /\ cPruner' = IF n \in Stale(cPruner.cutoff)
                  THEN [cPruner EXCEPT !.at = "remove", !.name = n, !.todo = @ \ {n}]
                  ELSE IF cPruner.todo = {n} THEN Sleeping
                  ELSE [cPruner EXCEPT !.todo = @ \ {n}]
    /\ UNCHANGED <<cKind, cEntry, cTmp, cThread, cNow, cSaves, cLast, cClash>>

\* remove_file() of what has that name now; an error ends the round.
RemoveStale ==
    LET n == cPruner.name
    IN  /\ cPruner.at = "remove"
        /\ cEntry' = Without(cEntry, n)
        /\ cLast' = [cLast EXCEPT ![n] = Absent]
        /\ cPruner' = IF n \in DOMAIN cEntry /\ cPruner.todo # {}
                      THEN [cPruner EXCEPT !.at = "look"] ELSE Sleeping
        /\ UNCHANGED <<cKind, cTmp, cThread, cNow, cSaves, cClash>>

CkptTick ==
    /\ cNow < MaxTime /\ cNow' = cNow + 1
    /\ UNCHANGED <<cKind, cEntry, cTmp, cThread, cPruner, cSaves, cLast, cClash>>

\* The process is killed: files and database stay.
CkptKill ==
    /\ cKind # "memory"
    /\ cThread' = [t \in CThread |-> AtRest] /\ cPruner' = Sleeping
    /\ UNCHANGED <<cKind, cEntry, cTmp, cNow, cSaves, cLast, cClash>>

CkptNext ==
    \/ \E k \in CKey : SaveAtOnce(k) \/ CkptDelete(k) \/ \E t \in CThread : CreateTmp(t, k)
    \/ \E t \in CThread : FillTmp(t) \/ RenameTmp(t)
    \/ WakePruner \/ (\E n \in cPruner.todo : LookAt(n)) \/ RemoveStale
    \/ CkptTick \/ CkptKill

-----------------------------------------------------------------------------
(***************************************************************************)
(* load() returns what the last completed save(), delete() or prune of the *)
(* key's file left, never a part of a file, whoever is in the middle of    *)
(* saving, pruning or was killed there; except that two threads that save  *)
(* to one file at the same time share its temporary file.                  *)
(***************************************************************************)
LoadsLastSave == \A k \in CKey : NameOf(k) \notin cClash => Load(k) = cLast[NameOf(k)]

(***************************************************************************)
(* prune_before() deletes only checkpoints with an updated_at before the   *)
(* given time, as CheckpointStore says it does.                            *)
(***************************************************************************)
PrunesStaleOnly ==
    [][cPruner.at = "remove" /\ cPruner'.at # "remove" =>
         \A n \in DOMAIN cEntry \ DOMAIN cEntry' : cEntry[n].time < cPruner.cutoff]_cVars
=============================================================================
