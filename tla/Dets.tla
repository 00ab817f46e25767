-------------------------------- MODULE Dets --------------------------------
(***************************************************************************)
(* A disk table (agent_rt/dets.rs): a snapshot file .dat, a log of what    *)
(* came after it, and a cache of both.  put() and delete_key() append to   *)
(* the log, change the cache and compact when enough has piled up; calls   *)
(* have exclusive access, but the process may be killed between any two    *)
(* steps, and a step may fail.  A kill keeps what reached the files.       *)
(* (A power cut is not modelled: the log is never synced.)                 *)
(***************************************************************************)
EXTENDS Naturals, FiniteSets, Sequences, TableAccess

CONSTANTS
    DKey, DValue,       \* keys and values
    DCaller,            \* processes; the first of DOwner owns the table
    DOwner,
    DAccess,            \* access types to consider
    MaxEntries,         \* max_entries
    CompactThreshold,   \* compact_threshold
    MaxDetsOps          \* bound: puts, deletes and restarts

ASSUME DetsAssumption ==
    /\ MaxEntries \in Nat /\ CompactThreshold \in Nat /\ MaxDetsOps \in Nat
    /\ DOwner \in DCaller /\ DAccess \subseteq AccessType

VARIABLES
    dTable,     \* access and owner
    dDat,       \* contents of the .dat file
    dTmp,       \* contents of .dat.tmp
    dLog,       \* operations in the .log file, oldest first
    dAt,        \* where the call in progress stands, "down" without a table
    dCall,      \* its operation
    dCache, dDirty,
    dWriter,    \* log_writer is Some
    dBuffer,    \* operations a failed flush left in the BufWriter
    dFailed,    \* history: since open() a flush failed, a call came after close(), or null was put
    dOps        \* for the bound

dFiles == <<dDat, dTmp, dLog>>
dVars == <<dTable, dFiles, dAt, dCall, dCache, dDirty, dWriter, dBuffer, dFailed, dOps>>

NoCall == << >>
Nothing == "nothing"
JsonNull == "null"

DetsInit ==
    /\ dTable \in [access : DAccess, owner : {DOwner}]
    /\ dDat = << >> /\ dTmp = << >> /\ dLog = << >>
    /\ dAt = "down" /\ dCall = NoCall
    /\ dCache = << >> /\ dDirty = 0 /\ dWriter = FALSE /\ dBuffer = << >>
    /\ dFailed = FALSE /\ dOps = 0

\* The effect of one line of the log, on the cache and in open()
Applied(table, o) ==
    IF o.put
    THEN [k \in DOMAIN table \union {o.key} |-> IF k = o.key THEN o.value ELSE table[k]]
    ELSE [k \in DOMAIN table \ {o.key} |-> table[k]]

\* open() skips the line of a put whose value is null: its Option is None.
Counts(o) == ~(o.put /\ o.value = JsonNull)

\* Line i is the last one of a log that counts for key k.
LastLine(log, k, i) ==
    /\ i \in DOMAIN log /\ log[i].key = k /\ Counts(log[i])
    /\ \A j \in DOMAIN log : log[j].key = k /\ Counts(log[j]) => j <= i
Untouched(log, k) == \A i \in DOMAIN log : log[i].key = k => ~Counts(log[i])

\* A log on top of a table: of each key, the last line counts.
ReplayLog(table, log) ==
    [k \in {x \in DOMAIN table : Untouched(log, x)}
              \union {log[i].key : i \in {j \in DOMAIN log : log[j].put /\ LastLine(log, log[j].key, j)}} |->
        IF Untouched(log, k) THEN table[k] ELSE log[CHOOSE i \in DOMAIN log : LastLine(log, k, i)].value]

\* What open() reads: the .dat file, then the .log on top of it.
Loaded == ReplayLog(dDat, dLog)

\* The same, line after line
LoadedInOrder ==
    LET upTo[n \in 0..Len(dLog)] ==
            IF n = 0 THEN dDat
            ELSE IF Counts(dLog[n]) THEN Applied(upTo[n - 1], dLog[n]) ELSE upTo[n - 1]
    IN  upTo[Len(dLog)]

DetsOpen ==
    /\ dAt = "down" /\ dOps < MaxDetsOps
    /\ dCache' = Loaded /\ dDirty' = 0 /\ dWriter' = TRUE
    /\ dAt' = "ready" /\ dFailed' = FALSE
    /\ UNCHANGED <<dTable, dFiles, dCall, dBuffer, dOps>>

\* get(), scan(), filter() and count() select from this.
DetsRead(caller) == IF MayRead(dTable, caller) THEN dCache ELSE << >>

\* put() and delete_key(), up to append_log.  Without write access they are
\* refused, and so is a new key in a full table.
Begin(o, caller) ==
    /\ dAt = "ready" /\ dOps < MaxDetsOps /\ MayWrite(dTable, caller)
    /\ dCall' = <<o>> /\ dAt' = "called" /\ dOps' = dOps + 1
    /\ UNCHANGED <<dTable, dFiles, dCache, dDirty, dWriter, dBuffer, dFailed>>

DetsPut(k, v, caller) ==
    /\ k \in DOMAIN dCache \/ Cardinality(DOMAIN dCache) < MaxEntries
    /\ Begin([key |-> k, put |-> TRUE, value |-> v], caller)

DetsDeleteKey(k, caller) == Begin([key |-> k, put |-> FALSE, value |-> Nothing], caller)

\* append_log: the line, and whatever an earlier failure left in the buffer.
\* After close() there is no writer and nothing is written.
AppendLog ==
    /\ dAt = "called"
    /\ IF dWriter
       THEN /\ dLog' = dLog \o dBuffer \o dCall /\ dBuffer' = << >>
            /\ dFailed' = (dFailed \/ ~Counts(dCall[1]))
       ELSE /\ dFailed' = TRUE /\ UNCHANGED <<dLog, dBuffer>>
    /\ dAt' = "logged"
    /\ UNCHANGED <<dTable, dDat, dTmp, dCall, dCache, dDirty, dWriter, dOps>>

\* The flush fails: Err, with the line still in the BufWriter.
AppendLogFails ==
    /\ dAt = "called" /\ dWriter
    /\ dBuffer' = dBuffer \o dCall
    /\ dAt' = "ready" /\ dCall' = NoCall /\ dFailed' = TRUE
    /\ UNCHANGED <<dTable, dFiles, dCache, dDirty, dWriter, dOps>>

UpdateCache ==
    /\ dAt = "logged"
    /\ dCache' = Applied(dCache, dCall[1]) /\ dDirty' = dDirty + 1
    /\ dAt' = IF dDirty + 1 >= CompactThreshold THEN "compact" ELSE "ready"
    /\ dCall' = NoCall
    /\ UNCHANGED <<dTable, dFiles, dWriter, dBuffer, dFailed, dOps>>

\* compact() called on its own
DetsCompact ==
    /\ dAt = "ready" /\ dOps < MaxDetsOps
    /\ dAt' = "compact" /\ dOps' = dOps + 1
    /\ UNCHANGED <<dTable, dFiles, dCall, dCache, dDirty, dWriter, dBuffer, dFailed>>

\* compact(): the snapshot goes to a new file, which replaces the old one,
\* and only then is the log cut.
WriteTmp ==
    /\ dAt = "compact"
    /\ dTmp' = dCache /\ dAt' = "written"
    /\ UNCHANGED <<dTable, dDat, dLog, dCall, dCache, dDirty, dWriter, dBuffer, dFailed, dOps>>

\* Faulty variant: the log is cut together with the rename's preparation.
RenameDatCut ==
    /\ dAt = "written"
    /\ dLog' = << >> /\ dAt' = "renamed"
    /\ UNCHANGED <<dTable, dDat, dTmp, dCall, dCache, dDirty, dWriter, dBuffer, dFailed, dOps>>

RenameDat ==
    /\ dAt = "written"
    /\ dDat' = dTmp /\ dAt' = "renamed"
    /\ UNCHANGED <<dTable, dTmp, dLog, dCall, dCache, dDirty, dWriter, dBuffer, dFailed, dOps>>

\* The new writer replaces the old one, which flushes its buffer as it goes.
\* What that leaves in the file, the new writer overwrites in part: the table
\* has failed already.
TruncateLog ==
    /\ dAt = "renamed"
    /\ dLog' = dBuffer /\ dBuffer' = << >>
    /\ dWriter' = TRUE /\ dDirty' = 0 /\ dAt' = "ready"
    /\ UNCHANGED <<dTable, dDat, dTmp, dCall, dCache, dFailed, dOps>>

\* Any step of compact() fails: Err, and the next call compacts again.
CompactFails ==
    /\ dAt \in {"compact", "written", "renamed"}
    /\ dAt' = "ready"
    /\ UNCHANGED <<dTable, dFiles, dCall, dCache, dDirty, dWriter, dBuffer, dFailed, dOps>>

DetsClose ==
    /\ dAt = "ready" /\ dWriter
    /\ \/ dLog' = dLog \o dBuffer /\ dBuffer' = << >> /\ dWriter' = FALSE /\ UNCHANGED dFailed
       \/ dFailed' = TRUE /\ UNCHANGED <<dLog, dBuffer, dWriter>>
    /\ UNCHANGED <<dTable, dDat, dTmp, dAt, dCall, dCache, dDirty, dOps>>

\* The process is killed, or the table is dropped between calls, which
\* flushes the BufWriter.
DetsDown(dropped) ==
    /\ dAt # "down" /\ dropped => dAt = "ready"
    /\ dAt' = "down" /\ dCall' = NoCall /\ dCache' = << >> /\ dDirty' = 0
    /\ dLog' = IF dropped THEN dLog \o dBuffer ELSE dLog
    /\ dWriter' = FALSE /\ dBuffer' = << >>
    /\ UNCHANGED <<dTable, dDat, dTmp, dFailed, dOps>>

DetsNext ==
    \/ DetsOpen
    \/ \E k \in DKey, caller \in DCaller :
          DetsDeleteKey(k, caller) \/ \E v \in DValue : DetsPut(k, v, caller)
    \/ AppendLog \/ AppendLogFails \/ UpdateCache
    \/ DetsCompact \/ WriteTmp \/ RenameDat \/ TruncateLog \/ CompactFails
    \/ DetsClose
    \/ \E dropped \in BOOLEAN : DetsDown(dropped)

-----------------------------------------------------------------------------
(***************************************************************************)
(* The table on disk, as DiskTable sees it: what open() would read now,    *)
(* with the operations accepted but not in the files yet.                  *)
(***************************************************************************)
Disk == INSTANCE DiskTable WITH
    contents <- Loaded,
    asked <- IF dAt = "called" THEN dCall ELSE << >>,
    healthy <- ~dFailed

(***************************************************************************)
(* The files implement the disk table: at every instant, in the middle of  *)
(* an append, of a compaction or of its failure, a kill and a restart find *)
(* the effect of each accepted operation once and in order, and compaction *)
(* changes nothing.                                                        *)
(***************************************************************************)
DetsImplementsDisk == Disk!DtSpec

(***************************************************************************)
(* Between calls, as long as no write has failed and no null was put, what *)
(* get(), scan(), filter() and count() answer from the cache is what a     *)
(* restart would read, line after line, and nothing to a stranger of a     *)
(* private table.                                                          *)
(***************************************************************************)
CacheIsDurable ==
    (dAt = "ready" /\ ~dFailed) =>
        \A caller \in DCaller :
            DetsRead(caller) = IF MayRead(dTable, caller) THEN LoadedInOrder ELSE << >>
=============================================================================
