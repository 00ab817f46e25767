--------------------------- MODULE DurableMailbox ---------------------------
(***************************************************************************)
(* The write-ahead log of one durable mailbox                              *)
(* (agent_rt/durable_mailbox.rs).  The log file is the set of its readable *)
(* entries with the facts about the file that decide how later lines are   *)
(* read; the .ack file is the sequence number in it.  append(), ack() and  *)
(* truncate() are cut where a crash tells the halves apart: between a      *)
(* write and its fsync, between a rename and the fsync of the directory.   *)
(*                                                                         *)
(* The plan of a behaviour says what may go wrong in it:                   *)
(*   "kill"    the process stops; what it wrote stays                      *)
(*   "power"   whole lines and renames not yet synced may be undone        *)
(*   "ioerror" a write or an fsync fails and the call returns Err          *)
(*   "torn"    a power cut leaves a part of an unsynced line               *)
(*   "header"  a power cut leaves a new log file without its header        *)
(*   "stale"   truncate() fails between the rename and the reopening       *)
(* By the time a mailbox is opened again, what the last crash left is on   *)
(* the disk for good.                                                      *)
(***************************************************************************)
EXTENDS Naturals, FiniteSets

CONSTANTS
    Msg,              \* messages
    MaxSeq,           \* bound: sequence numbers handed out
    FaultPlans        \* plans: the faults, and whether truncate() is also called
                      \* with everything acknowledged

ASSUME DurableMailboxAssumption ==
    /\ MaxSeq \in Nat
    /\ \A p \in FaultPlans :
          /\ p.faults \subseteq {"kill", "power", "ioerror", "torn", "header", "stale"}
          /\ p.drained \in BOOLEAN

Seqs == 1..MaxSeq
Entry == [seq : Seqs, msg : Msg]
Line(n, m) == [seq |-> n, msg |-> m]

VARIABLES
    plan,       \* fixed: a member of FaultPlans
    \* the files
    header,     \* "none" no file, "fresh" not synced, "ok", "blank" empty file
    wal,        \* entries a reader finds after the first line
    unsynced,   \* those of them a power cut may undo
    oldWals,    \* logs a power cut may bring back in place of wal
    torn,       \* the last line has no end
    bad,        \* some line cannot be parsed
    ackFile,    \* number in the .ack file, 0 when there is none
    oldAcks,    \* numbers a power cut may bring back
    \* DurableMailbox
    up, sequence, lastAcked,
    stale,      \* the writer holds the log that truncate() replaced
    buffer,     \* entries left in the BufWriter by a failed flush
    \* the call in progress
    op, adding,
    \* history: entries append() returned or a recovery replayed, not acked
    owed

fileVars == <<header, wal, unsynced, oldWals, torn, bad, ackFile, oldAcks>>
memVars  == <<up, sequence, lastAcked, stale, buffer>>
vars     == <<plan, fileVars, memVars, op, adding, owed>>

Faults == plan.faults
TruncateDrained == plan.drained

TypeOK ==
    /\ header \in {"none", "fresh", "ok", "blank"}
    /\ wal \subseteq Entry /\ unsynced \subseteq Entry
    /\ oldWals \subseteq SUBSET Entry
    /\ torn \in BOOLEAN /\ bad \in BOOLEAN
    /\ ackFile \in 0..MaxSeq /\ oldAcks \subseteq 0..MaxSeq
    /\ up \in BOOLEAN /\ sequence \in 0..MaxSeq /\ lastAcked \in 0..MaxSeq
    /\ stale \in BOOLEAN /\ buffer \subseteq Entry
    /\ op \in {"none", "append", "ack", "truncate"}
    /\ adding \subseteq Entry /\ owed \subseteq Entry

Init ==
    /\ plan \in FaultPlans
    /\ header = "none" /\ wal = {} /\ unsynced = {} /\ oldWals = {}
    /\ torn = FALSE /\ bad = FALSE
    /\ ackFile = 0 /\ oldAcks = {}
    /\ up = FALSE /\ sequence = 0 /\ lastAcked = 0
    /\ stale = FALSE /\ buffer = {}
    /\ op = "none" /\ adding = {} /\ owed = {}

Idle == up /\ op = "none"

Above(S, n) == {e \in S : e.seq > n}

\* What replay() returns when the last acknowledged number is n: one
\* unreadable line makes it fail altogether.
ReplayAfter(n) == IF torn \/ bad THEN {} ELSE Above(wal, n)
Replay == ReplayAfter(lastAcked)

-----------------------------------------------------------------------------
\* n is the highest sequence number open() reads from the log.
IsMaxSeq(n) ==
    /\ \A e \in wal : e.seq <= n
    /\ n = 0 \/ \E e \in wal : e.seq = n

(***************************************************************************)
(* open(): the sequence continues after the highest entry, whatever the    *)
(* .ack file says.  A log file that exists is never given a header.        *)
(***************************************************************************)
Open(n) ==
    /\ ~up /\ IsMaxSeq(n)
    /\ up' = TRUE /\ sequence' = n /\ lastAcked' = ackFile
    /\ header' = IF header = "none" THEN "fresh" ELSE header
    /\ owed' = owed \union ReplayAfter(ackFile)
    /\ UNCHANGED <<wal, unsynced, oldWals, torn, bad, ackFile, oldAcks, stale,
                   buffer, op, adding>>

(***************************************************************************)
(* Lines reach the log: behind a torn line the first of them is            *)
(* unreadable, in an empty file it is taken for the header, and through a  *)
(* stale writer they reach a file nobody will read.                        *)
(***************************************************************************)
Written(new) ==
    /\ IF stale \/ torn \/ header = "blank"
       THEN UNCHANGED <<wal, unsynced>>
       ELSE wal' = wal \union new /\ unsynced' = unsynced \union new
    /\ bad' = (bad \/ (torn /\ ~stale))
    /\ torn' = (torn /\ stale)
    /\ header' = IF header = "blank" /\ ~stale THEN "ok" ELSE header

AppendWrite(m) ==
    /\ Idle /\ sequence < MaxSeq
    /\ sequence' = sequence + 1
    /\ adding' = {Line(sequence + 1, m)}
    /\ Written(buffer \union adding')
    /\ buffer' = {} /\ op' = "append"
    /\ UNCHANGED <<oldWals, ackFile, oldAcks, up, lastAcked, stale, owed>>

\* Faulty variant: append() returns without the fsync.
AppendNoSync ==
    /\ op = "append"
    /\ owed' = owed \union adding
    /\ op' = "none" /\ adding' = {}
    /\ UNCHANGED <<fileVars, memVars>>

\* sync_all() on the log's descriptor, and append() returns Ok.
AppendSync ==
    /\ op = "append"
    /\ unsynced' = {}
    /\ header' = IF header = "fresh" THEN "ok" ELSE header
    /\ owed' = owed \union adding
    /\ op' = "none" /\ adding' = {}
    /\ UNCHANGED <<wal, oldWals, torn, bad, ackFile, oldAcks, memVars>>

\* The flush fails: the number is used up and the line stays buffered.
AppendFlushFails(m) ==
    /\ "ioerror" \in Faults /\ Idle /\ sequence < MaxSeq
    /\ sequence' = sequence + 1
    /\ buffer' = buffer \union {Line(sequence + 1, m)}
    /\ UNCHANGED <<fileVars, up, lastAcked, stale, op, adding, owed>>

AppendSyncFails ==
    /\ "ioerror" \in Faults /\ op = "append"
    /\ op' = "none" /\ adding' = {}
    /\ UNCHANGED <<fileVars, memVars, owed>>

-----------------------------------------------------------------------------
(***************************************************************************)
(* ack() of a message the consumer was given; lower or repeated numbers    *)
(* are rejected.  The .ack.tmp file is synced before the rename.           *)
(***************************************************************************)
AckRename(e) ==
    /\ Idle /\ e \in owed
    /\ e.seq > lastAcked /\ e.seq <= sequence
    /\ ackFile' = e.seq
    /\ oldAcks' = oldAcks \union {ackFile}
    /\ owed' = Above(owed, e.seq)
    /\ op' = "ack"
    /\ UNCHANGED <<header, wal, unsynced, oldWals, torn, bad, memVars, adding>>

\* fsync_dir() makes every rename before it permanent.
AckSync ==
    /\ op = "ack"
    /\ oldAcks' = {} /\ oldWals' = {}
    /\ lastAcked' = ackFile
    /\ op' = "none"
    /\ UNCHANGED <<header, wal, unsynced, torn, bad, ackFile, up, sequence,
                   stale, buffer, adding, owed>>

\* Err after the rename: last_acked_seq keeps its old value.
AckSyncFails ==
    /\ "ioerror" \in Faults /\ op = "ack"
    /\ op' = "none"
    /\ UNCHANGED <<fileVars, memVars, adding, owed>>

-----------------------------------------------------------------------------
\* What a power cut may leave of the log's entries.
PowerWals == oldWals \union {wal \ lost : lost \in SUBSET unsynced}

\* Faulty variant: the first entry above the acknowledged ones goes too.
KeptOneLess == Above(wal, lastAcked + 1)

\* What truncate() copies into the new log.
Kept == Above(wal, lastAcked)

(***************************************************************************)
(* truncate(): the entries replay_all() can read and that are not          *)
(* acknowledged go to a new log, synced and renamed over the old one.      *)
(* (A failure before the rename changes nothing.)                          *)
(***************************************************************************)
TruncateRename ==
    /\ Idle
    /\ TruncateDrained \/ Kept # {}
    /\ wal' = Kept
    /\ unsynced' = {} /\ oldWals' = PowerWals
    /\ torn' = FALSE /\ bad' = FALSE /\ header' = "ok"
    /\ stale' = TRUE
    /\ op' = "truncate"
    /\ UNCHANGED <<ackFile, oldAcks, up, sequence, lastAcked, buffer, adding, owed>>

\* fsync_dir() and a new writer; the old one is dropped with its buffer.
TruncateReopen ==
    /\ op = "truncate"
    /\ oldAcks' = {} /\ oldWals' = {}
    /\ stale' = FALSE /\ buffer' = {}
    /\ op' = "none"
    /\ UNCHANGED <<header, wal, unsynced, torn, bad, ackFile, up, sequence,
                   lastAcked, adding, owed>>

TruncateReopenFails ==
    /\ "stale" \in Faults /\ op = "truncate"
    /\ op' = "none"
    /\ UNCHANGED <<fileVars, memVars, adding, owed>>

-----------------------------------------------------------------------------
Down ==
    /\ up /\ up' = FALSE
    /\ sequence' = 0 /\ lastAcked' = 0 /\ stale' = FALSE /\ buffer' = {}
    /\ op' = "none" /\ adding' = {}
    /\ unsynced' = {} /\ oldWals' = {} /\ oldAcks' = {}
    /\ UNCHANGED owed

\* The process is killed, or drops the mailbox, which flushes the buffer.
Kill(flushed) ==
    /\ "kill" \in Faults /\ Down
    /\ flushed => op = "none" /\ buffer # {} /\ ~stale /\ header \in {"ok", "fresh"} /\ ~torn
    /\ wal' = IF flushed THEN wal \union buffer ELSE wal
    /\ header' = IF header = "fresh" THEN "ok" ELSE header
    /\ UNCHANGED <<torn, bad, ackFile>>

PowerCut(left, num) ==
    /\ "power" \in Faults /\ Down
    /\ left \in PowerWals /\ num \in oldAcks \union {ackFile}
    /\ wal' = left /\ ackFile' = num
    /\ \/ header' = IF header = "fresh" THEN "ok" ELSE header
       \/ header = "fresh" /\ left = {} /\ header' = "none"
    /\ UNCHANGED <<torn, bad>>

PowerCutTorn ==
    /\ "torn" \in Faults /\ Down /\ op = "append" /\ unsynced # {}
    /\ wal' = wal \ unsynced /\ torn' = TRUE
    /\ header' = IF header = "fresh" THEN "ok" ELSE header
    /\ UNCHANGED <<bad, ackFile>>

PowerCutHeader ==
    /\ "header" \in Faults /\ Down /\ header = "fresh"
    /\ wal' = wal \ unsynced /\ header' = "blank"
    /\ UNCHANGED <<torn, bad, ackFile>>

Crash ==
    \/ \E f \in BOOLEAN : Kill(f)
    \/ \E left \in PowerWals, num \in oldAcks \union {ackFile} : PowerCut(left, num)
    \/ PowerCutTorn \/ PowerCutHeader

Step ==
    \/ \E n \in 0..MaxSeq : Open(n)
    \/ \E m \in Msg : AppendWrite(m) \/ AppendFlushFails(m)
    \/ AppendSync \/ AppendSyncFails
    \/ \E e \in owed : AckRename(e)
    \/ AckSync \/ AckSyncFails
    \/ TruncateRename \/ TruncateReopen \/ TruncateReopenFails
    \/ Crash

Next == Step /\ UNCHANGED plan

Spec == Init /\ [][Next]_vars

-----------------------------------------------------------------------------
(***************************************************************************)
(* At-least-once delivery: between calls, replay() returns every message   *)
(* that append() accepted or an earlier recovery handed out and that has   *)
(* not been acknowledged since, whatever crashes and failed calls came     *)
(* between.                                                                *)
(***************************************************************************)
DeliveredAtLeastOnce == Idle => owed \subseteq Replay

\* The faults under which the log keeps its promise.
Benign == Faults \subseteq {"kill", "power", "ioerror"} /\ ~TruncateDrained

(***************************************************************************)
(* DeliveredAtLeastOnce as far as the code keeps it: as long as no line is *)
(* torn, no header is lost, truncate() does not fail after its rename and  *)
(* the log is not truncated to nothing.                                    *)
(***************************************************************************)
NothingLost == Benign => DeliveredAtLeastOnce

(***************************************************************************)
(* What makes NothingLost inductive, as long as the log is never torn,     *)
(* never left without a header and never drained: every log a crash may    *)
(* leave (PowerWals) holds all that is owed and an entry as high as any    *)
(* number the .ack file may hold, so that open() resumes above it.         *)
(***************************************************************************)
Acks == oldAcks \union {ackFile, lastAcked}

WalServes(w) ==
    /\ owed \subseteq w
    /\ \A a \in Acks : a = 0 \/ \E e \in w : e.seq >= a

Readable == ~torn /\ ~bad /\ header # "blank"

DurableInv ==
    /\ TypeOK /\ Readable
    /\ stale => op = "truncate"
    /\ header = "none" => ~up
    /\ oldWals # {} => op = "truncate"
    /\ buffer \intersect wal = {}
    /\ \A e \in owed, a \in Acks : e.seq > a
    /\ WalServes(wal \ unsynced) /\ \A w \in oldWals : WalServes(w)
    /\ up => \A e \in wal \union buffer : e.seq <= sequence
    /\ ~up => unsynced = {} /\ oldWals = {} /\ oldAcks = {} /\ buffer = {} /\ op = "none"
    /\ op = "append" => up /\ adding \subseteq wal
                         /\ \A e \in adding, a \in Acks : e.seq > a
    /\ op # "append" => adding = {}

(***************************************************************************)
(* ack() accepts every number append() gives out from now on: the sequence *)
(* never falls behind what has been acknowledged, restarts included, under *)
(* the same faults.                                                        *)
(***************************************************************************)
SequenceAhead == (Benign /\ up) => lastAcked <= sequence

(***************************************************************************)
(* A permanent entry, one that no power cut can undo, leaves the log only  *)
(* once it is acknowledged, whatever the fault: truncate(), a crash in its *)
(* middle and the recovery after it never drop it.                         *)
(***************************************************************************)
Permanent == {e \in wal \ unsynced : \A w \in oldWals : e \in w}

PermanentStays ==
    [][\A e \in Permanent :
         e.seq > lastAcked /\ e.seq > ackFile => e \in wal']_vars

=============================================================================
