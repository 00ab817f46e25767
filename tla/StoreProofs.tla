----------------------------- MODULE StoreProofs -----------------------------
(***************************************************************************)
(* The stores whose steps a crash may cut.                                 *)
(* At-least-once delivery of the durable mailbox, for any messages and any *)
(* number of them, under kills, power cuts and failing calls, as long as   *)
(* no line is torn, no header is lost, truncate() does not fail after its  *)
(* rename and the log is not truncated to nothing.                         *)
(* The files of a DETS table: they implement the table of DiskTable, and   *)
(* its cache is what they hold, for every set of keys and values, every    *)
(* length of the log and every threshold.                                  *)
(***************************************************************************)
EXTENDS DurableMailbox, Dets, DataProofs, SequenceTheorems, TLAPS

-----------------------------------------------------------------------------
(* The durable mailbox.                                                    *)

\* A log that contains one that serves serves too.
LEMMA WiderServes ==
    ASSUME NEW v, NEW w, WalServes(v), v \subseteq w
    PROVE  WalServes(w)
  BY DEF WalServes

\* Every log a power cut may leave serves (durable_mailbox.rs truncate).
LEMMA PowerServes ==
    ASSUME DurableInv, NEW w \in PowerWals
    PROVE  WalServes(w) /\ w \subseteq Entry
<1>1. CASE w \in oldWals
  BY <1>1 DEF DurableInv, TypeOK
<1>2. CASE w \in {wal \ lost : lost \in SUBSET unsynced}
  <2>1. PICK lost \in SUBSET unsynced : w = wal \ lost
    BY <1>2
  <2>2. wal \ unsynced \subseteq w
    BY <2>1
  <2> QED BY <2>1, <2>2, WiderServes DEF DurableInv, TypeOK
<1> QED BY <1>1, <1>2 DEF PowerWals

\* No number in use exceeds the sequence (durable_mailbox.rs ack).
LEMMA AcksBelow ==
    ASSUME DurableInv, up, NEW a \in Acks
    PROVE  a <= sequence /\ a \in 0..MaxSeq
<1>1. a \in 0..MaxSeq
  BY DEF DurableInv, TypeOK, Acks
<1>2. CASE a = 0
  BY <1>1, <1>2 DEF DurableInv, TypeOK
<1>3. CASE a # 0
  <2>1. PICK e \in wal \ unsynced : e.seq >= a
    BY <1>3 DEF DurableInv, WalServes
  <2>2. e.seq <= sequence /\ e \in Entry
    BY <2>1 DEF DurableInv, TypeOK
  <2> QED BY <1>1, <2>1, <2>2, DurableMailboxAssumption DEF DurableInv, TypeOK, Entry, Seqs
<1> QED BY <1>2, <1>3

-----------------------------------------------------------------------------
\* No file and no mailbox yet.
LEMMA InvInit == Init => DurableInv
<1> SUFFICES ASSUME Init PROVE DurableInv
  OBVIOUS
<1>1. TypeOK
  <2>1. ackFile \in 0..MaxSeq /\ sequence \in 0..MaxSeq /\ lastAcked \in 0..MaxSeq
    BY DurableMailboxAssumption DEF Init
  <2> QED BY <2>1 DEF Init, TypeOK
<1>2. Acks = {0}
  BY DEF Init, Acks
<1>3. WalServes(wal \ unsynced) /\ \A w \in oldWals : WalServes(w)
  BY <1>2 DEF Init, WalServes
<1> QED BY <1>1, <1>2, <1>3 DEF Init, DurableInv, Readable

\* open(): the number read from the .ack file is covered by a log entry.
LEMMA InvOpen ==
    ASSUME DurableInv, NEW n \in 0..MaxSeq, Open(n)
    PROVE  DurableInv'
<1> USE DurableMailboxAssumption
<1>1. TypeOK'
  BY DEF Open, DurableInv, TypeOK, ReplayAfter, Above, Readable
<1>2. Acks' \subseteq Acks /\ ReplayAfter(ackFile) = Above(wal, ackFile)
  BY DEF Open, DurableInv, Acks, ReplayAfter, Readable
<1>3. wal' = wal /\ unsynced' = {} /\ unsynced = {} /\ oldWals' = {} /\ Acks' = {ackFile}
      /\ owed' = owed \union Above(wal, ackFile)
  BY <1>2 DEF Open, DurableInv, Acks
<1>4. \A e \in owed', a \in Acks' : e.seq > a
  BY <1>2, <1>3 DEF Above, DurableInv
<1>5. WalServes(wal \ unsynced)'
  BY <1>2, <1>3 DEF Above, DurableInv, WalServes
<1>6. \A e \in wal' \union buffer' : e.seq <= sequence'
  BY <1>3 DEF Open, IsMaxSeq, DurableInv
<1>7. QED
  BY <1>1, <1>3, <1>4, <1>5, <1>6 DEF Open, DurableInv, Readable

\* append() up to the flush: the new entry is above every acknowledgement.
LEMMA InvAppendWrite ==
    ASSUME DurableInv, NEW m \in Msg, AppendWrite(m)
    PROVE  DurableInv'
<1> USE DurableMailboxAssumption
<1> DEFINE e == Line(sequence + 1, m)
<1>1. sequence \in Nat /\ sequence + 1 \in Seqs /\ e \in Entry /\ e.seq = sequence + 1
  BY DEF AppendWrite, DurableInv, TypeOK, Entry, Seqs, Line
<1>2. ~stale /\ ~torn /\ header # "blank" /\ op = "none" /\ up
  BY DEF AppendWrite, Idle, DurableInv, Readable
<1>3. /\ adding' = {e} /\ wal' = wal \union buffer \union {e}
      /\ unsynced' = unsynced \union buffer \union {e}
      /\ torn' = FALSE /\ bad' = FALSE /\ header' = header
  BY <1>2 DEF AppendWrite, Written, DurableInv, Readable
<1>4. Acks' = Acks /\ owed' = owed /\ oldWals' = oldWals
  BY DEF AppendWrite, Acks
<1>5. TypeOK'
  <2>1. wal' \subseteq Entry /\ unsynced' \subseteq Entry /\ adding' \subseteq Entry
    BY <1>1, <1>3 DEF DurableInv, TypeOK
  <2>2. sequence' \in 0..MaxSeq
    BY <1>1 DEF AppendWrite, Seqs
  <2> QED BY <1>3, <1>4, <2>1, <2>2 DEF AppendWrite, DurableInv, TypeOK
<1>6. \A a \in Acks : e.seq > a
  BY <1>1, <1>2, AcksBelow, SMT DEF DurableInv, TypeOK
<1>7. \A x \in wal' \union buffer' : x.seq <= sequence'
  <2> SUFFICES ASSUME NEW x \in wal \union buffer \union {e} PROVE x.seq <= sequence + 1
    BY <1>3 DEF AppendWrite
  <2>1. x \in Entry
    BY <1>1 DEF DurableInv, TypeOK
  <2>2. CASE x = e
    BY <1>1, <2>2
  <2>3. CASE x \in wal \union buffer
    BY <1>1, <1>2, <2>1, <2>3 DEF DurableInv, Entry, Seqs
  <2> QED BY <2>2, <2>3
<1>8. e \notin wal
  BY <1>1, <1>2 DEF DurableInv
<1>9. wal' \ unsynced' = wal \ unsynced
  BY <1>3, <1>8 DEF DurableInv
<1>10. WalServes(wal \ unsynced)' /\ \A w \in oldWals' : WalServes(w)'
  BY <1>4, <1>9 DEF DurableInv, WalServes
<1> QED
  BY <1>2, <1>3, <1>4, <1>5, <1>6, <1>7, <1>10
  DEF AppendWrite, DurableInv, Readable

\* append() returns: its entry is on the disk before it is owed.
LEMMA InvAppendSync ==
    ASSUME DurableInv, AppendSync
    PROVE  DurableInv'
<1>1. up /\ adding \subseteq wal /\ \A e \in adding, a \in Acks : e.seq > a
  BY DEF AppendSync, DurableInv
<1>2. /\ wal' = wal /\ unsynced' = {} /\ owed' = owed \union adding
      /\ oldWals' = oldWals /\ Acks' = Acks
  BY DEF AppendSync, Acks, memVars
<1>3. TypeOK'
  BY <1>2 DEF AppendSync, DurableInv, TypeOK, memVars
<1>4. \A e \in owed', a \in Acks' : e.seq > a
  BY <1>1, <1>2 DEF DurableInv
<1>5. WalServes(wal \ unsynced)'
  <2>1. owed' \subseteq wal' \ unsynced'
    BY <1>1, <1>2 DEF DurableInv, WalServes
  <2>2. \A a \in Acks : a = 0 \/ \E e \in wal : e.seq >= a
    BY DEF DurableInv, WalServes
  <2> QED BY <1>2, <2>1, <2>2 DEF WalServes
<1>6. oldWals' = {}
  BY <1>2 DEF AppendSync, DurableInv
<1> QED
  BY <1>1, <1>2, <1>3, <1>4, <1>5, <1>6
  DEF AppendSync, DurableInv, Readable, memVars

\* append() fails in the flush and leaves its line buffered.
LEMMA InvAppendFlushFails ==
    ASSUME DurableInv, NEW m \in Msg, AppendFlushFails(m)
    PROVE  DurableInv'
<1> USE DurableMailboxAssumption
<1> DEFINE e == Line(sequence + 1, m)
<1>1. sequence \in Nat /\ sequence + 1 \in Seqs /\ e \in Entry /\ e.seq = sequence + 1
  BY DEF AppendFlushFails, DurableInv, TypeOK, Entry, Seqs, Line
<1>2. op = "none" /\ up /\ Acks' = Acks /\ wal' = wal /\ buffer' = buffer \union {e}
  BY DEF AppendFlushFails, Idle, Acks, fileVars
<1>3. TypeOK'
  <2>1. sequence' \in 0..MaxSeq
    BY <1>1 DEF AppendFlushFails, Seqs
  <2>2. buffer' \subseteq Entry
    BY <1>1, <1>2 DEF DurableInv, TypeOK
  <2> QED BY <2>1, <2>2 DEF AppendFlushFails, DurableInv, TypeOK, fileVars
<1>4. \A x \in wal' \union buffer' : x.seq <= sequence'
  <2> SUFFICES ASSUME NEW x \in wal \union buffer \union {e} PROVE x.seq <= sequence + 1
    BY <1>2 DEF AppendFlushFails
  <2>1. x \in Entry
    BY <1>1 DEF DurableInv, TypeOK
  <2>2. CASE x = e
    BY <1>1, <2>2
  <2>3. CASE x \in wal \union buffer
    BY <1>1, <1>2, <2>1, <2>3 DEF DurableInv, Entry, Seqs
  <2> QED BY <2>2, <2>3
<1>5. e \notin wal
  BY <1>1, <1>2 DEF DurableInv
<1>6. buffer' \intersect wal' = {}
  BY <1>2, <1>5 DEF DurableInv
<1>7. WalServes(wal \ unsynced)' /\ \A w \in oldWals' : WalServes(w)'
  BY <1>2 DEF AppendFlushFails, DurableInv, WalServes, fileVars
<1> QED
  BY <1>2, <1>3, <1>4, <1>6, <1>7
  DEF AppendFlushFails, DurableInv, Readable, fileVars

\* append() fails in the fsync: nothing is owed.
LEMMA InvAppendSyncFails ==
    ASSUME DurableInv, AppendSyncFails
    PROVE  DurableInv'
<1>1. Acks' = Acks
  BY DEF AppendSyncFails, Acks, fileVars, memVars
<1>2. TypeOK'
  BY DEF AppendSyncFails, DurableInv, TypeOK, fileVars, memVars
<1>3. WalServes(wal \ unsynced)' /\ \A w \in oldWals' : WalServes(w)'
  BY <1>1 DEF AppendSyncFails, DurableInv, WalServes, fileVars
<1> QED
  BY <1>1, <1>2, <1>3
  DEF AppendSyncFails, DurableInv, Readable, fileVars, memVars

\* ack() renames the new .ack file into place.
LEMMA InvAckRename ==
    ASSUME DurableInv, NEW e \in owed, AckRename(e)
    PROVE  DurableInv'
<1>1. e \in Entry /\ e.seq \in 0..MaxSeq /\ up /\ op = "none"
  BY DurableMailboxAssumption DEF AckRename, Idle, DurableInv, TypeOK, Entry, Seqs
<1>2. Acks' \subseteq Acks \union {e.seq} /\ owed' = Above(owed, e.seq)
  BY DEF AckRename, Acks, memVars
<1>3. TypeOK'
  BY <1>1, <1>2 DEF AckRename, DurableInv, TypeOK, Above, memVars
<1>4. \A x \in owed', a \in Acks' : x.seq > a
  BY <1>2 DEF DurableInv, Above
<1>5. ASSUME NEW w, WalServes(w) PROVE WalServes(w)'
  <2>1. e \in w /\ e.seq >= e.seq
    BY <1>1, <1>5 DEF WalServes
  <2> QED BY <1>2, <1>5, <2>1 DEF WalServes, Above
<1>6. WalServes(wal \ unsynced)' /\ \A w \in oldWals' : WalServes(w)'
  BY <1>5 DEF AckRename, DurableInv
<1> QED
  BY <1>1, <1>3, <1>4, <1>6 DEF AckRename, DurableInv, Readable, memVars

\* ack() syncs the directory and returns.
LEMMA InvAckSync ==
    ASSUME DurableInv, AckSync
    PROVE  DurableInv'
<1>1. Acks' \subseteq Acks /\ owed' = owed /\ wal' = wal /\ unsynced' = unsynced
  BY DEF AckSync, Acks
<1>2. TypeOK'
  BY DEF AckSync, DurableInv, TypeOK
<1>3. WalServes(wal \ unsynced)'
  BY <1>1 DEF DurableInv, WalServes
<1>4. up
  BY DEF AckSync, DurableInv
<1> QED BY <1>1, <1>2, <1>3, <1>4 DEF AckSync, DurableInv, Readable

\* ack() fails after the rename.
LEMMA InvAckSyncFails ==
    ASSUME DurableInv, AckSyncFails
    PROVE  DurableInv'
<1>1. Acks' = Acks
  BY DEF AckSyncFails, Acks, fileVars, memVars
<1>2. TypeOK'
  BY DEF AckSyncFails, DurableInv, TypeOK, fileVars, memVars
<1>3. WalServes(wal \ unsynced)' /\ \A w \in oldWals' : WalServes(w)'
  BY <1>1 DEF AckSyncFails, DurableInv, WalServes, fileVars
<1> QED
  BY <1>1, <1>2, <1>3
  DEF AckSyncFails, DurableInv, Readable, fileVars, memVars

\* truncate() keeps all that is owed, in the new log and in the old.
LEMMA InvTruncateRename ==
    ASSUME Benign, DurableInv, TruncateRename
    PROVE  DurableInv'
<1>1. /\ up /\ op = "none" /\ Acks' = Acks /\ owed' = owed
      /\ wal' = Above(wal, lastAcked) /\ unsynced' = {} /\ oldWals' = PowerWals
      /\ Above(wal, lastAcked) # {}
  BY DEF TruncateRename, Kept, Idle, Acks, Benign
<1>2. TypeOK'
  BY <1>1, PowerServes DEF TruncateRename, Kept, DurableInv, TypeOK, Above
<1>3. WalServes(wal \ unsynced)'
  <2>1. owed \subseteq Above(wal, lastAcked)
    BY DEF DurableInv, WalServes, Acks, Above
  <2>2. ASSUME NEW a \in Acks, a # 0 PROVE \E x \in Above(wal, lastAcked) : x.seq >= a
    <3>1. PICK x \in wal : x.seq >= a
      BY <2>2 DEF DurableInv, WalServes
    <3>2. PICK y \in wal : y.seq > lastAcked
      BY <1>1 DEF Above
    <3>3. a \in 0..MaxSeq /\ lastAcked \in 0..MaxSeq /\ x.seq \in Nat /\ y.seq \in Nat
      BY <1>1, AcksBelow DEF DurableInv, TypeOK, Entry, Seqs
    <3> QED BY <3>1, <3>2, <3>3, DurableMailboxAssumption DEF Above
  <2> QED BY <1>1, <2>1, <2>2 DEF WalServes
<1>4. \A w \in oldWals' : WalServes(w)'
  BY <1>1, PowerServes DEF WalServes
<1>5. wal' \subseteq wal
  BY <1>1 DEF Above
<1> QED
  BY <1>1, <1>2, <1>3, <1>4, <1>5 DEF TruncateRename, Kept, DurableInv, Readable

\* truncate() syncs the directory and reopens the log.
LEMMA InvTruncateReopen ==
    ASSUME DurableInv, TruncateReopen
    PROVE  DurableInv'
<1>1. Acks' \subseteq Acks /\ owed' = owed /\ wal' = wal /\ unsynced' = unsynced
  BY DEF TruncateReopen, Acks
<1>2. TypeOK'
  BY DEF TruncateReopen, DurableInv, TypeOK
<1>3. WalServes(wal \ unsynced)'
  BY <1>1 DEF DurableInv, WalServes
<1>4. up
  BY DEF TruncateReopen, DurableInv
<1> QED BY <1>1, <1>2, <1>3, <1>4 DEF TruncateReopen, DurableInv, Readable

\* The process is killed or drops the mailbox.
LEMMA InvKill ==
    ASSUME DurableInv, NEW f \in BOOLEAN, Kill(f)
    PROVE  DurableInv'
<1>1. Acks' \subseteq Acks \union {0} /\ owed' = owed /\ unsynced' = {} /\ oldWals' = {}
  BY DEF Kill, Down, Acks
<1>2. wal \subseteq wal' /\ wal' \subseteq wal \union buffer
  BY DEF Kill
<1>3. TypeOK'
  <2>1. sequence' \in 0..MaxSeq /\ lastAcked' \in 0..MaxSeq
    BY DurableMailboxAssumption DEF Kill, Down
  <2>2. wal' \subseteq Entry
    BY <1>2 DEF DurableInv, TypeOK
  <2> QED BY <1>1, <2>1, <2>2 DEF Kill, Down, DurableInv, TypeOK
<1>4. WalServes(wal \ unsynced)'
  BY <1>1, <1>2 DEF DurableInv, WalServes
<1>5. \A e \in owed', a \in Acks' : e.seq > a
  BY <1>1, DurableMailboxAssumption DEF DurableInv, TypeOK, Entry, Seqs
<1> QED
  BY <1>1, <1>3, <1>4, <1>5 DEF Kill, Down, DurableInv, Readable

\* The power fails: any log it may leave serves.
LEMMA InvPowerCut ==
    ASSUME DurableInv, NEW left \in PowerWals, NEW num \in oldAcks \union {ackFile},
           PowerCut(left, num)
    PROVE  DurableInv'
<1>1. Acks' \subseteq Acks \union {0} /\ owed' = owed /\ unsynced' = {} /\ oldWals' = {}
  BY DEF PowerCut, Down, Acks
<1>2. wal' = left /\ WalServes(left) /\ left \subseteq Entry
  BY PowerServes DEF PowerCut
<1>3. TypeOK'
  <2>1. sequence' \in 0..MaxSeq /\ lastAcked' \in 0..MaxSeq /\ ackFile' \in 0..MaxSeq
    BY DurableMailboxAssumption DEF PowerCut, Down, DurableInv, TypeOK
  <2>2. header' \in {"none", "fresh", "ok", "blank"}
    BY DEF PowerCut, DurableInv, TypeOK
  <2> QED BY <1>1, <1>2, <2>1, <2>2 DEF PowerCut, Down, DurableInv, TypeOK
<1>4. WalServes(wal \ unsynced)'
  BY <1>1, <1>2 DEF WalServes
<1>5. \A e \in owed', a \in Acks' : e.seq > a
  BY <1>1, DurableMailboxAssumption DEF DurableInv, TypeOK, Entry, Seqs
<1> QED
  BY <1>1, <1>3, <1>4, <1>5 DEF PowerCut, Down, DurableInv, Readable

\* Every step under benign faults.
LEMMA InvNext ==
    ASSUME Benign, DurableInv, [Next]_vars
    PROVE  DurableInv'
<1>1. CASE \E n \in 0..MaxSeq : Open(n)
  BY <1>1, InvOpen
<1>2. CASE \E m \in Msg : AppendWrite(m) \/ AppendFlushFails(m)
  BY <1>2, InvAppendWrite, InvAppendFlushFails
<1>3. CASE AppendSync \/ AppendSyncFails
  BY <1>3, InvAppendSync, InvAppendSyncFails
<1>4. CASE \E e \in owed : AckRename(e)
  BY <1>4, InvAckRename
<1>5. CASE AckSync \/ AckSyncFails
  BY <1>5, InvAckSync, InvAckSyncFails
<1>6. CASE TruncateRename \/ TruncateReopen
  BY <1>6, InvTruncateRename, InvTruncateReopen
<1>7. ~TruncateReopenFails /\ ~PowerCutTorn /\ ~PowerCutHeader
  BY DEF Benign, TruncateReopenFails, PowerCutTorn, PowerCutHeader
<1>8. CASE Crash
  BY <1>7, <1>8, InvKill, InvPowerCut DEF Crash
<1>9. CASE UNCHANGED vars
  <2>1. Acks' = Acks
    BY <1>9 DEF vars, fileVars, memVars, Acks
  <2>2. TypeOK'
    BY <1>9 DEF vars, fileVars, memVars, DurableInv, TypeOK
  <2>3. WalServes(wal \ unsynced)' /\ \A w \in oldWals' : WalServes(w)'
    BY <1>9, <2>1 DEF vars, fileVars, DurableInv, WalServes
  <2> QED BY <1>9, <2>1, <2>2, <2>3 DEF vars, fileVars, memVars, DurableInv, Readable
<1> QED
  BY <1>1, <1>2, <1>3, <1>4, <1>5, <1>6, <1>7, <1>8, <1>9 DEF Next, Step

\* DurableInv holds whatever crashes and failed calls happen.
THEOREM DurableInvariant == Spec => [](Benign => DurableInv)
<1> DEFINE Safe == Benign => DurableInv
<1>1. Safe /\ [Next]_vars => Safe'
  <2> SUFFICES ASSUME Safe, [Next]_vars, Benign' PROVE DurableInv'
    OBVIOUS
  <2>1. Benign
    BY DEF Benign, Faults, TruncateDrained, Next, vars
  <2> QED BY <2>1, InvNext
<1>2. Init => Safe
  BY InvInit
<1> QED BY <1>1, <1>2, PTL DEF Spec

-----------------------------------------------------------------------------
(***************************************************************************)
(* At-least-once delivery (durable_mailbox.rs): every message append()     *)
(* accepted and nobody acknowledged is in the next replay().               *)
(***************************************************************************)
THEOREM AtLeastOnce == Spec => []NothingLost
<1>1. (Benign => DurableInv) => NothingLost
  <2> SUFFICES ASSUME DurableInv, NEW e \in owed PROVE e \in Replay
    BY DEF NothingLost, DeliveredAtLeastOnce
  <2>1. e \in wal /\ e.seq > lastAcked /\ ~torn /\ ~bad
    BY DEF DurableInv, WalServes, Acks, Readable
  <2> QED BY <2>1 DEF Replay, ReplayAfter, Above
<1> QED BY <1>1, DurableInvariant, PTL

\* The sequence never falls behind the acknowledged number, so that ack()
\* accepts every number append() gives out (durable_mailbox.rs open, ack).
THEOREM SequenceKeepsAhead == Spec => []SequenceAhead
<1>1. (Benign => DurableInv) => SequenceAhead
  BY AcksBelow DEF SequenceAhead, Acks
<1> QED BY <1>1, DurableInvariant, PTL

(***************************************************************************)
(* Whatever the fault, an entry no power cut can undo leaves the log only  *)
(* once it is acknowledged (durable_mailbox.rs truncate).                  *)
(***************************************************************************)
THEOREM PermanentEntriesStay == Spec => PermanentStays
<1> DEFINE Unacked(e) == e.seq > lastAcked /\ e.seq > ackFile
           Keeps == \A e \in Permanent : Unacked(e) => e \in wal'
<1>1. [Next]_vars => [Keeps]_vars
  <2> SUFFICES ASSUME Next, NEW e \in Permanent, Unacked(e) PROVE e \in wal'
    OBVIOUS
  <2>1. e \in wal /\ e \notin unsynced /\ \A w \in PowerWals : e \in w
    BY DEF Permanent, PowerWals
  <2>2. CASE wal' = wal
    BY <2>1, <2>2
  <2>3. ASSUME NEW m \in Msg, AppendWrite(m) PROVE e \in wal'
    BY <2>1, <2>3 DEF AppendWrite, Written
  <2>4. CASE TruncateRename
    BY <2>1, <2>4 DEF TruncateRename, Kept, Above
  <2>5. CASE Crash
    BY <2>1, <2>5 DEF Crash, Kill, PowerCut, PowerCutTorn, PowerCutHeader
  <2> QED
    BY <2>2, <2>3, <2>4, <2>5
    DEF Next, Step, Open, AppendFlushFails, AppendSync, AppendSyncFails, AckRename,
        AckSync, AckSyncFails, TruncateReopen, TruncateReopenFails, fileVars
<1> QED BY <1>1, PTL DEF Spec, PermanentStays

-----------------------------------------------------------------------------
(* DETS tables.                                                            *)

DetsSpec == DetsInit /\ [][DetsNext]_dVars

IsTable(t) == t = [k \in DOMAIN t |-> t[k]]
Op == [key : DKey, put : BOOLEAN, value : DValue \union {Nothing}]

Places == {"down", "ready", "called", "logged", "compact", "written", "renamed"}

DetsTypes ==
    /\ IsTable(dDat) /\ IsTable(dTmp) /\ IsTable(dCache)
    /\ dLog \in Seq(Op) /\ dBuffer \in Seq(Op)
    /\ dAt \in Places /\ dFailed \in BOOLEAN /\ dWriter \in BOOLEAN
    /\ dAt \in {"called", "logged"} => \E o \in Op : dCall = <<o>>

\* A table that is down has no buffer, and a healthy one neither; its cache is
\* what the files hold, or will be once the call in progress has updated it.
\* Around the rename the snapshot is the cache.
CacheFollows ==
    /\ dAt = "down" => dBuffer = << >>
    /\ ~dFailed =>
         /\ dBuffer = << >>
         /\ dAt \in {"ready", "called", "compact", "written", "renamed"} => dCache = Loaded
         /\ dAt = "logged" => Applied(dCache, dCall[1]) = Loaded
         /\ dAt = "written" => dTmp = dCache
         /\ dAt = "renamed" => dDat = dCache

DetsInv == DetsTypes /\ CacheFollows

-----------------------------------------------------------------------------
(* Replaying a log.                                                        *)

LEMMA SameTable ==
    ASSUME NEW f, NEW g, IsTable(f), IsTable(g), DOMAIN f = DOMAIN g,
           \A k \in DOMAIN f : f[k] = g[k]
    PROVE  f = g
BY DEF IsTable

\* No key has two last lines.
LEMMA LastLineUnique ==
    ASSUME NEW log \in Seq(Op), NEW k, NEW i, NEW j, LastLine(log, k, i), LastLine(log, k, j)
    PROVE  i = j
<1>1. i \in 1..Len(log) /\ j \in 1..Len(log)  BY DEF LastLine
<1>2. i <= j /\ j <= i  BY DEF LastLine
<1> QED  BY <1>1, <1>2

LEMMA ReplayIsTable ==
    ASSUME NEW t, NEW log PROVE IsTable(ReplayLog(t, log))
BY DEF IsTable, ReplayLog

LEMMA AppliedIsTable ==
    ASSUME NEW t, NEW o PROVE IsTable(Applied(t, o))
BY DEF IsTable, Applied

\* The keys of the result: those of the table no line is about, and those
\* whose last line puts them.
LEMMA ReplayDomain ==
    ASSUME NEW t, NEW log \in Seq(Op), NEW k
    PROVE  k \in DOMAIN ReplayLog(t, log) <=>
             \/ k \in DOMAIN t /\ Untouched(log, k)
             \/ \E i \in DOMAIN log : log[i].put /\ LastLine(log, k, i)
BY DEF ReplayLog, LastLine

LEMMA ReplayUntouched ==
    ASSUME NEW t, NEW log \in Seq(Op), NEW k \in DOMAIN t, Untouched(log, k)
    PROVE  ReplayLog(t, log)[k] = t[k]
BY DEF ReplayLog

LEMMA ReplayLast ==
    ASSUME NEW t, NEW log \in Seq(Op), NEW k, NEW i \in DOMAIN log,
           log[i].put, LastLine(log, k, i)
    PROVE  ReplayLog(t, log)[k] = log[i].value
<1>1. k \in DOMAIN ReplayLog(t, log)  BY ReplayDomain
<1>2. ~Untouched(log, k)  BY DEF Untouched, LastLine
<1>3. LastLine(log, k, CHOOSE x \in DOMAIN log : LastLine(log, k, x))  OBVIOUS
<1>4. (CHOOSE x \in DOMAIN log : LastLine(log, k, x)) = i  BY <1>3, LastLineUnique
<1> QED  BY <1>1, <1>2, <1>4 DEF ReplayLog

LEMMA ReplayEmpty ==
    ASSUME NEW t, IsTable(t) PROVE ReplayLog(t, << >>) = t
<1>1. << >> \in Seq(Op) /\ DOMAIN << >> = {}  OBVIOUS
<1>2. \A k : Untouched(<< >>, k)  BY <1>1 DEF Untouched
<1>3. DOMAIN ReplayLog(t, << >>) = DOMAIN t  BY <1>1, <1>2, ReplayDomain
<1>4. \A k \in DOMAIN t : ReplayLog(t, << >>)[k] = t[k]  BY <1>1, <1>2, ReplayUntouched
<1> QED  BY <1>3, <1>4, ReplayIsTable, SameTable

\* A compaction replays the log onto a snapshot that has it already.
LEMMA ReplayTwice ==
    ASSUME NEW t, NEW log \in Seq(Op)
    PROVE  ReplayLog(ReplayLog(t, log), log) = ReplayLog(t, log)
<1> DEFINE r == ReplayLog(t, log)
<1> HIDE DEF r
<1>0. r = ReplayLog(t, log)  BY DEF r
<1>1. ASSUME NEW k, Untouched(log, k) PROVE ~ \E i \in DOMAIN log : LastLine(log, k, i)
  BY <1>1 DEF Untouched, LastLine
<1>2. DOMAIN ReplayLog(r, log) = DOMAIN r
  <2>1. ASSUME NEW k PROVE k \in DOMAIN ReplayLog(r, log) <=> k \in DOMAIN r
    BY <1>0, <1>1, ReplayDomain
  <2> QED  BY <2>1
<1>3. ASSUME NEW k \in DOMAIN r PROVE ReplayLog(r, log)[k] = r[k]
  <2>1. CASE Untouched(log, k)  BY <2>1, ReplayUntouched
  <2>2. CASE ~Untouched(log, k)
    <3>1. PICK i \in DOMAIN log : log[i].put /\ LastLine(log, k, i)
      BY <1>0, <2>2, ReplayDomain
    <3> QED  BY <1>0, <3>1, ReplayLast
  <2> QED  BY <2>1, <2>2
<1>4. IsTable(r) /\ IsTable(ReplayLog(r, log))  BY <1>0, ReplayIsTable
<1>5. ReplayLog(r, log) = r  BY <1>2, <1>3, <1>4, SameTable
<1> QED  BY <1>0, <1>5

\* A line that counts, added to the log, is applied to what the log gave before.
LEMMA ReplayAppend ==
    ASSUME NEW t, NEW log \in Seq(Op), NEW o \in Op, Counts(o)
    PROVE  ReplayLog(t, Append(log, o)) = Applied(ReplayLog(t, log), o)
<1> DEFINE r == ReplayLog(t, log)
           l == Append(log, o)
           n == Len(log) + 1
<1>1. /\ l \in Seq(Op) /\ DOMAIN l = DOMAIN log \union {n} /\ n \notin DOMAIN log
      /\ l[n] = o /\ \A i \in DOMAIN log : l[i] = log[i] /\ i < n
  OBVIOUS
<1>2. LastLine(l, o.key, n)
  <2>1. \A j \in DOMAIN l : j <= n  BY <1>1
  <2> QED  BY <1>1, <2>1 DEF LastLine
<1>3. ASSUME NEW k, k # o.key
      PROVE  /\ Untouched(l, k) <=> Untouched(log, k)
             /\ \A i \in DOMAIN log : LastLine(l, k, i) <=> LastLine(log, k, i)
             /\ ~LastLine(l, k, n)
  BY <1>1, <1>3 DEF Untouched, LastLine
<1>4. ~Untouched(l, o.key)  BY <1>1 DEF Untouched
<1> HIDE DEF l, n
<1>5. ASSUME NEW k, k # o.key
      PROVE  k \in DOMAIN ReplayLog(t, l) <=> k \in DOMAIN r
  <2>1. (\E i \in DOMAIN l : l[i].put /\ LastLine(l, k, i))
          <=> \E i \in DOMAIN log : log[i].put /\ LastLine(log, k, i)
    BY <1>1, <1>3, <1>5
  <2> QED  BY <1>1, <1>3, <1>5, <2>1, ReplayDomain
<1>6. ASSUME NEW k \in DOMAIN r, k # o.key PROVE ReplayLog(t, l)[k] = r[k]
  <2>1. CASE Untouched(log, k)
    <3>1. k \in DOMAIN t  BY <2>1, ReplayDomain DEF Untouched, LastLine
    <3>2. Untouched(l, k)  BY <1>3, <1>6, <2>1
    <3> QED  BY <1>1, <2>1, <3>1, <3>2, ReplayUntouched
  <2>2. CASE ~Untouched(log, k)
    <3>1. PICK i \in DOMAIN log : log[i].put /\ LastLine(log, k, i)
      BY <2>2, ReplayDomain
    <3>2. i \in DOMAIN l /\ l[i] = log[i] /\ LastLine(l, k, i)  BY <1>1, <1>3, <1>6, <3>1
    <3>3. r[k] = log[i].value  BY <3>1, ReplayLast
    <3>4. ReplayLog(t, l)[k] = l[i].value  BY <1>1, <3>1, <3>2, ReplayLast
    <3> QED  BY <3>2, <3>3, <3>4
  <2> QED  BY <2>1, <2>2
<1>7. o.key \in DOMAIN ReplayLog(t, l) <=> o.put
  <2>1. ASSUME NEW i \in DOMAIN l, LastLine(l, o.key, i) PROVE i = n
    BY <1>1, <1>2, <2>1, LastLineUnique
  <2> QED  BY <1>1, <1>2, <1>4, <2>1, ReplayDomain
<1>8. o.put => ReplayLog(t, l)[o.key] = o.value
  BY <1>1, <1>2, ReplayLast
<1>9. IsTable(ReplayLog(t, l)) /\ IsTable(Applied(r, o))  BY ReplayIsTable, AppliedIsTable
<1> HIDE DEF r
<1>10. DOMAIN ReplayLog(t, l) = DOMAIN Applied(r, o)
  <2>1. DOMAIN Applied(r, o) = IF o.put THEN DOMAIN r \union {o.key} ELSE DOMAIN r \ {o.key}
    BY DEF Applied
  <2>2. ASSUME NEW k PROVE k \in DOMAIN ReplayLog(t, l) <=> k \in DOMAIN Applied(r, o)
    BY <1>5, <1>7, <2>1
  <2> QED  BY <2>2
<1>11. ASSUME NEW k \in DOMAIN Applied(r, o) PROVE ReplayLog(t, l)[k] = Applied(r, o)[k]
  BY <1>6, <1>7, <1>8, <1>10 DEF Applied
<1>12. ReplayLog(t, l) = Applied(r, o)  BY <1>9, <1>10, <1>11, SameTable
<1> QED  BY <1>12 DEF l, r

\* A line that does not count changes nothing.
LEMMA ReplaySkips ==
    ASSUME NEW t, NEW log \in Seq(Op), NEW o \in Op, ~Counts(o)
    PROVE  ReplayLog(t, Append(log, o)) = ReplayLog(t, log)
<1> DEFINE l == Append(log, o)
           n == Len(log) + 1
<1>1. /\ l \in Seq(Op) /\ DOMAIN l = DOMAIN log \union {n} /\ n \notin DOMAIN log
      /\ l[n] = o /\ \A i \in DOMAIN log : l[i] = log[i]
  OBVIOUS
<1> HIDE DEF l, n
<1>2. ASSUME NEW k
      PROVE  /\ Untouched(l, k) <=> Untouched(log, k)
             /\ \A i \in DOMAIN log : LastLine(l, k, i) <=> LastLine(log, k, i)
             /\ ~LastLine(l, k, n)
  BY <1>1 DEF Untouched, LastLine
<1>3. ASSUME NEW k PROVE k \in DOMAIN ReplayLog(t, l) <=> k \in DOMAIN ReplayLog(t, log)
  <2>1. (\E i \in DOMAIN l : l[i].put /\ LastLine(l, k, i))
          <=> \E i \in DOMAIN log : log[i].put /\ LastLine(log, k, i)
    BY <1>1, <1>2
  <2> QED  BY <1>1, <1>2, <2>1, ReplayDomain
<1>4. ASSUME NEW k \in DOMAIN ReplayLog(t, log) PROVE ReplayLog(t, l)[k] = ReplayLog(t, log)[k]
  <2>1. CASE k \in DOMAIN t /\ Untouched(log, k)
    BY <1>1, <1>2, <2>1, ReplayUntouched
  <2>2. CASE \E i \in DOMAIN log : log[i].put /\ LastLine(log, k, i)
    <3>1. PICK i \in DOMAIN log : log[i].put /\ LastLine(log, k, i)  BY <2>2
    <3>2. i \in DOMAIN l /\ l[i] = log[i] /\ LastLine(l, k, i)  BY <1>1, <1>2, <3>1
    <3>3. ReplayLog(t, log)[k] = log[i].value  BY <3>1, ReplayLast
    <3>4. ReplayLog(t, l)[k] = l[i].value  BY <1>1, <3>1, <3>2, ReplayLast
    <3> QED  BY <3>2, <3>3, <3>4
  <2> QED  BY <2>1, <2>2, ReplayDomain
<1>5. DOMAIN ReplayLog(t, l) = DOMAIN ReplayLog(t, log)  BY <1>3
<1>6. ReplayLog(t, l) = ReplayLog(t, log)  BY <1>4, <1>5, ReplayIsTable, SameTable
<1> QED  BY <1>6 DEF l

\* The log with the line of a call, as append_log leaves it with no buffer.
LEMMA LogGrows ==
    ASSUME NEW log \in Seq(Op), NEW o \in Op
    PROVE  log \o << >> \o <<o>> = Append(log, o)
<1>1. log \o << >> = log  OBVIOUS
<1>2. log \o <<o>> = Append(log, o)  OBVIOUS
<1> QED  BY <1>1, <1>2

-----------------------------------------------------------------------------
(* The invariant.                                                          *)

LEMMA EmptyTable == IsTable(<< >>) /\ ReplayLog(<< >>, << >>) = << >>
<1>1. IsTable(<< >>)  BY DEF IsTable
<1> QED  BY <1>1, ReplayEmpty

LEMMA DetsInitially == DetsInit => DetsInv
<1> SUFFICES ASSUME DetsInit PROVE DetsInv  OBVIOUS
<1>1. IsTable(<< >>) /\ << >> \in Seq(Op)  BY EmptyTable
<1>2. DetsTypes  BY <1>1 DEF DetsInit, DetsTypes, Places
<1>3. CacheFollows  BY DEF DetsInit, CacheFollows
<1> QED  BY <1>2, <1>3 DEF DetsInv

\* Where the files and the cache stay, so does what a restart would read.
LEMMA DetsTypesKept == DetsInv /\ [DetsNext]_dVars => DetsTypes'
<1> SUFFICES ASSUME DetsInv, [DetsNext]_dVars PROVE DetsTypes'  OBVIOUS
<1> USE DEF DetsInv, DetsTypes
<1>1. CASE DetsOpen
  <2>1. IsTable(Loaded)  BY ReplayIsTable DEF Loaded
  <2> QED  BY <1>1, <2>1 DEF DetsOpen, dFiles, Places
<1>2. ASSUME NEW o \in Op, NEW caller, Begin(o, caller) PROVE DetsTypes'
  BY <1>2 DEF Begin, dFiles, Places
<1>3. CASE \E k \in DKey, caller \in DCaller :
             DetsDeleteKey(k, caller) \/ \E v \in DValue : DetsPut(k, v, caller)
  <2>1. PICK k \in DKey, caller \in DCaller :
             DetsDeleteKey(k, caller) \/ \E v \in DValue : DetsPut(k, v, caller)
    BY <1>3
  <2>2. CASE DetsDeleteKey(k, caller)
    <3>1. [key |-> k, put |-> FALSE, value |-> Nothing] \in Op  BY DEF Op
    <3> QED  BY <1>2, <2>2, <3>1 DEF DetsDeleteKey
  <2>3. ASSUME NEW v \in DValue, DetsPut(k, v, caller) PROVE DetsTypes'
    <3>1. [key |-> k, put |-> TRUE, value |-> v] \in Op  BY DEF Op
    <3> QED  BY <1>2, <2>3, <3>1 DEF DetsPut
  <2> QED  BY <2>1, <2>2, <2>3
<1>4. CASE AppendLog
  <2>1. PICK o \in Op : dCall = <<o>>  BY <1>4 DEF AppendLog
  <2>2. dLog \o dBuffer \o dCall \in Seq(Op) /\ << >> \in Seq(Op)  BY <2>1
  <2> QED  BY <1>4, <2>1, <2>2 DEF AppendLog, Places
<1>5. CASE AppendLogFails
  <2>1. PICK o \in Op : dCall = <<o>>  BY <1>5 DEF AppendLogFails
  <2>2. dBuffer \o dCall \in Seq(Op)  BY <2>1
  <2> QED  BY <1>5, <2>2 DEF AppendLogFails, dFiles, Places
<1>6. CASE UpdateCache
  <2>1. IsTable(Applied(dCache, dCall[1]))  BY AppliedIsTable
  <2> QED  BY <1>6, <2>1 DEF UpdateCache, dFiles, Places
<1>7. CASE DetsCompact  BY <1>7 DEF DetsCompact, dFiles, Places
<1>8. CASE WriteTmp  BY <1>8 DEF WriteTmp, Places
<1>9. CASE RenameDat  BY <1>9 DEF RenameDat, Places
<1>10. CASE TruncateLog  BY <1>10 DEF TruncateLog, Places
<1>11. CASE CompactFails  BY <1>11 DEF CompactFails, dFiles, Places
<1>12. CASE DetsClose
  <2>1. dLog \o dBuffer \in Seq(Op) /\ << >> \in Seq(Op)  OBVIOUS
  <2> QED  BY <1>12, <2>1 DEF DetsClose
<1>13. ASSUME NEW dropped \in BOOLEAN, DetsDown(dropped) PROVE DetsTypes'
  <2>1. dLog \o dBuffer \in Seq(Op) /\ << >> \in Seq(Op)  OBVIOUS
  <2>2. IsTable(<< >>)  BY EmptyTable
  <2> QED  BY <1>13, <2>1, <2>2 DEF DetsDown, Places
<1>14. CASE UNCHANGED dVars  BY <1>14 DEF dVars, dFiles
<1> QED  BY <1>1, <1>3, <1>4, <1>5, <1>6, <1>7, <1>8, <1>9, <1>10, <1>11, <1>12, <1>13, <1>14
         DEF DetsNext

\* The append of a healthy table applies the call to what the files hold.
LEMMA AppendApplies ==
    ASSUME DetsInv, AppendLog, ~dFailed, ~dFailed'
    PROVE  Loaded' = Applied(Loaded, dCall[1])
<1>1. PICK o \in Op : dCall = <<o>>  BY DEF DetsInv, DetsTypes, AppendLog
<1>2. dBuffer = << >> /\ dLog \in Seq(Op)  BY DEF DetsInv, DetsTypes, CacheFollows
<1>3. dLog' = dLog \o dBuffer \o dCall  BY DEF AppendLog
<1>4. dLog' = Append(dLog, o)  BY <1>1, <1>2, <1>3, LogGrows
<1>5. dDat' = dDat  BY DEF AppendLog
<1>6. dCall[1] = o  BY <1>1
<1>7. Counts(o)  BY <1>6 DEF AppendLog
<1>8. ReplayLog(dDat, Append(dLog, o)) = Applied(ReplayLog(dDat, dLog), o)
  BY <1>2, <1>7, ReplayAppend
<1> QED  BY <1>4, <1>5, <1>6, <1>8 DEF Loaded

\* A healthy compaction, up to any of its steps, leaves what the files hold.
LEMMA RenameKeeps ==
    ASSUME DetsInv, RenameDat, ~dFailed PROVE Loaded' = Loaded
<1>1. dTmp = Loaded /\ dLog \in Seq(Op)
  BY DEF DetsInv, DetsTypes, CacheFollows, RenameDat
<1>2. dDat' = dTmp /\ dLog' = dLog  BY DEF RenameDat
<1>3. ReplayLog(ReplayLog(dDat, dLog), dLog) = ReplayLog(dDat, dLog)  BY <1>1, ReplayTwice
<1> QED  BY <1>1, <1>2, <1>3 DEF Loaded

LEMMA TruncateKeeps ==
    ASSUME DetsInv, TruncateLog, ~dFailed PROVE Loaded' = Loaded
<1>1. dDat = Loaded /\ dBuffer = << >> /\ IsTable(dDat)
  BY DEF DetsInv, DetsTypes, CacheFollows, TruncateLog
<1>2. dDat' = dDat /\ dLog' = << >>  BY <1>1 DEF TruncateLog
<1>3. ReplayLog(dDat, << >>) = dDat  BY <1>1, ReplayEmpty
<1> QED  BY <1>1, <1>2, <1>3 DEF Loaded

\* No other step of a healthy table changes what a restart would read; a
\* kill, a drop and close() have no buffer to flush.
LEMMA OthersKeep ==
    ASSUME DetsInv, [DetsNext]_dVars, ~dFailed, ~AppendLog PROVE Loaded' = Loaded
<1>1. dBuffer = << >> /\ dLog \in Seq(Op)  BY DEF DetsInv, DetsTypes, CacheFollows
<1>2. dLog \o dBuffer = dLog  BY <1>1
<1>3. CASE RenameDat  BY <1>3, RenameKeeps
<1>4. CASE TruncateLog  BY <1>4, TruncateKeeps
<1>5. CASE DetsClose  BY <1>2, <1>5 DEF DetsClose, Loaded
<1>6. ASSUME NEW dropped \in BOOLEAN, DetsDown(dropped) PROVE Loaded' = Loaded
  BY <1>2, <1>6 DEF DetsDown, Loaded
<1>7. CASE WriteTmp  BY <1>7 DEF WriteTmp, Loaded
<1>8. CASE UNCHANGED dFiles  BY <1>8 DEF dFiles, Loaded
<1> QED
  BY <1>3, <1>4, <1>5, <1>6, <1>7, <1>8
  DEF DetsNext, dVars, DetsOpen, DetsDeleteKey, DetsPut, Begin, AppendLogFails, UpdateCache,
      DetsCompact, CompactFails

LEMMA CacheKept == DetsInv /\ [DetsNext]_dVars => CacheFollows'
<1> SUFFICES ASSUME DetsInv, [DetsNext]_dVars PROVE CacheFollows'  OBVIOUS
<1> USE DEF DetsInv, CacheFollows
<1>0. ~dFailed /\ ~AppendLog => Loaded' = Loaded  BY OthersKeep
<1>1. CASE DetsOpen
  <2>1. Loaded' = Loaded  BY <1>1 DEF DetsOpen, dFiles, Loaded
  <2> QED  BY <1>1, <2>1 DEF DetsOpen, dFiles
<1>2. ASSUME NEW o, NEW caller, Begin(o, caller) PROVE CacheFollows'
  <2>1. Loaded' = Loaded  BY <1>2 DEF Begin, dFiles, Loaded
  <2> QED  BY <1>2, <2>1 DEF Begin, dFiles
<1>3. CASE AppendLog
  <2>1. CASE dFailed'  BY <1>3, <2>1 DEF AppendLog
  <2>2. CASE ~dFailed'
    <3>1. ~dFailed /\ dWriter  BY <1>3, <2>2 DEF AppendLog
    <3>2. Loaded' = Applied(Loaded, dCall[1])  BY <1>3, <2>2, <3>1, AppendApplies
    <3>3. dCache = Loaded  BY <1>3, <3>1 DEF AppendLog
    <3> QED  BY <1>3, <3>1, <3>2, <3>3 DEF AppendLog
  <2> QED  BY <2>1, <2>2
<1>4. CASE AppendLogFails  BY <1>4 DEF AppendLogFails
<1>5. CASE UpdateCache
  <2>1. Loaded' = Loaded  BY <1>5 DEF UpdateCache, dFiles, Loaded
  <2> QED  BY <1>5, <2>1 DEF UpdateCache, dFiles
<1>6. CASE DetsCompact
  <2>1. Loaded' = Loaded  BY <1>6 DEF DetsCompact, dFiles, Loaded
  <2> QED  BY <1>6, <2>1 DEF DetsCompact, dFiles
<1>7. CASE WriteTmp
  <2>1. Loaded' = Loaded  BY <1>7 DEF WriteTmp, Loaded
  <2> QED  BY <1>7, <2>1 DEF WriteTmp
<1>8. CASE RenameDat
  <2>1. ~dFailed => Loaded' = Loaded  BY <1>8, RenameKeeps
  <2> QED  BY <1>8, <2>1 DEF RenameDat
<1>9. CASE TruncateLog
  <2>1. ~dFailed => Loaded' = Loaded  BY <1>9, TruncateKeeps
  <2> QED  BY <1>9, <2>1 DEF TruncateLog
<1>10. CASE CompactFails
  <2>1. Loaded' = Loaded  BY <1>10 DEF CompactFails, dFiles, Loaded
  <2> QED  BY <1>10, <2>1 DEF CompactFails, dFiles
<1>11. CASE DetsClose
  <2>1. ~dFailed' => ~dFailed /\ dBuffer' = << >>  BY <1>11 DEF DetsClose
  <2>2. ~AppendLog  BY <1>11 DEF DetsClose, AppendLog
  <2> QED  BY <1>0, <1>11, <2>1, <2>2 DEF DetsClose
<1>12. ASSUME NEW dropped \in BOOLEAN, DetsDown(dropped) PROVE CacheFollows'
  BY <1>12 DEF DetsDown
<1>13. CASE UNCHANGED dVars
  <2>1. Loaded' = Loaded  BY <1>13 DEF dVars, dFiles, Loaded
  <2> QED  BY <1>13, <2>1 DEF dVars, dFiles
<1> QED  BY <1>1, <1>2, <1>3, <1>4, <1>5, <1>6, <1>7, <1>8, <1>9, <1>10, <1>11, <1>12, <1>13
         DEF DetsNext, DetsDeleteKey, DetsPut

(***************************************************************************)
(* The cache of a healthy table is what its files hold, whatever dets.rs   *)
(* is in the middle of.                                                    *)
(***************************************************************************)
THEOREM DetsInvariant == DetsSpec => []DetsInv
<1>1. DetsInv /\ [DetsNext]_dVars => DetsInv'  BY DetsTypesKept, CacheKept DEF DetsInv
<1> QED  BY <1>1, DetsInitially, PTL DEF DetsSpec

-----------------------------------------------------------------------------
(* Refinement.                                                             *)

LEMMA DiskInitially == DetsInit => Disk!DtInit
<1> SUFFICES ASSUME DetsInit PROVE Disk!DtInit  OBVIOUS
<1>1. Loaded = << >>  BY EmptyTable DEF DetsInit, Loaded
<1> QED  BY <1>1 DEF DetsInit, Disk!DtInit

LEMMA DiskSteps == DetsInv /\ [DetsNext]_dVars => [Disk!DtNext]_(Disk!dtVars)
<1> SUFFICES ASSUME DetsInv, [DetsNext]_dVars PROVE [Disk!DtNext]_(Disk!dtVars)  OBVIOUS
<1>1. CASE dFailed  BY <1>1 DEF Disk!DtNext
<1>2. CASE ~dFailed /\ AppendLog /\ ~dFailed'
  <2>1. Loaded' = Applied(Loaded, dCall[1])  BY <1>2, AppendApplies
  <2>2. PICK o \in Op : dCall = <<o>>  BY <1>2 DEF DetsInv, DetsTypes, AppendLog
  <2>3. dCall # << >>  BY <2>2
  <2>4. dAt = "called" /\ dAt' = "logged"  BY <1>2 DEF AppendLog
  <2>5. Disk!DtApply(Loaded, dCall[1]) = Applied(Loaded, dCall[1])  BY DEF Disk!DtApply, Applied
  <2>6. (~dFailed) = (~dFailed)'  BY <1>2
  <2> QED  BY <2>1, <2>3, <2>4, <2>5, <2>6 DEF Disk!DtNext, Disk!DtTakeEffect
<1>3. CASE ~dFailed /\ AppendLog /\ dFailed'
  <2>1. PICK o \in Op : dCall = <<o>>  BY <1>3 DEF DetsInv, DetsTypes, AppendLog
  <2>2. dBuffer = << >> /\ dLog \in Seq(Op)  BY <1>3 DEF DetsInv, DetsTypes, CacheFollows
  <2>3. Loaded' = Loaded
    <3>1. CASE dWriter
      <4>1. dLog' = dLog \o dBuffer \o dCall  BY <1>3, <3>1 DEF AppendLog
      <4>2. dLog' = Append(dLog, o)  BY <2>1, <2>2, <4>1, LogGrows
      <4>3. dCall[1] = o  BY <2>1
      <4>4. ~Counts(o)  BY <1>3, <3>1, <4>3 DEF AppendLog
      <4>5. ReplayLog(dDat, Append(dLog, o)) = ReplayLog(dDat, dLog)  BY <2>2, <4>4, ReplaySkips
      <4> QED  BY <1>3, <4>2, <4>5 DEF AppendLog, Loaded
    <3>2. CASE ~dWriter  BY <1>3, <3>2 DEF AppendLog, Loaded
    <3> QED  BY <3>1, <3>2
  <2> QED  BY <1>3, <2>3 DEF Disk!DtNext, Disk!DtFail
<1>4. CASE ~dFailed /\ ~AppendLog
  <2>1. Loaded' = Loaded  BY <1>4, OthersKeep
  <2>2. CASE dFailed'  BY <2>1, <2>2 DEF Disk!DtNext, Disk!DtFail
  <2>3. CASE ~dFailed' /\ dAt' # "called"
    BY <1>4, <2>1, <2>3 DEF Disk!DtNext, Disk!DtDrop
  <2>4. CASE ~dFailed' /\ dAt' = "called" /\ UNCHANGED <<dAt, dCall>>
    BY <1>4, <2>1, <2>4 DEF Disk!dtVars
  <2>5. ASSUME NEW o \in Op, NEW caller, Begin(o, caller) PROVE Disk!DtNext
    <3>1. dAt = "ready" /\ dAt' = "called" /\ dCall' = <<o>> /\ dFailed' = dFailed
      BY <2>5 DEF Begin
    <3>2. Len(<<o>>) = 1  OBVIOUS
    <3> QED  BY <2>1, <3>1, <3>2 DEF Disk!DtNext, Disk!DtAsk
  <2>6. (\E o \in Op, caller \in DCaller : Begin(o, caller)) \/ dAt' # "called" \/ UNCHANGED <<dAt, dCall>>
    <3>1. \A k \in DKey : [key |-> k, put |-> FALSE, value |-> Nothing] \in Op  BY DEF Op
    <3>2. \A k \in DKey, v \in DValue : [key |-> k, put |-> TRUE, value |-> v] \in Op  BY DEF Op
    <3> QED  BY <1>4, <3>1, <3>2
             DEF DetsNext, DetsOpen, DetsDeleteKey, DetsPut, AppendLogFails, UpdateCache,
                 DetsCompact, WriteTmp, RenameDat, TruncateLog, CompactFails, DetsClose,
                 DetsDown, dVars
  <2> QED  BY <2>2, <2>3, <2>4, <2>5, <2>6
<1> QED  BY <1>1, <1>2, <1>3, <1>4

(***************************************************************************)
(* The three files of dets.rs implement the table of DiskTable: for every  *)
(* table, a kill at any point, a refused call or a compaction that fails   *)
(* half-way leaves each accepted operation in effect once and in order.    *)
(***************************************************************************)
THEOREM FilesImplementTable == DetsSpec => DetsImplementsDisk
<1>1. DetsInit => Disk!DtInit  BY DiskInitially
<1>2. DetsInv /\ [DetsNext]_dVars => [Disk!DtNext]_(Disk!dtVars)  BY DiskSteps
<1> QED  BY <1>1, <1>2, DetsInvariant, PTL DEF DetsSpec, DetsImplementsDisk, Disk!DtSpec

-----------------------------------------------------------------------------
(* Reading the log line after line.                                        *)

\* The recursive function that replays the log line after line.
InOrder(g) ==
    g = [n \in 0..Len(dLog) |->
            IF n = 0 THEN dDat
            ELSE IF Counts(dLog[n]) THEN Applied(g[n - 1], dLog[n]) ELSE g[n - 1]]

\* What the first n lines give
LoadedUpTo == [n \in 0..Len(dLog) |-> ReplayLog(dDat, SubSeq(dLog, 1, n))]

LEMMA FirstLines ==
    ASSUME NEW log \in Seq(Op)
    PROVE  /\ SubSeq(log, 1, 0) = << >> /\ SubSeq(log, 1, Len(log)) = log
           /\ \A n \in 1..Len(log) : /\ SubSeq(log, 1, n - 1) \in Seq(Op) /\ log[n] \in Op
                                     /\ SubSeq(log, 1, n) = Append(SubSeq(log, 1, n - 1), log[n])
<1>1. SubSeq(log, 1, 0) = << >>
  OBVIOUS
<1>2. SubSeq(log, 1, Len(log)) = log
  OBVIOUS
<1>3. ASSUME NEW n \in 1..Len(log)
      PROVE  /\ SubSeq(log, 1, n - 1) \in Seq(Op) /\ log[n] \in Op
             /\ SubSeq(log, 1, n) = Append(SubSeq(log, 1, n - 1), log[n])
  <2>1. log[n] \in Op
    BY ElementOfSeq
  <2>2. SubSeq(log, 1, n - 1) \in Seq(Op) /\ Len(SubSeq(log, 1, n - 1)) = n - 1
    OBVIOUS
  <2> QED BY <2>1, <2>2
<1> QED BY <1>1, <1>2, <1>3

\* One line at a time or all at once, a log gives the same table.
LEMMA LoadedUpToInOrder ==
    ASSUME DetsTypes
    PROVE  InOrder(LoadedUpTo)
<1>0. PICK log \in Seq(Op) : log = dLog
  BY DEF DetsTypes
<1>1. PICK dat, upTo : log = dLog /\ dat = dDat /\ upTo = LoadedUpTo
  BY <1>0
<1>2. upTo = [n \in 0..Len(log) |-> ReplayLog(dat, SubSeq(log, 1, n))] /\ IsTable(dat)
  BY <1>1 DEF LoadedUpTo, DetsTypes
<1>3. ASSUME NEW n \in 0..Len(log)
      PROVE  upTo[n] = IF n = 0 THEN dat
                       ELSE IF Counts(log[n]) THEN Applied(upTo[n - 1], log[n]) ELSE upTo[n - 1]
  <2>1. CASE n = 0
    <3>1. ReplayLog(dat, << >>) = dat
      BY <1>2, ReplayEmpty
    <3> QED BY <1>2, <2>1, <3>1, FirstLines
  <2>2. CASE n # 0
    <3>1. n \in 1..Len(log) /\ n - 1 \in 0..Len(log)
      BY <2>2
    <3>0. PICK o \in Op : o = log[n]
      BY <3>1, FirstLines
    <3>2. PICK before \in Seq(Op) : before = SubSeq(log, 1, n - 1) /\ o = log[n]
      BY <3>0, <3>1, FirstLines
    <3>3. SubSeq(log, 1, n) = Append(before, o)
      BY <3>1, <3>2, FirstLines
    <3>4. upTo[n] = ReplayLog(dat, Append(before, o)) /\ upTo[n - 1] = ReplayLog(dat, before)
      BY <1>2, <3>1, <3>2, <3>3
    <3>5. CASE Counts(o)
      <4>1. ReplayLog(dat, Append(before, o)) = Applied(ReplayLog(dat, before), o)
        BY <3>2, <3>5, ReplayAppend
      <4> QED BY <2>2, <3>2, <3>4, <3>5, <4>1
    <3>6. CASE ~Counts(o)
      <4>1. ReplayLog(dat, Append(before, o)) = ReplayLog(dat, before)
        BY <3>2, <3>6, ReplaySkips
      <4> QED BY <2>2, <3>2, <3>4, <3>6, <4>1
    <3> QED BY <3>5, <3>6
  <2> QED BY <2>1, <2>2
<1>4. upTo = [n \in 0..Len(log) |->
                 IF n = 0 THEN dat
                 ELSE IF Counts(log[n]) THEN Applied(upTo[n - 1], log[n]) ELSE upTo[n - 1]]
  BY <1>2, <1>3
<1> QED BY <1>1, <1>4 DEF InOrder

\* There is one such function.
LEMMA InOrderUnique ==
    ASSUME NEW f, NEW g, InOrder(f), InOrder(g), NEW N \in Nat, N = Len(dLog)
    PROVE  f[N] = g[N]
<1> DEFINE T == {n \in 0..N : f[n] # g[n]}
<1>1. ASSUME T # {} PROVE FALSE
  <2>1. T \subseteq Nat
    OBVIOUS
  <2>2. PICK z \in T : \A y \in T : z <= y
    BY <1>1, <2>1, LeastThere
  <2>3. f[0] = dDat /\ g[0] = dDat
    BY DEF InOrder
  <2>4. z # 0 /\ z \in 0..N
    BY <2>2, <2>3
  <2>5. z - 1 \in 0..N /\ ~(z <= z - 1)
    BY <2>4
  <2>6. f[z - 1] = g[z - 1]
    BY <2>2, <2>5
  <2>7. f[z] = (IF Counts(dLog[z]) THEN Applied(f[z - 1], dLog[z]) ELSE f[z - 1])
    BY <2>4 DEF InOrder
  <2>8. g[z] = (IF Counts(dLog[z]) THEN Applied(g[z - 1], dLog[z]) ELSE g[z - 1])
    BY <2>4 DEF InOrder
  <2> QED BY <2>2, <2>6, <2>7, <2>8
<1>2. N \in 0..N
  OBVIOUS
<1> QED BY <1>1, <1>2

\* open() reads the log line after line; the closed form of Loaded says the same.
LEMMA LoadedLineByLine ==
    ASSUME DetsTypes
    PROVE  LoadedInOrder = Loaded
<1>1. PICK N \in Nat : N = Len(dLog)
  BY DEF DetsTypes
<1> DEFINE upTo == CHOOSE g : InOrder(g)
<1>2. InOrder(upTo)
  BY LoadedUpToInOrder
<1> HIDE DEF upTo
<1>3. upTo[N] = LoadedUpTo[N]
  BY <1>1, <1>2, LoadedUpToInOrder, InOrderUnique
<1>4. LoadedUpTo[N] = Loaded
  <2>1. SubSeq(dLog, 1, N) = dLog
    BY <1>1, FirstLines DEF DetsTypes
  <2>2. N \in 0..Len(dLog)
    BY <1>1
  <2>3. LoadedUpTo[N] = ReplayLog(dDat, SubSeq(dLog, 1, N))
    BY <2>2 DEF LoadedUpTo
  <2> QED BY <2>1, <2>3 DEF Loaded
<1>5. LoadedInOrder = upTo[N]
  BY <1>1 DEF LoadedInOrder, upTo, InOrder
<1> QED BY <1>3, <1>4, <1>5

LEMMA DetsInvEnough == DetsInv => CacheIsDurable
  BY LoadedLineByLine DEF DetsInv, CacheFollows, CacheIsDurable, DetsRead

(***************************************************************************)
(* agent_rt/dets.rs: between calls, until a write fails or null is put,    *)
(* get(), scan(), filter() and count() answer from the cache what open()   *)
(* would read line after line, for any log and any two thresholds.         *)
(***************************************************************************)
THEOREM CacheKeepsUp == DetsSpec => []CacheIsDurable
  BY DetsInvariant, DetsInvEnough, PTL
=============================================================================
