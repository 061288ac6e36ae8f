-------------------------- MODULE SyncEngineProofs --------------------------
(***************************************************************************)
(* AckInv is inductive together with TypeOK, and AckedUnlessOvertaken      *)
(* follows.                                                                *)
(***************************************************************************)
EXTENDS SyncEngineAcks

USE ConstantsAssumption
USE DEF server, user, cursor, inbound, tables, local, apply, process, wire, drain, aux

-----------------------------------------------------------------------------
\* The steps of the journal before and after the commit: the row stays on its
\* side of it.
LEMMA RowKept ==
    ASSUME JournalInv, journal.on, journal'.on,
           journal'.rev = journal.rev, journal'.live = journal.live,
           journal'.stage \in {"database_committed", "finalized"}
             <=> journal.stage \in {"database_committed", "finalized"},
           outcome' = "kept" => journal.stage \in {"database_committed", "finalized"},
           UNCHANGED <<engine, call, live, conn, receipts, stream, item, overtaken>>
    PROVE  JournalInv'
  BY DEF JournalInv, Settled

LEMMA JournalQuietAck ==
    ASSUME SyncTypes, AckInv,
           \/ JournalStart \/ WriterApplies \/ WriterFindsPostimage \/ RecordFilesystemApplied
           \/ RecoverMismatch \/ RecoverReceipt \/ RecoverChanged \/ RecoverLocalIntent
           \/ FinalizeFilesystem \/ JournalFinalized
    PROVE  AckInv'
  <1> DEFINE committed == {"database_committed", "finalized"}
  <1>1. UNCHANGED <<serverAck, cursor, inbound, receipts, engine, call, wire, overtaken>>
    BY ZenonT(30)
       DEF JournalStart, WriterApplies, WriterFindsPostimage, RecordFilesystemApplied,
           RecoverMismatch, RecoverReceipt, RecoverChanged, Abandon, RecoverLocalIntent,
           FinalizeFilesystem, JournalFinalized
  <1> SUFFICES JournalInv' BY <1>1, OnlyJournalAck
  <1>2. JournalInv /\ (journal.on /\ outcome = "kept" => journal.stage \in committed)
    BY DEF AckInv, JournalInv
  <1>3. ASSUME journal.on, UNCHANGED outcome, NEW row, journal' = row,
               row.on, row.rev = journal.rev, row.live = journal.live,
               row.stage \in committed <=> journal.stage \in committed
        PROVE  JournalInv'
    BY <1>1, <1>2, <1>3, RowKept
  <1>4. journal \in [on : BOOLEAN, rev : 0..Len(log), live : BOOLEAN, stage : Stages,
                     expected : Contents, receipt : {"none", "post", "empty"}]
    BY DEF SyncTypes
  <1>5. CASE JournalStart
    <2>1. /\ journal.on /\ journal.stage = "prepared" /\ UNCHANGED outcome
          /\ journal' = [journal EXCEPT !.stage = "filesystem_started"]
      BY <1>5 DEF JournalStart, Applying, Stage
    <2> QED BY <1>3, <1>4, <2>1
  <1>6. CASE JournalFinalized
    <2>1. /\ journal.on /\ journal.stage = "database_committed" /\ UNCHANGED outcome
          /\ journal' = [journal EXCEPT !.stage = "finalized"]
      BY <1>6 DEF JournalFinalized, Applying, Stage
    <2> QED BY <1>3, <1>4, <2>1
  <1>7. CASE RecordFilesystemApplied
    <2>1. /\ journal.on /\ journal.stage = "filesystem_started" /\ UNCHANGED outcome
          /\ journal' = [journal EXCEPT !.stage = "filesystem_applied",
                           !.receipt = IF outcome = "applied" THEN "post" ELSE "empty"]
      BY <1>7 DEF RecordFilesystemApplied, Applying
    <2>2. /\ journal'.on /\ journal'.rev = journal.rev /\ journal'.live = journal.live
          /\ journal'.stage = "filesystem_applied"
      BY <1>4, <2>1
    <2> QED BY <1>3, <2>1, <2>2
  <1>8. CASE \/ WriterApplies \/ WriterFindsPostimage \/ RecoverMismatch \/ RecoverReceipt
             \/ RecoverChanged
    <2>1. journal.on /\ outcome' \in {"applied", "preserved"} /\ UNCHANGED journal
      BY <1>8, ZenonT(30)
         DEF WriterApplies, WriterFindsPostimage, RecoverMismatch, RecoverReceipt, RecoverChanged,
             WriterStep, RecoverCheck, Applying, Abandon
    <2>2. outcome' # "kept" BY <2>1
    <2> QED BY <1>1, <1>2, <2>1, <2>2, RowKept
  <1>9. CASE RecoverLocalIntent \/ FinalizeFilesystem
    <2>1. journal.on /\ journal.stage \in committed /\ UNCHANGED journal
      BY <1>9 DEF RecoverLocalIntent, FinalizeFilesystem, Applying
    <2> QED BY <1>1, <1>2, <2>1, RowKept
  <1> QED BY <1>5, <1>6, <1>7, <1>8, <1>9

LEMMA CommitAppliedAck == ASSUME SyncTypes, AckInv, CommitApplied PROVE AckInv'
  <1> DEFINE r == journal.rev
  <1>1. /\ journal.on /\ journal.stage = "filesystem_applied"
        /\ outcome \in {"applied", "preserved"}
        /\ journal' = [journal EXCEPT !.stage = "database_committed"]
        /\ UNCHANGED <<serverAck, stream, live, outcome, engine, call, wire, overtaken>>
    BY DEF CommitApplied, Applying, Stage, AckInv, JournalInv, SyncTypes
  <1>2. r \in Revs /\ r \in Nat /\ r \notin receipts /\ 1..(r - 1) \subseteq Settled
    <2>1. Len(log) \in Nat /\ Len(log) <= MaxRev /\ r \in 0..Len(log)
      BY DEF SyncTypes
    <2>2. r # 0 /\ r \notin receipts /\ 1..(r - 1) \subseteq Settled
      BY <1>1 DEF AckInv, JournalInv
    <2> QED BY <2>1, <2>2 DEF Revs
  <1>3. CASE journal.live
    <2>1. CommitLiveEvent(r) /\ UNCHANGED item /\ ~(r < lastApplied)
      BY <1>3 DEF CommitApplied, CommitRegresses, CursorRegresses
    <2>2. ~stream.on BY <1>1, <1>3 DEF AckInv, JournalInv
    <2>3. lastApplied < r BY <1>2, <2>1, PastCursor
    <2>4. CursorInv' BY <1>1, <1>2, <2>1, <2>2, <2>3, CommitLiveCursor
    <2>5. receipts' = receipts \cup {r} BY <2>1 DEF CommitLiveEvent, Settle
    <2>6. StreamInv' BY <1>1, <2>1, <2>2, <2>5 DEF AckInv, StreamInv
    <2>7. LiveInv' BY <1>1, <2>5, LiveKept DEF AckInv
    <2>8. JournalInv'
      BY <1>1, <1>2, <1>3, <2>2, <2>5 DEF AckInv, JournalInv, SyncTypes, Settled
    <2> QED BY <2>4, <2>6, <2>7, <2>8 DEF AckInv
  <1>4. CASE ~journal.live
    <2>1. CommitStreamEvent(r, outcome) /\ (outcome = "applied" => ~(r < lastApplied))
      BY <1>4 DEF CommitApplied, CommitRegresses
    <2>2. stream.on /\ item[r] # "absent" /\ stream.from < r /\ r <= stream.final
      BY <1>1, <1>2, <1>4 DEF AckInv, JournalInv, StreamInv
    <2>3. outcome = "applied" => lastApplied < r BY <1>2, <2>1, PastCursor
    <2>4. CursorInv' /\ StreamInv' BY <1>1, <1>2, <2>1, <2>2, <2>3, CommitStreamCursor
    <2>5. item'[r] # "absent" /\ receipts' = receipts \cup {r}
      BY <1>1, <1>2, <2>1 DEF CommitStreamEvent, Settle, SyncTypes
    <2>6. LiveInv' BY <1>1, <2>5, LiveKept DEF AckInv
    <2>7. JournalInv' BY <1>1, <1>2, <1>4, <2>2, <2>5 DEF AckInv, JournalInv, SyncTypes, Settled
    <2> QED BY <2>4, <2>6, <2>7 DEF AckInv
  <1> QED BY <1>3, <1>4

\* The cursor goes back to the overtaken revision, which recovery has settled now.
LEMMA CommitGapAck == ASSUME SyncTypes, AckInv, CommitGap PROVE AckInv'
  <1> DEFINE r == journal.rev
  <1>1. /\ engine = "recovering" /\ journal.on /\ journal.live
        /\ journal.stage = "filesystem_applied" /\ r < lastApplied
        /\ ~stream.on /\ r = lastAck + 1
        /\ lastApplied' = r /\ pendingAck' = 0 /\ receipts' = receipts \cup {r}
        /\ journal' = [journal EXCEPT !.stage = "database_committed"]
        /\ UNCHANGED <<serverAck, lastAck, segmentAck, inbound, outcome, engine, call, wire, overtaken>>
    BY DEF CommitGap, Applying, JournalGap, GapRecoverable, Settle, Stage
  <1>2. /\ r \in Nat /\ r # 0 /\ r \notin receipts /\ 1..(r - 1) \subseteq Settled
        /\ conn = "off" /\ outcome # "kept"
    <2>1. Len(log) \in Nat /\ r \in 0..Len(log) BY DEF SyncTypes
    <2> QED BY <1>1, <2>1 DEF AckInv, JournalInv
  <1>3. r \in overtaken
    <2>1. r \in 1..lastApplied BY <1>1, <1>2, CursorNats
    <2> QED BY <1>2, <2>1 DEF AckInv, CursorInv, Settled
  <1>4. ackSent = 0 /\ segmentAck = 0 /\ ~ackStored
    BY <1>1, <1>2 DEF AckInv, CursorInv
  <1>5. 1..r \subseteq Settled' /\ 1..serverAck \subseteq Settled'
    <2>1. \A q \in 1..r : q = r \/ q \in 1..(r - 1) BY <1>2
    <2> QED BY <1>1, <1>2, <2>1, ZenonT(30) DEF AckInv, CursorInv, Settled
  <1>6. lastAck <= r /\ lastAck \in receipts \cup {0} BY <1>1, CursorNats DEF AckInv, CursorInv
  <1>7. CursorInv'
    <2>1. overtaken' # {} BY <1>1, <1>3
    <2>2. {lastAck, r, 0} \subseteq receipts' \cup {0} BY <1>1, <1>6, Zenon
    <2> HIDE DEF r
    <2> QED BY <1>1, <1>2, <1>4, <1>5, <1>6, <2>1, <2>2, SMTT(30) DEF CursorInv
  <1>8. StreamInv' BY <1>1, <1>2 DEF AckInv, StreamInv
  <1>9. LiveInv' BY <1>1, LiveKept DEF AckInv
  <1>10. JournalInv' BY <1>1, <1>2 DEF AckInv, JournalInv, SyncTypes, Settled
  <1> QED BY <1>7, <1>8, <1>9, <1>10 DEF AckInv

LEMMA JournalRemoveAck == ASSUME SyncTypes, AckInv, JournalRemove PROVE AckInv'
  <1>1. /\ engine \in {"open", "recovering"} /\ journal.on /\ journal.stage = "finalized"
        /\ journal' = NoJournal /\ outcome' = "none"
        /\ live' = (IF engine = "open" /\ journal.live THEN Tail(live) ELSE live)
        /\ UNCHANGED <<serverAck, cursor, stream, item, receipts, engine, call, wire, overtaken>>
    BY DEF JournalRemove, Applying
  <1>2. CursorInv' /\ StreamInv' BY <1>1, CursorFrame, StreamFrame DEF AckInv
  <1>3. LiveInv'
    <2>1. CASE engine = "open" /\ journal.live
      <3>1. live # <<>> /\ Head(live) \in receipts BY <1>1, <2>1 DEF AckInv, JournalInv
      <3> QED BY <1>1, <2>1, <3>1, LiveTail DEF AckInv
    <2>2. CASE ~(engine = "open" /\ journal.live)
      BY <1>1, <2>2, LiveKept DEF AckInv
    <2> QED BY <2>1, <2>2
  <1>4. JournalInv' BY <1>1 DEF AckInv, JournalInv, NoJournal
  <1> QED BY <1>2, <1>3, <1>4 DEF AckInv

-----------------------------------------------------------------------------
\* An Ack goes out: the terminal one, or that of a segment.
LEMMA SendAckCursor ==
    ASSUME SyncTypes, CursorInv,
           \/ ackSent' = ackSent
           \/ AckDue /\ ackSent' = pendingAck
           \/ ackSent = 0 /\ pendingAck = 0 /\ conn \in {"items", "tail"} /\ ackSent' = segmentAck,
           UNCHANGED <<serverAck, cursor, stream, conn, ackStored, receipts, overtaken>>
    PROVE  CursorInv'
  <1>1. CASE ackSent' = ackSent BY <1>1, CursorFrame
  <1>2. CASE AckDue /\ ackSent' = pendingAck
    <2>1. /\ pendingAck # 0 /\ conn = "tail" /\ ackSent = 0
          /\ stream.on => pendingAck = stream.final
      BY <1>2 DEF AckDue, Online
    <2>2. overtaken = {} => serverAck <= pendingAck BY <2>1, CursorNats DEF CursorInv
    <2> QED BY <1>2, <2>1, <2>2, CursorNats, SMTT(30) DEF CursorInv, Settled
  <1>3. CASE ackSent = 0 /\ pendingAck = 0 /\ conn \in {"items", "tail"} /\ ackSent' = segmentAck
    <2>1. overtaken = {} /\ segmentAck # 0 => serverAck <= segmentAck
      BY <1>3, CursorNats DEF CursorInv
    <2> QED BY <1>3, <2>1, CursorNats, SMTT(30) DEF CursorInv, Settled
  <1> QED BY <1>1, <1>2, <1>3

LEMMA DrainAck == ASSUME SyncTypes, AckInv, Drain PROVE AckInv'
  <1>1. /\ engine = "open" /\ engine' = "open" /\ call = "idle"
        /\ call' \in {"idle", "deferred", "poll"} /\ (call' = "deferred" => ~stream.on)
        /\ ackSent' = ackSent \/ (AckDue /\ ackSent' = pendingAck)
        /\ UNCHANGED <<serverAck, cursor, inbound, receipts, journal, outcome, conn, next,
                       ackStored, deferred, overtaken>>
    BY DEF Drain, Idle, Resume
  <1>2. CursorInv' BY <1>1, SendAckCursor DEF AckInv
  <1>3. StreamInv' BY <1>1, StreamFrame DEF AckInv
  <1>4. LiveInv' BY <1>1, LiveKept DEF AckInv
  <1>5. ~journal.on BY <1>1 DEF AckInv, JournalInv
  <1>6. JournalInv' BY <1>1, <1>5 DEF AckInv, JournalInv
  <1> QED BY <1>2, <1>3, <1>4, <1>6 DEF AckInv

LEMMA PendingOutboxReplayAck == ASSUME SyncTypes, AckInv, PendingOutboxReplay PROVE AckInv'
  <1>1. /\ engine = "open" /\ engine' = "open" /\ call = "replay" /\ call' = "idle"
        /\ ackSent' = PolledAck
        /\ UNCHANGED <<serverAck, cursor, inbound, receipts, journal, outcome, conn, next,
                       ackStored, deferred, overtaken>>
    BY DEF PendingOutboxReplay
  <1>2. \/ ackSent' = ackSent
        \/ AckDue /\ ackSent' = pendingAck
        \/ ackSent = 0 /\ pendingAck = 0 /\ conn \in {"items", "tail"} /\ ackSent' = segmentAck
    BY <1>1 DEF PolledAck
  <1>3. CursorInv' BY <1>1, <1>2, SendAckCursor DEF AckInv
  <1>4. StreamInv' BY <1>1, StreamFrame DEF AckInv
  <1>5. LiveInv' BY <1>1, LiveKept DEF AckInv
  <1>6. ~journal.on BY <1>1 DEF AckInv, JournalInv
  <1>7. JournalInv' BY <1>1, <1>6 DEF AckInv, JournalInv
  <1> QED BY <1>3, <1>4, <1>5, <1>7 DEF AckInv

LEMMA AckConfirmedAck == ASSUME SyncTypes, AckInv, AckConfirmed PROVE AckInv'
  <1>1. /\ engine = "open" /\ call = "idle" /\ ackStored /\ AckAcceptable(ackSent)
        /\ lastAck' = ackSent /\ ackSent' = 0 /\ ackStored' = FALSE
        /\ UNCHANGED <<serverAck, lastApplied, live, receipts, apply, process, conn, next,
                       deferred, overtaken>>
    BY DEF AckConfirmed, Idle
  <1>2. /\ lastAck \in Nat /\ lastApplied \in Nat /\ pendingAck \in Nat /\ segmentAck \in Nat
        /\ serverAck \in Nat /\ ackSent \in Nat /\ next \in Nat /\ stream.final \in Nat
    BY CursorNats
  <1>3. ~journal.on BY <1>1 DEF AckInv, JournalInv
  <1>4. /\ ackSent # 0 /\ ackSent <= lastApplied /\ serverAck = ackSent
        /\ ackSent \in receipts /\ 1..lastApplied \subseteq Settled
    BY <1>1 DEF AckInv, CursorInv
  <1>s. Settled' = Settled BY <1>1 DEF Settled
  <1>5. CASE ackSent = pendingAck
    <2>1. pendingAck' = 0 /\ segmentAck' = 0 /\ stream' = NoStream /\ item' = NoItems
      BY <1>5 DEF AckConfirmed
    <2>2. CursorInv'
      <3>1. /\ ~stream'.on /\ 1..serverAck \subseteq Settled /\ lastApplied \in receipts \cup {0}
        BY <2>1 DEF AckInv, CursorInv, NoStream
      <3> QED BY <1>1, <1>2, <1>4, <1>s, <2>1, <3>1, SMTT(30) DEF CursorInv
    <2>3. stream.on => pendingAck = stream.final /\ conn = "tail"
      BY <1>2, <1>4, <1>5 DEF AckInv, CursorInv
    <2>4. conn # "items" /\ (conn = "tail" => next # 0)
      BY <2>3 DEF AckInv, StreamInv
    <2>5. StreamInv' BY <1>1, <2>1, <2>4 DEF StreamInv, NoStream, NoItems
    <2>6. LiveInv'
      <3>1. conn = "tail" => 1..(next - 1) \subseteq Settled \cup Range(live) \cup Range(deferred)
        <4>1. CASE stream.on
          <5>1. 1..stream.final \subseteq Settled BY <1>2, <1>4, <1>5, <2>3, <4>1
          <5>2. conn = "tail" => 1..(next - 1) \subseteq Settled \cup Range(live) \cup Range(deferred)
                                                         \cup 1..stream.final
            BY <4>1 DEF AckInv, LiveInv
          <5> QED BY <5>1, <5>2, ZenonT(30)
        <4>2. CASE ~stream.on BY <4>2 DEF AckInv, LiveInv
        <4> QED BY <4>1, <4>2
      <3>2. ~stream'.on BY <2>1 DEF NoStream
      <3>3. /\ Increasing(live) /\ Increasing(deferred) /\ \A r \in Range(deferred) : r < next
            /\ \A r \in Range(live) : 1..(r - 1) \subseteq Settled \cup Range(live)
            /\ deferred # <<>> => conn = "tail"
        BY DEF AckInv, LiveInv
      <3> QED BY <1>1, <1>s, <3>1, <3>2, <3>3, ZenonT(30), SMTT(30) DEF LiveInv
    <2>7. JournalInv' BY <1>1, <1>3 DEF AckInv, JournalInv
    <2> QED BY <2>2, <2>5, <2>6, <2>7 DEF AckInv
  <1>6. CASE ackSent # pendingAck
    <2>1. /\ segmentAck' = (IF pendingAck = 0 /\ ackSent > lastAck THEN 0 ELSE segmentAck)
          /\ UNCHANGED <<pendingAck, stream, item>>
      BY <1>6 DEF AckConfirmed
    <2>2. CursorInv'
      <3>1. /\ pendingAck # 0 => ackSent < pendingAck
            /\ segmentAck' # 0 => ackSent < segmentAck' /\ segmentAck' = segmentAck
        BY <1>1, <1>2, <1>4, <1>6, <2>1 DEF AckInv, CursorInv, AckAcceptable
      <3> QED BY <1>1, <1>2, <1>4, <1>s, <2>1, <3>1, SMTT(30) DEF AckInv, CursorInv
    <2>3. StreamInv' /\ LiveInv' BY <1>1, <2>1, StreamFrame, LiveKept DEF AckInv
    <2>4. JournalInv' BY <1>1, <2>1, JournalFrame DEF AckInv
    <2> QED BY <2>2, <2>3, <2>4 DEF AckInv
  <1> QED BY <1>5, <1>6

LEMMA MutationAcceptedAck ==
    ASSUME SyncTypes, AckInv, NEW row, MutationAccepted(row) PROVE AckInv'
  <1>1. /\ engine = "open" /\ call = "idle" /\ receipts \subseteq receipts'
        /\ UNCHANGED <<server, cursor, inbound, apply, process, wire, aux>>
    BY DEF MutationAccepted, Idle, Settle
  <1>2. CursorInv' /\ StreamInv' /\ LiveInv'
    BY <1>1, CursorFrame, StreamFrame, LiveKept DEF AckInv
  <1>3. ~journal.on BY <1>1 DEF AckInv, JournalInv
  <1>4. JournalInv' BY <1>1, <1>3 DEF AckInv, JournalInv
  <1> QED BY <1>2, <1>4 DEF AckInv

\* The steps of the server, the user and the watcher, which touch no cursor.
LEMMA OutsideAck ==
    ASSUME AckInv,
           UNCHANGED <<serverAck, cursor, inbound, receipts, apply, process, wire, overtaken>>
    PROVE  AckInv'
  <1> QED BY CursorFrame, StreamFrame, LiveKept, JournalFrame DEF AckInv

LEMMA ServerStoresAckAck == ASSUME SyncTypes, AckInv, ServerStoresAck PROVE AckInv'
  <1>1. /\ ackSent # 0 /\ serverAck' = ackSent /\ ackStored' = TRUE
        /\ UNCHANGED <<cursor, inbound, receipts, apply, process, conn, next, ackSent, deferred, overtaken>>
    BY DEF ServerStoresAck
  <1>2. 1..ackSent \subseteq Settled'
    <2>1. 1..ackSent \subseteq 1..lastApplied BY CursorNats DEF AckInv, CursorInv
    <2> QED BY <1>1, <2>1 DEF AckInv, CursorInv, Settled
  <1>3. CursorInv' BY <1>1, <1>2, CursorNats, SMTT(30) DEF AckInv, CursorInv, Settled
  <1>4. StreamInv' /\ LiveInv' BY <1>1, StreamFrame, LiveKept DEF AckInv
  <1>5. JournalInv' BY <1>1, JournalFrame DEF AckInv
  <1> QED BY <1>3, <1>4, <1>5 DEF AckInv

LEMMA StartUpAck == ASSUME SyncTypes, AckInv, StartUp PROVE AckInv'
  <1>1. UNCHANGED <<serverAck, cursor, inbound, receipts, apply, call, wire, overtaken>>
    BY DEF StartUp, Restart, RecoveryDone, Rescan
  <1>2. CursorInv' /\ StreamInv' /\ LiveInv'
    BY <1>1, CursorFrame, StreamFrame, LiveKept DEF AckInv
  <1>3. JournalInv'
    <2>1. Restart => JournalInv' BY <1>1 DEF Restart, AckInv, JournalInv, Settled
    <2>2. RecoveryDone => JournalInv' BY <1>1 DEF RecoveryDone, AckInv, JournalInv, Settled
    <2>3. Rescan => JournalInv' BY <1>1 DEF Rescan, AckInv, JournalInv, Settled
    <2> QED BY <2>1, <2>2, <2>3 DEF StartUp
  <1> QED BY <1>2, <1>3 DEF AckInv

\* Calls that only start, continue or end.
LEMMA CallAck ==
    ASSUME SyncTypes, AckInv,
           \/ MaterializeOver \/ ReplayOver \/ \E p \in Paths : MaterializeIntent(p)
           \/ \E r \in 1..Len(log) : BlobArrives(r)
    PROVE  AckInv'
  <1>1. /\ engine = "open" /\ engine' = "open"
        /\ call \in {"idle", "finish", "finish_poll", "intents", "deferred"}
        /\ call' \notin {"deferred", "replaying"}
        /\ UNCHANGED <<serverAck, cursor, inbound, receipts, apply, conn, next, ackSent,
                       ackStored, deferred, overtaken>>
    <2>1. CASE MaterializeOver BY <2>1 DEF MaterializeOver
    <2>2. CASE ReplayOver BY <2>2 DEF ReplayOver, DrainReplay, Resume
    <2>3. CASE \E p \in Paths : MaterializeIntent(p)
      BY <2>3 DEF MaterializeIntent, Materializing, Materialize
    <2>4. CASE \E r \in 1..Len(log) : BlobArrives(r)
      BY <2>4 DEF BlobArrives, Idle, Resume
    <2> QED BY <2>1, <2>2, <2>3, <2>4
  <1>2. CursorInv' /\ StreamInv' /\ LiveInv'
    BY <1>1, CursorFrame, StreamFrame, LiveKept DEF AckInv
  <1>3. ~journal.on BY <1>1 DEF AckInv, JournalInv
  <1>4. JournalInv' BY <1>1, <1>3 DEF AckInv, JournalInv
  <1> QED BY <1>2, <1>4 DEF AckInv

LEMMA SubscribeAck == ASSUME SyncTypes, AckInv, Subscribe PROVE AckInv'
  <1>1. /\ engine = "open" /\ conn = "off" /\ conn' = "begin"
        /\ UNCHANGED <<serverAck, cursor, inbound, receipts, apply, process, next, ackSent,
                       ackStored, deferred, overtaken>>
    BY DEF Subscribe
  <1>2. CursorInv' BY <1>1 DEF AckInv, CursorInv, Settled
  <1>3. StreamInv' BY <1>1 DEF AckInv, StreamInv
  <1>4. LiveInv' BY <1>1 DEF AckInv, LiveInv, Settled
  <1>5. JournalInv' BY <1>1 DEF AckInv, JournalInv, Settled
  <1> QED BY <1>2, <1>3, <1>4, <1>5 DEF AckInv

LEMMA SnapshotBeginAck == ASSUME SyncTypes, AckInv, SnapshotBegin PROVE AckInv'
  <1>1. /\ engine = "open" /\ call = "idle" /\ conn = "begin" /\ ~journal.on /\ ackSent = 0
        /\ stream' = [on |-> TRUE, from |-> lastAck, final |-> Len(log), ended |-> FALSE]
        /\ item' = NoItems /\ live' = <<>> /\ conn' = "items" /\ next' = lastAck + 1
        /\ UNCHANGED <<server, cursor, receipts, apply, process, ackSent, ackStored, deferred, overtaken>>
    BY DEF SnapshotBegin, Idle, AckInv, JournalInv, CursorInv
  <1>2. /\ lastAck \in Nat /\ lastApplied \in Nat /\ Len(log) \in Nat /\ lastApplied <= Len(log)
        /\ segmentAck \in Nat /\ stream.final \in Nat /\ stream.final <= Len(log)
    BY DEF SyncTypes
  <1>3. CursorInv' BY <1>1, <1>2 DEF AckInv, CursorInv, Settled
  <1>4. StreamInv'
    <2>1. \A r \in Revs : item'[r] = "absent" BY <1>1 DEF NoItems
    <2>2. /\ stream'.on /\ ~stream'.ended /\ stream'.from = lastAck /\ stream'.final = Len(log)
          /\ lastApplied' = lastApplied /\ conn' = "items" /\ next' = lastAck + 1
      BY <1>1 DEF cursor
    <2>3. lastAck <= lastApplied BY DEF AckInv, CursorInv
    <2>4. \A r \in Revs : ~(lastAck < r /\ r < lastAck + 1) BY <1>2 DEF Revs
    <2> QED BY <1>2, <2>1, <2>2, <2>3, <2>4 DEF StreamInv
  <1>5. deferred = <<>> BY <1>1 DEF AckInv, LiveInv
  <1>6. LiveInv' BY <1>1, <1>5, RangeEmpty DEF LiveInv
  <1>7. JournalInv' BY <1>1 DEF AckInv, JournalInv
  <1> QED BY <1>3, <1>4, <1>6, <1>7 DEF AckInv

LEMMA SnapshotEndAck == ASSUME SyncTypes, AckInv, SnapshotEnd PROVE AckInv'
  <1>1. /\ engine = "open" /\ engine' = "open" /\ call' = "handler" /\ call = "idle"
        /\ conn = "items" /\ conn' = "tail" /\ next > stream.final
        /\ stream.on /\ stream' = [stream EXCEPT !.ended = TRUE] /\ ~journal.on
        /\ UNCHANGED <<server, cursor, item, live, receipts, apply, next, ackSent, ackStored,
                       deferred, overtaken>>
    BY DEF SnapshotEnd, Idle, Resume, AckInv, JournalInv, StreamInv
  <1>2. stream'.on /\ stream'.final = stream.final /\ stream'.from = stream.from
    BY <1>1 DEF SyncTypes
  <1>3. CursorInv' BY <1>1, <1>2 DEF AckInv, CursorInv, Settled
  <1>4. stream.from < next /\ next <= stream.final + 1 BY <1>1 DEF AckInv, StreamInv
  <1>5. StreamInv'
    <2>1. next # 0 /\ stream.final < next BY <1>1, <1>4, CursorNats
    <2> QED BY <1>1, <1>2, <2>1 DEF AckInv, StreamInv
  <1>6. LiveInv'
    <2>1. deferred = <<>> /\ live = <<>> BY <1>1 DEF AckInv, LiveInv
    <2>2. 1..(next - 1) \subseteq 1..stream.final BY <1>4, CursorNats
    <2> QED BY <1>1, <1>2, <2>1, <2>2, RangeEmpty DEF LiveInv
  <1>7. JournalInv' BY <1>1, <1>2 DEF AckInv, JournalInv
  <1> QED BY <1>3, <1>5, <1>6, <1>7 DEF AckInv

LEMMA LostAck == ASSUME AckInv, Crash \/ Drop PROVE AckInv'
  BY ExitAck, HangUpAck DEF Crash, Drop


-----------------------------------------------------------------------------
LEMMA AckInit == ASSUME Init PROVE AckInv
  <1>1. CursorInv BY DEF Init, CursorInv, NoStream, Settled
  <1>2. StreamInv BY DEF Init, StreamInv, NoStream, NoItems
  <1>3. LiveInv BY RangeEmpty DEF Init, LiveInv, NoStream
  <1>4. JournalInv BY DEF Init, JournalInv, NoJournal
  <1> QED BY <1>1, <1>2, <1>3, <1>4 DEF AckInv

\* AckInv is inductive, given the types of the variables it speaks of.
LEMMA AckStep == ASSUME SyncTypes, AckInv, [Next]_vars PROVE AckInv'
  <1>1. CASE \E p \in RemotePaths : ServerCommitRemote(p)
    BY <1>1, OutsideAck DEF ServerCommitRemote
  <1>2. CASE \E p \in UserPaths : UserWrite(p)
    BY <1>2, OutsideAck DEF UserWrite
  <1>3. CASE Crash \/ Drop BY <1>3, LostAck
  <1>4. CASE StartUp BY <1>4, StartUpAck
  <1>5. CASE Subscribe BY <1>5, SubscribeAck
  <1>6. CASE Deliver
    <2>1. CASE SnapshotBegin BY <2>1, SnapshotBeginAck
    <2>2. CASE WorkspaceEvent BY <2>2, WorkspaceEventAck
    <2>3. CASE SnapshotEnd BY <2>3, SnapshotEndAck
    <2>4. CASE DeferEvent BY <2>4, DeferEventAck
    <2>5. CASE \E r \in 1..Len(log) : HandLive(r) BY <2>5, HandLiveAck
    <2>6. CASE \E r \in 1..Len(log) : BlobArrives(r) BY <2>6, CallAck
    <2>7. CASE AckConfirmed BY <2>7, AckConfirmedAck
    <2>8. CASE DeferOverflow \/ AckRefused
      <3>1. Dies \/ HangsUp BY <2>8, Deaths, HangUps, Zenon
      <3> QED BY <3>1, EndAck
    <2>9. CASE MutationResult
      BY <2>9, MutationAcceptedAck, OutsideAck DEF MutationResult, MutationRejectedStale
    <2> QED BY <1>6, <2>1, <2>2, <2>3, <2>4, <2>5, <2>6, <2>7, <2>8, <2>9, Zenon DEF Deliver
  <1>7. CASE Drain BY <1>7, DrainAck
  <1>8. CASE ReportChange
    BY <1>8, OutsideAck DEF ReportChange, LocalChange
  <1>9. CASE ServerAnswers
    <2>1. CASE ServerStoresAck BY <2>1, ServerStoresAckAck
    <2>2. CASE \E row \in outbox : ServerCommitOwn(row)
      BY <2>2, OutsideAck DEF ServerCommitOwn
    <2> QED BY <1>9, <2>1, <2>2 DEF ServerAnswers
  <1>10. CASE EngineStep
    <2>1. CASE \E r \in 1..Len(log) : StreamItem(r) \/ LiveItem(r)
      BY <2>1, StreamItemAck, LiveItemAck
    <2>2. CASE FinishStream BY <2>2, FinishStreamAck
    <2>3. CASE StopResume BY <2>3, StopResumeAck
    <2>4. CASE MaterializeOver \/ ReplayOver \/ \E p \in Paths : MaterializeIntent(p)
      BY <2>4, CallAck
    <2>5. CASE PendingOutboxReplay BY <2>5, PendingOutboxReplayAck
    <2>6. CASE \/ WriterFails \/ CommitRefused \/ GapRefused \/ \E r \in 1..Len(log) : ItemRefused(r)
      <3>1. Dies BY <2>6, Deaths, Zenon
      <3> QED BY <3>1, EndAck
    <2>7. CASE JournalStep
      BY <2>6, <2>7, JournalQuietAck, CommitAppliedAck, CommitGapAck, JournalRemoveAck, Zenon
         DEF JournalStep
    <2> QED BY <1>10, <2>1, <2>2, <2>3, <2>4, <2>5, <2>6, <2>7, Zenon DEF EngineStep
  <1>11. CASE UNCHANGED vars BY <1>11, OutsideAck DEF vars
  <1> QED BY <1>1, <1>2, <1>3, <1>4, <1>5, <1>6, <1>7, <1>8, <1>9, <1>10, <1>11 DEF Next

-----------------------------------------------------------------------------
IInv == TypeOK /\ AckInv

LEMMA Inductive == Spec => []IInv
  <1>1. Init => IInv BY TypeInit, AckInit DEF IInv
  <1>2. IInv /\ [Next]_vars => IInv'
    <2> SUFFICES ASSUME IInv, [Next]_vars PROVE IInv'
      OBVIOUS
    <2>1. TypeOK /\ AckInv /\ SyncTypes BY DEF IInv, TypeOK
    <2>2. AckInv' BY <2>1, AckStep
    <2>3. TypeOK' BY <2>1, TypeStep
    <2> QED BY <2>2, <2>3 DEF IInv
  <1> QED BY <1>1, <1>2, PTL DEF Spec

\* Every variable of the engine keeps its type: in particular no cursor,
\* stream, queued or deferred event or journal row names a revision the server has not
\* committed, for any number of paths, revisions, edits, crashes and drops.
THEOREM TypeCorrect == Spec => []TypeOK
  <1>1. IInv => TypeOK BY DEF IInv
  <1> QED BY <1>1, Inductive, PTL

\* The inductive invariant of the inbound path: what the cursors, the stream's
\* items, the live queue and the apply journal guarantee one another.
THEOREM AckInvariant == Spec => []AckInv
  <1>1. IInv => AckInv BY DEF IInv
  <1> QED BY <1>1, Inductive, PTL

\* No Ack the engine stores, queues or sends, and none the server holds, covers
\* a revision that the engine has not settled, unless that revision was deferred
\* when a later one was handed to the engine.
THEOREM AcksAreSafe == Spec => []AckedUnlessOvertaken
  <1>1. IInv => AckedUnlessOvertaken
    <2> SUFFICES ASSUME IInv PROVE AckedUnlessOvertaken OBVIOUS
    <2>0. SyncTypes /\ CursorInv BY DEF IInv, TypeOK, AckInv
    <2>1. /\ 1..lastApplied \subseteq Settled /\ lastApplied \in Nat /\ 1..serverAck \subseteq Settled
          /\ \A a \in {lastAck, ackSent, pendingAck, segmentAck} : a \in Nat /\ a <= lastApplied
      BY <2>0, CursorNats DEF CursorInv
    <2>2. \A a \in {lastAck, ackSent, pendingAck, segmentAck} : 1..a \subseteq Settled
      <3> TAKE a \in {lastAck, ackSent, pendingAck, segmentAck}
      <3>1. a \in Nat /\ a <= lastApplied BY <2>1
      <3>2. 1..a \subseteq 1..lastApplied BY <2>1, <3>1
      <3> QED BY <2>1, <3>2
    <2> QED BY <2>1, <2>2 DEF AckedUnlessOvertaken
  <1> QED BY <1>1, Inductive, PTL
=============================================================================
