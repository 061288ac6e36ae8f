-------------------------- MODULE SyncEngineSteps ---------------------------
(***************************************************************************)
(* What a step of the engine never does: move a cursor back, the recovery  *)
(* of an overtaken revision apart, or replace on disk anything but the     *)
(* version the server has for the path.  The second follows from the       *)
(* preimage that the apply journal records.                                *)
(***************************************************************************)
EXTENDS SyncEngineProofs

\* What CursorsAdvance says of one step.
Advance ==
    /\ lastAck' >= lastAck
    /\ \/ lastApplied' >= lastApplied /\ (pendingAck' # 0 => pendingAck' >= pendingAck)
       \/ JournalGap /\ journal.rev \in overtaken /\ lastApplied' = journal.rev

LEMMA AdvanceStep == ASSUME SyncTypes, AckInv, [Next]_vars PROVE Advance
  <1> USE ConstantsAssumption
  <1> USE DEF server, user, cursor, inbound, tables, local, apply, process, wire, drain, aux
  <1>0. /\ lastAck \in Nat /\ lastApplied \in Nat /\ pendingAck \in Nat
        /\ segmentAck \in Nat /\ ackSent \in Nat /\ stream.final \in Nat
        /\ pendingAck <= lastApplied
    BY CursorNats DEF AckInv, CursorInv
  <1>u. UNCHANGED cursor => Advance BY <1>0 DEF Advance
  <1>c. ASSUME NEW r \in Nat, UNCHANGED lastAck, lastApplied' \in {r, lastApplied},
               pendingAck' \in {r, pendingAck},
               ~(r < lastApplied) \/ UNCHANGED <<lastApplied, pendingAck>>
        PROVE  Advance
    BY <1>0, <1>c DEF Advance
  <1>m. \A r : r \in Nat /\ MarkLiveEventApplied(r) => Advance
    BY <1>0 DEF MarkLiveEventApplied, Advance
  <1>d. Dies \/ HangsUp => Advance BY <1>u DEF Dies, HangsUp
  <1>1. CASE \E p \in RemotePaths : ServerCommitRemote(p) BY <1>1, <1>u DEF ServerCommitRemote
  <1>2. CASE \E p \in UserPaths : UserWrite(p) BY <1>2, <1>u DEF UserWrite
  <1>3. CASE Crash \/ Drop \/ StartUp \/ Subscribe \/ Drain
    BY <1>3, <1>u, ZenonT(30)
       DEF Crash, Drop, StartUp, Restart, RecoveryDone, Rescan, Subscribe, Drain
  <1>4. CASE Deliver
    <2>1. ASSUME NEW r \in 1..Len(log), HandLive(r) PROVE Advance
      <3>1. LiveOverflow(r) \/ LiveEventRefused(r) => Dies \/ HangsUp BY Deaths, HangUps, Zenon
      <3>2. r \in Nat BY LogNat
      <3> QED BY <1>d, <1>m, <1>u, <2>1, <3>1, <3>2, ZenonT(30) DEF HandLive, LiveEventExact, LiveEvent
    <2>2. CASE AckConfirmed
      BY <1>0, <2>2 DEF AckConfirmed, AckAcceptable, Advance
    <2>3. CASE MutationResult
      BY <1>u, <2>3 DEF MutationResult, MutationAccepted, MutationRejectedStale
    <2>4. CASE DeferOverflow \/ AckRefused
      BY <1>d, <2>4, Deaths, HangUps, Zenon
    <2> QED BY <1>4, <1>u, <2>1, <2>2, <2>3, <2>4, ZenonT(30)
            DEF Deliver, SnapshotBegin, WorkspaceEvent, SnapshotEnd, DeferEvent, BlobArrives
  <1>5. CASE ReportChange BY <1>5, <1>u DEF ReportChange, LocalChange
  <1>6. CASE ServerAnswers BY <1>6, <1>u DEF ServerAnswers, ServerStoresAck, ServerCommitOwn
  <1>7. ASSUME NEW r \in 1..Len(log), StreamItem(r) \/ LiveItem(r) PROVE Advance
    <2>1. r \in Nat BY LogNat
    <2>2. CASE StreamItemCommit(r) \/ StreamItemPreserve(r)
      <3>1. /\ UNCHANGED <<lastAck, pendingAck>> /\ lastApplied' \in {r, lastApplied}
            /\ ~(r < lastApplied) \/ UNCHANGED lastApplied
        BY <2>2 DEF StreamItemCommit, StreamItemPreserve, StreamItemFails, CommitStreamEvent
      <3> QED BY <1>c, <2>1, <3>1
    <2>3. CASE LiveItemCommit(r) \/ LiveItemPreserve(r)
      <3>1. /\ UNCHANGED lastAck /\ lastApplied' = r /\ pendingAck' = r /\ ~(r < lastApplied)
        BY <2>3, ZenonT(30)
           DEF LiveItemCommit, LiveItemPreserve, LiveItemFails, CursorRegresses, CommitLiveEvent
      <3> QED BY <1>c, <2>1, <3>1
    <2>4. CASE LiveItemExact(r) BY <1>m, <2>1, <2>4 DEF LiveItemExact
    <2> QED BY <1>7, <1>u, <2>2, <2>3, <2>4, ZenonT(30)
            DEF StreamItem, LiveItem, StreamItemExact, StreamItemPrepare, LiveItemPrepare, Prepare
  <1>8. CASE FinishStream
    <2>1. lastApplied <= stream.final
      BY <1>8 DEF FinishStream, StreamComplete, AckInv, StreamInv
    <2> QED BY <1>0, <1>8, <2>1 DEF FinishStream, Advance
  <1>9. CASE StopResume BY <1>0, <1>9 DEF StopResume, Advance
  <1>10. CASE \/ MaterializeOver \/ PendingOutboxReplay \/ ReplayOver
              \/ \E p \in Paths : MaterializeIntent(p)
    BY <1>10, <1>u, ZenonT(30) DEF MaterializeOver, PendingOutboxReplay, ReplayOver, MaterializeIntent
  <1>11. CASE \/ WriterFails \/ CommitRefused \/ GapRefused \/ \E r \in 1..Len(log) : ItemRefused(r)
    BY <1>11, <1>d, Deaths, Zenon
  <1>12. CASE JournalStep
    <2>1. CASE CommitApplied
      <3>1. journal.rev \in Nat BY LogNat DEF SyncTypes
      <3>2. /\ UNCHANGED lastAck /\ lastApplied' \in {journal.rev, lastApplied}
            /\ pendingAck' \in {journal.rev, pendingAck}
            /\ ~(journal.rev < lastApplied) \/ UNCHANGED <<lastApplied, pendingAck>>
        BY <2>1 DEF CommitApplied, CommitRegresses, CursorRegresses, CommitLiveEvent, CommitStreamEvent
      <3> QED BY <1>c, <3>1, <3>2
    <2>2. CASE CommitGap
      <3>1. /\ JournalGap /\ lastApplied' = journal.rev /\ UNCHANGED lastAck
            /\ journal.rev < lastApplied
        BY <2>2 DEF CommitGap, JournalGap
      <3>2. /\ journal.rev \in Nat /\ journal.rev # 0 /\ journal.rev \notin receipts
        <4>1. journal.rev \in 0..Len(log) /\ Len(log) \in Nat BY DEF SyncTypes
        <4> QED BY <4>1, <3>1 DEF JournalGap, AckInv, JournalInv
      <3>3. journal.rev \in 1..lastApplied BY <1>0, <3>1, <3>2
      <3>4. journal.rev \in overtaken BY <3>2, <3>3 DEF AckInv, CursorInv, Settled
      <3> QED BY <1>0, <3>1, <3>4 DEF Advance
    <2> QED BY <1>11, <1>12, <1>u, <2>1, <2>2, ZenonT(30)
            DEF JournalStep, JournalStart, WriterApplies, WriterFindsPostimage,
                RecordFilesystemApplied, RecoverMismatch, RecoverReceipt, RecoverChanged, Abandon,
                RecoverLocalIntent, FinalizeFilesystem, JournalFinalized, JournalRemove
  <1>13. CASE UNCHANGED vars BY <1>13, <1>u DEF vars
  <1> QED BY <1>1, <1>2, <1>3, <1>4, <1>5, <1>6, <1>7, <1>8, <1>9, <1>10, <1>11, <1>12, <1>13, ZenonT(30)
          DEF Next, EngineStep

\* No step moves a cursor of workspace_cursor backwards, except the recovery of a
\* journal row whose revision was overtaken, which takes last_applied_revision
\* back to it.
THEOREM CursorsOnlyAdvance == Spec => CursorsAdvance
  <1>1. IInv /\ [Next]_vars => [Advance]_vars
    BY AdvanceStep DEF IInv, TypeOK
  <1>2. Spec => [][Advance]_vars BY <1>1, Inductive, PTL DEF Spec
  <1> QED BY <1>2 DEF CursorsAdvance, Advance

-----------------------------------------------------------------------------
\* Until the commit, the preimage in the journal row is the version path_states
\* records for the path: no handler that moves a path state runs meanwhile.
ExpectedInv ==
    journal.on /\ journal.stage \in {"prepared", "filesystem_started"}
        => journal.expected = Body(base[JournalPath])

-----------------------------------------------------------------------------
LEMMA ExpectedFrame ==
    ASSUME ExpectedInv, UNCHANGED <<log, base, journal>> PROVE ExpectedInv'
  BY DEF ExpectedInv, JournalPath, PathOf, Body

LEMMA NotStartedExpected ==
    ASSUME ~(journal'.on /\ journal'.stage \in {"prepared", "filesystem_started"})
    PROVE  ExpectedInv'
  BY DEF ExpectedInv

\* A revision the server commits changes none of those the log has.
LEMMA AppendExpected ==
    ASSUME TypeOK, AckInv, ExpectedInv, NEW e, log' = Append(log, e), UNCHANGED <<base, journal>>
    PROVE  ExpectedInv'
  <1> SUFFICES ASSUME journal.on, journal.stage \in {"prepared", "filesystem_started"}
               PROVE  journal.expected = Body(base[JournalPath])'
    BY DEF ExpectedInv
  <1>1. /\ journal.rev \in 1..Len(log) /\ JournalPath \in Paths
        /\ journal.expected = Body(base[JournalPath])
    BY JournalPathType DEF ExpectedInv
  <1>2. log \in Seq(Entries) /\ Len(log) \in Nat BY DEF TypeOK, SyncTypes
  <1>3. \A r \in 1..Len(log) : log'[r] = log[r] BY <1>2
  <1>4. JournalPath' = JournalPath BY <1>1, <1>3 DEF JournalPath, PathOf
  <1>5. base[JournalPath] \in 0..Len(log) BY <1>1 DEF TypeOK, DataTypes
  <1>6. base[JournalPath] = 0 \/ base[JournalPath] \in 1..Len(log) BY <1>2, <1>5
  <1> QED BY <1>1, <1>3, <1>4, <1>6 DEF Body

LEMMA PrepareExpected ==
    ASSUME NEW r \in 1..Len(log), NEW b \in BOOLEAN, Prepare(r, b) PROVE ExpectedInv'
  BY DEF Prepare, BaselineMatches, ExpectedInv, JournalPath, PathOf, Body, server

LEMMA ExpectedStep == ASSUME TypeOK, AckInv, ExpectedInv, [Next]_vars PROVE ExpectedInv'
  <1> USE DEF server, user, cursor, inbound, tables, local, apply, process, wire, drain, aux
  <1>i. Idle => ~journal.on BY DEF Idle, AckInv, JournalInv
  <1>u. UNCHANGED <<log, base, journal>> => ExpectedInv' BY ExpectedFrame
  <1>n. ~journal.on /\ UNCHANGED journal => ExpectedInv' BY NotStartedExpected
  <1>1. CASE \E p \in RemotePaths : ServerCommitRemote(p)
    BY <1>1, AppendExpected DEF ServerCommitRemote
  <1>2. CASE \E p \in UserPaths : UserWrite(p) BY <1>2, <1>u DEF UserWrite
  <1>3. CASE Crash \/ Drop \/ StartUp \/ Subscribe \/ Drain
    BY <1>3, <1>u, ZenonT(30)
       DEF Crash, Drop, StartUp, Restart, RecoveryDone, Rescan, Subscribe, Drain
  <1>d. Dies \/ HangsUp => ExpectedInv' BY <1>u DEF Dies, HangsUp
  <1>4. CASE Deliver
    <2>1. CASE MutationResult
      BY <1>i, <1>n, <2>1 DEF MutationResult, MutationAccepted, MutationRejectedStale
    <2>2. CASE \/ DeferOverflow \/ AckRefused
               \/ \E r \in 1..Len(log) : LiveOverflow(r) \/ LiveEventRefused(r)
      BY <1>d, <2>2, Deaths, HangUps, Zenon
    <2> QED BY <1>4, <1>u, <2>1, <2>2, ZenonT(30)
            DEF Deliver, SnapshotBegin, WorkspaceEvent, SnapshotEnd, DeferEvent, HandLive,
                LiveEventExact, LiveEvent, BlobArrives, AckConfirmed
  <1>5. CASE ReportChange BY <1>5, <1>u DEF ReportChange, LocalChange
  <1>6. CASE ServerAnswers
    BY <1>6, <1>u, AppendExpected DEF ServerAnswers, ServerStoresAck, ServerCommitOwn
  <1>7. ASSUME NEW r \in 1..Len(log), StreamItem(r) \/ LiveItem(r) PROVE ExpectedInv'
    <2>1. ~journal.on
      BY <1>7 DEF StreamItem, StreamItemExact, StreamItemCommit, StreamItemPreserve,
           StreamItemPrepare, LiveItem, LiveItemExact, LiveItemCommit, LiveItemPreserve,
           LiveItemPrepare, StreamStep, LiveStep, Working
    <2>2. CASE StreamItemPrepare(r) \/ LiveItemPrepare(r)
      BY <2>2, PrepareExpected DEF StreamItemPrepare, LiveItemPrepare
    <2> QED BY <1>7, <1>n, <2>1, <2>2 DEF StreamItem, StreamItemExact, StreamItemCommit,
             StreamItemPreserve, LiveItem, LiveItemExact, LiveItemCommit, LiveItemPreserve
  <1>8. CASE \/ FinishStream \/ StopResume \/ MaterializeOver \/ PendingOutboxReplay \/ ReplayOver
             \/ \E p \in Paths : MaterializeIntent(p)
    BY <1>8, <1>u, ZenonT(30)
       DEF FinishStream, StopResume, MaterializeOver, PendingOutboxReplay, ReplayOver, MaterializeIntent
  <1>f. CASE \/ WriterFails \/ CommitRefused \/ GapRefused \/ \E r \in 1..Len(log) : ItemRefused(r)
    BY <1>d, <1>f, Deaths, Zenon
  <1>9. CASE JournalStep
    <2>0. journal.stage \in Stages /\ journal \in [on : BOOLEAN, rev : 0..Len(log), live : BOOLEAN,
             stage : Stages, expected : Contents, receipt : {"none", "post", "empty"}]
      BY DEF TypeOK, SyncTypes
    <2>1. CASE JournalStart
      <3>1. journal.on /\ journal.stage = "prepared" /\ UNCHANGED <<log, base>>
            /\ journal' = [journal EXCEPT !.stage = "filesystem_started"]
        BY <2>1 DEF JournalStart, Applying, Stage
      <3>2. journal'.rev = journal.rev /\ journal'.expected = journal.expected BY <2>0, <3>1
      <3> QED BY <3>1, <3>2 DEF ExpectedInv, JournalPath, PathOf, Body
    <2>2. CASE RecordFilesystemApplied \/ CommitApplied \/ CommitGap \/ JournalFinalized
               \/ JournalRemove
      <3>1. CASE RecordFilesystemApplied
        <4>1. journal'.stage = "filesystem_applied" BY <2>0, <3>1 DEF RecordFilesystemApplied
        <4> QED BY <4>1, NotStartedExpected
      <3>2. CASE CommitApplied \/ CommitGap \/ JournalFinalized
        <4>1. journal'.stage \in {"database_committed", "finalized"}
          BY <2>0, <3>2 DEF CommitApplied, CommitGap, JournalFinalized, Stage
        <4> QED BY <4>1, NotStartedExpected
      <3>3. CASE JournalRemove
        <4>1. ~journal'.on BY <3>3 DEF JournalRemove, NoJournal
        <4> QED BY <4>1, NotStartedExpected
      <3> QED BY <2>2, <3>1, <3>2, <3>3
    <2> QED BY <1>9, <1>f, <1>u, <2>1, <2>2, ZenonT(30)
            DEF JournalStep, WriterApplies, WriterFindsPostimage, RecoverMismatch, RecoverReceipt,
                RecoverChanged, Abandon, RecoverLocalIntent, FinalizeFilesystem
  <1>10. CASE UNCHANGED vars BY <1>10, <1>u DEF vars
  <1> QED BY <1>1, <1>2, <1>3, <1>4, <1>5, <1>6, <1>7, <1>8, <1>9, <1>10, <1>f, ZenonT(30)
          DEF Next, EngineStep

-----------------------------------------------------------------------------
\* What UserContentSafe says of one step.
KeepsUserContent ==
    \A p \in Paths : disk'[p] # disk[p] /\ edits' = edits => disk[p] \in {Gone, Body(base[p])}

LEMMA KeepsStep == ASSUME TypeOK, AckInv, ExpectedInv, [Next]_vars PROVE KeepsUserContent
  <1> USE DEF server, user, cursor, inbound, tables, local, apply, process, wire, drain, aux
  <1>u. UNCHANGED disk => KeepsUserContent BY DEF KeepsUserContent
  <1>t. disk \in [Paths -> Contents] /\ edits \in Nat BY DEF TypeOK, DataTypes
  <1>1. CASE \E p \in UserPaths : UserWrite(p)
    <2>1. edits' # edits BY <1>1, <1>t DEF UserWrite
    <2> QED BY <2>1 DEF KeepsUserContent
  <1>2. CASE WriterApplies
    <2>1. /\ journal.on /\ journal.stage = "filesystem_started" /\ disk[JournalPath] = journal.expected
          /\ disk' = [disk EXCEPT ![JournalPath] = Body(journal.rev)]
      BY <1>2 DEF WriterApplies, WriterStep, Applying, Preimage
    <2>2. disk[JournalPath] = Body(base[JournalPath]) BY <2>1 DEF ExpectedInv
    <2> QED BY <1>t, <2>1, <2>2 DEF KeepsUserContent
  <1>3. CASE RecoverMismatch \/ RecoverChanged
    <2>1. disk' = disk \/ (disk[JournalPath] = Gone /\ disk' = [disk EXCEPT ![JournalPath] = tomb])
      BY <1>3 DEF RecoverMismatch, RecoverChanged, Abandon
    <2> QED BY <1>t, <2>1 DEF KeepsUserContent
  <1>4. CASE \/ \E p \in RemotePaths : ServerCommitRemote(p)
             \/ Crash \/ Drop \/ StartUp \/ Subscribe \/ Drain
    BY <1>4, <1>u, ZenonT(30)
       DEF ServerCommitRemote, Crash, Drop, StartUp, Restart, RecoveryDone, Rescan, Subscribe, Drain
  <1>d. Dies \/ HangsUp => KeepsUserContent BY <1>u DEF Dies, HangsUp
  <1>5. CASE Deliver
    <2>1. CASE MutationResult
      BY <1>u, <2>1 DEF MutationResult, MutationAccepted, MutationRejectedStale
    <2>2. CASE \/ DeferOverflow \/ AckRefused
               \/ \E r \in 1..Len(log) : LiveOverflow(r) \/ LiveEventRefused(r)
      BY <1>d, <2>2, Deaths, HangUps, Zenon
    <2> QED BY <1>5, <1>u, <2>1, <2>2, ZenonT(30)
            DEF Deliver, SnapshotBegin, WorkspaceEvent, SnapshotEnd, DeferEvent, HandLive,
                LiveEventExact, LiveEvent, BlobArrives, AckConfirmed
  <1>6. CASE ReportChange \/ ServerAnswers
    BY <1>6, <1>u DEF ReportChange, LocalChange, ServerAnswers, ServerStoresAck, ServerCommitOwn
  <1>7. ASSUME NEW r \in 1..Len(log), StreamItem(r) \/ LiveItem(r) PROVE KeepsUserContent
    BY <1>7, <1>u, ZenonT(30)
       DEF StreamItem, StreamItemExact, StreamItemCommit, StreamItemPreserve, StreamItemPrepare,
           LiveItem, LiveItemExact, LiveItemCommit, LiveItemPreserve, LiveItemPrepare, Prepare
  <1>8. CASE \/ FinishStream \/ StopResume \/ MaterializeOver \/ PendingOutboxReplay \/ ReplayOver
             \/ \E p \in Paths : MaterializeIntent(p)
    BY <1>8, <1>u, ZenonT(30)
       DEF FinishStream, StopResume, MaterializeOver, PendingOutboxReplay, ReplayOver, MaterializeIntent
  <1>f. CASE \/ WriterFails \/ CommitRefused \/ GapRefused \/ \E r \in 1..Len(log) : ItemRefused(r)
    BY <1>d, <1>f, Deaths, Zenon
  <1>9. CASE JournalStep
    BY <1>9, <1>f, <1>u, <1>2, <1>3, ZenonT(30)
       DEF JournalStep, JournalStart, WriterFindsPostimage, RecordFilesystemApplied, CommitApplied,
           CommitGap, RecoverReceipt, RecoverLocalIntent, FinalizeFilesystem, JournalFinalized,
           JournalRemove
  <1>10. CASE UNCHANGED vars BY <1>10, <1>u DEF vars
  <1> QED BY <1>1, <1>4, <1>5, <1>6, <1>7, <1>8, <1>9, <1>10, <1>f, ZenonT(30) DEF Next, EngineStep

\* The engine replaces or removes a file only when the file is the version the
\* server has for the path: the writer's preimage check, the journal's record of
\* the preimage and abandon together never take away what the user wrote, in
\* any interleaving and across any number of crashes.
THEOREM EngineKeepsUserContent == Spec => UserContentSafe
  <1>1. Init => ExpectedInv BY DEF Init, NoJournal, ExpectedInv
  <1>2. IInv /\ ExpectedInv /\ [Next]_vars => ExpectedInv' BY ExpectedStep DEF IInv
  <1>3. IInv /\ ExpectedInv /\ [Next]_vars => [KeepsUserContent]_vars BY KeepsStep DEF IInv
  <1>4. Spec => [][KeepsUserContent]_vars BY <1>1, <1>2, <1>3, Inductive, PTL DEF Spec
  <1> QED BY <1>4 DEF UserContentSafe, KeepsUserContent
=============================================================================
