--------------------------- MODULE SyncEngineData ---------------------------
(***************************************************************************)
(* The second half of TypeOK, DataTypes, is preserved by every step of     *)
(* SyncEngine, and with SyncEngineTypes the whole of TypeOK.               *)
(***************************************************************************)
EXTENDS SyncEngineTypes

USE ConstantsAssumption
USE DEF server, user, cursor, inbound, tables, local, apply, process, wire, drain, aux

-----------------------------------------------------------------------------
\* DataTypes.  Four groups of variables change independently of each other.
DiskTypes == /\ disk \in [Paths -> Contents] /\ tomb \in Contents
             /\ touched \in BOOLEAN /\ watch \subseteq Paths /\ edits \in 0..MaxEdits
BaseTypes == base \in [Paths -> 0..Len(log)] /\ cas \subseteq Contents \ {Gone}
LocalTypes == /\ intent \in [Paths -> Contents \cup {NoBody}]
              /\ outbox \subseteq Rows /\ ops \in [Paths -> Nat]
BoundTypes == left \in 0..MaxItemsPerCall /\ crashes \in 0..MaxCrashes /\ drops \in 0..MaxDrops

LEMMA DataParts == DataTypes <=> DiskTypes /\ BaseTypes /\ LocalTypes /\ BoundTypes
  BY DEF DataTypes, DiskTypes, BaseTypes, LocalTypes, BoundTypes

LEMMA JournalPathType == ASSUME TypeOK, AckInv, journal.on
                         PROVE  /\ JournalPath \in Paths /\ journal.rev \in 1..Len(log)
                                /\ Body(journal.rev) \in Contents
  <1>1. journal.rev \in 0..Len(log) BY DEF TypeOK, SyncTypes
  <1>2. journal.rev # 0 BY DEF AckInv, JournalInv
  <1>3. journal.rev \in 1..Len(log) BY <1>1, <1>2, LogTypes
  <1> QED BY <1>1, <1>3, LogTypes DEF JournalPath

LEMMA DiskStep == ASSUME TypeOK, AckInv, [Next]_vars PROVE DiskTypes'
  <1> DEFINE Same == UNCHANGED <<disk, touched, watch, edits, tomb>>
  <1>0. DiskTypes BY DataParts DEF TypeOK
  <1>f. Same => DiskTypes' BY <1>0 DEF DiskTypes
  <1>e. Exit /\ UNCHANGED <<disk, touched, edits, tomb>> => DiskTypes' BY <1>0 DEF DiskTypes, Exit
  <1>1. CASE \E p \in RemotePaths : ServerCommitRemote(p) BY <1>1, <1>f DEF ServerCommitRemote
  <1>2. ASSUME NEW p \in UserPaths, UserWrite(p) PROVE DiskTypes'
    <2>1. p \in Paths /\ base[p] \in 0..Len(log) BY DEF TypeOK, DataTypes
    <2>2. Body(base[p]) \in Contents /\ Gone \in Contents BY <2>1, LogTypes
    <2>3. edits \in Nat /\ edits < MaxEdits /\ edits' = edits + 1 BY <1>0, <1>2 DEF UserWrite, DiskTypes
    <2>4. -(edits + 1) \in Contents BY <2>3 DEF Contents
    <2>5. disk' \in [Paths -> Contents] BY <1>0, <1>2, <2>1, <2>2, <2>4 DEF UserWrite, DiskTypes
    <2>6. touched' \in BOOLEAN /\ watch' \subseteq Paths /\ tomb' = tomb
      BY <1>0, <1>2, <2>1 DEF UserWrite, DiskTypes
    <2>7. edits' \in 0..MaxEdits BY <2>3
    <2> QED BY <1>0, <2>5, <2>6, <2>7 DEF DiskTypes
  <1>3. CASE Crash BY <1>3, <1>e DEF Crash
  <1>d. Dies \/ HangsUp => DiskTypes' BY <1>f, <1>e, Zenon DEF Dies, HangsUp
  <1>4. CASE Drop \/ StartUp \/ Subscribe \/ Drain
    BY <1>4, <1>f DEF Drop, StartUp, Restart, RecoveryDone, Rescan, Subscribe, Drain
  <1>5. CASE Deliver
    <2>1. ASSUME NEW r \in 1..Len(log), HandLive(r) PROVE DiskTypes'
      BY <1>d, <1>f, <2>1, Deaths, HangUps, ZenonT(30) DEF HandLive, LiveEventExact, LiveEvent
    <2>2. CASE MutationResult
      BY <2>2, <1>f DEF MutationResult, MutationAccepted, MutationRejectedStale
    <2>3. CASE AckRefused \/ DeferOverflow BY <1>d, <2>3, Deaths, HangUps, Zenon
    <2> QED BY <1>5, <1>f, <2>1, <2>2, <2>3, ZenonT(30) DEF Deliver, SnapshotBegin, WorkspaceEvent,
              SnapshotEnd, DeferEvent, BlobArrives, AckConfirmed
  <1>6. CASE ReportChange
    BY <1>0, <1>6 DEF ReportChange, LocalChange, DiskTypes
  <1>7. CASE ServerAnswers BY <1>7, <1>f DEF ServerAnswers, ServerStoresAck, ServerCommitOwn
  <1>8. ASSUME NEW r \in 1..Len(log), StreamItem(r) \/ LiveItem(r) \/ ItemRefused(r)
        PROVE  DiskTypes'
    <2>0. CASE ItemRefused(r) BY <1>d, <2>0, Deaths, Zenon
    <2>1. ASSUME NEW b \in BOOLEAN, Prepare(r, b) PROVE DiskTypes'
      BY <1>0, <2>1 DEF Prepare, DiskTypes
    <2> QED BY <1>8, <1>f, <2>0, <2>1 DEF StreamItem, StreamItemExact, StreamItemCommit, StreamItemPreserve,
             StreamItemPrepare, LiveItem, LiveItemExact, LiveItemCommit, LiveItemPreserve,
             LiveItemPrepare
  <1>9. CASE \/ FinishStream \/ StopResume \/ MaterializeOver \/ PendingOutboxReplay \/ ReplayOver
             \/ \E p \in Paths : MaterializeIntent(p)
    BY <1>9, <1>f DEF FinishStream, StopResume, MaterializeOver, PendingOutboxReplay, ReplayOver,
                      MaterializeIntent
  <1>10. CASE JournalStep
    <2>1. CASE WriterApplies
      <3>1. journal.on BY <2>1 DEF WriterApplies, WriterStep, Applying
      <3>2. journal.expected \in Contents BY DEF TypeOK, SyncTypes
      <3> QED BY <1>0, <2>1, <3>1, <3>2, JournalPathType DEF WriterApplies, DiskTypes
    <2>2. CASE WriterFindsPostimage BY <1>0, <2>2 DEF WriterFindsPostimage, DiskTypes
    <2>3. CASE WriterFails \/ CommitRefused \/ GapRefused BY <1>d, <2>3, Deaths, Zenon
    <2>4. CASE RecoverMismatch \/ RecoverChanged
      <3>1. Abandon BY <2>4 DEF RecoverMismatch, RecoverChanged
      <3>2. Gone \in Contents BY LogTypes
      <3> QED BY <1>0, <3>1, <3>2 DEF Abandon, DiskTypes
    <2>5. CASE FinalizeFilesystem
      BY <1>0, <2>5, LogTypes DEF FinalizeFilesystem, DiskTypes
    <2> QED BY <1>10, <1>f, <2>1, <2>2, <2>3, <2>4, <2>5 DEF JournalStep, JournalStart,
              RecordFilesystemApplied, CommitApplied, CommitGap, RecoverReceipt,
              RecoverLocalIntent, JournalFinalized, JournalRemove
  <1>11. CASE UNCHANGED vars BY <1>11, <1>f DEF vars
  <1> QED BY <1>1, <1>2, <1>3, <1>4, <1>5, <1>6, <1>7, <1>8, <1>9, <1>10, <1>11 DEF Next, EngineStep

LEMMA BoundStep == ASSUME TypeOK, [Next]_vars PROVE BoundTypes'
  <1>0. BoundTypes BY DataParts DEF TypeOK
  <1>f. left' \in 0..MaxItemsPerCall /\ UNCHANGED <<crashes, drops>> => BoundTypes'
    BY <1>0 DEF BoundTypes
  <1>u. UNCHANGED <<left, crashes, drops>> => BoundTypes' BY <1>0 DEF BoundTypes
  <1>z. 0 \in 0..MaxItemsPerCall /\ MaxItemsPerCall \in 0..MaxItemsPerCall OBVIOUS
  <1>1. CASE \E p \in RemotePaths : ServerCommitRemote(p) BY <1>1, <1>u DEF ServerCommitRemote
  <1>2. CASE \E p \in UserPaths : UserWrite(p) BY <1>2, <1>u DEF UserWrite
  <1>3. CASE Crash BY <1>0, <1>3, <1>z DEF Crash, Exit, BoundTypes
  <1>d. Dies \/ HangsUp => BoundTypes' BY <1>f, <1>u, <1>z, Zenon DEF Dies, HangsUp, Exit, Disconnected
  <1>4. CASE Drop BY <1>0, <1>4 DEF Drop, Disconnected, BoundTypes
  <1>5. CASE StartUp \/ Subscribe
    BY <1>5, <1>u DEF StartUp, Restart, RecoveryDone, Rescan, Subscribe
  <1>6. CASE Drain BY <1>6, <1>f, <1>u, <1>z, ZenonT(30) DEF Drain, Resume
  <1>7. CASE Deliver
    <2>1. ASSUME NEW r \in 1..Len(log), HandLive(r) PROVE BoundTypes'
      BY <1>d, <1>f, <1>u, <1>z, <2>1, Deaths, HangUps, ZenonT(30)
      DEF HandLive, LiveEventExact, LiveEvent, Taken, Resume
    <2>2. CASE MutationResult
      BY <2>2, <1>u DEF MutationResult, MutationAccepted, MutationRejectedStale
    <2>3. CASE AckRefused \/ DeferOverflow BY <1>d, <2>3, Deaths, HangUps, Zenon
    <2> QED BY <1>7, <1>f, <1>u, <1>z, <2>1, <2>2, <2>3, ZenonT(30) DEF Deliver, SnapshotBegin,
              WorkspaceEvent, SnapshotEnd, DeferEvent, Resume, BlobArrives, AckConfirmed
  <1>8. CASE ReportChange BY <1>8, <1>u DEF ReportChange, LocalChange
  <1>9. CASE ServerAnswers BY <1>9, <1>u DEF ServerAnswers, ServerStoresAck, ServerCommitOwn
  <1>10. ASSUME NEW r \in 1..Len(log), StreamItem(r) \/ LiveItem(r) \/ ItemRefused(r)
         PROVE  BoundTypes'
    <2>0. CASE ItemRefused(r) BY <1>d, <2>0, Deaths, Zenon
    <2>1. ASSUME StreamItem(r) \/ LiveItem(r)
          PROVE  left > 0 /\ left' = left - 1 /\ UNCHANGED <<crashes, drops>>
      BY <2>1 DEF StreamItem, StreamItemExact, StreamItemCommit, StreamItemPreserve,
             StreamItemPrepare, LiveItem, LiveItemExact, LiveItemCommit, LiveItemPreserve,
             LiveItemPrepare, Prepare, Spend, StreamStep, LiveStep
    <2> QED BY <1>0, <1>10, <2>0, <2>1 DEF BoundTypes
  <1>11. CASE \/ FinishStream \/ StopResume \/ MaterializeOver \/ PendingOutboxReplay \/ ReplayOver
              \/ \E p \in Paths : MaterializeIntent(p)
    BY <1>11, <1>f, <1>u, <1>z DEF FinishStream, StopResume, Return, MaterializeOver,
              PendingOutboxReplay, ReplayOver, Resume, MaterializeIntent
  <1>12. CASE JournalStep
    <2>1. CASE WriterFails \/ CommitRefused \/ GapRefused BY <1>d, <2>1, Deaths, Zenon
    <2> QED BY <1>12, <1>u, <2>1 DEF JournalStep, JournalStart, WriterApplies, WriterFindsPostimage,
              RecordFilesystemApplied, CommitApplied, CommitGap, RecoverMismatch, RecoverReceipt,
              RecoverChanged, Abandon, RecoverLocalIntent, FinalizeFilesystem, JournalFinalized,
              JournalRemove
  <1>13. CASE UNCHANGED vars BY <1>13, <1>u DEF vars
  <1> QED BY <1>1, <1>2, <1>3, <1>4, <1>5, <1>6, <1>7, <1>8, <1>9, <1>10, <1>11, <1>12, <1>13
          DEF Next, EngineStep

LEMMA BaseStep == ASSUME TypeOK, AckInv, [Next]_vars PROVE BaseTypes'
  <1>0. BaseTypes /\ Len(log) \in Nat BY DataParts, LogTypes DEF TypeOK
  <1>u. UNCHANGED <<base, cas, log>> => BaseTypes' BY <1>0 DEF BaseTypes
  <1>c. UNCHANGED <<base, log>> /\ cas' \subseteq Contents \ {Gone} => BaseTypes'
    BY <1>0 DEF BaseTypes
  <1>d. \A P \in SUBSET Paths : Staged(P) \subseteq Contents \ {Gone} BY StagedType DEF TypeOK
  <1>r. \A P \in SUBSET Paths : RecordLocalChanges(P) => cas' \subseteq Contents \ {Gone}
    BY <1>d DEF RecordLocalChanges
  <1>s. ASSUME NEW r \in 1..Len(log), Settle(r), UNCHANGED log,
               cas' \in {cas, Staged({PathOf(r)})}
        PROVE  BaseTypes'
    <2>1. PathOf(r) \in Paths /\ r \in 0..Len(log) BY <1>0, LogTypes
    <2>2. cas' \subseteq Contents \ {Gone} BY <1>0, <1>d, <1>s, <2>1 DEF BaseTypes
    <2>3. base' \in [Paths -> 0..Len(log)] BY <1>0, <1>s, <2>1 DEF Settle, BaseTypes
    <2> QED BY <1>s, <2>2, <2>3 DEF BaseTypes
  <1>l. ASSUME NEW e, log' = Append(log, e), UNCHANGED tables, SyncTypes PROVE BaseTypes'
    <2>1. Len(log') = Len(log) + 1 BY <1>l DEF SyncTypes
    <2>2. 0..Len(log) \subseteq 0..Len(log') BY <1>0, <2>1
    <2> QED BY <1>0, <1>l, <2>2 DEF BaseTypes
  <1>1. CASE \E p \in RemotePaths : ServerCommitRemote(p)
    BY <1>1, <1>l DEF ServerCommitRemote, TypeOK
  <1>2. CASE \E p \in UserPaths : UserWrite(p) BY <1>2, <1>u DEF UserWrite
  <1>x. Dies \/ HangsUp => BaseTypes' BY <1>u, Zenon DEF Dies, HangsUp
  <1>3. CASE Crash \/ Drop \/ Subscribe \/ Drain
    BY <1>3, <1>u DEF Crash, Drop, Subscribe, Drain
  <1>4. CASE StartUp
    <2>1. CASE Rescan
      <3>1. Paths \in SUBSET Paths OBVIOUS
      <3> QED BY <1>c, <1>d, <2>1, <3>1 DEF Rescan
    <2> QED BY <1>4, <1>u, <2>1 DEF StartUp, Restart, RecoveryDone
  <1>5. CASE Deliver
    <2>1. CASE WorkspaceEvent
      <3>1. next \in 1..Len(log)
        <4>1. conn = "items" /\ next <= stream.final BY <2>1 DEF WorkspaceEvent
        <4>2. stream.from < next BY <4>1 DEF AckInv, StreamInv
        <4>3. /\ next \in 0..(Len(log) + 1) /\ stream.final \in 0..Len(log)
              /\ stream.from \in 0..Len(log)
          BY DEF TypeOK, SyncTypes
        <4> QED BY <1>0, <4>1, <4>2, <4>3
      <3>2. {PathOf(next)} \in SUBSET Paths BY <3>1, LogTypes
      <3>3. cas' \in {cas, Staged({PathOf(next)})} /\ UNCHANGED <<base, log>>
        BY <2>1 DEF WorkspaceEvent
      <3> QED BY <1>0, <1>c, <1>d, <3>2, <3>3 DEF BaseTypes
    <2>2. ASSUME NEW r \in 1..Len(log), BlobArrives(r) PROVE BaseTypes'
      <3>1. r \in 0..Len(log) BY <1>0
      <3>2. Body(r) \in Contents \ {Gone} BY <2>2, <3>1, LogTypes DEF BlobArrives, ContentAvailable
      <3> QED BY <1>0, <1>c, <2>2, <3>2 DEF BlobArrives, BaseTypes
    <2>3. ASSUME NEW row \in outbox, MutationAccepted(row) PROVE BaseTypes'
      BY <1>s, <2>3 DEF MutationAccepted
    <2>4. ASSUME NEW row \in outbox, MutationRejectedStale(row) PROVE BaseTypes'
      <3>1. PICK current \in 0..Len(log) : base' = [base EXCEPT ![row.path] = current]
        BY <2>4 DEF MutationRejectedStale
      <3>2. UNCHANGED <<cas, log>> BY <2>4 DEF MutationRejectedStale
      <3> QED BY <1>0, <3>1, <3>2 DEF BaseTypes
    <2>5. ASSUME NEW r \in 1..Len(log), HandLive(r) PROVE BaseTypes'
      BY <1>x, <1>u, <2>5, Deaths, HangUps, ZenonT(30) DEF HandLive, LiveEventExact, LiveEvent
    <2>6. CASE AckRefused \/ DeferOverflow BY <1>x, <2>6, Deaths, HangUps, Zenon
    <2> QED BY <1>5, <1>u, <2>1, <2>2, <2>3, <2>4, <2>5, <2>6, ZenonT(30) DEF Deliver, SnapshotBegin,
              SnapshotEnd, DeferEvent, AckConfirmed, MutationResult
  <1>6. CASE ReportChange BY <1>c, <1>r, <1>6 DEF ReportChange, LocalChange
  <1>7. CASE ServerAnswers
    <2>1. CASE ServerStoresAck BY <1>u, <2>1 DEF ServerStoresAck
    <2>2. ASSUME NEW row \in outbox, ServerCommitOwn(row) PROVE BaseTypes'
      BY <1>l, <2>2 DEF ServerCommitOwn, TypeOK
    <2> QED BY <1>7, <2>1, <2>2 DEF ServerAnswers
  <1>8. ASSUME NEW r \in 1..Len(log), StreamItem(r) \/ LiveItem(r) \/ ItemRefused(r)
        PROVE  BaseTypes'
    <2>0. CASE ItemRefused(r) BY <1>x, <2>0, Deaths, Zenon
    <2>1. {PathOf(r)} \in SUBSET Paths BY LogTypes
    <2>2. ASSUME NEW b \in BOOLEAN, Prepare(r, b) PROVE BaseTypes'
      BY <1>c, <1>d, <2>1, <2>2 DEF Prepare
    <2> QED BY <1>8, <1>u, <1>s, <2>0, <2>2 DEF StreamItem, StreamItemExact, StreamItemCommit,
             StreamItemPreserve, StreamItemPrepare, LiveItem, LiveItemExact, LiveItemCommit,
             LiveItemPreserve, LiveItemPrepare, CommitStreamEvent, CommitLiveEvent
  <1>9. CASE \/ FinishStream \/ StopResume \/ MaterializeOver \/ PendingOutboxReplay \/ ReplayOver
             \/ \E p \in Paths : MaterializeIntent(p)
    BY <1>9, <1>u DEF FinishStream, StopResume, MaterializeOver, PendingOutboxReplay, ReplayOver,
                      MaterializeIntent
  <1>10. CASE JournalStep
    <2>1. CASE CommitApplied \/ CommitGap
      <3>1. journal.rev \in 1..Len(log)
        BY <2>1, JournalPathType DEF CommitApplied, CommitGap, Applying
      <3>2. Settle(journal.rev) /\ UNCHANGED <<cas, log>>
        BY <2>1 DEF CommitApplied, CommitGap, CommitLiveEvent, CommitStreamEvent
      <3> QED BY <1>s, <3>1, <3>2
    <2>2. CASE RecoverLocalIntent
      <3>1. {JournalPath} \in SUBSET Paths BY <2>2, JournalPathType DEF RecoverLocalIntent, Applying
      <3> QED BY <1>c, <1>r, <2>2, <3>1 DEF RecoverLocalIntent
    <2>3. CASE WriterFails \/ CommitRefused \/ GapRefused BY <1>x, <2>3, Deaths, Zenon
    <2> QED BY <1>10, <1>u, <2>1, <2>2, <2>3 DEF JournalStep, JournalStart, WriterApplies,
              WriterFindsPostimage, RecordFilesystemApplied, RecoverMismatch,
              RecoverReceipt, RecoverChanged, Abandon, FinalizeFilesystem, JournalFinalized,
              JournalRemove
  <1>11. CASE UNCHANGED vars BY <1>11, <1>u DEF vars
  <1> QED BY <1>1, <1>2, <1>3, <1>4, <1>5, <1>6, <1>7, <1>8, <1>9, <1>10, <1>11 DEF Next, EngineStep

LEMMA LocalStep == ASSUME TypeOK, AckInv, [Next]_vars PROVE LocalTypes'
  <1>0. LocalTypes /\ Len(log) \in Nat BY DataParts, LogTypes DEF TypeOK
  <1>u. UNCHANGED local => LocalTypes' BY <1>0 DEF LocalTypes
  <1>m. \A p \in Paths : Materialize(p) => LocalTypes' BY MaterializeType DEF LocalTypes
  <1>e. \A P \in SUBSET Paths : RecordEntries(P) => LocalTypes' BY EntriesType DEF LocalTypes
  <1>r. \A P \in SUBSET Paths : RecordLocalChanges(P) => LocalTypes' BY RecordType DEF LocalTypes
  <1>o. \A r : RemoveOwnRow(r) => LocalTypes' BY <1>0 DEF RemoveOwnRow, LocalTypes
  <1>1. CASE \E p \in RemotePaths : ServerCommitRemote(p) BY <1>1, <1>u DEF ServerCommitRemote
  <1>2. CASE \E p \in UserPaths : UserWrite(p) BY <1>2, <1>u DEF UserWrite
  <1>x. Dies \/ HangsUp => LocalTypes' BY <1>u, Zenon DEF Dies, HangsUp
  <1>3. CASE Crash \/ Drop \/ Subscribe \/ Drain
    BY <1>3, <1>u DEF Crash, Drop, Subscribe, Drain
  <1>4. CASE StartUp
    <2>1. CASE Rescan BY <1>e, <2>1 DEF Rescan
    <2> QED BY <1>4, <1>u, <2>1 DEF StartUp, Restart, RecoveryDone
  <1>5. CASE Deliver
    <2>1. ASSUME NEW row \in outbox PROVE row.path \in Paths /\ row.body \in Contents
      BY <1>0, <2>1 DEF LocalTypes, Rows
    <2>2. ASSUME NEW row \in outbox, MutationAccepted(row) PROVE LocalTypes'
      <3>1. PICK r \in 1..Len(log) : Requeue(row.path, r, {row}, intent[row.path])
        BY <2>2 DEF MutationAccepted
      <3>2. r \in 0..Len(log) BY <1>0
      <3>3. intent[row.path] \in Contents \cup {NoBody} BY <1>0, <2>1 DEF LocalTypes
      <3> QED BY <2>1, <3>1, <3>2, <3>3, RequeueType DEF LocalTypes
    <2>3. ASSUME NEW row \in outbox, MutationRejectedStale(row) PROVE LocalTypes'
      <3> DEFINE d == IF intent[row.path] # NoBody THEN intent[row.path] ELSE row.body
      <3>1. PICK current \in 0..Len(log) : Requeue(row.path, current, {row}, d)
        BY <2>3 DEF MutationRejectedStale
      <3>2. d \in Contents \cup {NoBody} BY <1>0, <2>1 DEF LocalTypes
      <3> HIDE DEF d
      <3> QED BY <2>1, <3>1, <3>2, RequeueType DEF LocalTypes
    <2>4. ASSUME NEW r \in 1..Len(log), HandLive(r) PROVE LocalTypes'
      BY <1>x, <1>u, <2>4, Deaths, HangUps, ZenonT(30) DEF HandLive, LiveEventExact, LiveEvent
    <2>5. CASE AckRefused \/ DeferOverflow BY <1>x, <2>5, Deaths, HangUps, Zenon
    <2> QED BY <1>5, <1>u, <2>2, <2>3, <2>4, <2>5, ZenonT(30) DEF Deliver, SnapshotBegin,
              WorkspaceEvent, SnapshotEnd, DeferEvent, BlobArrives, AckConfirmed, MutationResult
  <1>6. CASE ReportChange BY <1>r, <1>6 DEF ReportChange, LocalChange
  <1>7. CASE ServerAnswers BY <1>7, <1>u DEF ServerAnswers, ServerStoresAck, ServerCommitOwn
  <1>8. ASSUME NEW r \in 1..Len(log), StreamItem(r) \/ LiveItem(r) \/ ItemRefused(r)
        PROVE  LocalTypes'
    <2>0. CASE ItemRefused(r) BY <1>x, <2>0, Deaths, Zenon
    <2>1. ASSUME PreserveLocal(r) PROVE LocalTypes'
      <3> DEFINE p == PathOf(r)
                 d == IF intent[p] # NoBody THEN intent[p] ELSE disk[p]
      <3>1. p \in Paths /\ r \in 0..Len(log) BY <1>0, LogTypes
      <3>2. d \in Contents \cup {NoBody} BY <3>1 DEF TypeOK, DataTypes
      <3>3. Requeue(p, r, OwnRows(r), d) BY <2>1 DEF PreserveLocal
      <3> HIDE DEF p, d
      <3> QED BY <3>1, <3>2, <3>3, RequeueType DEF LocalTypes
    <2> QED BY <1>8, <1>u, <1>o, <2>0, <2>1 DEF StreamItem, StreamItemExact, StreamItemCommit,
             StreamItemPreserve, StreamItemPrepare, LiveItem, LiveItemExact, LiveItemCommit,
             LiveItemPreserve, LiveItemPrepare, Prepare
  <1>9. CASE \/ FinishStream \/ StopResume \/ MaterializeOver \/ ReplayOver
             \/ \E p \in Paths : MaterializeIntent(p)
    BY <1>9, <1>u, <1>m DEF FinishStream, StopResume, MaterializeOver, ReplayOver, MaterializeIntent
  <1>10. CASE PendingOutboxReplay
    <2>1. \A row \in outbox : [row EXCEPT !.sent = TRUE] \in Rows BY <1>0 DEF LocalTypes, Rows
    <2> QED BY <1>0, <1>10, <2>1 DEF PendingOutboxReplay, LocalTypes
  <1>11. CASE JournalStep
    <2>1. CASE RecoverLocalIntent
      <3>1. {JournalPath} \in SUBSET Paths BY <2>1, JournalPathType DEF RecoverLocalIntent, Applying
      <3> QED BY <1>r, <2>1, <3>1 DEF RecoverLocalIntent
    <2>2. CASE WriterFails \/ CommitRefused \/ GapRefused BY <1>x, <2>2, Deaths, Zenon
    <2> QED BY <1>11, <1>u, <1>o, <2>1, <2>2 DEF JournalStep, JournalStart, WriterApplies,
              WriterFindsPostimage, RecordFilesystemApplied, CommitApplied, CommitGap,
              RecoverMismatch, RecoverReceipt, RecoverChanged, Abandon, FinalizeFilesystem,
              JournalFinalized, JournalRemove
  <1>12. CASE UNCHANGED vars BY <1>12, <1>u DEF vars
  <1> QED BY <1>1, <1>2, <1>3, <1>4, <1>5, <1>6, <1>7, <1>8, <1>9, <1>10, <1>11, <1>12
          DEF Next, EngineStep

LEMMA TypeInit == ASSUME Init PROVE TypeOK
  <1>1. log \in Seq(Entries) /\ Len(log) = 0 BY DEF Init
  <1>2. Gone \in Contents /\ NoJournal.expected \in Contents BY DEF Contents, Gone, NoJournal
  <1>3. stream \in [on : BOOLEAN, from : 0..Len(log), final : 0..Len(log), ended : BOOLEAN]
    BY <1>1 DEF Init, NoStream
  <1>4. item \in [Revs -> Statuses] BY DEF Init, NoItems, Statuses
  <1>5. journal \in [on : BOOLEAN, rev : 0..Len(log), live : BOOLEAN, stage : Stages,
                     expected : Contents, receipt : {"none", "post", "empty"}]
    BY <1>1, <1>2 DEF Init, NoJournal, Stages
  <1>6. live = <<>> /\ deferred = <<>> BY DEF Init
  <1>q. SyncQueues
    <2>1. Len(log) \in Nat BY <1>1
    <2>2. QueueOf(<<>>, Len(log)) /\ Len(<<>>) = 0 BY <2>1, QueueEmpty
    <2> QED BY <1>6, <2>2 DEF SyncQueues
  <1>7. SyncTypes
    <2>1. /\ lastAck = 0 /\ lastApplied = 0 /\ pendingAck = 0 /\ segmentAck = 0 /\ serverAck = 0
          /\ ackSent = 0 /\ ackStored = FALSE /\ receipts = {} /\ overtaken = {}
          /\ next = 0 /\ budget = 0
          /\ outcome = "none" /\ engine = "down" /\ call = "idle" /\ conn = "off"
      BY DEF Init
    <2>2. /\ 0 \in 0..Len(log) /\ 0 \in 0..(Len(log) + 1) /\ Len(log) <= MaxRev
          /\ 0 \in 0..MaxDrainItems
      BY <1>1
    <2>3. SyncScalars BY <1>1, <1>3, <1>4, <1>5, <2>1, <2>2 DEF SyncScalars
    <2> QED BY <1>q, <2>3, SyncParts
  <1>8. DataTypes
    <2>1. DiskTypes
      <3>1. disk \in [Paths -> Contents] /\ tomb \in Contents BY <1>2 DEF Init
      <3>2. touched = FALSE /\ watch = {} /\ edits = 0 BY DEF Init
      <3>3. edits \in 0..MaxEdits BY <3>2
      <3>4. touched \in BOOLEAN /\ watch \subseteq Paths BY <3>2
      <3> QED BY <3>1, <3>3, <3>4 DEF DiskTypes
    <2>2. BaseTypes BY <1>1 DEF Init, BaseTypes
    <2>3. LocalTypes BY DEF Init, LocalTypes
    <2>4. BoundTypes BY DEF Init, BoundTypes
    <2> QED BY <2>1, <2>2, <2>3, <2>4, DataParts
  <1> QED BY <1>7, <1>8 DEF TypeOK

LEMMA TypeStep == ASSUME TypeOK, AckInv, [Next]_vars PROVE TypeOK'
  <1>1. DataTypes'
    <2>1. DataTypes' <=> DiskTypes' /\ BaseTypes' /\ LocalTypes' /\ BoundTypes'
      BY DEF DataTypes, DiskTypes, BaseTypes, LocalTypes, BoundTypes
    <2> QED BY <2>1, DiskStep, BaseStep, LocalStep, BoundStep
  <1> QED BY <1>1, SyncTypesStep DEF TypeOK
=============================================================================
