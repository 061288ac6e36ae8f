-------------------------- MODULE SyncEngineTypes ---------------------------
(***************************************************************************)
(* The first half of TypeOK, SyncTypes, is preserved by every step of      *)
(* SyncEngine.  A commit of the journal's revision keeps its type only     *)
(* because AckInv says the revision is a real one, so AckInv is an         *)
(* assumption here and proved inductive in SyncEngineProofs.               *)
(***************************************************************************)
EXTENDS SyncEngine, TLAPS

USE ConstantsAssumption
USE DEF server, user, cursor, inbound, tables, local, apply, process, wire, drain, aux

-----------------------------------------------------------------------------
\* What the readers return.
LEMMA LogTypes ==
    ASSUME TypeOK
    PROVE  /\ Len(log) \in Nat /\ Len(log) <= MaxRev
           /\ \A r \in 1..Len(log) : PathOf(r) \in Paths /\ r \in Revs /\ r \in Nat
           /\ \A r \in 0..Len(log) : Body(r) \in Contents
           /\ Gone \in Contents
  <1>1. log \in Seq(Entries) /\ Len(log) \in Nat /\ Len(log) <= MaxRev BY DEF TypeOK, SyncTypes
  <1>2. \A r \in 1..Len(log) : log[r] \in Entries BY <1>1
  <1>3. Gone \in Contents BY DEF Gone, Contents
  <1>4. \A r \in 0..Len(log) : Body(r) \in Contents
    BY <1>1, <1>2, <1>3 DEF Body, Entries
  <1>5. \A r \in 1..Len(log) : PathOf(r) \in Paths /\ r \in Revs /\ r \in Nat
    BY <1>1, <1>2 DEF PathOf, Entries, Revs
  <1> QED BY <1>1, <1>3, <1>4, <1>5

LEMMA StagedType ==
    ASSUME DataTypes, NEW P \in SUBSET Paths
    PROVE  Staged(P) \subseteq Contents \ {Gone}
  BY DEF DataTypes, Staged

LEMMA NewRowType ==
    ASSUME TypeOK, NEW p \in Paths, NEW d \in Contents, NEW b \in 0..Len(log)
    PROVE  NewRow(p, d, b) \in Rows
  <1>1. b \in 0..MaxRev BY LogTypes
  <1>2. ops[p] + 1 \in Nat BY DEF TypeOK, DataTypes
  <1> QED BY <1>1, <1>2 DEF NewRow, Rows

LEMMA RequeueType ==
    ASSUME TypeOK, NEW p \in Paths, NEW r \in 0..Len(log), NEW done,
           NEW d \in Contents \cup {NoBody}, Requeue(p, r, done, d)
    PROVE  /\ outbox' \subseteq Rows /\ ops' \in [Paths -> Nat]
           /\ intent' \in [Paths -> Contents \cup {NoBody}]
  <1>1. d # NoBody => NewRow(p, d, r) \in Rows BY NewRowType
  <1>2. outbox' \subseteq Rows BY <1>1 DEF Requeue, TypeOK, DataTypes
  <1>3. ops' \in [Paths -> Nat] BY DEF Requeue, TypeOK, DataTypes
  <1>4. intent' \in [Paths -> Contents \cup {NoBody}] BY DEF Requeue, TypeOK, DataTypes
  <1> QED BY <1>2, <1>3, <1>4

LEMMA MaterializeType ==
    ASSUME TypeOK, NEW p \in Paths, Materialize(p)
    PROVE  /\ outbox' \subseteq Rows /\ ops' \in [Paths -> Nat]
           /\ intent' \in [Paths -> Contents \cup {NoBody}]
  <1>1. intent[p] # NoBody => NewRow(p, intent[p], base[p]) \in Rows
    BY NewRowType DEF TypeOK, DataTypes
  <1>2. outbox' \subseteq Rows BY <1>1 DEF Materialize, IntentDue, TypeOK, DataTypes
  <1>3. ops' \in [Paths -> Nat] BY DEF Materialize, TypeOK, DataTypes
  <1>4. intent' \in [Paths -> Contents \cup {NoBody}] BY DEF Materialize, TypeOK, DataTypes
  <1> QED BY <1>2, <1>3, <1>4

LEMMA EntriesType ==
    ASSUME TypeOK, NEW P \in SUBSET Paths, RecordEntries(P)
    PROVE  /\ outbox' \subseteq Rows /\ ops' \in [Paths -> Nat]
           /\ intent' \in [Paths -> Contents \cup {NoBody}]
  <1>2. \A p \in P : NewRow(p, disk[p], base[p]) \in Rows
    BY NewRowType DEF TypeOK, DataTypes
  <1>3. CASE stream.on
    BY <1>3 DEF RecordEntries, DeferDesired, TypeOK, DataTypes
  <1>4. CASE ~stream.on
    <2>1. RecordDesired(P) BY <1>4 DEF RecordEntries
    <2>2. outbox' \subseteq Rows BY <1>2, <2>1 DEF RecordDesired, TypeOK, DataTypes
    <2>3. ops' \in [Paths -> Nat] BY <2>1 DEF RecordDesired, TypeOK, DataTypes
    <2>4. intent' \in [Paths -> Contents \cup {NoBody}]
      BY <2>1 DEF RecordDesired, TypeOK, DataTypes
    <2> QED BY <2>2, <2>3, <2>4
  <1> QED BY <1>3, <1>4

LEMMA RecordType ==
    ASSUME TypeOK, NEW P \in SUBSET Paths, RecordLocalChanges(P)
    PROVE  /\ outbox' \subseteq Rows /\ ops' \in [Paths -> Nat]
           /\ intent' \in [Paths -> Contents \cup {NoBody}]
           /\ cas' \subseteq Contents \ {Gone}
  BY EntriesType, StagedType DEF RecordLocalChanges, TypeOK

-----------------------------------------------------------------------------
\* The errors that end the process, and those that end the connection.
Dies == Exit /\ UNCHANGED <<server, disk, touched, edits, cursor, stream, item, tables, local,
                            journal, tomb, aux>>
HangsUp == Disconnected /\ UNCHANGED <<server, user, cursor, inbound, tables, local, apply, aux>>

LEMMA Deaths ==
    ASSUME \/ WriterFails \/ CommitRefused \/ GapRefused \/ AckRefused
           \/ \E r \in 1..Len(log) : LiveEventRefused(r) \/ ItemRefused(r)
    PROVE  Dies
  BY ZenonT(30) DEF Dies, WriterFails, CommitRefused, GapRefused, AckRefused, LiveEventRefused,
         ItemRefused

LEMMA HangUps == ASSUME DeferOverflow \/ \E r \in 1..Len(log) : LiveOverflow(r) PROVE HangsUp
  BY ZenonT(30) DEF HangsUp, DeferOverflow, LiveOverflow

-----------------------------------------------------------------------------
\* SyncTypes, action by action.
syncVars == <<log, serverAck, cursor, stream, item, live, receipts, journal, outcome,
              engine, call, wire, overtaken>>

\* A queue of revisions, as it was when the log was shorter, emptied, with one
\* more or without its head.
QueueOf(q, n) == q \in Seq(1..n)

LEMMA QueueGrows ==
    ASSUME NEW m \in Nat, NEW n \in Nat, m <= n, NEW q, QueueOf(q, m) PROVE QueueOf(q, n)
  <1>1. 1..m \subseteq 1..n OBVIOUS
  <1> QED BY <1>1 DEF QueueOf

LEMMA QueueTail ==
    ASSUME NEW n \in Nat, NEW q, QueueOf(q, n), q # <<>>
    PROVE  QueueOf(Tail(q), n) /\ Len(Tail(q)) = Len(q) - 1 /\ Len(q) \in Nat
  BY DEF QueueOf

LEMMA QueueAppend ==
    ASSUME NEW n \in Nat, NEW q, QueueOf(q, n), NEW r \in 1..n
    PROVE  QueueOf(Append(q, r), n) /\ Len(Append(q, r)) = Len(q) + 1 /\ Len(q) \in Nat
  BY DEF QueueOf

LEMMA QueueEmpty == ASSUME NEW n \in Nat PROVE QueueOf(<<>>, n) /\ Len(<<>>) = 0
  BY DEF QueueOf

\* SyncTypes with its two queues named.
SyncScalars ==
    /\ log \in Seq(Entries) /\ Len(log) <= MaxRev
    /\ lastAck \in 0..Len(log) /\ lastApplied \in 0..Len(log)
    /\ pendingAck \in 0..Len(log) /\ segmentAck \in 0..Len(log)
    /\ serverAck \in 0..Len(log) /\ ackSent \in 0..Len(log) /\ ackStored \in BOOLEAN
    /\ stream \in [on : BOOLEAN, from : 0..Len(log), final : 0..Len(log), ended : BOOLEAN]
    /\ item \in [Revs -> Statuses]
    /\ receipts \subseteq 1..Len(log) /\ overtaken \subseteq 1..Len(log)
    /\ journal \in [on : BOOLEAN, rev : 0..Len(log), live : BOOLEAN, stage : Stages,
                    expected : Contents, receipt : {"none", "post", "empty"}]
    /\ outcome \in {"none", "applied", "preserved", "kept"}
    /\ engine \in {"down", "recovering", "scanning", "open"}
    /\ call \in {"idle", "handler", "poll", "finish", "finish_poll", "intents", "replay",
                 "deferred", "replaying"}
    /\ budget \in 0..MaxDrainItems
    /\ conn \in {"off", "begin", "items", "tail"} /\ next \in 0..(Len(log) + 1)
SyncQueues ==
    /\ QueueOf(live, Len(log)) /\ Len(live) <= MaxPendingLive
    /\ QueueOf(deferred, Len(log)) /\ Len(deferred) <= MaxDeferred

LEMMA SyncParts == (SyncTypes <=> SyncScalars /\ SyncQueues) /\ (SyncTypes' <=> (SyncScalars' /\ SyncQueues'))
  BY ZenonT(30) DEF SyncTypes, SyncScalars, SyncQueues, QueueOf

LEMMA LogNat == ASSUME SyncTypes PROVE Len(log) \in Nat
  BY DEF SyncTypes

\* A queue that is kept or emptied, over the same log.
LEMMA QueuesKept ==
    ASSUME SyncTypes, UNCHANGED log, live' \in {live, <<>>}, deferred' \in {deferred, <<>>}
    PROVE  SyncQueues'
  <1>1. Len(log) \in Nat /\ SyncQueues BY SyncParts, LogNat
  <1>2. QueueOf(<<>>, Len(log)) /\ Len(<<>>) = 0 BY <1>1, QueueEmpty
  <1> QED BY <1>1, <1>2 DEF SyncQueues

LEMMA SyncFrame == ASSUME SyncTypes, UNCHANGED syncVars PROVE SyncTypes'
  <1>1. SyncScalars /\ SyncQueues BY SyncParts
  <1>2. SyncScalars' BY <1>1, ZenonT(30), SMTT(30) DEF SyncScalars, syncVars
  <1>3. SyncQueues' BY <1>1, ZenonT(30), SMTT(30) DEF SyncQueues, syncVars
  <1> QED BY <1>2, <1>3, SyncParts

\* Memory and session restart from nothing, or go on.
LEMMA ResetSync ==
    ASSUME SyncTypes,
           UNCHANGED <<server, cursor, stream, item, receipts, journal, overtaken>>,
           live' \in {live, <<>>}, deferred' \in {deferred, <<>>}, budget' \in {budget, 0},
           outcome' \in {outcome, "none"},
           engine' \in {"down", "recovering", "scanning", "open"},
           call' \in {call, "idle", "handler"},
           conn' \in {conn, "off", "begin"}, next' \in {next, 0}, ackSent' \in {ackSent, 0},
           ackStored' \in BOOLEAN
    PROVE  SyncTypes'
  <1>1. Len(log) \in Nat /\ SyncScalars BY SyncParts, LogNat
  <1>2. SyncQueues' BY QueuesKept
  <1>3. /\ outcome' \in {"none", "applied", "preserved", "kept"}
        /\ call' \in {"idle", "handler", "poll", "finish", "finish_poll", "intents", "replay",
                      "deferred", "replaying"}
        /\ conn' \in {"off", "begin", "items", "tail"}
    BY <1>1 DEF SyncScalars
  <1>4. next' \in 0..(Len(log') + 1) /\ ackSent' \in 0..Len(log') /\ budget' \in 0..MaxDrainItems
    <2>1. /\ next \in 0..(Len(log) + 1) /\ ackSent \in 0..Len(log) /\ log' = log
          /\ budget \in 0..MaxDrainItems
      BY <1>1 DEF SyncScalars
    <2>2. 0 \in 0..(Len(log) + 1) /\ 0 \in 0..Len(log) /\ 0 \in 0..MaxDrainItems BY <1>1
    <2> QED BY <2>1, <2>2
  <1>5. SyncScalars' BY <1>1, <1>3, <1>4 DEF SyncScalars
  <1> QED BY <1>2, <1>5, SyncParts

\* The log grows.
LEMMA AppendSync ==
    ASSUME SyncTypes, NEW e \in Entries, Len(log) < MaxRev, log' = Append(log, e),
           UNCHANGED <<serverAck, cursor, stream, item, live, receipts, journal, outcome,
                       engine, call, wire, overtaken>>
    PROVE  SyncTypes'
  <1>0. SyncScalars /\ SyncQueues BY SyncParts
  <1>1. log' \in Seq(Entries) /\ Len(log') = Len(log) + 1 /\ Len(log) \in Nat
    BY <1>0 DEF SyncScalars
  <1>2. 0..Len(log) \subseteq 0..Len(log') /\ 1..Len(log) \subseteq 1..Len(log') BY <1>1
  <1>3. SyncQueues' BY <1>0, <1>1, QueueGrows DEF SyncQueues
  <1>6. stream' \in [on : BOOLEAN, from : 0..Len(log'), final : 0..Len(log'), ended : BOOLEAN]
    BY <1>0, <1>2 DEF SyncScalars
  <1>7. journal' \in [on : BOOLEAN, rev : 0..Len(log'), live : BOOLEAN, stage : Stages,
                      expected : Contents, receipt : {"none", "post", "empty"}]
    BY <1>0, <1>2 DEF SyncScalars
  <1>8. next' \in 0..(Len(log') + 1) BY <1>0, <1>1 DEF SyncScalars
  <1>9. SyncScalars' BY <1>0, <1>1, <1>2, <1>6, <1>7, <1>8, SMTT(60) DEF SyncScalars
  <1> QED BY <1>3, <1>9, SyncParts

LEMMA ServerSync ==
    ASSUME TypeOK,
           \/ \E p \in RemotePaths : ServerCommitRemote(p)
           \/ ServerAnswers
    PROVE  SyncTypes'
  <1>1. ASSUME NEW p \in RemotePaths, ServerCommitRemote(p) PROVE SyncTypes'
    <2>1. PICK body \in {Len(log) + 1, Gone} : log' = Append(log, Entry(p, body, FALSE, 0))
      BY <1>1 DEF ServerCommitRemote
    <2>2. Len(log) < MaxRev BY <1>1 DEF ServerCommitRemote
    <2>3. body \in Contents BY <2>2, LogTypes DEF Contents, Gone
    <2>4. Entry(p, body, FALSE, 0) \in Entries BY <2>3 DEF Entry, Entries
    <2> QED BY <1>1, <2>1, <2>2, <2>4, AppendSync DEF ServerCommitRemote, TypeOK
  <1>2. ASSUME NEW row \in outbox, ServerCommitOwn(row) PROVE SyncTypes'
    <2>1. Entry(row.path, row.body, TRUE, row.op) \in Entries
      BY DEF Entry, Entries, Rows, TypeOK, DataTypes
    <2> QED BY <1>2, <2>1, AppendSync DEF ServerCommitOwn, TypeOK
  <1>3. ASSUME ServerStoresAck PROVE SyncTypes'
    <2>1. SyncTypes /\ SyncScalars BY SyncParts DEF TypeOK
    <2>2. SyncQueues' BY <1>3, <2>1, QueuesKept DEF ServerStoresAck
    <2>3. SyncScalars' BY <1>3, <2>1 DEF ServerStoresAck, SyncScalars
    <2> QED BY <2>2, <2>3, SyncParts
  <1> QED BY <1>1, <1>2, <1>3 DEF ServerAnswers

\* The process and the connection end or start.
LEMMA ExitSync == ASSUME TypeOK, Exit,
                         UNCHANGED <<server, cursor, stream, item, receipts, journal, overtaken>>
                  PROVE  SyncTypes'
  BY ResetSync DEF Exit, TypeOK

LEMMA DisconnectedSync ==
    ASSUME TypeOK, Disconnected,
           UNCHANGED <<server, cursor, inbound, receipts, journal, outcome, overtaken>>
    PROVE  SyncTypes'
  <1>1. engine \in {"down", "recovering", "scanning", "open"} BY DEF TypeOK, SyncTypes
  <1>2. call' \in {call, "idle", "handler"} BY DEF Disconnected
  <1> QED BY <1>1, <1>2, ResetSync DEF Disconnected, TypeOK

LEMMA ProcessSync ==
    ASSUME TypeOK,
           \/ Crash \/ WriterFails \/ CommitRefused \/ GapRefused \/ AckRefused
           \/ \E r \in 1..Len(log) : LiveEventRefused(r) \/ ItemRefused(r) \/ LiveOverflow(r)
           \/ Drop \/ DeferOverflow \/ StartUp \/ Subscribe
    PROVE  SyncTypes'
  <1>1. CASE Crash BY <1>1, ExitSync DEF Crash
  <1>2. CASE \/ WriterFails \/ CommitRefused \/ GapRefused \/ AckRefused
             \/ \E r \in 1..Len(log) : LiveEventRefused(r) \/ ItemRefused(r)
    <2>1. Dies BY <1>2, Deaths, Zenon
    <2> QED BY <2>1, ExitSync DEF Dies
  <1>3. CASE Drop \/ DeferOverflow \/ \E r \in 1..Len(log) : LiveOverflow(r)
    <2>1. CASE Drop BY <2>1, DisconnectedSync DEF Drop
    <2>2. HangsUp => SyncTypes' BY DisconnectedSync DEF HangsUp
    <2> QED BY <1>3, <2>1, <2>2, HangUps, Zenon
  <1>4. CASE StartUp
    <2>1. ackStored \in BOOLEAN BY DEF TypeOK, SyncTypes
    <2> QED BY <1>4, <2>1, ResetSync DEF StartUp, Restart, RecoveryDone, Rescan, TypeOK
  <1>5. CASE Subscribe
    <2>1. ackStored \in BOOLEAN /\ engine \in {"down", "recovering", "scanning", "open"}
      BY DEF TypeOK, SyncTypes
    <2> QED BY <1>5, <2>1, ResetSync DEF Subscribe, TypeOK
  <1> QED BY <1>1, <1>2, <1>3, <1>4, <1>5

\* A call starts, goes on or ends, and an Ack may be sent.
LEMMA CallSync ==
    ASSUME TypeOK,
           \/ Drain \/ ReplayOver \/ MaterializeOver \/ PendingOutboxReplay
           \/ \E p \in Paths : MaterializeIntent(p)
           \/ \E r \in 1..Len(log) : BlobArrives(r)
    PROVE  SyncTypes'
  <1>0. SyncTypes /\ SyncScalars BY SyncParts DEF TypeOK
  <1>1. Len(log) \in Nat /\ pendingAck \in 0..Len(log) /\ segmentAck \in 0..Len(log)
        /\ ackSent \in 0..Len(log) /\ budget \in 0..MaxDrainItems /\ 0 \in 0..Len(log)
    BY <1>0 DEF SyncScalars
  <1>2. /\ UNCHANGED <<server, cursor, inbound, receipts, journal, outcome, engine,
                       conn, next, ackStored, deferred, overtaken>>
        /\ call' \in {call, "deferred", "poll", "idle", "intents", "replay", "handler"}
        /\ ackSent' \in {ackSent, pendingAck, segmentAck, 0}
        /\ budget' \in {budget, MaxDrainItems, MaxDrainItems - 1, 0}
    <2>1. CASE Drain
      <3>1. /\ UNCHANGED <<server, cursor, inbound, receipts, journal, outcome, conn, next,
                           ackStored, deferred, overtaken>>
            /\ ackSent' \in {ackSent, pendingAck}
        BY <2>1, Zenon DEF Drain
      <3>2. UNCHANGED engine /\ call' \in {call, "deferred", "poll"}
        BY <2>1, SMTT(30), ZenonT(30) DEF Drain, Resume
      <3>3. budget' \in {budget, MaxDrainItems, MaxDrainItems - 1}
        BY <2>1, SMTT(30), ZenonT(30) DEF Drain
      <3> QED BY <3>1, <3>2, <3>3, Zenon
    <2>2. CASE ReplayOver \/ MaterializeOver BY <2>2 DEF ReplayOver, MaterializeOver, Resume
    <2>3. CASE PendingOutboxReplay BY <2>3 DEF PendingOutboxReplay, PolledAck
    <2>4. CASE \E p \in Paths : MaterializeIntent(p) BY <2>4 DEF MaterializeIntent
    <2>5. CASE \E r \in 1..Len(log) : BlobArrives(r) BY <2>5 DEF BlobArrives, Resume
    <2> QED BY <2>1, <2>2, <2>3, <2>4, <2>5
  <1>3. /\ call' \in {"idle", "handler", "poll", "finish", "finish_poll", "intents", "replay",
                      "deferred", "replaying"}
        /\ ackSent' \in 0..Len(log)
    BY <1>0, <1>1, <1>2 DEF SyncScalars
  <1>4. budget' \in 0..MaxDrainItems BY <1>1, <1>2
  <1>5. SyncQueues' BY <1>0, <1>2, QueuesKept
  <1>6. SyncScalars' BY <1>0, <1>2, <1>3, <1>4, SMTT(60) DEF SyncScalars
  <1> QED BY <1>5, <1>6, SyncParts

LEMMA StreamSync ==
    ASSUME TypeOK, AckInv, SnapshotBegin \/ WorkspaceEvent \/ SnapshotEnd \/ DeferEvent
    PROVE  SyncTypes'
  <1>0. Len(log) \in Nat /\ Len(log) <= MaxRev /\ SyncTypes /\ SyncScalars /\ next \in Nat
    <2>1. SyncTypes /\ SyncScalars BY SyncParts DEF TypeOK
    <2>2. Len(log) \in Nat /\ Len(log) <= MaxRev BY LogTypes
    <2>3. next \in Nat BY <2>1, <2>2 DEF SyncScalars
    <2> QED BY <2>1, <2>2, <2>3
  <1>1. CASE SnapshotBegin
    <2>1. SyncQueues' BY <1>0, <1>1, QueuesKept DEF SnapshotBegin
    <2>2. SyncScalars' BY <1>0, <1>1 DEF SnapshotBegin, NoItems, Statuses, SyncScalars
    <2> QED BY <2>1, <2>2, SyncParts
  <1>2. CASE WorkspaceEvent
    <2>1. item' \in [Revs -> Statuses]
      BY <1>0, <1>2 DEF WorkspaceEvent, Statuses, SyncScalars
    <2>2. next' \in 0..(Len(log) + 1)
      BY <1>0, <1>2 DEF WorkspaceEvent, SyncScalars
    <2>3. SyncQueues' BY <1>0, <1>2, QueuesKept DEF WorkspaceEvent
    <2>4. SyncScalars' BY <1>0, <1>2, <2>1, <2>2 DEF WorkspaceEvent, Resume, SyncScalars
    <2> QED BY <2>3, <2>4, SyncParts
  <1>3. CASE SnapshotEnd
    <2>1. SyncQueues' BY <1>0, <1>3, QueuesKept DEF SnapshotEnd
    <2>2. SyncScalars' BY <1>0, <1>3 DEF SnapshotEnd, Resume, SyncScalars
    <2> QED BY <2>1, <2>2, SyncParts
  <1>4. CASE DeferEvent
    <2>1. /\ next <= Len(log) /\ next' = next + 1 /\ conn = "tail" /\ Len(deferred) < MaxDeferred
          /\ deferred' = Append(deferred, next)
      BY <1>4 DEF DeferEvent, LiveFrame
    <2>2. next # 0 BY <2>1 DEF AckInv, StreamInv
    <2>3. next \in 1..Len(log) BY <1>0, <2>1, <2>2
    <2>4. /\ UNCHANGED <<server, cursor, inbound, receipts, journal, outcome, engine, call, conn,
                         ackSent, ackStored, budget, overtaken>>
      BY <1>4 DEF DeferEvent
    <2>6. SyncQueues'
      <3>1. SyncQueues BY <1>0, SyncParts
      <3>2. QueueOf(deferred', Len(log)) /\ Len(deferred') = Len(deferred) + 1 /\ Len(deferred) \in Nat
        BY <1>0, <2>1, <2>3, <3>1, QueueAppend DEF SyncQueues
      <3> QED BY <2>1, <2>4, <3>1, <3>2 DEF SyncQueues
    <2>7. next' \in 0..(Len(log) + 1) BY <1>0, <2>1
    <2>8. SyncScalars' BY <1>0, <2>4, <2>7 DEF SyncScalars
    <2> QED BY <2>6, <2>8, SyncParts
  <1> QED BY <1>1, <1>2, <1>3, <1>4

\* The connection or the queue of deferred events gives up a revision.
LEMMA TakenSync ==
    ASSUME TypeOK, NEW r \in 1..Len(log), Handed(r), Taken
    PROVE  /\ next' \in 0..(Len(log) + 1) /\ budget' \in 0..MaxDrainItems
           /\ overtaken' \subseteq 1..Len(log)
           /\ QueueOf(deferred', Len(log)) /\ Len(deferred') <= MaxDeferred
           /\ UNCHANGED <<conn, ackSent, ackStored>>
  <1>0. /\ Len(log) \in Nat /\ next \in Nat /\ budget \in 0..MaxDrainItems
        /\ overtaken \subseteq 1..Len(log) /\ next \in 0..(Len(log) + 1)
        /\ QueueOf(deferred, Len(log)) /\ Len(deferred) <= MaxDeferred
    <2>1. SyncScalars /\ SyncQueues /\ Len(log) \in Nat BY SyncParts, LogNat DEF TypeOK
    <2>2. /\ next \in 0..(Len(log) + 1) /\ budget \in 0..MaxDrainItems
          /\ overtaken \subseteq 1..Len(log)
      BY <2>1 DEF SyncScalars
    <2>3. QueueOf(deferred, Len(log)) /\ Len(deferred) <= MaxDeferred BY <2>1 DEF SyncQueues
    <2> QED BY <2>1, <2>2, <2>3
  <1>1. UNCHANGED <<conn, ackSent, ackStored>> BY DEF Taken
  <1>2. CASE call = "idle"
    <2>1. /\ next' = next + 1 /\ UNCHANGED <<deferred, budget>>
          /\ overtaken' = overtaken \cup Range(deferred)
      BY <1>2 DEF Taken
    <2>2. next <= Len(log) BY <1>2 DEF Handed, LiveFrame, DrainReplay
    <2>3. \A i \in DOMAIN deferred : deferred[i] \in 1..Len(log) BY <1>0 DEF QueueOf
    <2>5. overtaken' \subseteq 1..Len(log) BY <1>0, <2>1, <2>3, ZenonT(30) DEF Range
    <2> QED BY <1>0, <1>1, <2>1, <2>2, <2>5
  <1>3. CASE call # "idle"
    <2>1. deferred' = Tail(deferred) /\ budget' = budget - 1 /\ UNCHANGED <<next, overtaken>>
      BY <1>3 DEF Taken
    <2>2. budget > 0 /\ deferred # <<>> BY <1>3 DEF Handed, LiveFrame, Idle
    <2>3. QueueOf(deferred', Len(log)) /\ Len(deferred') = Len(deferred) - 1 /\ Len(deferred) \in Nat
      BY <1>0, <2>1, <2>2, QueueTail
    <2> QED BY <1>0, <1>1, <2>1, <2>2, <2>3
  <1> QED BY <1>2, <1>3

LEMMA HandLiveSync == ASSUME TypeOK, NEW r \in 1..Len(log), HandLive(r) PROVE SyncTypes'
  <1>0. Len(log) \in Nat /\ SyncTypes /\ SyncScalars /\ SyncQueues /\ r \in Revs /\ r \in Nat
    BY LogTypes, SyncParts DEF TypeOK, SyncTypes
  <1>1. CASE LiveEventExact(r)
    <2>1. Handed(r) /\ Taken /\ MarkLiveEventApplied(r)
          /\ UNCHANGED <<server, inbound, receipts, journal, outcome, engine, call>>
      BY <1>1 DEF LiveEventExact
    <2>2. /\ lastApplied' \in 0..Len(log) /\ pendingAck' \in 0..Len(log)
          /\ UNCHANGED <<lastAck, segmentAck>>
      BY <1>0, <2>1 DEF MarkLiveEventApplied, SyncScalars
    <2>3. /\ next' \in 0..(Len(log) + 1) /\ budget' \in 0..MaxDrainItems
          /\ overtaken' \subseteq 1..Len(log)
          /\ QueueOf(deferred', Len(log)) /\ Len(deferred') <= MaxDeferred
          /\ UNCHANGED <<conn, ackSent, ackStored>>
      BY <2>1, TakenSync
    <2>4. SyncQueues' BY <1>0, <2>1, <2>3 DEF SyncQueues
    <2>5. SyncScalars' BY <1>0, <2>1, <2>2, <2>3, SMTT(60) DEF SyncScalars
    <2> QED BY <2>4, <2>5, SyncParts
  <1>2. CASE LiveEvent(r)
    <2>1. /\ Handed(r) /\ Taken /\ ~QueueFull(r)
          /\ live' = IF InLive(r) THEN live ELSE Append(live, r)
          /\ call' \in {"handler", "replaying"} /\ UNCHANGED engine
          /\ UNCHANGED <<server, cursor, stream, item, receipts, journal, outcome>>
      BY <1>2 DEF LiveEvent, Resume
    <2>2. QueueOf(live', Len(log)) /\ Len(live') <= MaxPendingLive
      <3>1. CASE InLive(r) BY <1>0, <2>1, <3>1 DEF SyncQueues
      <3>2. CASE ~InLive(r)
        <4>1. ~(Len(live) >= MaxPendingLive) BY <2>1, <3>2 DEF QueueFull
        <4>2. QueueOf(live', Len(log)) /\ Len(live') = Len(live) + 1 /\ Len(live) \in Nat
          BY <1>0, <2>1, <3>2, QueueAppend DEF SyncQueues
        <4> QED BY <4>1, <4>2
      <3> QED BY <3>1, <3>2
    <2>3. /\ next' \in 0..(Len(log) + 1) /\ budget' \in 0..MaxDrainItems
          /\ overtaken' \subseteq 1..Len(log)
          /\ QueueOf(deferred', Len(log)) /\ Len(deferred') <= MaxDeferred
          /\ UNCHANGED <<conn, ackSent, ackStored>>
      BY <2>1, TakenSync
    <2>4. SyncQueues' BY <2>1, <2>2, <2>3 DEF SyncQueues
    <2>5. SyncScalars' BY <1>0, <2>1, <2>3, SMTT(60) DEF SyncScalars
    <2> QED BY <2>4, <2>5, SyncParts
  <1>3. CASE LiveOverflow(r) \/ LiveEventRefused(r) BY <1>3, ProcessSync
  <1> QED BY <1>1, <1>2, <1>3 DEF HandLive

LEMMA StreamItemSync ==
    ASSUME TypeOK, NEW r \in 1..Len(log), StreamItem(r)
    PROVE  SyncTypes'
  <1>1. /\ Len(log) \in Nat /\ r \in Revs /\ r \in Nat /\ PathOf(r) \in Paths
        /\ SyncTypes /\ SyncScalars
    BY LogTypes, SyncParts DEF TypeOK
  <1>2. UNCHANGED <<call, engine, log, live, wire, overtaken>>
    BY DEF StreamItem, StreamItemExact, StreamItemCommit, StreamItemPreserve, StreamItemPrepare,
           Prepare, Spend
  <1>3. item' \in [Revs -> Statuses]
    BY <1>1 DEF StreamItem, StreamItemExact, StreamItemCommit, StreamItemPreserve,
                StreamItemPrepare, CommitStreamEvent, Statuses, SyncScalars
  <1>q. SyncQueues' BY <1>1, <1>2, QueuesKept
  <1>4. CASE StreamItemExact(r)
    <2>1. SyncScalars' BY <1>1, <1>2, <1>3, <1>4 DEF StreamItemExact, SyncScalars
    <2> QED BY <1>q, <2>1, SyncParts
  <1>5. CASE StreamItemCommit(r) \/ StreamItemPreserve(r)
    <2>1. lastApplied' \in 0..Len(log) /\ receipts' \subseteq 1..Len(log)
      <3>1. lastApplied' \in {r, lastApplied} /\ receipts' = receipts \cup {r}
        BY <1>5 DEF StreamItemCommit, StreamItemPreserve, CommitStreamEvent, Settle
      <3>2. lastApplied \in 0..Len(log) /\ receipts \subseteq 1..Len(log) BY <1>1 DEF SyncScalars
      <3> QED BY <1>1, <3>1, <3>2
    <2>2. UNCHANGED <<server, lastAck, pendingAck, segmentAck, stream, journal, outcome, wire>>
      BY <1>5 DEF StreamItemCommit, StreamItemPreserve, CommitStreamEvent
    <2>3. SyncScalars' BY <1>1, <1>2, <1>3, <2>1, <2>2, SMTT(60) DEF SyncScalars
    <2> QED BY <1>q, <2>3, SyncParts
  <1>6. CASE StreamItemPrepare(r)
    <2>1. journal' \in [on : BOOLEAN, rev : 0..Len(log), live : BOOLEAN, stage : Stages,
                        expected : Contents, receipt : {"none", "post", "empty"}]
      BY <1>1, <1>6 DEF StreamItemPrepare, Prepare, Stages, TypeOK, DataTypes
    <2>2. UNCHANGED <<server, cursor, stream, receipts, outcome, wire>>
      BY <1>6 DEF StreamItemPrepare, Prepare
    <2>3. SyncScalars' BY <1>1, <1>2, <1>3, <2>1, <2>2, SMTT(60) DEF SyncScalars
    <2> QED BY <1>q, <2>3, SyncParts
  <1> QED BY <1>4, <1>5, <1>6 DEF StreamItem

LEMMA TailSync ==
    ASSUME SyncTypes, live # <<>>, live' = Tail(live), UNCHANGED <<log, deferred>>
    PROVE  SyncQueues'
  <1>1. Len(log) \in Nat /\ SyncQueues BY SyncParts, LogNat
  <1>2. QueueOf(live', Len(log)) /\ Len(live') = Len(live) - 1 /\ Len(live) \in Nat
    BY <1>1, QueueTail DEF SyncQueues
  <1> QED BY <1>1, <1>2 DEF SyncQueues

LEMMA LiveItemSync ==
    ASSUME TypeOK, NEW r \in 1..Len(log), LiveItem(r)
    PROVE  SyncTypes'
  <1>1. /\ Len(log) \in Nat /\ r \in Revs /\ r \in Nat /\ PathOf(r) \in Paths
        /\ SyncTypes /\ SyncScalars
    BY LogTypes, SyncParts DEF TypeOK
  <1>2. UNCHANGED <<server, stream, item, call, engine, outcome, wire, lastAck, segmentAck, overtaken>>
    BY DEF LiveItem, LiveItemExact, LiveItemCommit, LiveItemPreserve, LiveItemPrepare,
           Prepare, Spend, MarkLiveEventApplied, CommitLiveEvent
  <1>3. CASE LiveItemExact(r) \/ LiveItemCommit(r) \/ LiveItemPreserve(r)
    <2>1. live # <<>> /\ live' = Tail(live) /\ UNCHANGED journal
      BY <1>3 DEF LiveItemExact, LiveItemCommit, LiveItemPreserve, LiveStep, LiveReady
    <2>2. SyncQueues' BY <1>1, <1>2, <2>1, TailSync
    <2>3. /\ lastApplied' \in 0..Len(log) /\ pendingAck' \in 0..Len(log)
          /\ receipts' \subseteq 1..Len(log)
      <3>1. /\ lastApplied \in 0..Len(log) /\ pendingAck \in 0..Len(log)
            /\ receipts \subseteq 1..Len(log)
        BY <1>1 DEF SyncScalars
      <3>2. /\ lastApplied' \in {r, lastApplied} /\ pendingAck' \in {r, pendingAck}
            /\ receipts' \in {receipts, receipts \cup {r}}
        BY <1>3 DEF LiveItemExact, LiveItemCommit, LiveItemPreserve, MarkLiveEventApplied,
                    CommitLiveEvent, Settle
      <3> QED BY <1>1, <3>1, <3>2
    <2>4. SyncScalars' BY <1>1, <1>2, <2>1, <2>3, SMTT(60) DEF SyncScalars
    <2> QED BY <2>2, <2>4, SyncParts
  <1>4. CASE LiveItemPrepare(r)
    <2>1. journal' \in [on : BOOLEAN, rev : 0..Len(log), live : BOOLEAN, stage : Stages,
                        expected : Contents, receipt : {"none", "post", "empty"}]
      BY <1>1, <1>4 DEF LiveItemPrepare, Prepare, Stages, TypeOK, DataTypes
    <2>2. UNCHANGED <<cursor, live, receipts>> BY <1>4 DEF LiveItemPrepare, Prepare
    <2>3. SyncQueues' BY <1>1, <1>2, <2>2, QueuesKept
    <2>4. SyncScalars' BY <1>1, <1>2, <2>1, <2>2, SMTT(60) DEF SyncScalars
    <2> QED BY <2>3, <2>4, SyncParts
  <1> QED BY <1>3, <1>4 DEF LiveItem

LEMMA EndOfCallSync == ASSUME TypeOK, FinishStream \/ StopResume PROVE SyncTypes'
  <1>1. /\ call' \in {"finish", "finish_poll", "intents", "deferred", "idle"}
        /\ UNCHANGED <<engine, live, log, wire, overtaken>>
    BY DEF FinishStream, StopResume, Return
  <1>0. SyncTypes /\ SyncScalars BY SyncParts DEF TypeOK
  <1>q. SyncQueues' BY <1>0, <1>1, QueuesKept
  <1>2. stream.final \in 0..Len(log) /\ lastApplied \in 0..Len(log) /\ 0 \in 0..Len(log)
    BY DEF TypeOK, SyncTypes
  <1>3. CASE FinishStream
    <2>1. /\ lastApplied' = stream.final /\ segmentAck' = 0
          /\ pendingAck' \in {stream.final, pendingAck}
          /\ (stream' = NoStream /\ item' = NoItems) \/ UNCHANGED <<stream, item>>
          /\ UNCHANGED <<server, lastAck, receipts, journal, outcome>>
      BY <1>3 DEF FinishStream
    <2>2. stream' \in [on : BOOLEAN, from : 0..Len(log), final : 0..Len(log), ended : BOOLEAN]
      <3>1. NoStream \in [on : BOOLEAN, from : 0..Len(log), final : 0..Len(log), ended : BOOLEAN]
        BY <1>2 DEF NoStream
      <3>2. stream \in [on : BOOLEAN, from : 0..Len(log), final : 0..Len(log), ended : BOOLEAN]
        BY <1>0 DEF SyncScalars
      <3> QED BY <2>1, <3>1, <3>2
    <2>3. item' \in [Revs -> Statuses] BY <1>0, <2>1 DEF NoItems, Statuses, SyncScalars
    <2>4. pendingAck' \in 0..Len(log) BY <1>0, <1>2, <2>1 DEF SyncScalars
    <2>6. lastApplied' \in 0..Len(log) /\ segmentAck' \in 0..Len(log) BY <1>2, <2>1
    <2>7. UNCHANGED <<server, lastAck, receipts, journal, outcome>> BY <2>1
    <2>8. SyncScalars' BY <1>0, <1>1, <2>2, <2>3, <2>4, <2>6, <2>7, SMTT(60) DEF SyncScalars
    <2> QED BY <1>q, <2>8, SyncParts
  <1>4. CASE StopResume
    <2>1. /\ segmentAck' \in {lastApplied, segmentAck}
          /\ UNCHANGED <<server, lastAck, lastApplied, pendingAck, stream, item, receipts, journal,
                         outcome>>
      BY <1>4 DEF StopResume
    <2>2. SyncScalars' BY <1>0, <1>1, <1>2, <2>1 DEF SyncScalars
    <2> QED BY <1>q, <2>2, SyncParts
  <1> QED BY <1>3, <1>4

LEMMA JournalSync == ASSUME TypeOK, AckInv, JournalStep PROVE SyncTypes'
  <1> DEFINE Kept == UNCHANGED <<server, stream, lastAck, segmentAck, call, engine, wire, overtaken>>
             Journals == [on : BOOLEAN, rev : 0..Len(log), live : BOOLEAN, stage : Stages,
                          expected : Contents, receipt : {"none", "post", "empty"}]
             Outcomes == {"none", "applied", "preserved", "kept"}
  <1>0. Len(log) \in Nat /\ journal \in Journals /\ outcome \in Outcomes /\ SyncTypes /\ SyncScalars
    <2>1. SyncTypes /\ SyncScalars /\ Len(log) \in Nat BY SyncParts, LogNat DEF TypeOK
    <2>2. journal \in Journals /\ outcome \in Outcomes BY <2>1 DEF SyncScalars
    <2> QED BY <2>1, <2>2
  <1>1. CASE WriterFails \/ CommitRefused \/ GapRefused BY <1>1, ProcessSync
  <1>2. CASE \/ JournalStart \/ WriterApplies \/ WriterFindsPostimage \/ RecordFilesystemApplied
             \/ RecoverMismatch \/ RecoverReceipt \/ RecoverChanged \/ RecoverLocalIntent
             \/ FinalizeFilesystem \/ JournalFinalized
    <2>1. Kept /\ UNCHANGED <<cursor, item, live, receipts>>
      BY <1>2 DEF JournalStart, WriterApplies, WriterFindsPostimage, RecordFilesystemApplied,
                  RecoverMismatch, RecoverReceipt, RecoverChanged, Abandon, RecoverLocalIntent,
                  FinalizeFilesystem, JournalFinalized
    <2>2. journal' \in Journals
      BY <1>0, <1>2 DEF JournalStart, WriterApplies, WriterFindsPostimage, RecordFilesystemApplied,
                  RecoverMismatch, RecoverReceipt, RecoverChanged, Abandon, RecoverLocalIntent,
                  FinalizeFilesystem, JournalFinalized, Stage, Stages
    <2>3. outcome' \in Outcomes
      BY <1>0, <1>2 DEF JournalStart, WriterApplies, WriterFindsPostimage, RecordFilesystemApplied,
                  RecoverMismatch, RecoverReceipt, RecoverChanged, Abandon, RecoverLocalIntent,
                  FinalizeFilesystem, JournalFinalized
    <2>4. SyncQueues' BY <1>0, <2>1, QueuesKept
    <2>5. SyncScalars' BY <1>0, <2>1, <2>2, <2>3 DEF SyncScalars
    <2> QED BY <2>4, <2>5, SyncParts
  <1>3. CASE CommitApplied \/ CommitGap
    <2> DEFINE r == journal.rev
    <2>0. journal.on /\ journal.stage = "filesystem_applied" /\ outcome # "none"
      BY <1>3 DEF CommitApplied, CommitGap, Applying
    <2>1. /\ Kept /\ UNCHANGED <<live, outcome>>
          /\ journal' = [journal EXCEPT !.stage = "database_committed"]
          /\ lastApplied' \in {r, lastApplied} /\ pendingAck' \in {r, pendingAck, 0}
          /\ receipts' = receipts \cup {r}
          /\ item' = item \/ item' = [item EXCEPT ![r] = outcome]
      BY <1>3 DEF CommitApplied, CommitGap, CommitLiveEvent, CommitStreamEvent, Settle, Stage
    <2>2. journal' \in Journals BY <1>0, <2>1 DEF Stages
    <2>3. r \in 0..Len(log) /\ r # 0 BY <1>0, <2>0 DEF AckInv, JournalInv
    <2>4. outcome \in Statuses BY <1>0, <2>0 DEF AckInv, JournalInv, Statuses
    <2>5. item' \in [Revs -> Statuses] BY <1>0, <2>1, <2>4 DEF SyncScalars
    <2>6. r \in 1..Len(log) BY <1>0, <2>3
    <2>7. /\ lastApplied \in 0..Len(log) /\ pendingAck \in 0..Len(log)
          /\ receipts \subseteq 1..Len(log)
      BY <1>0 DEF SyncScalars
    <2>8. /\ lastApplied' \in 0..Len(log) /\ pendingAck' \in 0..Len(log)
          /\ receipts' \subseteq 1..Len(log)
      BY <1>0, <2>1, <2>3, <2>6, <2>7
    <2>9. SyncQueues' BY <1>0, <2>1, QueuesKept
    <2> HIDE DEF r
    <2>10. SyncScalars' BY <1>0, <2>1, <2>2, <2>5, <2>8, SMTT(60) DEF SyncScalars
    <2> QED BY <2>9, <2>10, SyncParts
  <1>4. CASE JournalRemove
    <2>1. /\ Kept /\ UNCHANGED <<cursor, item, receipts>> /\ journal' = NoJournal
          /\ outcome' = "none" /\ journal.on
          /\ live' = IF engine = "open" /\ journal.live THEN Tail(live) ELSE live
      BY <1>4 DEF JournalRemove, Applying
    <2>2. journal' \in Journals BY <1>0, <2>1, LogTypes DEF NoJournal, Stages
    <2>3. SyncQueues'
      <3>1. CASE engine = "open" /\ journal.live
        BY <1>0, <2>1, <3>1, TailSync DEF AckInv, JournalInv
      <3>2. CASE ~(engine = "open" /\ journal.live) BY <1>0, <2>1, <3>2, QueuesKept
      <3> QED BY <3>1, <3>2
    <2>4. SyncScalars' BY <1>0, <2>1, <2>2, SMTT(60) DEF SyncScalars
    <2> QED BY <2>3, <2>4, SyncParts
  <1> QED BY <1>1, <1>2, <1>3, <1>4 DEF JournalStep

LEMMA AnswerSync ==
    ASSUME TypeOK, AckConfirmed \/ MutationResult
    PROVE  SyncTypes'
  <1>0. /\ Len(log) \in Nat /\ 0 \in 0..Len(log) /\ pendingAck \in 0..Len(log)
        /\ segmentAck \in 0..Len(log) /\ ackSent \in 0..Len(log) /\ SyncTypes /\ SyncScalars
    <2>1. SyncTypes /\ SyncScalars /\ Len(log) \in Nat BY SyncParts, LogNat DEF TypeOK
    <2>2. /\ pendingAck \in 0..Len(log) /\ segmentAck \in 0..Len(log) /\ ackSent \in 0..Len(log)
      BY <2>1 DEF SyncScalars
    <2> QED BY <2>1, <2>2
  <1>2. CASE AckConfirmed
    <2>1. /\ lastAck' = ackSent /\ ackSent' = 0 /\ ackStored' = FALSE
          /\ segmentAck' \in {0, segmentAck} /\ pendingAck' \in {0, pendingAck}
          /\ (stream' = NoStream /\ item' = NoItems) \/ UNCHANGED <<stream, item>>
      BY <1>2 DEF AckConfirmed
    <2>2. UNCHANGED <<server, lastApplied, live, receipts, journal, outcome, engine, call, conn, next,
                      deferred, budget, overtaken>>
      BY <1>2 DEF AckConfirmed
    <2>3. stream' \in [on : BOOLEAN, from : 0..Len(log), final : 0..Len(log), ended : BOOLEAN]
      <3>1. NoStream \in [on : BOOLEAN, from : 0..Len(log), final : 0..Len(log), ended : BOOLEAN]
        BY <1>0 DEF NoStream
      <3>2. stream \in [on : BOOLEAN, from : 0..Len(log), final : 0..Len(log), ended : BOOLEAN]
        BY <1>0 DEF SyncScalars
      <3> QED BY <2>1, <3>1, <3>2
    <2>4. item' \in [Revs -> Statuses] BY <1>0, <2>1 DEF NoItems, Statuses, SyncScalars
    <2>5. /\ lastAck' \in 0..Len(log) /\ ackSent' \in 0..Len(log) /\ ackStored' \in BOOLEAN
          /\ segmentAck' \in 0..Len(log) /\ pendingAck' \in 0..Len(log)
      BY <1>0, <2>1
    <2>6. SyncQueues' BY <1>0, <2>2, QueuesKept
    <2>7. SyncScalars' BY <1>0, <2>2, <2>3, <2>4, <2>5, SMTT(60) DEF SyncScalars
    <2> QED BY <2>6, <2>7, SyncParts
  <1>3. CASE MutationResult
    <2>1. ASSUME NEW row \in outbox, MutationAccepted(row) PROVE SyncTypes'
      <3>1. PICK r \in 1..Len(log) : Settle(r) BY <2>1 DEF MutationAccepted
      <3>2. receipts' \subseteq 1..Len(log) BY <3>1 DEF Settle, TypeOK, SyncTypes
      <3>3. UNCHANGED <<server, cursor, inbound, journal, outcome, engine, call, wire, overtaken>>
        BY <2>1 DEF MutationAccepted
      <3>4. SyncQueues' BY <1>0, <3>3, QueuesKept
      <3>5. SyncScalars' BY <1>0, <3>2, <3>3 DEF SyncScalars
      <3> QED BY <3>4, <3>5, SyncParts
    <2>2. ASSUME NEW row \in outbox, MutationRejectedStale(row) PROVE SyncTypes'
      BY <2>2, SyncFrame DEF MutationRejectedStale, syncVars, TypeOK
    <2> QED BY <1>3, <2>1, <2>2 DEF MutationResult
  <1> QED BY <1>2, <1>3

LEMMA SyncTypesStep == ASSUME TypeOK, AckInv, [Next]_vars PROVE SyncTypes'
  <1>1. CASE \E p \in RemotePaths : ServerCommitRemote(p) BY <1>1, ServerSync
  <1>2. CASE \E p \in UserPaths : UserWrite(p)
    BY <1>2, SyncFrame DEF UserWrite, syncVars, TypeOK
  <1>3. CASE Crash \/ Drop \/ StartUp \/ Subscribe BY <1>3, ProcessSync
  <1>4. CASE Deliver
    BY <1>4, StreamSync, HandLiveSync, ProcessSync, CallSync, AnswerSync DEF Deliver
  <1>5. CASE Drain BY <1>5, CallSync
  <1>6. CASE ReportChange
    BY <1>6, SyncFrame DEF ReportChange, LocalChange, syncVars, TypeOK
  <1>7. CASE ServerAnswers BY <1>7, ServerSync
  <1>8. CASE EngineStep
    BY <1>8, StreamItemSync, LiveItemSync, EndOfCallSync, ProcessSync, CallSync, JournalSync
    DEF EngineStep
  <1>9. CASE UNCHANGED vars BY <1>9, SyncFrame DEF vars, syncVars, TypeOK
  <1> QED BY <1>1, <1>2, <1>3, <1>4, <1>5, <1>6, <1>7, <1>8, <1>9 DEF Next
=============================================================================
