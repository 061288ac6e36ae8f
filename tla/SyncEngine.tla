----------------------------- MODULE SyncEngine -----------------------------
(***************************************************************************)
(* The synchronization engine of one CCHaven agent                         *)
(* (crates/fns-sync-core): revisions of a workspace arrive from the server *)
(* as an incremental stream and then as live events, are applied to the    *)
(* disk through the apply journal, and are acknowledged; files the user    *)
(* changes meanwhile are recorded as intents and outbox rows and sent as   *)
(* mutations.  The engine process may die between any two steps, the       *)
(* connection may drop at any time and the user writes to the disk         *)
(* whenever they like.                                                     *)
(*                                                                         *)
(* A file's content is an integer: Gone, the number of the remote revision *)
(* that wrote it, or -n for the n-th thing the user wrote.  The server     *)
(* (not part of this repository) is its log of revisions plus the Ack it   *)
(* stored.  Engine calls run on one thread; "call" is the handler running, *)
(* and the steps of one handler interleave only with the user, the server, *)
(* the connection and a crash.                                             *)
(*                                                                         *)
(* Revision 0 stands for the revision at which an earlier full snapshot    *)
(* left the workspace: none of Paths exists there, and every stream from   *)
(* then on is incremental.                                                 *)
(***************************************************************************)
EXTENDS Integers, Sequences, FiniteSets, Functions

CONSTANTS
    Paths,            \* workspace paths
    UserPaths,        \* the paths the user writes to
    RemotePaths,      \* the paths other clients write to
    MaxRev,           \* bound: revisions the server commits
    MaxRemote,        \* bound: those that other clients make
    MaxEdits,         \* bound: writes by the user
    MaxCrashes,       \* bound: crashes of the agent process
    MaxDrops,         \* bound: lost connections
    MaxItemsPerCall,  \* InboundWorkLimits.max_items_per_call
    MaxPendingLive,   \* InboundWorkLimits.max_pending_live_items
    MaxDeferred,      \* SessionLimits.deferred_event_capacity
    MaxDrainItems     \* items of a drain after its two transfer steps

ASSUME ConstantsAssumption ==
    /\ UserPaths \subseteq Paths /\ RemotePaths \subseteq Paths
    /\ MaxRev \in Nat /\ MaxRemote \in Nat /\ MaxEdits \in Nat
    /\ MaxCrashes \in Nat /\ MaxDrops \in Nat
    /\ MaxItemsPerCall \in Nat \ {0}
    /\ MaxPendingLive \in Nat \ {0} /\ MaxDeferred \in Nat \ {0}
    /\ MaxDrainItems \in Nat \ {0, 1}

VARIABLES
    log, serverAck,                               \* the server (external)
    disk, touched, watch, edits,                  \* the workspace and its user
    lastAck, lastApplied, pendingAck, segmentAck, \* workspace_cursor, 0 = NULL
    stream, item,                                 \* stream_state, stream_revision_items
    base, receipts, cas,                          \* path_states, applied_operations, CAS
    intent, outbox, ops,                          \* local_intents, outbox, ids used
    journal, tomb,                                \* apply_journal, .fns-delete-<id>
    engine, call, left, live, outcome,            \* memory of the agent process
    conn, next, ackSent, ackStored,               \* the session with the server
    deferred, budget,                             \* its deferred_events, DrainBudget
    crashes, drops,                               \* counters for the bounds
    overtaken     \* history: revisions that were deferred when a later one was not

server  == <<log, serverAck>>
user    == <<disk, touched, watch, edits>>
cursor  == <<lastAck, lastApplied, pendingAck, segmentAck>>
inbound == <<stream, item, live>>
tables  == <<base, receipts, cas>>
local   == <<intent, outbox, ops>>
apply   == <<journal, tomb, outcome>>
process == <<engine, call, left>>
drain   == <<deferred, budget>>
wire    == <<conn, next, ackSent, ackStored, drain>>
aux     == <<crashes, drops, overtaken>>
vars == <<server, user, cursor, inbound, tables, local, apply, process, wire, aux>>

Revs     == 1..MaxRev
Gone     == 0
NoBody   == MaxRev + 1
Contents == (-MaxEdits)..MaxRev
Statuses == {"absent", "waiting_blob", "ready", "applied", "preserved"}
Stages   == {"prepared", "filesystem_started", "filesystem_applied",
             "database_committed", "finalized"}

NoStream  == [on |-> FALSE, from |-> 0, final |-> 0, ended |-> FALSE]
NoItems   == [r \in Revs |-> "absent"]
NoJournal == [on |-> FALSE, rev |-> 0, live |-> FALSE, stage |-> "prepared",
              expected |-> Gone, receipt |-> "none"]

(***************************************************************************)
(* Reading the state                                                       *)
(***************************************************************************)
PathOf(r) == log[r].path
Body(r) == IF r = 0 THEN Gone ELSE log[r].body
RevsOf(p) == {r \in 1..Len(log) : log[r].path = p}
Latest(p) == IF RevsOf(p) = {} THEN 0
             ELSE CHOOSE r \in RevsOf(p) : \A q \in RevsOf(p) : q <= r

\* required_content and content_available: tombstones need no blob.
ContentAvailable(r) == Body(r) = Gone \/ Body(r) \in cas
\* Mutant: only the kind of the entry is compared.
PostMatchesByKind(r) == (disk[PathOf(r)] = Gone) <=> (Body(r) = Gone)

\* event_post_matches and event_baseline_matches, on the file as it is now.
PostMatches(r) == disk[PathOf(r)] = Body(r)
BaselineMatches(r) == disk[PathOf(r)] = Body(base[PathOf(r)])
EventIsDiverged(r) == ~PostMatches(r) /\ ~BaselineMatches(r)

\* Mutant: a deletion is never recognised as the remote state.
MatchesRemoteUnlessGone(p, d) == d # Gone /\ d = Body(base[p])

\* desired_matches_remote: the desired state is the one path_states records.
MatchesRemote(p, d) == d = Body(base[p])

RowsOf(p) == {row \in outbox : row.path = p}
FirstRow(p) == CHOOSE row \in RowsOf(p) : \A other \in RowsOf(p) : row.op <= other.op
\* The outbox row whose operation the server committed as revision r.
OwnRows(r) == {row \in outbox : log[r].own /\ row.path = log[r].path /\ row.op = log[r].op}
Committed(row) == \E r \in 1..Len(log) :
    log[r].own /\ log[r].path = row.path /\ log[r].op = row.op

\* mutation_for_desired with a fresh operation id: the base is the path state's revision.
NewRow(p, d, b) == [path |-> p, op |-> ops[p] + 1, body |-> d, base |-> b, sent |-> FALSE]

PendingItems == {r \in Revs : item[r] \in {"waiting_blob", "ready"}}
IsNextItem(r) == r \in PendingItems /\ \A q \in PendingItems : r <= q
ItemsSettled == \A r \in (stream.from + 1)..stream.final : item[r] \in {"applied", "preserved"}
StreamComplete == stream.on /\ stream.ended /\ ItemsSettled

\* Mutant: Online only when no stream is left, which its own Ack removes.
OnlineAfterStream == conn = "tail" /\ ~stream.on

\* refresh_stream_completion: Online once the stream is complete.
Online == conn = "tail" /\ (stream.on => StreamComplete /\ pendingAck = stream.final)

\* The terminal Ack can go out: at most one Ack is in flight.
AckDue == pendingAck # 0 /\ Online /\ ackSent = 0
Idle == engine = "open" /\ call = "idle"

(***************************************************************************)
(* Local changes: record_local_changes, for the paths P that changed.      *)
(***************************************************************************)
\* Reading a file through stage_workspace_entry leaves its content in the CAS.
Staged(P) == cas \cup ({disk[p] : p \in P} \ {Gone})

\* A change made while a stream is active is deferred, unless it is an echo.
DeferDesired(P) ==
    /\ intent' = [p \in Paths |-> IF p \in P /\ ~MatchesRemote(p, disk[p])
                                  THEN disk[p] ELSE intent[p]]
    /\ UNCHANGED <<outbox, ops>>

\* Mutant: a row that was dispatched is replaced like one that was not.
RecordDesiredOverSent(P) ==
    LET busy == {p \in P : RowsOf(p) # {} /\ FirstRow(p).body # disk[p]}
        fresh == {p \in P : RowsOf(p) = {} /\ ~MatchesRemote(p, disk[p])}
    IN  /\ outbox' = (outbox \ {FirstRow(p) : p \in busy})
                       \cup {NewRow(p, disk[p], base[p]) : p \in busy \cup fresh}
        /\ intent' = [p \in Paths |-> IF p \in busy \cup fresh THEN NoBody ELSE intent[p]]
        /\ ops' = [p \in Paths |-> ops[p] + (IF p \in busy \cup fresh THEN 1 ELSE 0)]

\* record_desired: replace an unsent row, queue behind a sent one, merge with
\* an intent, or enqueue a new row.
RecordDesired(P) ==
    LET busy == {p \in P : RowsOf(p) # {} /\ FirstRow(p).body # disk[p]}
        replaced == {p \in busy : ~FirstRow(p).sent}
        merged == {p \in P : RowsOf(p) = {} /\ intent[p] # NoBody}
        fresh == {p \in P : RowsOf(p) = {} /\ intent[p] = NoBody
                                          /\ ~MatchesRemote(p, disk[p])}
    IN  /\ outbox' = (outbox \ {FirstRow(p) : p \in replaced})
                       \cup {NewRow(p, disk[p], base[p]) : p \in replaced \cup fresh}
        /\ intent' = [p \in Paths |->
                        IF p \in (busy \ replaced) \cup merged THEN disk[p]
                        ELSE IF p \in replaced THEN NoBody ELSE intent[p]]
        /\ ops' = [p \in Paths |-> ops[p] + (IF p \in replaced \cup fresh THEN 1 ELSE 0)]

RecordEntries(P) == IF stream.on THEN DeferDesired(P) ELSE RecordDesired(P)
RecordLocalChanges(P) == cas' = Staged(P) /\ RecordEntries(P)

\* materialize_local_intents: an intent that the remote state has caught up with
\* goes, any other becomes a row unless its path has one.
IntentStale(p) == intent[p] # NoBody /\ MatchesRemote(p, intent[p])
IntentDue(p) == intent[p] # NoBody /\ ~MatchesRemote(p, intent[p]) /\ RowsOf(p) = {}
Materialize(p) ==
    /\ intent' = [intent EXCEPT ![p] = NoBody]
    /\ outbox' = outbox \cup (IF IntentDue(p) THEN {NewRow(p, intent[p], base[p])} ELSE {})
    /\ ops' = [ops EXCEPT ![p] = @ + (IF IntentDue(p) THEN 1 ELSE 0)]

\* What becomes of path p's rows when its remote state becomes revision r and
\* the row set "done" is settled: the desired content d is enqueued again on
\* top of r unless r already has it.
Requeue(p, r, done, d) ==
    LET again == d # NoBody /\ d # Body(r)
    IN  /\ outbox' = (outbox \ done) \cup (IF again THEN {NewRow(p, d, r)} ELSE {})
        /\ ops' = [ops EXCEPT ![p] = @ + (IF again THEN 1 ELSE 0)]
        /\ intent' = [intent EXCEPT ![p] = NoBody]

(***************************************************************************)
(* Settling one remote revision                                            *)
(***************************************************************************)
\* put_path_state, record_mutation_applied_operation: what every commit of r writes.
Settle(r) ==
    /\ base' = [base EXCEPT ![PathOf(r)] = r]
    /\ receipts' = receipts \cup {r}

\* commit_event_with_journal: the stream item and, when applied, the cursor.
CommitStreamEvent(r, status) ==
    /\ Settle(r)
    /\ item' = [item EXCEPT ![r] = status]
    /\ lastApplied' = IF status = "applied" THEN r ELSE lastApplied
    /\ UNCHANGED <<lastAck, pendingAck, segmentAck>>

\* commit_live_event_with_journal: both cursors move to r.
CommitLiveEvent(r) ==
    /\ Settle(r)
    /\ lastApplied' = r
    /\ pendingAck' = r
    /\ UNCHANGED <<lastAck, segmentAck>>

\* Mutant: the cursors move past the revision.
MarkLiveEventAppliedNext(r) ==
    /\ lastApplied' = IF r > lastAck /\ r > lastApplied THEN r + 1 ELSE lastApplied
    /\ pendingAck' = IF r > lastAck /\ r > pendingAck THEN r + 1 ELSE pendingAck
    /\ UNCHANGED <<lastAck, segmentAck>>

\* mark_live_event_applied: r was settled before; only the cursors may move.
MarkLiveEventApplied(r) ==
    /\ lastApplied' = IF r > lastAck /\ r > lastApplied THEN r ELSE lastApplied
    /\ pendingAck' = IF r > lastAck /\ r > pendingAck THEN r ELSE pendingAck
    /\ UNCHANGED <<lastAck, segmentAck>>

\* set_last_applied_revision and set_pending_ack refuse to move back.
CursorRegresses(r) == r < lastApplied \/ r < pendingAck

RemoveOwnRow(r) == outbox' = outbox \ OwnRows(r) /\ UNCHANGED <<intent, ops>>

\* preserved_replacements: the file the user changed is kept, and what it (or
\* an older deferred intent) holds is enqueued on top of r.
PreserveLocal(r) ==
    LET p == PathOf(r)
    IN  Requeue(p, r, OwnRows(r), IF intent[p] # NoBody THEN intent[p] ELSE disk[p])

(***************************************************************************)
(* The server (external) and the user                                      *)
(***************************************************************************)
Entry(p, body, own, op) == [path |-> p, body |-> body, own |-> own, op |-> op]

\* Another client's upsert, or delete of a file that exists, is committed.
ServerCommitRemote(p) ==
    /\ Len(log) < MaxRev /\ Cardinality({r \in 1..Len(log) : ~log[r].own}) < MaxRemote
    /\ \E body \in {Len(log) + 1} \cup (IF Body(Latest(p)) = Gone THEN {} ELSE {Gone}) :
           log' = Append(log, Entry(p, body, FALSE, 0))
    /\ UNCHANGED <<serverAck, user, cursor, inbound, tables, local, apply, process, wire, aux>>

\* A dispatched mutation whose base is current is committed, once.
ServerCommitOwn(row) ==
    /\ Len(log) < MaxRev
    /\ row.sent /\ ~Committed(row) /\ row.base = Latest(row.path)
    /\ log' = Append(log, Entry(row.path, row.body, TRUE, row.op))
    /\ UNCHANGED <<serverAck, user, cursor, inbound, tables, local, apply, process, wire, aux>>

\* An Ack is stored unless it is behind the one the server has.
ServerStoresAck ==
    /\ ackSent # 0 /\ ~ackStored /\ serverAck <= ackSent
    /\ serverAck' = ackSent
    /\ ackStored' = TRUE
    /\ UNCHANGED <<log, user, cursor, inbound, tables, local, apply, process,
                   conn, next, ackSent, drain, aux>>

\* The user writes something new, deletes the file, or puts back the version
\* that was last synchronized.  The watcher runs while the agent does.
UserWrite(p) ==
    /\ edits < MaxEdits
    /\ \E c \in {Gone, Body(base[p]), -(edits + 1)} \ {disk[p]} :
           disk' = [disk EXCEPT ![p] = c]
    /\ edits' = edits + 1
    /\ touched' = (touched \/ (journal.on /\ PathOf(journal.rev) = p))
    /\ watch' = IF engine \in {"scanning", "open"} THEN watch \cup {p} ELSE watch
    /\ UNCHANGED <<server, cursor, inbound, tables, local, apply, process, wire, aux>>

(***************************************************************************)
(* The agent process                                                       *)
(***************************************************************************)
\* What dies with the process: memory, the connection, undelivered watcher events.
Exit ==
    /\ engine' = "down" /\ call' = "idle" /\ left' = 0
    /\ live' = <<>> /\ outcome' = "none" /\ watch' = {}
    /\ conn' = "off" /\ next' = 0 /\ ackSent' = 0 /\ ackStored' = FALSE
    /\ deferred' = <<>> /\ budget' = 0

Crash ==
    /\ engine # "down" /\ crashes < MaxCrashes
    /\ Exit
    /\ crashes' = crashes + 1
    /\ UNCHANGED <<server, disk, touched, edits, cursor, stream, item, tables, local,
                   journal, tomb, drops, overtaken>>

\* SyncEngine::open starts with recover_apply_journals.
Restart ==
    /\ engine = "down"
    /\ engine' = "recovering"
    /\ UNCHANGED <<server, user, cursor, inbound, tables, local, apply, call, left, wire, aux>>

RecoveryDone ==
    /\ engine = "recovering" /\ ~journal.on
    /\ engine' = "scanning"
    /\ UNCHANGED <<server, user, cursor, inbound, tables, local, apply, call, left, wire, aux>>

\* Mutant: the watcher starts without the first scan.
RescanSkipped ==
    /\ engine = "scanning"
    /\ engine' = "open"
    /\ UNCHANGED <<server, user, cursor, inbound, tables, local, apply, call, left, wire, aux>>

\* start_watcher_and_reconcile: the scan stages every file and reports the paths
\* that differ from path_states.
Rescan ==
    /\ engine = "scanning"
    /\ engine' = "open"
    /\ cas' = Staged(Paths)
    /\ RecordEntries({p \in Paths : ~MatchesRemote(p, disk[p])})
    /\ UNCHANGED <<server, user, cursor, inbound, base, receipts, apply, call, left, wire, aux>>

\* run_watch_bridge: one coalesced change reaches the engine, between two calls
\* of the session.
LocalChange(p) ==
    /\ engine = "open" /\ call \in {"idle", "deferred"} /\ p \in watch
    /\ watch' = watch \ {p}
    /\ RecordLocalChanges({p})
    /\ UNCHANGED <<server, disk, touched, edits, cursor, inbound, base, receipts, apply,
                   process, wire, aux>>

(***************************************************************************)
(* The session: what it delivers to the engine                             *)
(***************************************************************************)
\* resume_inbound_work, called last by a handler, with a fresh budget.
Resume(kind) ==
    /\ call' = kind
    /\ left' = MaxItemsPerCall
    /\ UNCHANGED engine

Subscribe ==
    /\ engine = "open" /\ conn = "off"
    /\ conn' = "begin"
    /\ UNCHANGED <<server, user, cursor, inbound, tables, local, apply, process,
                   next, ackSent, ackStored, drain, aux>>

\* What dies with the connection: its messages, those deferred and the drain.
Disconnected ==
    /\ conn' = "off" /\ next' = 0 /\ ackSent' = 0 /\ ackStored' = FALSE
    /\ deferred' = <<>> /\ budget' = 0
    /\ call' = (CASE call = "deferred" -> "idle" [] call = "replaying" -> "handler" [] OTHER -> call)
    /\ UNCHANGED <<engine, left>>

Drop ==
    /\ conn # "off" /\ drops < MaxDrops
    /\ Disconnected
    /\ drops' = drops + 1
    /\ UNCHANGED <<server, user, cursor, inbound, tables, local, apply, crashes, overtaken>>

\* begin_stream replaces a stream left over from an earlier connection.
SnapshotBegin ==
    /\ Idle /\ conn = "begin"
    /\ stream' = [on |-> TRUE, from |-> lastAck, final |-> Len(log), ended |-> FALSE]
    /\ item' = NoItems
    /\ live' = <<>>
    /\ conn' = "items" /\ next' = lastAck + 1
    /\ UNCHANGED <<server, user, cursor, tables, local, apply, process, ackSent, ackStored, drain, aux>>

\* Mutant: an item that has a receipt moves the cursor to its revision.
WorkspaceEventMovesCursor ==
    /\ Idle /\ conn = "items" /\ next <= stream.final
    /\ item' = [item EXCEPT ![next] = IF next \in receipts THEN "applied"
                                      ELSE IF ContentAvailable(next) THEN "ready" ELSE "waiting_blob"]
    /\ lastApplied' = IF next \in receipts THEN next ELSE lastApplied
    /\ next' = next + 1
    /\ Resume("handler")
    /\ UNCHANGED <<server, user, lastAck, pendingAck, segmentAck, stream, live, tables, local, apply,
                   conn, ackSent, ackStored, drain, aux>>

\* workspace_event: a diverged item is Ready without asking for its content.
WorkspaceEvent ==
    /\ Idle /\ conn = "items" /\ next <= stream.final
    /\ LET status == IF next \in receipts THEN "applied"
                     ELSE IF EventIsDiverged(next) \/ ContentAvailable(next) THEN "ready"
                     ELSE "waiting_blob"
       IN  item' = [item EXCEPT ![next] = status]
    /\ cas' = IF next \in receipts THEN cas ELSE Staged({PathOf(next)})
    /\ next' = next + 1
    /\ Resume("handler")
    /\ UNCHANGED <<server, user, cursor, stream, live, base, receipts, local, apply,
                   conn, ackSent, ackStored, drain, aux>>

SnapshotEnd ==
    /\ Idle /\ conn = "items" /\ next > stream.final
    /\ stream' = [stream EXCEPT !.ended = TRUE]
    /\ conn' = "tail"
    /\ Resume("handler")
    /\ UNCHANGED <<server, user, cursor, item, live, tables, local, apply,
                   next, ackSent, ackStored, drain, aux>>

(***************************************************************************)
(* Live events.  One that arrives before the Ack of the stream is confirmed *)
(* is deferred.  The deferred ones reach the engine in the next drain; one  *)
(* that arrives after the confirmation and before that drain overtakes      *)
(* them.                                                                    *)
(***************************************************************************)
LiveFrame == Idle /\ conn = "tail" /\ next <= Len(log)

\* defer_live_message
DeferEvent ==
    /\ LiveFrame /\ stream.on /\ Len(deferred) < MaxDeferred
    /\ deferred' = Append(deferred, next)
    /\ next' = next + 1
    /\ UNCHANGED <<server, user, cursor, inbound, tables, local, apply, process,
                   conn, ackSent, ackStored, budget, aux>>

\* defer_live_message at its limit: a retryable error that drops the connection.
DeferOverflow ==
    /\ LiveFrame /\ stream.on /\ Len(deferred) >= MaxDeferred
    /\ Disconnected
    /\ UNCHANGED <<server, user, cursor, inbound, tables, local, apply, aux>>

\* drain_outbound: the Ack goes first, then the deferred events, if the stream
\* they waited for is gone, then the engine is polled with the items left.  One
\* item is spent on finding each queue empty.
Drain ==
    /\ Idle /\ conn # "off"
    /\ ackSent' = IF AckDue THEN pendingAck ELSE ackSent
    /\ LET items == MaxDrainItems - (IF AckDue THEN 1 ELSE 0)
       IN  IF ~stream.on /\ deferred # <<>>
           THEN call' = "deferred" /\ budget' = items /\ UNCHANGED <<engine, left>>
           ELSE /\ IF items > 1 THEN Resume("poll") ELSE UNCHANGED process
                /\ UNCHANGED budget
    /\ UNCHANGED <<server, user, cursor, inbound, tables, local, apply,
                   conn, next, ackStored, deferred, aux>>

DrainReplay == engine = "open" /\ call = "deferred"

\* The loop over deferred_events ends with the queue or with the budget.
ReplayOver ==
    /\ DrainReplay /\ (deferred = <<>> \/ budget = 0)
    /\ IF deferred = <<>> /\ budget > 2 THEN Resume("poll")
       ELSE call' = "idle" /\ UNCHANGED <<engine, left>>
    /\ budget' = 0
    /\ UNCHANGED <<server, user, cursor, inbound, tables, local, apply,
                   conn, next, ackSent, ackStored, deferred, aux>>

\* Mutant: an event is handed over although the stream's Ack is outstanding.
HandedDuringStream(r) ==
    \/ LiveFrame /\ r = next
    \/ DrainReplay /\ budget > 0 /\ deferred # <<>> /\ r = Head(deferred)

\* Revision r is handed to the engine: by the connection, or out of deferred_events.
Handed(r) ==
    \/ LiveFrame /\ ~stream.on /\ r = next
    \/ DrainReplay /\ budget > 0 /\ deferred # <<>> /\ r = Head(deferred)

Taken ==
    /\ IF call = "idle"
       THEN /\ next' = next + 1
            /\ overtaken' = overtaken \cup Range(deferred)
            /\ UNCHANGED drain
       ELSE /\ deferred' = Tail(deferred)
            /\ budget' = budget - 1
            /\ UNCHANGED <<next, overtaken>>
    /\ UNCHANGED <<conn, ackSent, ackStored, crashes, drops>>

\* pending_live_revision_precedes_or_matches
PendingLivePrecedes(r) == live # <<>> /\ Head(live) <= r
InLive(r) == r \in Range(live)

\* Mutant: an exact receipt moves the cursors although an earlier event is queued.
EventExactUnordered(r) == r \in receipts

\* What event and enqueue_live_message do with r, in the order of their checks.
EventExact(r) == r \in receipts /\ ~PendingLivePrecedes(r)
NotOutstanding(r) == r \notin receipts /\ log[r].own /\ OwnRows(r) = {}
EventRefused(r) ==
    \/ NotOutstanding(r)
    \/ live # <<>> /\ ~EventExact(r) /\ ~InLive(r) /\ r < live[Len(live)]
QueueFull(r) == ~InLive(r) /\ Len(live) >= MaxPendingLive

\* event: an exact receipt with nothing queued before it only moves the cursors.
LiveEventExact(r) ==
    /\ Handed(r) /\ EventExact(r)
    /\ MarkLiveEventApplied(r)
    /\ Taken
    /\ UNCHANGED <<server, user, inbound, tables, local, apply, process>>

LiveEvent(r) ==
    /\ Handed(r) /\ ~EventExact(r) /\ ~EventRefused(r) /\ ~QueueFull(r)
    /\ live' = IF InLive(r) THEN live ELSE Append(live, r)
    /\ Taken
    /\ Resume(IF call = "idle" THEN "handler" ELSE "replaying")
    /\ UNCHANGED <<server, user, cursor, stream, item, tables, local, apply>>

\* enqueue_live_message at its limit: a retryable error that drops the connection.
LiveOverflow(r) ==
    /\ Handed(r) /\ ~EventExact(r) /\ ~EventRefused(r) /\ QueueFull(r)
    /\ Disconnected
    /\ UNCHANGED <<server, user, cursor, inbound, tables, local, apply, aux>>

\* live_revision_order and event_operation_not_outstanding: errors the agent
\* does not survive.
LiveEventRefused(r) ==
    /\ Handed(r) /\ EventRefused(r)
    /\ Exit
    /\ UNCHANGED <<server, disk, touched, edits, cursor, stream, item, tables, local,
                   journal, tomb, aux>>

\* commit_blob_import of a download some waiting item asked for.
BlobArrives(r) ==
    /\ Idle /\ conn # "off"
    /\ item[r] = "waiting_blob" \/ (live # <<>> /\ r = Head(live))
    /\ ~ContentAvailable(r)
    /\ cas' = cas \cup {Body(r)}
    /\ Resume("handler")
    /\ UNCHANGED <<server, user, cursor, inbound, base, receipts, local, apply, wire, aux>>

(***************************************************************************)
(* resume_inbound_work: one pending item per step                          *)
(***************************************************************************)
Working == engine = "open" /\ call \in {"handler", "poll", "replaying"} /\ ~journal.on
Spend == left' = left - 1 /\ UNCHANGED <<engine, call>>

\* The content check is skipped for an item already marked Ready.
StreamReady(r) ==
    /\ stream.on /\ IsNextItem(r)
    /\ r \in receipts \/ item[r] = "ready" \/ ContentAvailable(r)
LiveReady(r) == live # <<>> /\ r = Head(live) /\ ContentAvailable(r)

StreamStep(r) == Working /\ left > 0 /\ StreamReady(r)
LiveStep(r) == Working /\ left > 0 /\ LiveReady(r)

StreamItemExact(r) ==
    /\ StreamStep(r) /\ r \in receipts
    /\ item' = [item EXCEPT ![r] = "applied"]
    /\ Spend
    /\ UNCHANGED <<server, user, cursor, stream, live, tables, local, apply, wire, aux>>

\* apply_event fails for an operation of ours that is not outstanding, and its
\* commit for a revision the cursor is past.
StreamItemFails(r) ==
    \/ NotOutstanding(r)
    \/ (log[r].own \/ PostMatches(r)) /\ r < lastApplied

\* apply_event: our own operation, or a file that already is what r makes it,
\* needs no write.
StreamItemCommit(r) ==
    /\ StreamStep(r) /\ r \notin receipts /\ ~StreamItemFails(r)
    /\ log[r].own \/ PostMatches(r)
    /\ CommitStreamEvent(r, "applied")
    /\ RemoveOwnRow(r)
    /\ Spend
    /\ UNCHANGED <<server, user, stream, live, cas, apply, wire, aux>>

StreamItemPreserve(r) ==
    /\ StreamStep(r) /\ r \notin receipts
    /\ ~log[r].own /\ EventIsDiverged(r)
    /\ CommitStreamEvent(r, "preserved")
    /\ PreserveLocal(r)
    /\ cas' = Staged({PathOf(r)})
    /\ Spend
    /\ UNCHANGED <<server, user, stream, live, apply, wire, aux>>

\* apply_with_journal: the journal row records what the file looks like now.
Prepare(r, isLive) ==
    /\ ~PostMatches(r) /\ BaselineMatches(r)
    /\ journal' = [on |-> TRUE, rev |-> r, live |-> isLive, stage |-> "prepared",
                   expected |-> disk[PathOf(r)], receipt |-> "none"]
    /\ touched' = FALSE
    /\ cas' = Staged({PathOf(r)})
    /\ Spend
    /\ UNCHANGED <<server, disk, watch, edits, cursor, stream, live, base, receipts, local,
                   tomb, outcome, wire, aux>>

StreamItemPrepare(r) ==
    /\ StreamStep(r) /\ r \notin receipts /\ ~log[r].own
    /\ item' = [item EXCEPT ![r] = "ready"]
    /\ Prepare(r, FALSE)

\* apply_live_event fails likewise, also when it keeps the user's file.
LiveItemFails(r) ==
    \/ NotOutstanding(r)
    \/ (PostMatches(r) \/ EventIsDiverged(r)) /\ CursorRegresses(r)

LiveItemExact(r) ==
    /\ LiveStep(r) /\ r \in receipts
    /\ MarkLiveEventApplied(r)
    /\ live' = Tail(live)
    /\ Spend
    /\ UNCHANGED <<server, user, stream, item, tables, local, apply, wire, aux>>

LiveItemCommit(r) ==
    /\ LiveStep(r) /\ r \notin receipts /\ PostMatches(r) /\ ~LiveItemFails(r)
    /\ CommitLiveEvent(r)
    /\ RemoveOwnRow(r)
    /\ live' = Tail(live)
    /\ cas' = Staged({PathOf(r)})
    /\ Spend
    /\ UNCHANGED <<server, user, stream, item, apply, wire, aux>>

LiveItemPreserve(r) ==
    /\ LiveStep(r) /\ r \notin receipts /\ EventIsDiverged(r) /\ ~LiveItemFails(r)
    /\ CommitLiveEvent(r)
    /\ PreserveLocal(r)
    /\ live' = Tail(live)
    /\ cas' = Staged({PathOf(r)})
    /\ Spend
    /\ UNCHANGED <<server, user, stream, item, apply, wire, aux>>

LiveItemPrepare(r) ==
    /\ LiveStep(r) /\ r \notin receipts /\ ~LiveItemFails(r)
    /\ Prepare(r, TRUE)
    /\ UNCHANGED item

\* The errors of an item end the agent; the item stays pending.
ItemRefused(r) ==
    /\ \/ StreamStep(r) /\ r \notin receipts /\ StreamItemFails(r)
       \/ LiveStep(r) /\ r \notin receipts /\ LiveItemFails(r)
    /\ Exit
    /\ UNCHANGED <<server, disk, touched, edits, cursor, stream, item, tables, local,
                   journal, tomb, aux>>

(***************************************************************************)
(* The end of resume_inbound_work and of pending_commands                  *)
(***************************************************************************)
ResumeOver == Working /\ (left = 0 \/ ~\E r \in 1..Len(log) : StreamReady(r) \/ LiveReady(r))
\* A handler returns to the session, a replayed event to its drain, a poll goes on.
Return ==
    /\ call' = (CASE call = "poll" -> "intents" [] call = "replaying" -> "deferred" [] OTHER -> "idle")
    /\ left' = 0 /\ UNCHANGED engine

\* finish_stream_if_ready: the stream waits for its Ack, or needs none; then
\* materialize_local_intents.
FinishStream ==
    /\ ResumeOver /\ StreamComplete
    /\ lastApplied' = stream.final
    /\ segmentAck' = 0
    /\ \/ stream.final > lastAck /\ pendingAck' = stream.final /\ UNCHANGED <<stream, item>>
       \/ stream.final <= lastAck /\ stream' = NoStream /\ item' = NoItems /\ UNCHANGED pendingAck
    /\ call' = IF call = "poll" THEN "finish_poll" ELSE "finish"
    /\ left' = 0 /\ UNCHANGED engine
    /\ UNCHANGED <<server, user, lastAck, live, tables, local, apply, wire, aux>>

\* advance_segment_ack_if_stalled: every item settled, the End not yet here.
SegmentStalled ==
    /\ stream.on /\ ItemsSettled /\ pendingAck = 0
    /\ lastAck < lastApplied /\ lastApplied < stream.final

StopResume ==
    /\ ResumeOver /\ ~StreamComplete
    /\ segmentAck' = IF SegmentStalled THEN lastApplied ELSE segmentAck
    /\ Return
    /\ UNCHANGED <<server, user, lastAck, lastApplied, pendingAck, inbound, tables, local,
                   apply, wire, aux>>

\* materialize_local_intents has a transaction for every intent.  It runs when a
\* stream is finished and, once nothing inbound is pending, in pending_commands.
Materializing ==
    /\ engine = "open"
    /\ call \in {"finish", "finish_poll"} \/ (call = "intents" /\ ~stream.on /\ live = <<>>)

MaterializeIntent(p) ==
    /\ Materializing /\ (IntentStale(p) \/ IntentDue(p))
    /\ Materialize(p)
    /\ UNCHANGED <<server, user, cursor, inbound, tables, apply, process, wire, aux>>

MaterializeOver ==
    /\ engine = "open" /\ call \in {"finish", "finish_poll", "intents"}
    /\ Materializing => ~\E p \in Paths : IntentStale(p) \/ IntentDue(p)
    /\ call' = (CASE call = "finish" -> "idle" [] call = "finish_poll" -> "intents" [] OTHER -> "replay")
    /\ UNCHANGED <<server, user, cursor, inbound, tables, local, apply, engine, left, wire, aux>>

\* The Ack command of pending_commands, which the session drops if it may not
\* send it: the terminal one unless Online, any one while another is in flight.
PolledAck ==
    CASE ackSent # 0 -> ackSent
      [] AckDue -> pendingAck
      [] ackSent = 0 /\ pendingAck = 0 /\ conn \in {"items", "tail"} -> segmentAck
      [] OTHER -> 0

\* Every queued row is marked dispatched and handed to the session, and the Ack.
PendingOutboxReplay ==
    /\ engine = "open" /\ call = "replay"
    /\ outbox' = {[row EXCEPT !.sent = TRUE] : row \in outbox}
    /\ call' = "idle" /\ UNCHANGED <<engine, left>>
    /\ ackSent' = PolledAck
    /\ UNCHANGED <<server, user, cursor, inbound, tables, intent, ops, apply,
                   conn, next, ackStored, drain, aux>>

(***************************************************************************)
(* The apply journal: apply_with_journal, finish_apply_journal and, after  *)
(* a restart, recover_apply_journals                                       *)
(***************************************************************************)
JournalPath == PathOf(journal.rev)

\* recover_apply_journals: the live event of the row was overtaken, and the
\* cursor is past it.
JournalGap ==
    /\ engine = "recovering" /\ journal.on /\ journal.live
    /\ journal.stage \in {"prepared", "filesystem_started", "filesystem_applied"}
    /\ journal.rev < lastApplied

\* validate_legacy_live_event_gap: the one such gap that recovery can close.
GapRecoverable ==
    /\ Body(journal.rev) # Gone /\ ~stream.on
    /\ journal.rev = lastAck + 1 /\ pendingAck = lastApplied
    /\ journal.rev \notin receipts /\ base[JournalPath] <= journal.rev
    /\ log[journal.rev].own => OwnRows(journal.rev) # {}

Applying(stages) ==
    /\ engine \in {"open", "recovering"} /\ journal.on /\ journal.stage \in stages
    /\ JournalGap => GapRecoverable

\* preflight_legacy_live_event_gap fails, at every start.
GapRefused ==
    /\ JournalGap /\ ~GapRecoverable
    /\ Exit
    /\ UNCHANGED <<server, disk, touched, edits, cursor, stream, item, tables, local,
                   journal, tomb, aux>>

Stage(s) == journal' = [journal EXCEPT !.stage = s]

\* Mutant: the preimage is not compared again before the file is replaced.
PreimageUnchecked == TRUE

\* matches_preimage compares the fingerprint too; an absent file has none.
Preimage == disk[JournalPath] = journal.expected /\ (journal.expected = Gone \/ ~touched)
\* matches_postimage: a deletion also wants its backup file.
Postimage == disk[JournalPath] = Body(journal.rev) /\ (Body(journal.rev) = Gone => tomb # Gone)
\* apply_receipt_matches_workspace
ReceiptMatches ==
    /\ journal.receipt = "post"
    /\ disk[JournalPath] = Body(journal.rev)
    /\ Body(journal.rev) = Gone \/ ~touched

JournalStart ==
    /\ Applying({"prepared"})
    /\ Stage("filesystem_started")
    /\ UNCHANGED <<server, user, cursor, inbound, tables, local, tomb, outcome, process, wire, aux>>

WriterStep == Applying({"filesystem_started"}) /\ outcome = "none"

\* AtomicWorkspaceWriter::apply replaces the file and keeps the old one as a
\* backup until finalize.  What it does with a symlink is left out.
WriterApplies ==
    /\ WriterStep /\ Preimage /\ ContentAvailable(journal.rev)
    /\ disk' = [disk EXCEPT ![JournalPath] = Body(journal.rev)]
    /\ tomb' = journal.expected
    /\ touched' = FALSE
    /\ watch' = IF engine = "open" THEN watch \cup {JournalPath} ELSE watch
    /\ outcome' = "applied"
    /\ UNCHANGED <<server, edits, cursor, inbound, tables, local, journal, process, wire, aux>>

\* receipt_for_postimage: an earlier attempt, or the user, got there first.
WriterFindsPostimage ==
    /\ WriterStep /\ ~Preimage /\ Postimage
    /\ touched' = FALSE
    /\ outcome' = "applied"
    /\ UNCHANGED <<server, disk, watch, edits, cursor, inbound, tables, local, journal, tomb,
                   process, wire, aux>>

\* A missing blob, or a changed file while the engine is open, is an error the
\* agent does not survive.
WriterFails ==
    /\ WriterStep
    /\ \/ Preimage /\ ~ContentAvailable(journal.rev)
       \/ ~Preimage /\ ~Postimage /\ engine = "open"
    /\ Exit
    /\ UNCHANGED <<server, disk, touched, edits, cursor, stream, item, tables, local,
                   journal, tomb, aux>>

\* Mutant: the backup comes back whatever is at the path.
AbandonOverwrites ==
    /\ disk' = IF tomb # Gone THEN [disk EXCEPT ![JournalPath] = tomb] ELSE disk
    /\ touched' = TRUE
    /\ tomb' = Gone
    /\ outcome' = "preserved"
    /\ UNCHANGED <<server, watch, edits, cursor, inbound, tables, local, journal, process, wire, aux>>

\* abandon: the backup comes back when the path is empty, otherwise it goes.
Abandon ==
    /\ disk' = IF tomb # Gone /\ disk[JournalPath] = Gone
               THEN [disk EXCEPT ![JournalPath] = tomb] ELSE disk
    /\ touched' = TRUE
    /\ tomb' = Gone
    /\ outcome' = "preserved"
    /\ UNCHANGED <<server, watch, edits, cursor, inbound, tables, local, journal, process, wire, aux>>

RecoverMismatch ==
    /\ WriterStep /\ engine = "recovering" /\ ~Preimage /\ ~Postimage
    /\ Abandon

RecordFilesystemApplied ==
    /\ Applying({"filesystem_started"}) /\ outcome # "none"
    /\ journal' = [journal EXCEPT !.stage = "filesystem_applied",
                    !.receipt = IF outcome = "applied" THEN "post" ELSE "empty"]
    /\ UNCHANGED <<server, user, cursor, inbound, tables, local, tomb, outcome, process, wire, aux>>

\* After a restart the stored receipt is compared with the file.
RecoverCheck == Applying({"filesystem_applied", "database_committed", "finalized"}) /\ outcome = "none"

RecoverReceipt ==
    /\ RecoverCheck /\ ReceiptMatches
    /\ outcome' = "applied"
    /\ UNCHANGED <<server, user, cursor, inbound, tables, local, journal, tomb, process, wire, aux>>

RecoverChanged ==
    /\ RecoverCheck /\ ~ReceiptMatches
    /\ Abandon

\* Mutant: set_last_applied_revision takes any revision.
CommitNeverRegresses == FALSE

\* The commit of a revision the cursor is past fails, and the row stays.
CommitRegresses ==
    IF journal.live THEN CursorRegresses(journal.rev)
    ELSE outcome = "applied" /\ journal.rev < lastApplied

CommitRefused ==
    /\ Applying({"filesystem_applied"}) /\ outcome # "none" /\ ~JournalGap /\ CommitRegresses
    /\ Exit
    /\ UNCHANGED <<server, disk, touched, edits, cursor, stream, item, tables, local,
                   journal, tomb, aux>>

\* commit_legacy_live_event_gap takes the cursor back to the revision.
CommitGap ==
    /\ Applying({"filesystem_applied"}) /\ outcome # "none" /\ JournalGap
    /\ Settle(journal.rev)
    /\ RemoveOwnRow(journal.rev)
    /\ lastApplied' = journal.rev /\ pendingAck' = 0
    /\ Stage("database_committed")
    /\ UNCHANGED <<server, user, lastAck, segmentAck, inbound, cas, tomb, outcome, process, wire, aux>>

CommitApplied ==
    /\ Applying({"filesystem_applied"}) /\ outcome # "none" /\ ~JournalGap /\ ~CommitRegresses
    /\ IF journal.live
       THEN CommitLiveEvent(journal.rev) /\ UNCHANGED item
       ELSE CommitStreamEvent(journal.rev, outcome)
    /\ RemoveOwnRow(journal.rev)
    /\ Stage("database_committed")
    /\ UNCHANGED <<server, user, stream, live, cas, tomb, outcome, process, wire, aux>>

\* preserve_recovered_local_intent
RecoverLocalIntent ==
    /\ Applying({"database_committed", "finalized"}) /\ outcome = "preserved"
    /\ RecordLocalChanges({JournalPath})
    /\ outcome' = "kept"
    /\ UNCHANGED <<server, user, cursor, inbound, base, receipts, journal, tomb, process, wire, aux>>

FinalizeFilesystem ==
    /\ Applying({"database_committed"}) /\ outcome \in {"applied", "kept"} /\ tomb # Gone
    /\ tomb' = Gone
    /\ UNCHANGED <<server, user, cursor, inbound, tables, local, journal, outcome, process, wire, aux>>

JournalFinalized ==
    /\ Applying({"database_committed"}) /\ outcome \in {"applied", "kept"} /\ tomb = Gone
    /\ Stage("finalized")
    /\ UNCHANGED <<server, user, cursor, inbound, tables, local, tomb, outcome, process, wire, aux>>

\* remove_apply_journal; a live event is popped only now.
JournalRemove ==
    /\ Applying({"finalized"}) /\ outcome \in {"applied", "kept"}
    /\ journal' = NoJournal
    /\ outcome' = "none"
    /\ live' = IF engine = "open" /\ journal.live THEN Tail(live) ELSE live
    /\ UNCHANGED <<server, user, cursor, stream, item, tables, local, tomb, process, wire, aux>>

(***************************************************************************)
(* Acks and mutation results                                               *)
(***************************************************************************)
\* What ack_confirmed accepts; anything else is a protocol error.
AckAcceptable(r) ==
    IF pendingAck = 0
    THEN r = lastAck \/ (r = segmentAck /\ lastAck < r /\ r <= lastApplied)
    ELSE lastAck < r /\ r <= pendingAck /\ r <= lastApplied

\* Mutant: confirming a segment's Ack ends the stream as the final Ack does.
AckConfirmedEndsStream ==
    /\ Idle /\ ackStored /\ AckAcceptable(ackSent)
    /\ lastAck' = ackSent
    /\ ackSent' = 0 /\ ackStored' = FALSE
    /\ pendingAck' = IF ackSent = pendingAck THEN 0 ELSE pendingAck
    /\ segmentAck' = 0 /\ stream' = NoStream /\ item' = NoItems
    /\ UNCHANGED <<server, user, lastApplied, live, tables, local, apply, process,
                   conn, next, drain, aux>>

AckConfirmed ==
    /\ Idle /\ ackStored /\ AckAcceptable(ackSent)
    /\ lastAck' = ackSent
    /\ ackSent' = 0 /\ ackStored' = FALSE
    /\ IF ackSent = pendingAck
       THEN pendingAck' = 0 /\ segmentAck' = 0 /\ stream' = NoStream /\ item' = NoItems
       ELSE /\ segmentAck' = IF pendingAck = 0 /\ ackSent > lastAck THEN 0 ELSE segmentAck
            /\ UNCHANGED <<pendingAck, stream, item>>
    /\ UNCHANGED <<server, user, lastApplied, live, tables, local, apply, process,
                   conn, next, drain, aux>>

\* ack_not_pending and ack_mismatch end the session for good, and the agent; so
\* does the server's refusal of an Ack behind the one it has.
AckRefused ==
    /\ Idle /\ ackSent # 0
    /\ IF ackStored THEN ~AckAcceptable(ackSent) ELSE ackSent < serverAck
    /\ Exit
    /\ UNCHANGED <<server, disk, touched, edits, cursor, stream, item, tables, local,
                   journal, tomb, aux>>

MutationAccepted(row) ==
    /\ Idle /\ conn # "off" /\ row.sent
    /\ \E r \in 1..Len(log) :
        /\ row \in OwnRows(r)
        /\ Settle(r)
        /\ Requeue(row.path, r, {row}, intent[row.path])
    /\ UNCHANGED <<server, user, cursor, inbound, cas, apply, process, wire, aux>>

\* mutation_rejected with stale_base_revision: reconcile_stale takes the
\* server's state as the new base.  Events the server sent before its answer
\* have been delivered.
MutationRejectedStale(row) ==
    LET p == row.path
    IN  /\ Idle /\ conn # "off" /\ row.sent
        /\ ~Committed(row)
        /\ \E current \in 0..Len(log) :
            /\ current = Latest(p) /\ current # row.base
            /\ conn = "tail" /\ ~stream.on => current < next
            /\ base' = [base EXCEPT ![p] = current]
            /\ Requeue(p, current, {row}, IF intent[p] # NoBody THEN intent[p] ELSE row.body)
        /\ UNCHANGED <<server, user, cursor, inbound, receipts, cas, apply, process, wire, aux>>

(***************************************************************************)
(* The specification                                                       *)
(***************************************************************************)
Init ==
    /\ log = <<>> /\ serverAck = 0
    /\ disk = [p \in Paths |-> Gone] /\ touched = FALSE /\ watch = {} /\ edits = 0
    /\ lastAck = 0 /\ lastApplied = 0 /\ pendingAck = 0 /\ segmentAck = 0
    /\ stream = NoStream /\ item = NoItems /\ live = <<>>
    /\ base = [p \in Paths |-> 0] /\ receipts = {} /\ cas = {}
    /\ intent = [p \in Paths |-> NoBody] /\ outbox = {} /\ ops = [p \in Paths |-> 0]
    /\ journal = NoJournal /\ tomb = Gone /\ outcome = "none"
    /\ engine = "down" /\ call = "idle" /\ left = 0
    /\ conn = "off" /\ next = 0 /\ ackSent = 0 /\ ackStored = FALSE
    /\ deferred = <<>> /\ budget = 0
    /\ crashes = 0 /\ drops = 0 /\ overtaken = {}

MutationResult == \E row \in outbox : MutationAccepted(row) \/ MutationRejectedStale(row)

StreamItem(r) == \/ StreamItemExact(r) \/ StreamItemCommit(r)
                 \/ StreamItemPreserve(r) \/ StreamItemPrepare(r)

LiveItem(r) == \/ LiveItemExact(r) \/ LiveItemCommit(r)
               \/ LiveItemPreserve(r) \/ LiveItemPrepare(r)

JournalStep ==
    \/ JournalStart \/ WriterApplies \/ WriterFindsPostimage \/ WriterFails
    \/ RecordFilesystemApplied \/ CommitApplied \/ CommitRefused \/ CommitGap \/ GapRefused
    \/ RecoverMismatch \/ RecoverReceipt \/ RecoverChanged \/ RecoverLocalIntent
    \/ FinalizeFilesystem \/ JournalFinalized \/ JournalRemove

\* What the engine thread does on its own once a call has started.
EngineStep ==
    \/ \E r \in 1..Len(log) : StreamItem(r) \/ LiveItem(r) \/ ItemRefused(r)
    \/ \E p \in Paths : MaterializeIntent(p)
    \/ FinishStream \/ StopResume \/ MaterializeOver \/ PendingOutboxReplay \/ ReplayOver
    \/ JournalStep

HandLive(r) == \/ LiveEventExact(r) \/ LiveEvent(r)
               \/ LiveOverflow(r) \/ LiveEventRefused(r)

\* A message of the connection, or a deferred one, reaches the engine.
Deliver ==
    \/ SnapshotBegin \/ WorkspaceEvent \/ SnapshotEnd \/ DeferEvent \/ DeferOverflow
    \/ \E r \in 1..Len(log) : HandLive(r) \/ BlobArrives(r)
    \/ AckConfirmed \/ AckRefused \/ MutationResult

StartUp == Restart \/ RecoveryDone \/ Rescan
ServerAnswers == ServerStoresAck \/ \E row \in outbox : ServerCommitOwn(row)
ReportChange == \E p \in Paths : LocalChange(p)

Next ==
    \/ \E p \in RemotePaths : ServerCommitRemote(p)
    \/ \E p \in UserPaths : UserWrite(p)
    \/ Crash \/ Drop
    \/ StartUp \/ Subscribe \/ Deliver \/ Drain
    \/ ReportChange \/ ServerAnswers \/ EngineStep

Spec == Init /\ [][Next]_vars

\* The agent is restarted and reconnects, its engine thread runs, the session's
\* loop serves its sources (messages, polls, watcher changes) in turn, and the
\* server answers.  Nothing is assumed of users, crashes and lost connections.
Fairness ==
    /\ WF_vars(StartUp) /\ WF_vars(Subscribe) /\ WF_vars(EngineStep) /\ WF_vars(ServerAnswers)
    /\ SF_vars(Deliver) /\ SF_vars(Drain) /\ SF_vars(ReportChange)

FairSpec == Spec /\ Fairness

(***************************************************************************)
(* Properties                                                              *)
(***************************************************************************)
Rows == [path : Paths, op : Nat, body : Contents, base : 0..MaxRev, sent : BOOLEAN]
Entries == [path : Paths, body : Contents, own : BOOLEAN, op : Nat]

\* The cursors, the stream, the live queue, the journal and the session.
SyncTypes ==
    /\ log \in Seq(Entries) /\ Len(log) <= MaxRev
    /\ lastAck \in 0..Len(log) /\ lastApplied \in 0..Len(log)
    /\ pendingAck \in 0..Len(log) /\ segmentAck \in 0..Len(log)
    /\ serverAck \in 0..Len(log) /\ ackSent \in 0..Len(log) /\ ackStored \in BOOLEAN
    /\ stream \in [on : BOOLEAN, from : 0..Len(log), final : 0..Len(log), ended : BOOLEAN]
    /\ item \in [Revs -> Statuses]
    /\ live \in Seq(1..Len(log)) /\ deferred \in Seq(1..Len(log))
    /\ Len(live) <= MaxPendingLive /\ Len(deferred) <= MaxDeferred
    /\ receipts \subseteq 1..Len(log) /\ overtaken \subseteq 1..Len(log)
    /\ journal \in [on : BOOLEAN, rev : 0..Len(log), live : BOOLEAN, stage : Stages,
                    expected : Contents, receipt : {"none", "post", "empty"}]
    /\ outcome \in {"none", "applied", "preserved", "kept"}
    /\ engine \in {"down", "recovering", "scanning", "open"}
    /\ call \in {"idle", "handler", "poll", "finish", "finish_poll", "intents", "replay",
                 "deferred", "replaying"}
    /\ budget \in 0..MaxDrainItems
    /\ conn \in {"off", "begin", "items", "tail"} /\ next \in 0..(Len(log) + 1)

\* The workspace, the tables of path states and local changes, the counters.
DataTypes ==
    /\ disk \in [Paths -> Contents] /\ tomb \in Contents
    /\ touched \in BOOLEAN /\ watch \subseteq Paths /\ edits \in 0..MaxEdits
    /\ base \in [Paths -> 0..Len(log)] /\ cas \subseteq Contents \ {Gone}
    /\ intent \in [Paths -> Contents \cup {NoBody}]
    /\ outbox \subseteq Rows /\ ops \in [Paths -> Nat]
    /\ left \in 0..MaxItemsPerCall
    /\ crashes \in 0..MaxCrashes /\ drops \in 0..MaxDrops

\* Every variable has its type, the queues keep to their limits, and no revision
\* the agent stores is one the server has not committed.
TypeOK == SyncTypes /\ DataTypes

\* A revision is acknowledged, sent for acknowledgement or queued for it only
\* when it and every revision before it have been settled in the database: what
\* docs/sync-event-chain.md says of pending_ack_revision.  A live event that
\* overtakes a deferred one breaks it.
AckSafety ==
    \A a \in {lastAck, serverAck, ackSent, pendingAck, segmentAck} : 1..a \subseteq receipts

\* What the engine has behind it: settled, or overtaken while it was deferred.
Settled == receipts \cup overtaken

\* What is true of the Acks: whatever crashed, was redelivered or waited for
\* content in between, a revision before one that is acknowledged, sent or queued
\* for it is settled, unless it was deferred when a later one was handed to the
\* engine.
AckedUnlessOvertaken ==
    \A a \in {lastAck, serverAck, ackSent, pendingAck, segmentAck} : 1..a \subseteq Settled

\* Why AckedUnlessOvertaken holds.  The cursors: each is a settled revision, every
\* Ack of the client is at most lastApplied, and an Ack still to be sent is news
\* to the client.  As long as nothing was overtaken, the server never holds an
\* Ack ahead of what the client has still to confirm.
CursorInv ==
    /\ 1..lastApplied \subseteq Settled /\ 1..serverAck \subseteq Settled
    /\ {lastAck, lastApplied, ackSent, pendingAck, segmentAck} \subseteq receipts \cup {0}
    /\ lastAck <= lastApplied /\ ackSent <= lastApplied
    /\ pendingAck <= lastApplied /\ segmentAck <= lastApplied
    /\ pendingAck # 0 => lastAck < pendingAck /\ segmentAck = 0
    /\ segmentAck # 0 => lastAck < segmentAck /\ stream.on /\ segmentAck < stream.final
    /\ conn \in {"off", "begin"} => ackSent = 0
    /\ ackSent = 0 => ~ackStored
    /\ ackStored => serverAck = ackSent
    /\ stream.on /\ ackSent # 0 =>
         \/ pendingAck = 0 /\ ackSent < stream.final
         \/ pendingAck = stream.final /\ conn = "tail"
    /\ overtaken = {} =>
         /\ serverAck <= lastApplied /\ (ackSent # 0 => serverAck <= ackSent)
         /\ \A a \in {serverAck, ackSent} : a <= lastAck \/ a <= pendingAck \/ a <= segmentAck

\* The stream starts at a settled revision, its items arrive in order, and
\* the settled ones have a receipt.
StreamInv ==
    /\ stream.on => stream.from <= lastApplied /\ lastApplied <= stream.final
    /\ \A r \in Revs : item[r] # "absent" => stream.on /\ stream.from < r /\ r <= stream.final
    /\ \A r \in Revs : item[r] \in {"applied", "preserved"} => r \in receipts
    /\ \A r, q \in Revs : item[r] # "absent" /\ stream.from < q /\ q < r => item[q] # "absent"
    /\ conn = "items" => /\ stream.on /\ ~stream.ended
                         /\ stream.from < next /\ next <= stream.final + 1
                         /\ \A r \in Revs : stream.from < r /\ r < next => item[r] # "absent"
    /\ conn = "tail" => next # 0 /\ (stream.on => stream.final < next)

Increasing(s) == \A i, j \in 1..Len(s) : i < j => s[i] < s[j]

\* The queues of live events are in order, and every revision before a queued
\* one, or before the next one to come, is settled, overtaken, queued, deferred
\* or an item of the stream.
LiveInv ==
    /\ stream.on => live = <<>> /\ call \notin {"deferred", "replaying"}
    /\ deferred # <<>> => conn = "tail"
    /\ Increasing(live) /\ Increasing(deferred)
    /\ \A r \in Range(deferred) : r < next
    /\ \A r \in Range(live) : 1..(r - 1) \subseteq Settled \cup Range(live)
    /\ conn = "tail" =>
         1..(next - 1) \subseteq Settled \cup Range(live) \cup Range(deferred)
                                 \cup (IF stream.on THEN 1..stream.final ELSE {})

\* At most one revision is being applied, every revision before it is behind the
\* engine, and nothing else runs until its journal row is gone.
JournalInv ==
    /\ engine # "open" => live = <<>> /\ conn = "off" /\ call = "idle"
    /\ journal.on => engine # "scanning" /\ (engine = "open" => call \in {"handler", "poll", "replaying"})
    /\ ~journal.on => outcome = "none"
    /\ journal.on =>
         /\ journal.rev # 0 /\ 1..(journal.rev - 1) \subseteq Settled
         /\ IF journal.stage \in {"database_committed", "finalized"}
            THEN journal.rev \in receipts
            ELSE journal.rev \notin receipts /\ outcome # "kept"
         /\ IF journal.live
            THEN ~stream.on /\ (engine = "open" => live # <<>> /\ Head(live) = journal.rev)
            ELSE stream.on /\ item[journal.rev] # "absent"

AckInv == CursorInv /\ StreamInv /\ LiveInv /\ JournalInv

\* ack_confirmed never sees a confirmation it treats as a protocol error, even
\* when a segment Ack is overtaken by the end of its stream.
AckAlwaysAcceptable == ackStored => AckAcceptable(ackSent)

\* The event of an operation of ours that is not settled finds its outbox row:
\* event_operation_not_outstanding, which ends the agent, cannot happen.
OwnEventOutstanding ==
    \A r \in 1..Len(log) : log[r].own /\ r \notin receipts => OwnRows(r) # {}

\* When nothing is in progress, a file that differs from the state path_states
\* records for it has an intent or an outbox row: no edit is forgotten.
EditsAccounted ==
    \A p \in Paths :
        engine = "open" /\ call = "idle" /\ p \notin watch /\ ~MatchesRemote(p, disk[p])
            => intent[p] # NoBody \/ RowsOf(p) # {}

\* What the engine writes to disk comes back from the watcher, and from a scan
\* after a restart, without ever becoming a mutation of its own: a path the user
\* leaves alone has no intent and no outbox row.
NoEcho == \A p \in Paths \ UserPaths : intent[p] = NoBody /\ RowsOf(p) = {}

\* The cursors of workspace_cursor only move forward, except in the recovery of
\* an apply journal whose live event was overtaken, which takes lastApplied back
\* to that event.
CursorsAdvance ==
    [][ /\ lastAck' >= lastAck
        /\ \/ lastApplied' >= lastApplied /\ (pendingAck' # 0 => pendingAck' >= pendingAck)
           \/ JournalGap /\ journal.rev \in overtaken /\ lastApplied' = journal.rev ]_vars

\* A step of the engine that replaces or removes a file takes away only the
\* version the server has for it, never something the user wrote meanwhile.
UserContentSafe ==
    [][ \A p \in Paths : disk'[p] # disk[p] /\ edits' = edits
            => disk[p] \in {Gone, Body(base[p])} ]_vars

\* The overtaken revisions that the cursor is past and the engine has not settled.
Skipped == {r \in overtaken \ receipts : r <= lastApplied}

Converged ==
    /\ lastAck = Len(log) /\ serverAck = lastAck /\ ~journal.on /\ outbox = {}
    /\ \A p \in Paths : disk[p] = Body(Latest(p)) /\ intent[p] = NoBody

\* Once users and failures stop, the workspace is the server's head, everything
\* is acknowledged and nothing is left to send.  Only an overtaken revision can
\* prevent it: one that stays skipped, or one whose recovery took the cursor back
\* behind the Ack that the server has, which refuses every segment Ack up to it.
Converges == <>[]Converged \/ <>[](Skipped # {} \/ lastApplied < serverAck)

\* Everything delivered, settled, acknowledged and sent, nothing left to report.
Quiescent ==
    /\ Idle /\ conn = "tail" /\ next > Len(log) /\ lastAck = Len(log)
    /\ watch = {} /\ outbox = {} /\ \A p \in Paths : intent[p] = NoBody

\* A workspace with nothing left to do has the server's version of every file,
\* unless a revision of that file was overtaken and never settled.
QuiescentInSync ==
    Quiescent => \A p \in Paths :
        \/ disk[p] = Body(Latest(p))
        \/ \E r \in overtaken \ receipts : PathOf(r) = p

\* A journal never starts for a revision whose content is not in the CAS.
ContentBeforeApply == journal.on => ContentAvailable(journal.rev)

\* The engine creates a file that is absent only with the content of the
\* revision it is applying: what the user deleted does not come back.
DeletionKept ==
    [][ \A p \in Paths : disk[p] = Gone /\ disk'[p] # Gone /\ edits' = edits
            => disk'[p] = Body(journal.rev) ]_vars

=============================================================================
