# Formal model of the CCHaven synchronization agent

TLA+ specifications, model-checking runs and TLAPS proofs for the part of this
repository whose correctness is hardest to test: the engine that keeps a
workspace directory and a server in step (`cchaven/crates/fns-sync-core`, with
the parts of `fns-transport`, `fns-fs` and `fns-agent` it works with).
`PROJECT.json` lists the components, runs, mutants, source map, findings,
hazards and theorems in machine-readable form.

## The system

| Part | State | Operations | What is hard |
| --- | --- | --- | --- |
| Sync engine (`fns-sync-core`) | SQLite tables `workspace_cursor`, `stream_state`, `stream_revision_items`, `path_states`, `applied_operations`, `outbox`, `local_intents`, `apply_journal`; the live queue in memory | one handler per message, `pending_commands`, `record_local_changes`, recovery in `open` | revisions arrive twice, out of step with answers, and before their content; the process dies between any two writes; the user edits the files being replaced |
| Atomic writer (`fns-fs`) | the file, `.fns-tmp-<id>`, `.fns-delete-<id>` | `apply`, `finalize`, `abandon` | a file that changes between check and rename; a crash between two renames |
| Watcher and coalescer (`fns-fs`) | pending paths, rename halves, suppressions | `push`, `flush_ready`, scan | lost events, echoes of the engine's own writes |
| Session (`fns-transport`) | phase, request table, deferred messages, transfers | `handle_text_frame`, `drain_outbound` | live messages that overtake a stream, Ack ordering, reconnects |
| Agent (`bins/fns-agent`) | engine thread, watcher bridge, transport loop, supervisor's child | start, reconnect, shutdown, restart | errors that end the process, restarts that meet the same error |
| Desktop (`apps/desktop`) | projects, tunnels, deployments | start, stop, deploy | processes and tunnels that die independently |
| Control plane (`services/cchaven-control`) | PostgreSQL: session families, refresh tokens, orders, subscriptions, referrals | refresh, revoke, checkout, payment notification, refund | concurrent rotation of one token, redelivered notifications |
| Codex tools (`codex/`) | settings, relay selector, session files | select a relay, rewrite configuration and session data | a selector shared by concurrent requests, partial rewrites |

The engine runs on one thread and handles one call at a time. A call comes from
the session (a message, or a poll for commands) or from the watcher bridge (a
changed path). Three further actors interleave with the steps *inside* a call:
the user, who writes to the same files; the server, which commits revisions of
other clients; and failure, which takes the connection or the process away. The
sync server is not in this repository.

What the engine should guarantee, and what the properties below say:

- an Ack tells the server that everything up to a revision is settled here (it is
  not quite so: see `overtaken` below for the one way round it);
- cursors do not go back, whatever is delivered again;
- nothing the user wrote is overwritten, and no edit of theirs is forgotten;
- what the engine itself writes is not sent back as an edit;
- an operation the server commits is one the client still knows;
- once users and failures stop, both sides agree and nothing is left to do.

## Modules

| Module | What it holds |
| --- | --- |
| `SyncEngine` | the engine with its session, writer, watcher and server; properties |
| `MCSyncEngine` | the model-checking instance: `SyncEngine` and two state constraints |
| `SyncEngineTypes`, `SyncEngineData` | every step preserves the two halves of the type invariant |
| `SyncEngineQueues` | delivering, deferring and refusing revisions preserves the Ack invariant |
| `SyncEngineAcks` | so does settling them |
| `SyncEngineProofs` | so does every other step; type correctness and Ack safety |
| `SyncEngineSteps` | cursors go back only to close a gap, and the engine never takes away what the user wrote |

### SyncEngine

State and code. `lastAck`, `lastApplied`, `pendingAck` and `segmentAck` are the
columns of `workspace_cursor`; `stream` and `item` are `stream_state` and
`stream_revision_items`; `base` is `path_states` (a path's revision), `receipts`
is `applied_operations`, `cas` the content store; `intent` and `outbox` are
`local_intents` and `outbox`, and `ops` numbers the operation ids used; `journal`
is the `apply_journal` row and `tomb` the backup file of the writer. `disk` is the
workspace, `watch` the changes the watcher has still to report and `touched` that
the user wrote to the path being applied. `engine` is the phase of the process,
`call` the handler that runs, `left` its work budget, `live` the in-memory queue of
live events and `outcome` what recovery or the writer found. `conn`, `next`,
`ackSent` and `ackStored` are the connection: its phase, the next revision it
delivers and the Ack in flight; `deferred` is the session's `deferred_events` and
`budget` the items its drain has left. `log` and `serverAck` are the server,
external. `overtaken` is a history variable that no guard reads: the revisions that
were deferred when a later one was handed to the engine.

Actions and code. Messages: `SnapshotBegin`, `WorkspaceEvent`, `SnapshotEnd`,
`BlobArrives`, `AckConfirmed`, `AckRefused`, `MutationAccepted`,
`MutationRejectedStale`. A live event is deferred while the Ack of the stream is
outstanding (`DeferEvent`, `DeferOverflow` at the limit); otherwise it is handed to
the engine, as one out of `deferred` is by a drain. `Handed` is either way, and
`LiveEventExact`, `LiveEvent`, `LiveOverflow` and `LiveEventRefused` are what `event`
and `enqueue_live_message` make of it. `Drain` is `drain_outbound` in its order: the
Ack, the deferred events one by one until they or the budget end (`ReplayOver`), the
poll.

Each handler that ends in `resume_inbound_work` starts a call whose steps are
`StreamItem*` and `LiveItem*` (one item each, as one transaction), then
`FinishStream` or `StopResume`. `materialize_local_intents` has a transaction for
every intent: `MaterializeIntent` until `MaterializeOver`, after `FinishStream` and
in a poll; a poll ends with `PendingOutboxReplay`, which marks the rows and sends
the Ack the session lets through (`PolledAck`). An item that has to be written goes
through the journal: `JournalStart`, `WriterApplies`, `RecordFilesystemApplied`,
`CommitApplied`, `FinalizeFilesystem`, `JournalFinalized`, `JournalRemove`, with a
crash possible between any two, and `Recover*` and `Abandon` after a restart. Step
boundaries are the SQLite transactions and the filesystem operations of the code.
`Rescan` and `LocalChange` are `record_local_changes`, after a start and from the
watcher.

Errors. An error the transport does not retry is `Exit`: an own event that is not
outstanding or a live event out of order (`LiveEventRefused`), an item or a journal
row whose commit would take a cursor back (`ItemRefused`, `CommitRefused`), an Ack
nobody waits for (`AckRefused`), a writer that finds no content or a changed file
(`WriterFails`). A row of a live event that the cursor is past is met again by
recovery: `CommitGap` is `commit_legacy_live_event_gap`, which closes one kind of gap
and takes `lastApplied` back to it; any other is `GapRefused`, at every start.

Abstractions.

- A content is an integer that stands for bytes and metadata together: `Gone`,
  the revision that made it, or the negative number of a user's write.
- Paths are independent files: no renames, directories or symlinks, and no rules
  that exclude paths. With them go the pairing of renames in `scan_changes` and the
  `PathEscape` branches of `rename_checked`, which remove the entry at the path, or
  its backup, when it turns out to be a symlink: `UserContentSafe` says nothing of
  them.
- Streams are incremental. Revision 0 is where an earlier full snapshot left the
  workspace.
- No conflict records, no upload of a blob the server asks for, and no rows
  migrated from an older schema (legacy receipts and journal rows).
- The writer checks and replaces in one step.
- A change is read from the disk when it is processed; the kind the coalescer
  attaches to it is not kept.
- The byte budget of a call is part of the item budget; a poll is not cut short
  by its command limit. An Ack in flight dies with the connection.
- The session's `pending_outbound` is empty when a drain starts, so a drain spends
  one item on finding it so; `MaxDrainItems` counts what the two transfer steps leave.
  A refresh is left out: only a refused conflict resolution asks for one.
- The server commits a mutation whose base is the path's latest revision, rejects
  others as stale, stores an Ack unless it is behind the one it has, and never
  reorders one connection's messages.

## Runs

Every run instantiates `MCSyncEngine`. `MaxItemsPerCall` is 2, `MaxPendingLive` and
`MaxDeferred` are 1 (2 in `live`) and `MaxDrainItems` is 2 (4 in `edits`): a call that
runs out of budget, queues that are full, and a drain whose budget ends before or
after its poll then all occur.

| Run | Instance | Checks |
| --- | --- | --- |
| `edits` | one path, written by the user (twice) and by others (twice), no failures | `TypeOK`, `OwnEventOutstanding`, `UserContentSafe` |
| `crash` | one path, one edit, two remote revisions, one crash or one lost connection | `EditsAccounted`, `UserContentSafe` |
| `converge` | one path of the user's, one of others', three revisions, one crash; fair | `NoEcho`, `QuiescentInSync`, `Converges` |
| `segments` | two paths, four remote revisions, one edit, one lost connection; states of up to two streams | `AckInv`, `CursorsAdvance` |
| `live` | one path of the user's, one of others', three revisions, one crash and one lost connection | `AckInv`, `AckedUnlessOvertaken`, `CursorsAdvance` |
| `overtaken` | as `live`, without failures | violates `AckSafety` |
| `stale_segment_ack` | as `segments` | violates `AckAlwaysAcceptable` |
| `missing_content` | as `edits` | violates `ContentBeforeApply` |
| `lost_edit` | as `edits` | violates `EditsAccounted` |
| `deletion` | one edit, one crash, no lost connection | violates `DeletionKept` |

Why these bounds. The races of the engine are between one revision, one edit and
one failure on a path; a second edit adds undoing the first, a second revision
adds a baseline that is not revision 0. Overtaking takes three revisions: one for a
stream, one deferred behind it and one that overtakes, on two paths so that the
last does not depend on the others. The constraint `OneFailure` of `crash` leaves
out runs with both a crash and a lost connection, which `live` has. A segment Ack
that is raised while in flight needs two streams of two revisions, hence four
revisions on two paths in `segments`. That is too large to explore freely: the
constraint `TwoSegments` keeps two revisions per connection, on alternating paths,
no remote deletions, no mutation sent and no live events. `segments` is therefore a
scenario of streams and not a whole instance; live events and crashes are the
subject of `live`. `AckInv` and `CursorsAdvance` are also proved, without any
constraint and for all constants.

`EditsAccounted` does not hold in general: `lost_edit` breaks it with an edit and
its undoing. `crash` has one edit, and there it holds with a crash or a lost
connection at any point. `converge` keeps the user's path apart from the others',
because a stale rejection on a shared path can move the path state ahead of an event
that still waits for content (see the hazards): `QuiescentInSync` and `Converges` are
claims about paths that one side writes. Both make an exception for overtaken
revisions, and only for them: `QuiescentInSync` for a path with a revision that was
overtaken and never settled, `Converges` for a run in which one stays skipped or in
which its recovery leaves the cursor behind the Ack the server has, so that the
server refuses every segment Ack up to it.

Fairness (`FairSpec`, used by `converge`). Weak fairness for starting up,
subscribing, the engine thread and the server's answers: each, once enabled,
stays enabled until it happens. Strong fairness for delivery, drains (which send
Acks and poll) and watcher changes: they are disabled while a call runs, and the
session's loop (`run_inner`) and the engine's queue serve their sources in turn. Nothing is
assumed of users, other clients, crashes or lost connections, whose numbers the
bounds limit. A supervisor that restarts the agent is assumed.

Deadlock is checked in every run.

### Findings

- `overtaken`: the confirmation of a stream's Ack ends the deferral of live events at
  once, while those already deferred wait for the next drain. One that arrives in
  between is settled first and moves `lastApplied` and `pending_ack` past them; the
  drain sends this Ack before it replays them. If the connection is lost once the
  server has stored it and the client has confirmed it, the next stream starts behind
  them and they never come again. Replayed, they are behind the cursor: the agent
  exits with a cursor regression, and a journal row left by it is recovered by
  `CommitGap` or refused at every start.
- `stale_segment_ack`: `advance_segment_ack_if_stalled` may raise the target while
  the Ack for the old one is in flight. The confirmation then is
  `ack_not_pending`, which is not retried and ends the agent.
- `missing_content`: an item whose file has diverged is marked ready without its
  content. If the user puts the recorded version back first, the journal starts
  without content, the writer fails, and so does every recovery until the blob
  is there.
- `lost_edit`: an edit undone while its mutation is in flight and a stream is
  active is dropped as an echo; once the mutation is accepted, the disk differs
  from the recorded state and nothing says so until the next scan.
- `deletion`: a file deleted after the engine replaced it and before a crash comes
  back in the version before the update, and is sent as a local change.

## Proofs

| Theorem | States |
| --- | --- |
| `TypeCorrect` | `Spec => []TypeOK` |
| `AckInvariant` | `Spec => []AckInv` |
| `AcksAreSafe` | `Spec => []AckedUnlessOvertaken` |
| `CursorsOnlyAdvance` | `Spec => CursorsAdvance` |
| `EngineKeepsUserContent` | `Spec => UserContentSafe` |

The first three are in `SyncEngineProofs`, the others in `SyncEngineSteps`. They
hold for every set of paths and every bound, from `ConstantsAssumption` alone. The
proofs are spread over six modules of moderate size because the prover slows down
with the length of a module.

`AckSafety` itself is false (`overtaken`). What is proved is that overtaking is the
only way to break it: `AckedUnlessOvertaken` says that a revision before an Ack has
a receipt or is in `overtaken`, which the specification extends only where a live
event is handed over while others are deferred. A run of the agent without that step
keeps `overtaken` empty, and then the theorem is `AckSafety`.

`AckedUnlessOvertaken` is not inductive: that an Ack may be sent depends on why the
cursor may move. `AckInv` is the strengthening, in four parts; `Settled` is
`receipts \cup overtaken`. `CursorInv`: everything up to `lastApplied` and the
server's Ack is `Settled`, each cursor is itself a revision with a receipt, every
Ack of the client is at most `lastApplied`, and, as long as nothing was overtaken,
what the server holds is covered by `lastAck`, `pendingAck` or `segmentAck`.
`StreamInv`: items arrive in order from a settled revision, and settled items have
receipts. `LiveInv`: both queues are in order, whatever precedes a queued live event
is `Settled` or queued before it, and whatever precedes the next one to come is
`Settled`, queued, deferred or an item of the stream. This is what a step from
`deferred` to the engine and a step that overtakes both have to keep. `JournalInv`:
everything before the revision being applied is `Settled`, and no other handler runs
until its row is gone. `TypeOK /\ AckInv` is inductive; the proof has a lemma for
each action or group of like actions.

`CursorsAdvance` follows from it step by step: a commit that would take a cursor
back is refused, and `CommitGap` is the exception the property names, of a revision
that `JournalInv` and the cursor put into `overtaken`.
For `EngineKeepsUserContent` one more fact is carried along,
`ExpectedInv`: until the commit, the preimage in the journal row is the recorded
version of the path. The writer replaces only that preimage, and `Abandon` only
an absent file. The theorem is about a writer that checks and replaces in one step:
the window inside `rename_checked` is not covered by it.

Only model-checked: `OwnEventOutstanding` and `NoEcho`, whose inductive forms are
still to be found; `EditsAccounted` and `QuiescentInSync`, which hold on the
instances above and not for all constants; `Converges`, since liveness under
fairness is outside the prover's reach.

## Not modelled, and the plan

In order:

1. `AtomicWrite`: the writer's temp file, renames and restores step by step, with
   `resume_upsert` and `rename_checked`, shown to implement the single writer step
   of `SyncEngine`. An abstract specification of "replace if unchanged" and a
   refinement mapping. Theorem: the refinement, and that no content is lost.
2. `SyncSession`: phases, refresh, request table and blob transfers, composed with an
   abstract engine. Property: a refresh does not wedge the session. (The deferral of
   live events, their replay and the Ack in flight are part of `SyncEngine`.)
3. `LoginSessions` and `Billing` of the control plane: rotation, replay and
   revocation of refresh tokens; orders, redelivered notifications, refunds and
   referral bonuses. Theorems: at most one usable token per family, an order is
   credited at most once.
4. The rest of the engine: full snapshots, conflicts, blob uploads.
5. `Coalescer`, `AgentSupervisor`, `RelayRotation`.
6. Proofs of `OwnEventOutstanding` and `NoEcho`.

Left out for good: user interfaces and web portals, encoding of wire messages,
HTTP translation in the Codex proxy, logging, test tooling (`bins/test-sync`).
