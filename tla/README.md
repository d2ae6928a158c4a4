# jarvis-ai-devs: TLA+ models and proofs

TLA+ models of jarvis-ai-devs where several processes, several machines, a
central server, crashes and lost messages meet: the synchronisation of memories
and sessions, the quarantine and promotion of projects, the authentication of a
sync, and the progress record of an SDD change that is kept in two stores. TLC
checks the models on small instances, TLAPS proves the main safety properties
for every instance. Paths are relative to the repository; `A/` is
`hive-api/internal/`, `D/` is `hive-daemon/internal/`, `J/` is
`jarvis-cli/internal/`.

Contents: 1 the system · 2 modules · 3 runs · 4 bounds, fairness, deadlock ·
5 proofs · 6 where code and text disagree · 7 other configurations · 8 what is
not modelled.

## 1. The system

Developers keep *memories*, grouped in *sessions* and *projects*. Each machine
has one SQLite file; every MCP client starts a `hive-daemon` process of its own
over that file (`D/db/db.go:523`). `hive-api` keeps the shared copy of a team
in Postgres. `jarvis-cli` installs and configures agents and reads SDD change
folders; `hive-dashboard` is a browser client of `hive-api`.

| Component | State | Operations | What makes it correct |
|---|---|---|---|
| Local store and mutation journal (`D/db`) | `memories`, `memory_mutations`, `memory_mutation_outcomes`, `mutation_cursors`, `memory_remote_presence`, `memory_entity_dispatches`, `memory_mutation_dispatches` | save, delete, restore; the queries and marks of a sync batch | every change is journaled with its row; evidence never denies what was sent |
| Sync engine (`D/sync/syncer.go`) | one Drain per project and process: current batch, its cursors, latches | `Drain`, `syncBatchStepWithResponse`, inbox, acknowledgements, backoff | nothing is acknowledged that the server does not have; everything is, in the end |
| Drain bookkeeping (`sync_state`, `pull_cursors`) | `last_sync_at`, a keyset cursor per channel | store and clear a cursor, record success | no row falls behind the watermark unseen |
| Quarantine on the device (`D/db/project_block.go`, `D/db/alias.go`) | `project_blocks`, `project_quarantine_archives`, archived projects, lifecycle locks | record, archive, mark, restore, acknowledge, retry | commands take effect in order, each is acknowledged for what happened, the user's own archives survive |
| `/sync` transaction (`A/service/sync.go`, `A/repository/postgres_memory.go`) | `memories`, shared `memory_mutations` with a bigserial `sequence` | upsert, apply mutation, list journal page, pull pages | journaled once; the order of sequences is the order of commits; tombstones stay |
| Project gate (`A/repository/*project_key_lock.go`, `precheckBlockedProjects`) | advisory locks, `project_blocks` | lock the named projects, check, write, block, unblock | no deadlock; a blocked project does not change |
| Quarantine in the server (`A/service/project_governance.go`, `A/repository/postgres_project_block.go`) | commands with generations, deliveries, acknowledgements | block, unblock, list inbox, acknowledge | only the right account acknowledges, and only what stands |
| Authentication (`syncer.go:1586`, `D/mcp/sync_runtime.go`, `A/service/auth.go`) | the token row, saved password, stale and distrusted latches, security version | login, recover, latch, remake the Syncer, change password, deactivate | no Syncer sends rejected credentials again; one session per Syncer; a settled account syncs |
| Session gate (`syncer.go:895-965`, `D/db/session.go`, `A/repository/postgres_session.go`) | sessions with `synced_at`, `sync_from_project` | ensure, end, reopen, push alone, acknowledge a snapshot | no memory before its session; no acknowledgement of a newer state; no starvation |
| Project move, promotion, migration (`D/db/project.go`, `D/db/project_migration_*.go`) | project keys, evidence of what the server has, reproject mutations | rename, reproject, rekey, relocate, withhold, merge sync state | every row follows its project to the server; a merge keeps the earlier watermark |
| Apply-progress in Hive (`D/db/apply_progress.go`, `hivederive/`) | head (generation, revision, digest), receipts | advance by compare-and-swap, replay | one linear history; a retry finds its receipt |
| Governance, HTTP, MCP (`D/governance`, `D/httpapi`, `D/mcp`) | none beyond the store | requests to store operations; `mem_save` triggers an automatic Drain, `mem_sync` a manual one | |
| jarvis sync and lifecycle (`J/lifecycle`, `J/sync`, `J/state`) | managed files, snapshots, state file and lock | backup, apply, verify, restore, uninstall | a failed plan can be taken back |
| Hybrid progress (`J/sddprogress`, `cmd_sdd_progress.go`) | evidence, receipts, head and staged files of a change folder; hybrid receipts | checkpoint, advance of both stores, repair, archive | both stores hold one history; a rerun ends; an archived change is complete |
| Other SDD tooling (`J/sdd*`) | change folders | spec sync with rollback, store binding, status, verify | a failed apply restores what it touched, and only that |
| Agents, TUI, importers, dashboard, handlers | files, screens, HTTP | rendering, parsing, CRUD | |

How they interact. A local change is one SQLite transaction. A *Drain* is a
loop of *batches* of one project, single-flight in its process; a batch is a
chain of separate SQLite transactions around one `/sync` request, so user
changes and the batches of other daemons fall between any two of its steps, and
a crash leaves a prefix of them. `/sync` is one Postgres transaction under the
advisory locks of the projects the request names. Every Drain begins by
resending owed quarantine acknowledgements and applying the account's inbox,
for all projects, whichever one it was started for. A promotion renames a
project in one SQLite transaction and leaves the server to later batches. The
hybrid store of SDD progress is apart from all this: a `jarvis` process writes
files of the change folder, then calls the local daemon, under a lock file.

What is hard here, and where the models look: a request that timed out and
still arrives; a response lost after the server committed; old and new servers
behind one URL; a sequence taken before its transaction commits; two pull
channels with cursors of their own and a watermark both depend on; commands
superseded while an older one is being applied; locks held by whoever waits for
them; what a device believes of the server when a project changes its name;
two stores that must agree although a process may die between any two writes.
`PROJECT.json` lists each hazard at its line with the property that watches it.

## 2. Modules

| Module | Models | Relates to |
|---|---|---|
| `SharedJournal` | abstract: what mutation sync promises | |
| `MutationSync` | journal, batches, `/sync` transaction | refines `SharedJournal` |
| `PullSweep` | Drain loop, watermark, pull cursors | the loop around a batch of `MutationSync` |
| `Quarantine` | commands, inbox, archive, acknowledgements | |
| `ProjectGate` | locks, precheck, block, moves | the lock `MutationSync` takes as one per project |
| `ProjectMove` | sessions, promotion, reprojects | one device of `MutationSync`, with its sessions, while its project is renamed |
| `DrainAuth` | token, login, recovery, latches | the first steps of a Drain |
| `ProgressRecord` | abstract: one history and a copy that follows it | |
| `HybridProgress` | checkpoint, advance and archive of the hybrid store | refines `ProgressRecord` |
| `MC*` | instances for TLC | the module |
| `*_proofs` | theorems of every module that models code; `MutationRows_proofs` builds on `MutationSync_proofs` | the module, TLAPS |

`map` in `PROJECT.json` gives the lines each definition stands for.

**MutationSync.** Per device the tables above; per daemon one batch with its
phase; requests on the wire; per server the rows, the journal, the next
sequence and open transactions. One action per SQLite transaction of
`syncBatchStepWithResponse`, in its order:

| Action | Code |
|---|---|
| `Save` `Delete` `Restore` | `saveMemory`, `DeleteMemory`, `RestoreMemory`: row, journal and `synced_at` together |
| `ReadRows` | `GetUnsyncedPage`, before anything else is read |
| `Dispatch` | pending mutations and cursor, `MarkMemoriesDispatchedBySyncID`, `MarkMutationsDispatched`, request |
| `ResolveRows` or `MarkUnsupported`, `MarkSynced` | what a mutation-v2, or a row-state, response settles |
| `SavePulled` | `SaveFromRemote` |
| `SkipKnown` `ApplyRemote` `AbortOnRemote` | `ApplyRemoteMutation`, entry by entry |
| `SetCursor` `MarkRejected` `MarkConfirmed` | in this order, after all entries |
| `Interrupt` | timeout, lost response, SQLite error or crash at any of these points |
| `Begin` `Duplicate` `Refuse` `Apply` `Commit` `Abort` | the `/sync` transaction: lock, each mutation in order, page and response |
| `Drop` `Upgrade` | a request lost or turned away; the server learns `mutations[]` |

A memory is its status; a mutation its author, number, op and row: what is
compared by the properties. `ApplyRemote` adds to `pending`, because
`insertMemoryMutation` leaves `synced_at` NULL, and so every receiver echoes
what it pulled. A request's number stands for the dispatch UUID of its marks and
is used again once nothing bears it, no batch, request or mark (`FreshNo`). The
two reads and two marks of `Dispatch` are one action: they are of disjoint
tables, and a crash inside it leaves more marks than a crash before it, which
only makes the evidence more careful.

**PullSweep.** The Drain around the batch: `Ask` (one read of the server),
`Acknowledge`, `SaveSessions`, `SaveMemories`, the two cursor writes, then one
of the five ways on: `StopFinished`, `StopAuto`, `StopStuck`, `StopAtCap`,
`Continue`. `Write` is another device's transaction, stamped at its start.
The push side is the number of pages left. `Init` allows any rows at any stamp
on the server with memories' sessions present, and a device that has none: a
device that joins a project.

**Quarantine.** One account's device. `BlockProject` by the administrator; a
drain goes `StartDrain`, `Retry`\*, `Poll`, `NextCommand`\*, `Sync`, and from a
command through `ReadRow`, `Archive`/`Mark` or `Restore`, `RecordPending`,
`Send`, `SettleSent`, each a statement or call of its own. `Running`,
`Readers`, `WriterWaits` and `CanWrite` are the writer-preferring lifecycle
lock of each process. Failures: `Interrupt`, `Unheard`, `RetryLost`, `Crash`.

**ProjectGate.** Transactions that name one project or, for a move, two; `Lock`
one at a time, `Check`, `Apply` (the statement with its row lock), `Commit`,
`Abort`. `save` is the row-state `Upsert`, `mutate` a mutation of an existing
or new row, `move` a reproject. PostgreSQL's hash of the lock name is taken to
be injective; a collision would only add waiting, which the time limit ends.

**ProjectMove.** One device, one session, a project known as A that
`Promote` makes B.

| Action | Code |
|---|---|
| `Save` `Delete` `Restore` `EndSession` | `SaveMemoryWithSession` (which reopens the session), `DeleteMemory`, `RestoreMemory`, `EnsureAndEndSession` |
| `Promote` | `MergeGovernanceProjectTx`: refuse what is ambiguous, relocate sessions, journal reprojects, rekey pending payloads, rename |
| `BeginDrain` `NextBatch` `EndDrain` | `acquireSyncLifecycleLease`, the loop, the release |
| `PushSession` or `PassGate`, `ReadRows`, `PushRows` | the session gate, then rows and mutations: withheld, marked, sent |
| `AckSession` `ResolveRows` `MarkSynced` `SavePulled` `MarkRejected` `MarkConfirmed` | the answer, one transaction at a time |
| `Interrupt` | timeout, lost answer, storage error, restart: the request may still arrive |
| `Serve` `Reject` `Drop` | `/sync` as one transaction: `UpsertSession`, then `memories[]` or `mutations[]`; a session it cannot attribute rolls it back |

A session is its lifecycle state, where it says it comes from, and whether it
is marked shared. `Upserted` is the server's upsert with the source
precondition, under which a row that moves keeps its lifecycle. `Serve` gives
back any of the device's own rows with the pull, or none, as its page and
watermark allow.

**DrainAuth.** `Start` takes the process's Syncer and makes a new one if the
configuration changed; `GetToken`, `LoginGranted` or `LoginDenied`, `Store`,
`Denied` are `getOrRefreshToken` and `loginLocked`, from `login` on inside the
mutex; `PollInbox` and `Finish` are the two calls that use the token,
`Unauthorized` the 401 of the main sync, then `Recover` and `Clear`
(`recoverCachedToken`) or `Reject` (`rejectReauthenticatedToken`). Beside them
`ChangePassword`, `SavePassword`, `SetActive`, `Expire`, `Restart`, and
`LoginFails`, `StoreFails`, `ClearFails`, `CallFails`. A password is the
security version it belongs to; `spent` and `source` are history.

**HybridProgress.** A request is the snapshot it would publish, because its ID
is a digest of all that is in it, its base included. `Plan` and `Checkpoint`
(or `Advance` of the low-level command), `ReadHive`, `Lock`, then the OpenSpec
side, `OpenEnter` (validation, staging, receipt, lineage, replay), `Write`
(evidence, receipt, head: stage, sync, rename each), `Note`, then `Hive` (one
transaction of the daemon) and `Record`. `Interrupted`, `WriteFails`,
`HiveFails`, `Busy` and `Crash` strike at any of these; `Reread` is what a
failed run reads to say what became of it. `ArchiveCheck` and `ArchiveMove` are
the validated archive.

## 3. Runs

`tlc -config <run>.cfg <module>`. States are distinct states.

| Run | Properties | Instance | Shows | States |
|---|---|---|---|---|
| `sync_faults` | `TypeOK` `JournalOnce` `CursorNoGap` `SyncedRowsAreShared` `CompletedMeansShared` `EvidenceIsSound` `RowsFollowJournal` `ImplementsSharedJournal` | 2 devices, 1 memory, 4 changes, pages of 1, 1 fault, both protocols | once-only journaling, gap-free cursors and truthful marks through a crash, loss, abort or upgrade at any point | 1.66M |
| `sync_live` | `DrainsUnlessBlocked` | 1 memory, 5 changes, pages of 2 | a device drains unless one event blocks it | 184k |
| `sweep_manual` | `TypeOK` `NothingMissed` `EveryRowArrives` | 2 memories, 2 sessions, pages of 1, a writer, a backlog, 1 fault | manual drains lose nothing and deliver all | 291k |
| `sweep_sessions` | `SessionsPrecede` `FullySyncedHasAll` | 3 memories, 2 sessions, pages of 2, cap of 2 batches, both policies, 2 writes, 1 fault | no foreign-key loss while sessions fit a page; a drain that reports `fully_synced` has all of its window, whatever cut those before it short | 2.06M |
| `quar_safe` | `TypeOK` `AppliedStays` `UserArchiveStays` | 2 daemons, 2 projects, 2 commands, 1 fault, a user | commands never run backwards; user archives survive | 1.49M |
| `quar_settle` | `BlockArchives` `CommandsSettle` `UnblockedSyncs` | 1 daemon, 1 command, 2 faults, a user | the command is applied and acknowledged; other projects go on | 6.9k |
| `quar_deadlock` | `DrainsEnd` | 1 daemon, a command for its own project | disagreement 1 of section 6 | violated |
| `gate_holds` | `TypeOK` `NoLockCycle` `NoCrossing` `QuarantineHolds` | 2 projects, 3 transactions: mutations, moves, blocks | sorted locks, closed quarantine | 67k |
| `move_follows` | `MemoriesFollow` `NothingIsDropped` `SessionIsShared` `MemoriesArrive` `AmbiguityClears` | 1 daemon, 1 memory, pages of 1, 4 changes, a promotion, 1 fault | memories follow a promotion whatever was on its way; sessions are acknowledged as sent | 145k |
| `move_sessions` | `SessionsFollow` | 1 daemon, 3 changes, no fault | disagreement 2 of section 6 | violated |
| `auth_recovers` | `TypeOK` `LatchedNeverLogsIn` `OneLiveToken` `LatchIsFinal` `SyncsUnlessRevoked` | 2 drains of 1 process, 2 passwords, 5 Syncers, 1 fault | a latched Syncer never logs in and is not replaced while its process remembers it, one session per Syncer, a settled account syncs | 206k |
| `hybrid_record` | `TypeOK` `HeadIsProven` `ReceiptsAreTrue` `ArchivedInBoth` `ImplementsRecord` `RerunsEnd` | a checkpoint and a low-level process, 2 items, 2 faults, an archiver | one history in two stores through crashes at any write; reruns end | 446k |

For every property of a passing run `PROJECT.json` names a mutant: a change of
the model as a plausible bug of the code would make it, under which TLC finds
the property violated. The variants stand beside what they change, marked
"Faulty variant".

## 4. Bounds, fairness, deadlock

*Bounds.* `MaxOps` limits local changes, `MaxFaults` all failures together,
`Writes` the other devices' transactions or the length of a history,
`MaxCommands` the commands per project, `Backlog` and `MaxBatches` the Drain,
`Joined` and `Lag` the stamps, `MaxVersion`, `MaxTokens` and `MaxSyncers` what
authentication issues.

- Four changes of one memory by two devices give create, delete and restore in
  every order and every pair of conflicting changes; pages of one make every
  journal longer than a page; one fault at every step covers each window once,
  and its late request still arrives after two later changes.
- Two memories are the least for a batch that settles one row and not another.
  They are in `sync_upgrade` (section 7), for it is there only that one request
  holds a mutation of one memory and the row of another, so that acknowledging
  `memories[]` from a mutation-v2 answer would lose a row. `sync_faults` with
  two memories, or with three daemons, exceeds what is practical.
- Three memories in pages of two are the least for `sweep_sessions` to be cut
  short with a cursor half-way, by its policy or by the cap (a row that is
  written again during the drain makes a third batch), while its sessions fit a
  page. `sweep_cut` has pages of one, where both cursors can be half-way.
- Two sessions with crossed owners are the least for channels that finish
  apart, two daemons for a stale inbox, three transactions for two movers that
  cross and a third that blocks or unblocks between them.
- Four changes in `move_follows` allow a save, a delete, a restore and an end
  of the session around one promotion, with one lost answer or restart among
  them. `move_pair` has two memories, three changes and one fault.
- `auth_recovers` reaches every latch, a recovery that races a login and a
  Syncer remade under a running drain; eight tokens are more than its two
  passwords, one fault and five Syncers can use up.
- Two items give `hybrid_record` a first snapshot and a successor, so a
  receipt that is an ancestor of the head and one beyond it; two faults give a
  second crash during the repair of the first.

What the bounds leave out - any number of everything - is what the proofs
cover: each safety property of a passing run is stated by a theorem, some under
a condition that section 5 gives.

*Symmetry* is used for memories in `sync_upgrade`, for daemons in `move_race` and
`move_apart`, and for transactions in `gate_*`: all safety only, all
interchangeable in the module.

*Fairness.*

- `MutationSync`: a daemon in use starts batch after batch (the auto-sync tick
  and every `mem_save`), so weak fairness on its steps and on the server's open
  transactions, and strong fairness on `Begin` of a daemon's requests: the
  advisory lock is polled for 750 ms and is no queue, so a daemon could lose
  each race; that starvation is assumed away and nothing else is.
- `PullSweep`: weak fairness on starting drains and on batch steps.
- `Quarantine`: weak fairness on each drain's steps.
- `ProjectMove`: weak fairness on `BeginDrain` (the same tick), on the steps of
  a Drain and on the server answering.
- `DrainAuth`: weak fairness on a drain's steps, strong fairness on those that
  take the mutex, which Go grants in turn.
- `HybridProgress`: an agent runs a blocked or interrupted checkpoint again, as
  the skill tells it to (`jarvis-cli/embed/skills/sdd-apply/SKILL.md:211`), so
  weak fairness on its steps and strong fairness on taking the lock file, which
  is polled; a run whose wait times out spends a fault.

No fairness on user changes, the administrator, promotions, faults or
`Upgrade`. In `DrainAuth` liveness is stated for an account that settles
(`<>[]`).

*Deadlock* is checked except in `gate_*` (every transaction may be over),
`hybrid_*` (the change may be complete, or archived) and `quar_deadlock` (the
lock-up is its subject). Elsewhere the daemons' loops keep the system moving.

## 5. Proofs

`tlapm <Module>_proofs.tla`, for eight modules. The assumptions are those named
in the modules: finitely many daemons (hive-api sequences and request numbers
need no more), finitely many memories and sessions where a page takes some of
them, positive page sizes, projects numbered by the order of their keys,
finitely many projects, a mark `Lost` that is no daemon's name, and bounds that
are natural numbers.

Some results hold only of behaviours that keep clear of something the code does
do; the condition is in the theorem, a step the behaviour never takes or a bound of
zero, and a configuration of section 7 shows the property violated without it:

| Theorem | Condition | Without it |
|---|---|---|
| `FullySynced` | commits follow stamps (`Lag = 0`) | `sweep_cut` with `Lag = 1` |
| `WatermarkIsSafe` | no drain is cut short (`~CutShort`); commits follow stamps (`Lag = 0`) | `sweep_auto`, `sweep_lag` |
| `NoneRefused` | commits follow stamps (`Lag = 0`) | `sweep_late` |
| `BlockStaysArchived` | no drain restores over a newer block (`~RestoredOverBlock`) | `quar_unarchived` |
| `FollowsAcrossPromotion`, `NoneDroppedAcrossPromotion` | no promotion falls into another process's Drain (`~PromotedOverDrain`) | `move_race` |

`AloneBlockArchives`, `FollowsAlone` and `NoneDroppedAlone` derive the last two
conditions from there being one drain, or one daemon; so does
`SessionSharedAlone` without a condition on steps.

**MutationSync_proofs** proves `TypeCorrect`, `JournaledOnce`, `NoGap` and
`Refinement`. `JournalOnce` and `CursorNoGap` are not inductive: a stale request
carries an old cursor, a response a page that was cut a while ago, a
transaction entries not yet visible. `IInv == TypeOK /\ Ordered`, where
`Ordered` adds

- `SentIsLogged`: what is in a request, a transaction or the journal is in the
  sending device's log, so that an echo is always recognised;
- `JournalOrder`: journal and staged entries are distinct in sequence and in
  mutation, staged ones after all committed ones, and at most one transaction
  is open (the advisory lock: this is where commits follow sequences);
- `CursorsBehind`: every cursor, stored, sent or on its way back, is behind
  everything that is staged;
- `Numbered`: a device's numbers identify its mutations, and the journal holds
  none that no device holds (for `Author` and `Publish` of the refinement);
- `RequestCovers`, `PageCovers`: the device already holds everything at or
  before the cursor its request carries, and everything up to the response's
  next cursor that is not in the response's page;
- `CursorNoGap`.

The argument runs through `Commit`: under the lock nothing with a smaller
sequence can still appear, so the page and the next cursor leave no gap, and
`ApplyRemote` and `SkipKnown` take entries off the page only when they are in
the log. With several daemons over one file a cursor may move back, never past
a gap. `Refinement` maps `Save`, `Delete`, `Restore` to `Author`, `ApplyRemote`
to `Learn`, `SetCursor` to `Move`, `Commit` to `Publish` and everything else to
stuttering.

**MutationRows_proofs** builds on that invariant and proves `RowsFollow`
(`RowsFollowJournal`), `SyncedIsShared` (`SyncedRowsAreShared`),
`CompletedIsShared` (`CompletedMeansShared`) and `EvidenceNeverDenies`
(`EvidenceIsSound`). `RInv` says of the server's rows what of each open
transaction's view: replaying the journal, with what is staged, gives them, and
a row once there never goes back (`TxSound`); and of every answer on its way or
in a daemon's hands that what it claims is there or journaled (`AnswerSound`).
As neither rows nor journal take anything back, a stale answer stays true.
`EvidenceIsSound` needs `EInv`: a memory was saved on one device and any other
knows it from the server (`Origins`, `FromServer`); numbers of requests in use
differ (`OwnNumbers`); a request's rows and creates are marked before it leaves
(`Marked`); the server refuses no create (`CreatesPass`); and what may be there,
in a row or an open transaction's view, has evidence that does not rest on a
mark of a request whose answer will show that its rows were ignored
(`Evident`, `Unspent`). Proving `OwnNumbers` showed that a number could be given
to two batches under way, which the code's identifiers exclude; `FreshNo`
excludes it now.

**PullSweep_proofs** proves `TypeCorrect`, `FullySynced` (`FullySyncedHasAll`),
`WatermarkIsSafe` (`NothingMissed`) and `NoneRefused` (`SessionsPrecede`), for
any rows, page size and cap. `IInv`
adds that no stamp is ahead of the clock (`Stamped`), that what a stored cursor
leaves behind is here (`CursorsCover`), that an answer's next cursor leaves
behind only what is here or on its page, and a channel without more has given
all that was there when the drain began (`AnswerCovers`), and that a channel
with more moves its cursor on (`Advances`); so the guard against a drain that
makes no progress never ends one early, and a drain that stops by itself has in
its last batch seen both channels to their end (`StopHasAll`). `IInv` outlives
every step, those that cut a drain short too: they move the watermark forward
(`Counted`) and keep the cursors, which then leave no more behind than before.
That gives `FullySynced`; what such a step loses is only that rows before the
watermark are here, so `MissedStep`, for `NothingMissed`, excepts it. What was
written since a drain began is stamped at its start or later, and the next
window includes that. `SInv`,
for `NoneRefused`, says that of the sessions none is left for a second page,
and those of before the watermark are here.

**Quarantine_proofs** proves `TypeCorrect`, `AppliedNeverUndone`
(`AppliedStays`) and `UserArchives` (`UserArchiveStays`), with users, faults,
crashes and any number of daemons over the device's file. The inductive
invariant adds two parts. `InHand`: whatever acknowledgement a drain holds, to
resend or to prepare, is of a generation its row has reached, and whatever is
left of an inbox was issued; as rows only rise (`Rises`), no other drain's
step can break it, and telling the server of it keeps `AppliedStays`. `Owned`:
a marker, or a drain between archive and marker, says that the archive is the
quarantine's, and no project has two of these; so the only step that lifts an
archive never lifts the user's. `BlockStaysArchived` and `AloneBlockArchives`
(`BlockArchives`) rest on `BInv`: an acknowledgement of the row's own
generation that says applied, in the row, in a drain's hands or at the server,
is of a project that is archived if the row is a block. Every step keeps it but
one: a drain that read an unblock restores the project although another drain
has recorded a newer block, and reported it, since. The lemmas `StepQuiet`,
`StepRow`, `StepTold`, `StepArchive` and `StepUser` say once what each kind of
step has to show.

**ProjectGate_proofs** proves `TypeCorrect`, `NoDeadlock` (`NoLockCycle`),
`MovesQuarantined` (`NoCrossing`) and `MutationsQuarantined`
(`QuarantineHolds` when no client sends row-state saves: exactly the condition
item 7 of section 6 breaks). The inductive invariant (`Invariance`): a lock has one
owner (`OneOwner`), ended transactions hold none (`Released`), locks are taken
upwards (`Upwards`), a writer past its check finds no named project blocked
(`Gated`), a row has one uncommitted writer (`OneWriter`), and what that
writer matched still holds at its commit (`Matched`). `NoDeadlock`: in
a set of transactions that all wait for each other, take the greatest project
any of them waits for; its owner waits too, and, locks being taken upwards, for
a greater one. Lemma `Greatest` gets that project from the finiteness of
`Project`; the set of transactions may be infinite.

**DrainAuth_proofs** proves `TypeCorrect`, `LatchedNever`
(`LatchedNeverLogsIn`), `LatchFinal` (`LatchIsFinal`) and `OneSession`
(`OneLiveToken`) for any projects, drains, processes and passwords. `TypeOK`
says that exactly the drains inside a login hold a mutex; `TInv` adds who holds
which one and that a drain past the login carries a token. A latch is set and
read under the mutex, which is why a drain at the login is never latched; only
a login gives a Syncer a token (`OnlyLogins`). Both are of one Syncer.
`LatchFinal` adds that the process makes no other with the same password while
it has this one; after a restart (so the comment at `syncer.go:1585`), or a
configuration it could not load, it has forgotten that the password was rejected
and a new Syncer sends it once more. `OneLiveToken` needs `SInv`: a Syncer
belongs to one process (`Homes`); the token being stored is this Syncer's and
one being recovered is spent (`Given`); the drain inside the mutex may count on
there being no live token it does not know of (`NothingLost`); and a live token
is in the row, about to be stored, or of a Syncer that is latched or that
nothing can run on any more (`Accounted`).

**HybridProgress_proofs** proves `TypeCorrect`, `OneHistory` (`HeadIsProven`),
`NoFalseReceipt` (`ReceiptsAreTrue`), `ArchivedComplete` (`ArchivedInBoth`) and
`Refinement` (`ImplementsRecord`), for any items, processes, length and faults.
`HeadIsProven` is not inductive: whether the next file may be written depends
on what the writer has checked. `RInv` adds that whatever the head extends has
its evidence and receipt (`Proven`); that one request at most is published
beyond the head, and extends it (`OneBeyond`); that a process in the middle of
its writes still has the head as its base and an unarchived folder, and that
what it has noted of the sides is true (`Working`); that Hive follows
(`Follows`); and that an archive, from its validation on, is complete
(`Archived`). `Working` holds because the writer has the OpenSpec lock; `Hive`
can only append to a prefix of the head because the OpenSpec side commits
first. The refinement maps the write of the head to `Write`, the transaction of
the daemon to `Mirror`, an answer to `Acknowledge`, everything else to
stuttering.

**ProjectMove_proofs** proves `TypeCorrect` (`TypeOK`, which `move_pair` and
`move_apart` check, no run), `FollowsAcrossPromotion` and `FollowsAlone`
(`MemoriesFollow`), `NoneDroppedAcrossPromotion` and `NoneDroppedAlone`
(`NothingIsDropped`), and `SessionSharedAlone` (`SessionIsShared`). What a
request does to a memory is a recursive function over the numbers of its
changes (`Outcome`); lemmas `Least` and `UpTo` give induction along it from the
well-foundedness of `<`. `Wiring`: a daemon holds a lease while its Drain runs
and waits for one request, the one its batch says. `Following`, for
`MemoriesFollow` and `NothingIsDropped`:

- `Replaying`: what is left of a memory's changes (`Left`: pending and not done
  at the server) leads from the server's row to the memory as it is here: the
  first starts from the row's state, each other from what the one before it
  leaves, the last ends in the memory's (`Replays`);
- `Placed`: the row is in the device's project, or still in A while a reproject
  of it is pending;
- `Carried`: a request carries, with each of its changes, every change that is
  left before it, and the reproject if the row has yet to move;
- `Outlived`: a request that a promotion overtook holds nothing the server may
  not have, for the promotion refuses while there is such a memory
  (`Suspected`: what the server has, the device knows or has marked);
- `WorksFor`: a Drain works for the device's present project, and its answer
  refuses nothing and confirms only what is so.

`ChangeRuns` is the heart of it: the server, handling a request change by
change, meets one that is done (confirmed) or the first that is left, which it
can always apply; so nothing is refused. `OutcomeRuns` extends this to the
whole request, `BesideKeeps` says that a request under the old name changes
nothing of a memory that has moved, and `ServeFollows` puts the memories
together. Every other step has a lemma of its own (`PushesFollow`,
`ConfirmFollows`, `PromoteFollows`, ...). `Sharing`, for `SessionSharedAlone`,
follows one snapshot from the gate through the server to its acknowledgement.

*Only model-checked:* `NothingMissed` where the cap ends a manual drain, but
only after the eight batches `sweep_manual` has for its rows. *Out of the
prover's reach:* liveness under fairness and ENABLED (`DrainsUnlessBlocked`,
`EveryRowArrives`, `CommandsSettle`, `UnblockedSyncs`, `MemoriesArrive`,
`AmbiguityClears`, `SyncsUnlessRevoked`, `RerunsEnd`). Induction over data is
within reach only as in `ProjectMove`, by a least counterexample among natural
numbers; no module uses a RECURSIVE operator.

## 6. Where code and text disagree

The first two are runs; the others are configurations of section 7.

1. `quar_deadlock`. A drain holds the read lease of its project and asks for
   the write lock of that project to archive it (`syncer.go:516`,
   `db/project.go:303`).
2. `move_sessions`. A promotion takes `synced_at IS NULL` for "the server has
   never seen them" (`project_migration_executor.go:454`, `project.go:480-483`).
   A shared session that is ended or reopened has it NULL as well; promoted
   then, it names no source, the server moves nothing, and the device marks it
   shared.
3. `move_stuck`. Such a session may hold its memories back for ever: after a
   restart the daemon no longer knows that the server understands reprojects,
   sends a restored memory in `memories[]` alone, and the request is refused,
   because the session is in another project (`session_validate.go:64-67`); so
   it never learns. `MemoriesArrive` excepts exactly this.
4. `move_race`. `syncer.go:462` and `alias.go:23` have no promotion happen while
   a Drain runs. The lock is a variable of the process, and there is one
   process per MCP client session (`project_migration_executor.go:43-45`).
5. `sync_blocked`. One journal entry a device cannot apply (a delete of a row
   it lacks, a restore of a row that is not deleted) fails every batch before
   anything is acknowledged (`syncer.go:1170-1186`). `db/sync.go:1157-1161`
   says of the same loop that one such event must not stop a device.
   `DrainsUnlessBlocked` excepts exactly this.
6. `sweep_auto`. An automatic drain records success after one batch; the rest
   of its window is behind the new watermark (`syncer.go:743`), though
   `syncer.go:353-356` expects the next tick to pick it up.
7. `gate_saves`. `Upsert` finds a row by `sync_id` in whatever project it is
   (`postgres_memory.go:217`); the precheck sees the projects the request names.
8. `auth_revoked`. The inbox poll comes before the main sync and ends the Drain
   on a 401 (`syncer.go:549-554`); the recovery of a cached token looks at the
   main sync only (1660). `SyncsUnlessRevoked` excepts exactly this.
9. `hybrid_interrupted`. "advance writes a hybrid receipt before either backend
   mutation" (`hybrid.go:310`); a fresh request writes it after a side failed
   or both committed (358-386). A process killed between the sides leaves none,
   and running the identical checkpoint again, as the skill and
   `cmd_sdd_progress.go:1339` advise, does not finish it. `RerunsEnd` excepts
   this, and the receipt whose committed side a later retry found failed
   (`Unmarked`).
10. `OpenSpec.Current` is documented to remove "only safe stale stages"
    (`openspec.go:54-56`); it removes none, and what an interrupted write left
    is taken up only by the same request (`Residue` in `RerunsEnd`).

## 7. Other configurations

Beside the runs, for larger instances and for questions that came up on the
way. These pass:

| Config | Checks | Instance |
|---|---|---|
| `sync_upgrade` | `SyncedRowsAreShared` `CompletedMeansShared` | 2 memories, 4 changes, both protocols, no fault, 659k states |
| `sweep_cut` | `FullySyncedHasAll` | 2 memories, 2 sessions, pages of 1, cap of 2 batches, both policies, a backlog, a write, 1 fault, 1.38M states |
| `move_pair` | `TypeOK` and the properties of `move_follows` | 2 memories, 3 changes, 237k states |
| `move_apart` | `TypeOK` `MemoriesFollow` `NothingIsDropped` | 2 daemons, promotions clear of every Drain (`ApartSpec`), 3 changes, 1 fault, 1.4M states |

These end in a counterexample:

| Config | Property | What happens |
|---|---|---|
| `move_stuck` `move_race` | `MemoriesAlwaysArrive` `MemoriesFollow` | 3 and 4 above; in the second a memory is sent under the old name after the promotion, and what follows is rejected |
| `sync_blocked` `sweep_auto` `gate_saves` | `NoEventBlocks` `NothingMissed` `QuarantineHolds` | 5, 6 and 7 above |
| `auth_revoked` `hybrid_interrupted` | `RevokedSessionRecovers` `InterruptedIsRepaired` | 8 and 9 above |
| `auth_distrust` | `DistrustIsEarned` | a Syncer distrusts the server for a token of another Syncer that was revoked under it, until it is remade |
| `hybrid_archived` | `ArchivedIsGone` | a process that waited for its lock while the change was archived writes its hybrid receipt into a folder made anew |
| `sync_failed` | `FailedIsRetried` | a rejected mutation leaves the pending set for good (`db/sync.go:609`); `docs/hive/local-memory-guide.md:54` says it is retried |
| `sweep_refused` | `NothingRefused` | a memory arrives a page before its session and is dropped (`syncer.go:1159`), against the comment at 1121 |
| `sweep_pages` | `DrainsInPages` | a finished channel starts over while the other pages (`syncer.go:1237-1258`), against the estimate at 49-50 |
| `sweep_lag` | `NothingMissed` | a transaction that commits after a later one is stamped behind the watermark (`postgres_session.go:46`) |
| `sweep_late` | `SessionsPrecede` | the same of a session, whose memories are then refused although one page holds all sessions |
| `quar_stale` | `UnblockedSyncs` | acknowledging a superseded command fails the drain, every time (`syncer.go:837`); the distributed-quarantine-lifecycle spec, lines 34-37, wants stale handling reported |
| `quar_token` | `CommandsSettle` | the token of a refused `/sync` is rolled back; its acknowledgement can never be accepted (`A/service/sync.go:572`), against line 45 of that spec |
| `quar_crash`, `quar_race` | `ReleaseRestores` | a crash between archive and marker (`project_block.go:307`), or a read of the row before another daemon's unblock (296), leaves an archive no release lifts |
| `quar_unarchived` | `BlockArchives` | the other way round: a drain that read an unblock (296) restores the project after another daemon has archived it for a newer block and said so |

## 8. Not modelled

- `MutationSync`: update mutations (the daemon raises none), prompts,
  sanitizing, backoff; sessions and reprojects are in `ProjectMove`,
  authentication in `DrainAuth`.
- `PullSweep`: deletions by the other devices, prompts, and the mutation
  cursor, which is in `MutationSync`.
- `Quarantine`: HTTP calls that arrive after their drain gave up, spelling
  variants of a project, deletion of a project, moves of blocked rows.
- `ProjectGate`: sessions and merges, which take the same locks.
- `ProjectMove`: a second device, prompts (relocated like sessions), manual-save
  and legacy sessions (whose identifiers name their project), governance
  records, SDD bindings, and `ExecuteProjectMigration`, the one-shot correction
  of spellings at start-up, which shares the reprojects and the relocation but
  runs before any Drain. What it does to sync state is not modelled either:
  `last_sync_at` is folded to the earlier value, cursors to the later one.
- `DrainAuth`: the automatic backoff, device limits, what else an administrator
  may do to an account.
- `HybridProgress`: successors and sealed generations, the migration of legacy
  progress, store bindings, capacity limits, the readers.

Whole components left out are in `PROJECT.json` with the reason. Of those that
change state, `sddspecsync` and the `jarvis` lifecycle each run as one process
under a lock, apply a list of files and take it back in reverse on an error:
the hard part there is the content of the files. Agent adapters, terminal
interfaces, HTTP handlers, the dashboard and importers are rendering, parsing
and CRUD; most of the repository's lines are in them.
