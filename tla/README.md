# TLA+ verification of the Atlas context router

Atlas indexes a repository into a graph database and serves it to coding agents,
mostly over MCP. This directory models the parts of it whose correctness depends on
the order in which processes, threads, git and the user act, model-checks them with
TLC and proves with TLAPS, for any number of processes, files and faults, every
safety property that the runs check. `PROJECT.json` lists the
components, the runs, which definition stands for which lines, the hazards and the
theorems.

## The system

| part | state it keeps | operations | what is hard |
|---|---|---|---|
| durable MCP tasks (`atlas-mcp/src/tasks.rs`, table `durable_tasks`) | one row per task; `LIVE_TASKS`; a completion channel and a cancel flag per call | `tools/call` (explicit or auto-deferred), progress reports, `tasks/update`, `tasks/cancel` | three kinds of threads share a row through separate transactions; restart reissues ids |
| MCP broker and daemon (`atlas-cli/.../broker.rs`, `platform.rs`, `mcp_instance.rs`, `atlas-mcp/.../socket.rs`) | lock file, metadata file, socket file; broker and daemon processes | start, attach, spawn, wait, relay, reconnect, shut down | processes that meet only in files; kills, signals, timeouts |
| graph build and update (`atlas-engine/src/build.rs`, `update.rs`, `atlas-repo/src/diff.rs`, `atlas-store-sqlite/.../build_state.rs`, `mutation.rs`) | one slice per file; `last_indexed_ref`; build state | `build_graph`, `update_graph` with five targets, from the CLI, MCP and agent hooks | incremental updates trust a recorded commit; failures, budgets, crashes, overlapping runs, edits meanwhile |
| watch mode (`atlas-engine/src/watch.rs`, `update.rs`, stable rename in `mutation.rs`) | bounded channel, batch, slices with their node names | callbacks, drain, debounce, normalize, coalesce, apply or rescan | how reports are cut into batches; pairing of removals and creations; overflow |
| session events (`atlas-session/src/store`), bridge files (`atlas-adapters/src/bridge.rs`), hooks (`atlas-agent-events`) | events, decisions, resume snapshot; files in a directory | append, evict, curate, snapshot, load, consume, clear; write, ingest, purge | every hook is a process; lists read in one transaction and used in the next; kills between append and removal |
| graph history (`atlas-history/src`, `atlas-store-sqlite/.../history`) | snapshot per commit, file graphs shared by hash, lifecycle rows | build, update, rebuild, prune | replay over a parent that another process prunes; separate transactions; leaked ones |
| database recovery (`recovery.rs`, `lifecycle.rs`, `build_state.rs`, readiness) | the database file, its quarantined copies, build state | health check, quarantine, fresh database, rebuild; readers | nothing locks the path; busy is taken for corrupt |
| content store (`atlas-contentstore/src/store/artifact.rs`) | sources, chunks, two full-text indexes | save, replace, purge, clean up, size limit | one save or deletion is several transactions; cascades that skip the indexes |
| parsers, search, reasoning, review, docs, refactoring, tools, CLI | none of their own | read-only computation and formatting | string and floating-point work: left to the unit tests |

How the parts interact: agents talk to a *broker* over stdio, the broker relays to
the one *daemon* of a repository and database, the daemon runs tools, some as
*durable tasks*. Tools, CLI commands, hooks and watch mode run *builds and updates*
on one SQLite database, which they quarantine and rebuild when it is bad; *history*
keeps a snapshot per commit beside it. Hooks record *session events*, or write *bridge
files* that are ingested into them later; what is too large to return goes to the
*content store*. Each part is correct if: every task handle leads to its own
outcome; brokers that start together share one backend and none hangs; the graph
matches the files or the next default update finds out that it does not; a snapshot is
its commit; no event, decision or artifact is lost except where the code gives it up; and
a graph that tools answer from is complete.

## Modules

| module | what | instance |
|---|---|---|
| `DurableTasks` | task rows, request, worker and client threads, crash and restart | `MCDurableTasks` |
| `DurableTasksProofs` | its theorems | |
| `McpBroker` | brokers, daemons and the three files | `MCMcpBroker` |
| `McpBrokerProofs` | its theorems | |
| `GraphIndex` | builds and updates, git, the slices and the recorded ref | `MCGraphIndex` |
| `GraphIndexProofs` | its theorems | |
| `WatchMode` | events, channel, batches, stable renames | `MCWatchMode` |
| `WatchModeProofs` | its theorems | |
| `SessionLedger` | session events, curation, decisions, snapshot, bridge files | `MCSessionLedger` |
| `SessionLedgerProofs` | its theorems | |
| `GraphHistory` | history operations on snapshots, file graphs and lifecycle rows | `MCGraphHistory` |
| `GraphHistoryProofs` | its theorems and the refinement | |
| `SnapshotCatalog` | what the history promises; `GraphHistory` implements it | |
| `GraphRecovery` | health check, quarantine and rebuild of the database file, readiness | `MCGraphRecovery` |
| `GraphRecoveryProofs` | its theorems | |
| `ContentIndex` | artifacts, chunks, full-text indexes and their deletion | `MCContentIndex` |
| `ContentIndexProofs` | its theorems | |

The definitions marked *Mutant* are not used by the specifications: each is a
plausible bug in the definition that follows it, and replacing that definition by it
makes TLC find the property named in `PROJECT.json` violated.

### DurableTasks

A task id has a row, a request thread (`req`), a worker thread (`wk`), a channel
(`sent`), an entry in `LIVE_TASKS` (`live`) and a cancel flag; `Clients` are
`tasks/update` and `tasks/cancel` requests. Every store call opens a connection and
executes one statement, so each is one step: the worker's read of the record and its
final write are two (`WorkerReads`, `WorkerWrites`), as are a client's check and
write (`ClientReads`, `CancelFlag`, `ClientWrites`). `Crash` loses threads, table and
id counter and keeps the rows; `epoch` numbers the processes. Store calls may fail
when `Faults`; a tool may panic or never return. Notifications, TTLs and texts are left out.

### McpBroker

`b` and `d` are the program counters of brokers and daemons. The files are `lock`
(flock), `meta` (the pid in the metadata; `Torn` while it is being written in place)
and `sock`; each look, write, removal, bind and chmod is a step. A file that is
open for writing may have been unlinked, or truncated by another daemon, before it is written:
`draft` says whose open file is the one at the path. The reconnect limit is the constant
`MAX_DAEMON_RECONNECTS` (3 in the code). `clash` is a history variable: a broker or daemon
has acted on the files behind another's back, in one of the three ways that
`OneBackend` names. `BrokerKilled`,
`DaemonKilled`, `BrokerSignalled` and `DaemonSignalled` strike the `Victims` at any
moment, `MaxFaults` times. All processes belong to one instance, so the repo,
database and protocol checks of the handshake agree.

### GraphIndex

`work`, `index` and `head` are the trees of the working directory, the git index and
the last commit; `graph` maps each file to the content its slice was parsed from;
`ref` is `last_indexed_ref`, a commit represented by its tree. A process goes through
`Begin`, `ListSlices` (build) or `DetectChanges` (update), `DeleteSlice` one by one,
`Scan`, `ParseFile`/`ParseFails`/`BudgetStops`, `FindDependents`, `WriteBatch`,
`Record`, `Finish`, and may fail or be killed at every point; the user edits, stages
and commits at every point. `DiffTree`, `DiffIndex` and `DiffStaged` are what
`git diff` reports, including that it does not report untracked files. Abstractions:
a stable rename is a deletion and an addition; the hash and the text of a file are
read at once; nodes, edges, chunks and call targets of a slice are not
distinguished, but storing the latter two may fail (`lost`); dry runs change nothing;
one repository. `blame` and `settled` are history variables: no guard reads them.

`blame` collects six events after which a slice may be stale without the next default
update seeing it: an uncommitted edit that was indexed is taken back (`revert`, which
includes the removal of an indexed untracked file, and the `git add` of a file that was taken
out of the index, which makes `git diff` stop reporting it), a commit during a run (`commit`),
a run over part of the changes (`subset`), a first update without a recorded commit
(`fresh`), files a run could not read (`skipped`), and a build that did not complete
(`build`). A clean build that had the database to itself resets it. `NoOtherCause` says
that the list is complete; for each of the six there is a behaviour in which it is
needed. A slice is the files row of a path here; that a stable rename can mix up the nodes
of two files is in `WatchMode`. `SettledIsCurrent` is about the end of a run (`Settles`): a
run noted built, with no edit, commit or other run during it and no file it could not
read, leaves a current graph. A build does so whatever was there before; a default update
only with a recorded commit and an empty `blame`: after a build that was interrupted, say,
an update ends built, has nothing to do, and the slices are missing all the same.

### WatchMode

The user edits files and the platform reports raw events on the `wire`: inotify sends
From, To and Both for a rename, other platforms a Remove and a Create (`os`). `Deliver`
is the callback (`try_send` into the channel, or the overflow counter), `Drain` and
`DrainBuffered` the two reads with `normalize`, and `PlanBatch` coalesces with
`events_to_changes` or plans a rescan. `update_graph` is several steps, between which the
user goes on: `Classify` detects the changes and sorts them into stable renames, deletions and
files to parse, `RenameStable` is one rename, `DeleteStale` the deletions, `Replace` parses and
writes; `UpdateFails` ends the update at any of these with part of the step done. Parsing and
writing are one step: an edit between them is an event that is still to come. A node is named by
the path it was first parsed under, because qualified names start with the path and a
stable rename does not change them.

`normalize` and `events_to_changes` are loops with a pending removal, a set of what was
seen and a map; the model says in closed form what they yield: `EventAt`, what each raw event
becomes, given the Remove it is `Paired` with; `Normalize`, that only the first of equal events
is kept; `EventsToChanges`, that the last event that touches a path decides. `NoEvent` stands in
the places where nothing was emitted, and no definition depends on them. A move to an
ignored path or out of the repository is `MoveOut` where inotify reports it, and a deletion
elsewhere; what is reported of the ignored path itself is `Noise`. A file that is moved in from
there is a creation: `Renamed` from a path without a slice is parsed like a new file.

`tangled`, `missed` and `mixed` name the paths of which `WatchedIsCurrent` does not speak, and how
each came about: a path of a rename was touched again before the watcher came to rest, or came
or went three times before its events were drained (`tangled`); an update failed, git does
not report the path to the rescan after an overflow, or inotify saw the file moved out of
the watched files (`missed`); its nodes were taken by another file (`mixed`).

### SessionLedger

One session. Every handler is a process whose transactions are its steps; `rows` have
id, event, priority and time, and eviction follows the order of `enforce_event_limit`. Curation
lists (`Curate`) and acts later (`Apply`); hooks and session tools save, read and consume the snapshot;
bridge files are `partial` while they are written, are ingested event by event and
removed. `history` records what was stored, given up, shown or overtaken. `decisions` has one
row per `decision_id` (the `key` of a decision event), with the event it was last written from
(`Upsert`); a payload without a summary has none (`IsDecision`), and an upsert that fails
is logged while the event is kept, so an event in the ledger need not have a decision.
`DecisionOutlivesItsEvent` is about those that were written.

### GraphHistory and SnapshotCatalog

A commit is written in one transaction (`WriteCommit`), from a listing that was replayed
over the parent's snapshot in two earlier reads (`FindParent`, `ListParent`). Prune and
rebuild delete snapshots, commits and orphaned file graphs in separate transactions; the
lifecycle rows are replaced row by row. An update that finds no commit missing returns
at once (`UpdateNothing`). Nothing keeps operations apart: any of them starts beside any
other. `WriteRollsBack`, `WriteLeaks`, `WriteBlocked`, `Abort` and `Crash` are the
failures.

Three history variables say what an interleaving has done. `exposed` holds the commits whose
snapshot was written while a prune had still to delete their row, or a clean-up a graph they
use; `dropped` those of which a snapshot was deleted or replaced; `exact` (of a listing)
is lost when it was replayed over files read under an id that had become another commit's.
`ImplementsCatalog` is the refinement: with the listing of each commit as the abstract
entry, every step is an indexing of one commit, a removal of whole entries, or a stutter. An
entry that is not exact needs a parent whose snapshot was dropped, or is not exact either.

### GraphRecovery

A database is an inode with a number: `path` is the one at `db_path`, and a run holds on
to the one it has opened. `Inspect`, `Pick`, `Rename`, `MoveSidecars`, `CreateFresh` are
`prepare_graph_store_rebuild`; the sidecar files follow the database one step later, and
may by then be those of the next database. `BeginBuild` to `Finish` open what is at the path
each time, as the code does. A run that returns Ok ends `built`, `degraded` (the budget or
a failed write of chunks, `Degrades`) or `build_failed` (too many unreadable files, `ParseFails`)
and notes that. Databases go bad, processes are killed, MCP calls are canceled,
readers create a missing file. `blame` records per database the five ways in which a
step acts on another database than the one it has checked, and that a file could not be
read. `Fresh` is `derive_execution_state` as far as it lets graph tools answer.

### ContentIndex

One process per connection. A save replaces the source row (`Replace`, with the cascade
to its chunks) and stores the chunks batch by batch (`Flush`); a deletion tells the two
external-content indexes to forget the entries and then deletes the rows (`Unindex` twice,
`DeleteRows`); `CleanUp` only deletes rows. The cap on a file is a constant; what the cap
on a run leaves a save is a choice, since a connection that stores several artifacts uses it up.
The policies that skip or refuse an oversized artifact are left out: nothing but tests selects
them, and they return before the first write. That `INSERT OR REPLACE` cascades, that equal
chunks violate the unique index and that `page_count` does not shrink was confirmed by running
the statements of the code against SQLite. A chunk's text is its `chunk_id`; an index entry
is an id with a text. `history` keeps what was acknowledged and the three events the
properties except.

## Runs

| run | bounds | result |
|---|---|---|
| `tasks_safety` | 1 id, 2 clients, 2 reports, 1 restart, store faults | rows, handles, cancellation and payloads are consistent in every interleaving; only stale writers change a terminal row |
| `tasks_live` | 1 id, 2 cancelling clients, 2 reports, fair threads | every call is answered although its tool may hang or panic; a task whose row exists when its tool returns settles for good |
| `tasks_deferred` | auto-deferred calls, fair threads | *violated*: the row is created after the worker looked for it |
| `broker_startup` | 2 brokers, 2 daemon pids, 1 fault, timeouts, fair | one daemon unless something fails; no broker starts or reconnects for ever; the metadata never names a daemon that does not handle signals |
| `broker_faults` | 2 brokers, 4 daemons, 3 faults, timeouts, 1 reconnect | brokers give up at the limit; no two backends accept sessions but for the three named causes |
| `graph_files` | 2 files, 2 contents, 2 user steps, 2 runs | no cause but the six; a build, or a default update of a graph without a cause, that ends `built` undisturbed leaves a current graph |
| `graph_overlap` | 2 processes, 1 file, 3 user steps, 2 runs | no cause but the six for overlapping runs and commits |
| `history_ops` | 3 commits, linear and forked, 2 processes, 3 operations of any kind side by side, 1 fault | the catalog is implemented; commits rows and file graphs of snapshots that were not exposed are there, lifecycle rows current after an operation with work to do that ran alone, failed commits do not stop the others |
| `watch_batches` | 2 paths, 2 contents, both platforms, channel of 4, 4 edits, other events or failures | at rest the slices are those of the files, but for the named exceptions |
| `session_ledger` | 2 processes, 4 handlers, limit of 2 events, 5 events (3 decisions, two of them merged, one without a summary), 1 bridge file of 2 events | limit, uniqueness, promoted and newest events, decisions, bridge delivery and snapshot consumption |
| `recovery_ops` | 2 processes, 2 runs, 2 files, 2 damages, 1 kill | only bad databases are quarantined and kept, fresh graphs are complete, an undisturbed run leaves a healthy database that says how the run ended, but for the named causes |
| `content_ops` | 2 processes, 2 sessions, 3 operations, 1 fault, 3 texts, whole or cut by the run's cap, with and without limit | hits lead to their chunk, chunks are searchable, indexes intact, acknowledged artifacts whole, but for the named exceptions |

The violated run states what a comment, document or test of the repository says; the
quotation is in `PROJECT.json` under `findings`. Deadlock is not checked: clients,
users and processes may stop when they like, and what must go on is stated as a
liveness property.

**Why the bounds are enough.** Tasks share nothing but the store, and no statement
touches two rows, so one id suffices; two clients and two reports let one come
between the steps of another, one restart reissues an id. Two brokers and two
or three daemons are one reconnect beside one start (for any number, what the runs show of
safety is proved); four daemons and three faults outlast a limit of one reconnect for either
broker and reach each of the three causes of `OneBackend`. The code's limit of three is
the one of `broker_startup`, and of the theorem any.
An edit reaches a commit in three user steps (edit, stage, commit); slices are
independent except through a run's choice of files, for which two files are enough;
the second run acts on what the first left. `GraphIndex` was also explored with two files,
two user steps and three runs, and with one file, three user steps and three runs, without
a violation.
In the history a fork needs three commits; a prune or rebuild between the two reads of a parent,
between the selection and the deletion of orphans, or between a deletion of snapshots and
one of rows needs two processes, and a build before them is the third operation. That a
snapshot without a row keeps the lifecycle from being recomputed takes four: there the
exception in `LifecycleIsCurrent` rests on the proof.
In watch mode each exception takes at most two paths, an old and a new one, and the
dropped repetition of an event four edits; a channel of four overflows with a rename and a
creation. `WatchMode` was also explored with three paths, three edits and a channel of three: 3.4
million states. A ledger of two events evicts with the third; four handlers are an
append, a curation and two that get between its steps. Two runs suffice for each to act
on the database of the other. Two saves of one artifact and one deletion are three
operations; `ContentIndex` was also explored with two longer texts of one artifact and one
with a repeated chunk, each cut in two ways: 12 million states.

**Fairness.** `DurableTasks`: weak fairness of the request, worker and client threads,
which the operating system schedules; none for calls, tools, reports or crashes: what is
said of a task's end starts from a tool that has returned. `McpBroker`: weak fairness
of running processes; strong fairness of taking the lock (blocking `flock` is granted to
whoever keeps asking) and of the end of the 5 s wait, which passes whatever else
happens; none for the client's input, signals and kills. The other modules have safety
properties only: their operations are started by users and hooks, and every one of them is a
finite sequence of steps.

## Theorems

`DurableTasksProofs` proves `Spec => []IndInv` for any set of ids and clients, any
modes, any bounds and with or without faults, and from it `TypeOK`,
`InlineLeavesNoRow`, `HandleHasRow`, `CancelReachesTool`, `SettledRowHasPayload` and
the action property `OnlyStaleWritersUnsettle`. The properties are not inductive: that a handle
has a row of its own process needs where the row is created (`RowLifecycle`); that a
cancellation reaches the tool needs that a worker is registered before its id is
known (`KnownAfterRegister`) and what a client has done at each of its steps
(`ClientProgress`); that only stale writers unsettle a row needs that the worker's
one final write is the only one that completes it (`WorkerSettles`).

`McpBrokerProofs` proves, for any number of brokers and daemons, `TypeOK` with the
reconnect limit, `StartupSharesOneDaemon` and `PublishedDaemonHandlesSignals`. The
second rests on an invariant of behaviour in which nothing has failed so far (`CalmInv`): whoever is
between inspecting and attaching holds the lock, a daemon that does not serve yet has
a spawner that waits with the lock, and the files are those of the one daemon's stage
of start-up. The third is inductive by itself, and holds under all faults.

`OneBackend` is proved for any number of brokers too, whatever is killed, signalled or times
out. Its invariant (`OneBackendInv`) holds until one of the three causes has occurred: at most one
daemon starts or accepts sessions (`OneFresh`), the metadata and the socket are what it has
made of them at its stage (`FreshFiles`), and a broker that has looked at the files is the only one
to act on them, with the lock unless it reconnects, and removes files or spawns only while no
daemon starts or serves (`BrokerWork`). None of the causes can be left out: without any one
of its clauses TLC finds two backends with two brokers, three daemons and two faults.

`GraphIndexProofs` proves `TypeOK`, `NoOtherCause` and `SettledIsCurrent` for any files,
contents, processes, edits and runs. `NoOtherCause` speaks of moments when no run is
active, so its invariant (`SchemeInv`) has to say what each active run still does. While nothing
is to blame, a slice that the diff against the recorded commit does not show is
right, or a build has cleared it and will restore it or report that it could not (`Scheme`,
`Owed`). A run that no cause has touched holds an older content only of files that differ
from the recorded commit and from HEAD, which the next diff shows (`Stale`, `Stray`). And a
run that covers everything and has dropped nothing still handles every slice that is
wrong although its file is as in HEAD (`Progress`), which is why it may record HEAD.
`SettledInv` adds the same for runs that nothing at all disturbs (a build, or an update
with nothing to blame). The attempt showed that
`NoOtherCause` was false beyond the bounds of its runs: in four user steps a file can be
taken out of the index, put back in the working tree, indexed by a build, deleted from the graph
by an update (git reports it deleted) and staged again, after which no diff mentions
it. This is now part of `revert`; with it, four user steps with one process, and with two, were
explored as well (1.3 million states for one).

`GraphHistoryProofs` proves `TypeOK` (with: ids identify one snapshot although a deleted
id is used again), `RunContinues`, `SnapshotIsUsable`, `LifecycleIsCurrent` and the refinement
`ImplementsCatalog`, for any repositories, processes and operations beside each other.
`UsableInv` says of each clean-up under way which rows and graphs it will still delete: no
snapshot that is not exposed needs them (`Doomed`). `LifeInv` says that the rows in
the store and those in the hands of an operation (`pending`) are together the ones of the
snapshots as long as it was alone, and that the cascade leaves no row of a snapshot that
is gone. `CatalogInv` says that the listing of every exact snapshot is one of its own commit
(`SnapListed`), that the id a build has found is still that of the parent's snapshot unless the
parent was dropped (`BaseOK`), and that the listing it is about to write is exact, or its
parent dropped or not exact (`FilesOK`).
The simulation then has one step per action: `WriteCommit` is an indexing, the deletion of
snapshots a removal, everything else a stutter.

`ContentIndexProofs` proves `TypeOK`, `HitsMatchTheirChunk`, `ChunksAreSearchable`,
`IndexesAreIntact` and `AckedIsWhole` for any texts, batch size, limits and processes. Two
invariants are needed. `SearchInv`: a chunk that one of the indexes has already forgotten
belongs to a deletion under way that will remove its row (`HiddenIsDoomed`). `SaveInv`:
the rows of a source are whole batches of the text last saved, and for every missing chunk
a save is under way that will come to it.

`GraphRecoveryProofs` proves `TypeOK`, `OnlyBadIsQuarantined`, `EvidenceIsKept`,
`FreshIsComplete` and the action property `SoloRunHeals` for any files, processes and bounds. The types
need a count (`Counts`): each run moves at most one database away, so names and inode
numbers suffice. `QuarantineInv` says what a run that is about to rename has seen;
`FreshInv`, that an unblamed database is complete, empty or marked as being built, degraded
or failed at every moment, with what the run that works on it has written; `SweptInv`, that
sidecars are never taken from a database someone works on without blame; `SoloInv` follows
an undisturbed run step by step. `FreshIsComplete` was stated only for moments without an active
run before the proof showed that it holds at all times.

`SessionLedgerProofs` proves `TypeOK`, `NewestIsKept`, `DecisionOutlivesItsEvent`,
`BridgeEventsArrive`, `ConsumedWasLoaded` and the action property `PromotedSurvive` for any
events, limit, files and handlers. `TypeInv` contains the order of a handler's steps
(`WellFormed`). `CurationInv` relates a deletion plan that was made in an earlier
transaction to the rows there are now: the newest row of a group is in no plan to delete, and
a row in a plan to promote is the first of its group or has been outdone by a newer one. `BridgeInv` says which
events of a file have been dealt with while it is ingested, `ResumeInv` what a reader that is
about to mark the snapshot has loaded. Two rows of one group with the same timestamp are
the boundary: an event that is no newer than the newest of its group is not owed its place
(the code sorts by time and leaves ties as they come).

`WatchModeProofs` proves `TypeOK` and `WatchedIsCurrent` for any paths, contents, capacity and
number of edits. At rest nothing is left to see of how the events were cut, so the invariant
(`WatchInv`) follows a change through every place it can be in, for the clean paths, which no
exception names. `RawInv`: the last raw event of a path that is still to be drained tells whether
it is there, a move among them is a known rename, and nothing of either path is reported
after it. `EventInv`: once nothing more is to be heard of a path, the last event of the batch
that touches it tells the same, and a path the batch does not touch has its slice already.
`PlanInv` and `WorkInv` say this of the coalesced changes and of what is left of an update in
which some renames have been carried out, whose sources and targets are disjoint. `SliceInv`:
the nodes of a clean path are those of its files row at every moment, whoever moves,
deletes or replaces nodes beside it. The two hard steps are lemmas about the operators:
`Normalize` keeps what the raw events say last (a dropped repetition can only hide it from a path
that came or went three times, `KeptTouches`, `LastKept`), and two batches of one path can be
appended because a move ends all reports of its paths (`DrainKeeps`). The attempt showed that
`WatchedIsCurrent` was false beyond the bounds of its run, which is where the third cause in
`tangled` comes from (see Observations).

The assumptions are the named `ASSUME`s of the modules: markers such as `None` are not
processes or contents, bounds are natural numbers, a commit is younger than its parent, the paths
of a repository are finitely many, a bridge file holds a sequence of events. Every theorem is
about the same definitions as the runs, which evaluate the assumptions. The inductive
invariants were model-checked on the instances of the runs, except for the part of `SaveInv`
and of the type invariants that quantifies over all numbers or sequences.

Only model-checked:

- `RequestIsAnswered`, `TaskSettles` and `StartupEnds`: liveness under fairness, which
  the prover does not do.

What the recursive function `Ancestors` of the history contains is an induction over data, and
nothing is proved about it; no theorem depends on it.

## Observations

Where the code does something that a comment, document or test does not say, the
properties name it as an exception, so that they hold of what the code does. Paths are
relative to `src/packages`.

- *Tasks*: the counter of `new_task_id` restarts with the process (`atlas-mcp/src/tasks.rs:526`;
  the test at 790 is called `new_task_id_is_unique`), so the worker of a new auto-deferred
  call can write its result into an old row. When the worker thread of an
  explicit task cannot be spawned, or its row cannot be read back after the insert, the call is
  answered with an error and the row stays `working` for ever (`tasks.rs:169-186`, `atlas-session/src/store/mod.rs:568`).
- *Broker*: a reconnecting broker clears the files and spawns without the lock
  (`broker.rs:108`), a daemon that ends removes whatever files are there
  (`platform.rs:105, 121`), and a daemon whose broker has stopped waiting goes on starting
  while the next broker clears the files and spawns: each of the three lets two
  daemons serve, although `README.md:334` says that the same repo and database reuse one
  backend. The stdin thread is not
  interrupted by closing the socket (`broker.rs:232-244`): the join lasts until the client writes.
- *Build and update*: a build that breaks off after clearing slices keeps a previous ref that
  equals HEAD, so the next default update finds nothing (`build.rs:372-375` says that it
  re-diffs broadly); an update of staged or named files records HEAD for the whole
  repository (`update.rs:701`, against 59-60 "everything changed since the last indexed ref"); a run
  that could not read a file, or was blocked by too many failures, records HEAD; HEAD is
  read at the end of the run; the diff is taken against a commit although the graph holds
  a working tree.
- *Watch mode*: a deletion followed by the creation of another file is taken for a rename
  (`watch.rs:278`), and a rename over a pending entry loses the old path (`watch.rs:631`).
  The `seen` set of `normalize` (`watch.rs:262`) drops the later of two equal events of a drain: of a
  file that is deleted, created and deleted again with other events between, the second deletion
  is dropped and the creation is what `events_to_changes` sees last, although 601 says that later
  events overwrite earlier ones. The update then fails to read the file, and its slice stays. So
  it does when a file is moved to an ignored path or out of the repository on Linux: the
  From event is a modification of a file that is gone, and the Both event is dropped
  (`watch.rs:298-309`).
- *History*: the errors of the classification phase return with `?` after `begin_write` and
  without `rollback_write` (`atlas-history/src/build.rs:509, 512, 544`): every later commit of
  the run fails to begin, although 242-243 says "the run continues". A prune or rebuild
  beside a build can take the row or a file graph of a snapshot just written
  (`SnapshotIsUsable`, `exposed`), and, since a deleted id is given out again, the two reads of
  the parent can be of two snapshots, so that a listing has another commit's files. After a build
  that was killed before its recompute an update has nothing to do and leaves the stale
  lifecycle rows (`atlas-history/src/update.rs:124-143`).
- *Session*: a snapshot that replaces the one just read is marked consumed unseen
  (`actions.rs:115-130`); a bridge file read while it is written is discarded.
- *Recovery*: a database that is busy for 5 s is quarantined as corrupt
  (`atlas-core/src/health.rs:72`); two recoveries can move a fresh database away or replace
  the quarantined copy; an update after an interrupted recovery is incremental on an
  empty database and ends `built`.
- *Content store*: replacing an artifact never reuses chunks, since the cascade has deleted
  them before they are looked up; a text with two equal chunks cannot be saved (the
  unique index refuses the second, and the first stay); replaced and cleaned-up
  artifacts leave index entries behind; the size limit, once exceeded, removes every source.

## Not modelled

The components marked `not_modelled` in `PROJECT.json`, with the reason for each: most of
the repository's lines are parsers, read-only queries, reports, argument parsing and
formatting, in which there is no state to explore.
Within the modelled parts: the JSON-RPC framing of a connection, Windows pipes,
submodules, multi-repository databases, edges and full-text rows of a slice, renames of
directories, the time, file and size budgets of a watch mode update, global memory and
feedback, embeddings, the vocabulary.

## Plan

1. Proofs: what `DurableTasks` promises of rows that no stale writer touches as a refinement of
   an abstract task service (see 3).
2. `McpSession`: requests on a daemon connection, and a daemon that never answers the
   handshake while a broker holds the lock.
3. An abstract task service that `DurableTasks` implements where no stale writer acts.
4. Application of a multi-file refactoring that fails half-way.
