---------------------------- MODULE GraphHistory ----------------------------
(***************************************************************************)
(* The graph history: one snapshot of the code graph per indexed commit,   *)
(* file graphs stored once per blob hash, and lifecycle rows (first and    *)
(* last snapshot of a symbol) derived from the snapshots.                  *)
(*                                                                         *)
(* Processes run `atlas history build | update | rebuild | prune` against  *)
(* one SQLite database.  A commit is written in one IMMEDIATE transaction; *)
(* everything around it (finding the parent, listing its files, deleting   *)
(* snapshots, commits and orphaned graphs, recomputing the lifecycle) is a *)
(* statement or a transaction of its own, and is a step of its own here.   *)
(*                                                                         *)
(* A commit is its rank in author time.  A blob stands for the symbols its *)
(* parse declares; edges are stored and attached next to the nodes and are *)
(* not distinguished from them.                                            *)
(***************************************************************************)
EXTENDS Integers, Sequences, FiniteSets, SequencesExt

CONSTANTS
  NCommits,    \* commits of the repository, 1 .. NCommits by author time
  Paths,       \* repository paths
  Blobs,       \* blob hashes
  NoBlob,      \* "no such file"
  Supported,   \* paths some parser supports
  Opaque,      \* blobs that are binary or give no parser output
  Histories,   \* the repositories considered: [parent, tree]
  Procs,       \* atlas processes
  NoProc,
  Selections,  \* the lists of commits a build's selector may resolve to
  MaxOps,      \* bound: operations started
  MaxFaults    \* bound: failed writes, failed persists and crashes

Commits == 1 .. NCommits
Kinds == {"build", "update", "rebuild", "prune"}
Tree == [Paths -> Blobs \cup {NoBlob}]
NoSnapshot == [id |-> 0, files |-> [q \in Paths |-> NoBlob], errors |-> 0,
               whole |-> FALSE, exact |-> TRUE]

ASSUME HistoryAssumption ==
  /\ NCommits \in Nat \ {0} /\ IsFiniteSet(Paths)
  /\ Supported \subseteq Paths /\ Opaque \subseteq Blobs /\ NoBlob \notin Blobs
  /\ NoProc \notin Procs
  /\ Selections \subseteq Seq(Commits) \ {<<>>}
  /\ MaxOps \in Nat /\ MaxFaults \in Nat
  /\ \A r \in Histories :
       /\ r.parent \in [Commits -> 0 .. NCommits]
       /\ \A c \in Commits : r.parent[c] < c
       /\ r.tree \in [Commits -> Tree]

VARIABLES
  repo,        \* the git repository: parent of a commit (0: none), its tree
  registered,  \* the repos row exists
  snap,        \* graph_snapshots with their snapshot_files; history: whole and
               \* exact, what is known of the listing it was replayed from
  rows,        \* commits with a row in the commits table
  graphs,      \* blob hashes with historical_nodes
  life,        \* node_history rows
  lock,        \* the process whose connection holds an open write transaction
  op,          \* what each process is doing
  ops, faults, \* counters for the bounds
  clean,       \* history: the last operation ran alone to its end
  dropped,     \* history: commits a snapshot of which was deleted or replaced
  exposed      \* history: commits whose snapshot was written while a clean-up
               \* was about to delete their row or a graph the snapshot uses

db == <<snap, rows, graphs, life, dropped, exposed>>
vars == <<repo, registered, snap, rows, graphs, life, dropped, exposed, lock, op, ops,
          faults, clean>>

-----------------------------------------------------------------------------
(* Pure parts of the code. *)

HasSnapshot(c) == c \in Commits /\ snap[c].id > 0

\* Files the indexer stores: a parser supports the path, the blob parses.
Indexable(files) ==
  {q \in Paths : q \in Supported /\ files[q] # NoBlob /\ files[q] \notin Opaque}

\* full_snapshot_files: every blob of the commit's tree.
FullListing(c) == repo.tree[c]

\* Mutant: deleted paths stay.
ReplayForgetsDeletions(files, c) ==
  [q \in Paths |->
     IF repo.tree[c][q] # repo.tree[repo.parent[c]][q] /\ repo.tree[c][q] # NoBlob
       THEN repo.tree[c][q] ELSE files[q]]

\* diff_tree_files and replay_snapshot_files: the paths whose blob differs
\* between the two trees take the new entry, or go; the others stay as the
\* parent's snapshot has them.
Replay(files, c) ==
  [q \in Paths |->
     IF repo.tree[c][q] # repo.tree[repo.parent[c]][q] THEN repo.tree[c][q]
                                                        ELSE files[q]]

\* list_snapshots_ordered: snapshots that have a commits row, by author time.
Listed == {c \in Commits : HasSnapshot(c) /\ c \in rows}

Least(S) == CHOOSE c \in S : \A d \in S : c <= d
Greatest(S) == CHOOSE c \in S : \A d \in S : c >= d

\* The row recompute_lifecycle accumulates for the symbols of one blob: the
\* first and the last snapshot with it and the commit of the next snapshot.
\* A blob whose graph is gone gives none.
LifecycleRow(h) ==
  LET holds == {c \in Listed : \E q \in Paths : snap[c].files[q] = h}
      after == {c \in Listed : c > Greatest(holds)}
  IN  [sym |-> h, first |-> snap[Least(holds)].id, last |-> snap[Greatest(holds)].id,
       removed |-> IF after = {} THEN 0 ELSE Least(after)]
Symbols == {h \in graphs : \E c \in Listed : \E q \in Paths : snap[c].files[q] = h}
LifecycleRows == {LifecycleRow(h) : h \in Symbols}

\* Mutant: an id is used twice.
NextIdByCount == 1 + Cardinality(Listed)

\* rowid of the next graph_snapshots row: INTEGER PRIMARY KEY, max + 1.
NextId == 1 + Greatest({snap[c].id : c \in Commits})

\* Mutant: no ON DELETE CASCADE.
KeepRows(ids) == life

\* Deleting snapshots: their files go with them and the lifecycle rows that
\* name them cascade.
Without(ids) == [c \in Commits |-> IF snap[c].id \in ids THEN NoSnapshot ELSE snap[c]]
Cascade(ids) == {r \in life : r.first \notin ids /\ r.last \notin ids}

-----------------------------------------------------------------------------
(* Operations and their steps. *)

Idle == [kind |-> "none", pc |-> "idle", todo |-> <<>>, list |-> {}, hit |-> {},
         base |-> 0, files |-> [q \in Paths |-> NoBlob], whole |-> TRUE, exact |-> TRUE,
         doomed |-> {}, orphans |-> {}, pending |-> {}, alone |-> TRUE]

Running(q) == op[q].pc # "idle"

\* No operation waits for another to end: each process opens its own connection.
CanStart(p) == ~Running(p) /\ ops < MaxOps

\* A new operation; the ones already running are no longer alone.
Start(p, kind, fields) ==
  /\ ops' = ops + 1
  /\ op' = [q \in Procs |->
              IF q = p THEN [fields EXCEPT !.kind = kind,
                                           !.alone = \A r \in Procs : ~Running(r)]
              ELSE IF Running(q) THEN [op[q] EXCEPT !.alone = FALSE]
              ELSE op[q]]

\* The operation returns, with or without an error, and its process exits: an
\* open transaction of its connection is rolled back.
Exit(p, isClean) ==
  /\ op' = [op EXCEPT ![p] = Idle]
  /\ lock' = IF lock = p THEN NoProc ELSE lock
  /\ clean' = isClean

GoTo(p, pc) == op' = [op EXCEPT ![p] = [op[p] EXCEPT !.pc = pc]]

\* git log: the ancestors of a ref, cut at max commits from the newest.
Ancestors[c \in Commits] ==
  {c} \cup IF repo.parent[c] = 0 THEN {} ELSE Ancestors[repo.parent[c]]
LogCommits(h, max) ==
  {c \in Commits : /\ c \in Ancestors[h]
                   /\ Cardinality({d \in Ancestors[h] : d > c}) < max}
\* An update and a range go from the oldest commit to the newest.
OldestFirst(S) ==
  {s \in UNION {[1 .. n -> S] : n \in Commits} :
     ToSet(s) = S /\ \A i, j \in DOMAIN s : i < j => s[i] < s[j]}

\* build: a selector resolves to a list of commits; a range or a bound gives
\* ancestors oldest first, an explicit list keeps the caller's order.
StartBuild(p) ==
  /\ CanStart(p)
  /\ \E list \in Selections :
       Start(p, "build", [Idle EXCEPT !.pc = "commit", !.todo = list,
                                      !.list = ToSet(list)])
  /\ registered' = TRUE
  /\ UNCHANGED <<repo, db, lock, faults, clean>>

\* update walks the commits from the ref (at most max, NCommits being no limit)
\* down to the first indexed one.  Snapshots outside the ancestry are a
\* divergence, an error without --repair.
Missing(commits) == {c \in commits : \A d \in commits : HasSnapshot(d) => d < c}
Diverged(commits) ==
  Listed # {} /\ (~(Listed \subseteq commits) \/ \A c \in commits : ~HasSnapshot(c))

\* The missing commits are built, oldest first.
StartUpdate(p) ==
  /\ registered /\ CanStart(p)
  /\ \E h \in Commits, repair \in BOOLEAN, max \in Commits :
       LET commits == LogCommits(h, max)
           missing == Missing(commits)
       IN  /\ Diverged(commits) => repair
           /\ missing # {}
           /\ \E todo \in OldestFirst(missing) :
                Start(p, "update", [Idle EXCEPT !.pc = "commit", !.list = missing,
                                                !.todo = todo])
  /\ UNCHANGED <<repo, registered, db, lock, faults, clean>>

\* None is missing: the update reports the lifecycle rows it finds and returns,
\* without recomputing them.
UpdateNothing(p) ==
  /\ registered /\ CanStart(p)
  /\ \E h \in Commits, repair \in BOOLEAN, max \in Commits :
       /\ Diverged(LogCommits(h, max)) => repair
       /\ Missing(LogCommits(h, max)) = {}
  /\ ops' = ops + 1
  /\ UNCHANGED <<repo, registered, db, lock, op, faults, clean>>

\* rebuild: the existing snapshot is deleted first.
StartRebuild(p) ==
  /\ registered /\ CanStart(p)
  /\ \E c \in Commits :
       /\ HasSnapshot(c)
       /\ Start(p, "rebuild", [Idle EXCEPT !.pc = "delete", !.todo = <<c>>, !.list = {c},
                                           !.doomed = {[id |-> snap[c].id, commit |-> c]}])
  /\ UNCHANGED <<repo, registered, db, lock, faults, clean>>

\* prune: the retention policy keeps a set of commits (tags can name any).
\* With nothing indexed, or keep_all, only the lifecycle is recomputed.
StartPrune(p) ==
  /\ registered /\ CanStart(p)
  /\ \E keep \in SUBSET Commits :
       LET doomed == {[id |-> snap[c].id, commit |-> c] : c \in Listed \ keep}
       IN  Start(p, "prune", [Idle EXCEPT !.pc = IF Listed = {} \/ keep = Commits
                                                   THEN "liferead" ELSE "delete",
                                          !.doomed = doomed])
  /\ UNCHANGED <<repo, registered, db, lock, faults, clean>>

\* delete_history_snapshots, in a transaction of its own: by the ids selected
\* before, which may have been given to other snapshots since.
DeleteSnapshots(p) ==
  LET ids == {d.id : d \in op[p].doomed} IN
  /\ op[p].pc = "delete"
  /\ lock = NoProc \/ ids = {}
  /\ snap' = Without(ids)
  /\ life' = Cascade(ids)
  /\ dropped' = dropped \cup {c \in Commits : snap[c].id \in ids}
  /\ GoTo(p, IF op[p].kind = "prune" THEN "rows" ELSE "orphans")
  /\ UNCHANGED <<repo, registered, rows, graphs, exposed, lock, ops, faults, clean>>

\* delete_history_commits, in a transaction of its own (prune only).
DeleteCommits(p) ==
  /\ op[p].pc = "rows"
  /\ lock = NoProc \/ op[p].doomed = {}
  /\ rows' = rows \ {d.commit : d \in op[p].doomed}
  /\ GoTo(p, "orphans")
  /\ UNCHANGED <<repo, registered, snap, graphs, life, dropped, exposed, lock, ops, faults,
                 clean>>

\* Mutant: the join with snapshot_files is missing.
AllGraphs(p) == graphs

\* prune_orphan_historical_file_graphs, the select: outside the transaction.
FindOrphanGraphs(p) ==
  {h \in graphs : \A c \in Commits : \A q \in Paths : snap[c].files[q] # h}
SelectOrphans(p) ==
  /\ op[p].pc = "orphans"
  /\ op' = [op EXCEPT ![p] = [op[p] EXCEPT !.orphans = FindOrphanGraphs(p), !.pc = "reclaim"]]
  /\ UNCHANGED <<repo, registered, db, lock, ops, faults, clean>>

\* ... and the transaction that deletes what was selected.
DeleteOrphans(p) ==
  /\ op[p].pc = "reclaim"
  /\ lock = NoProc \/ op[p].orphans = {}
  /\ graphs' = graphs \ op[p].orphans
  /\ GoTo(p, IF op[p].kind = "prune" THEN "liferead" ELSE "commit")
  /\ UNCHANGED <<repo, registered, snap, rows, life, dropped, exposed, lock, ops, faults,
                 clean>>

-----------------------------------------------------------------------------
(* build_historical_graph and process_commit. *)

\* The loop goes on; what was read for the last commit is dropped.
NextCommit(p) ==
  [op[p] EXCEPT !.todo = Tail(op[p].todo), !.pc = "commit",
                !.base = 0, !.files = Idle.files, !.whole = TRUE, !.exact = TRUE]

\* The loop skips a commit that has a snapshot.
SkipIndexed(p) ==
  /\ op[p].pc = "commit" /\ op[p].todo # <<>> /\ op[p].kind # "rebuild"
  /\ HasSnapshot(Head(op[p].todo))
  /\ op' = [op EXCEPT ![p] = NextCommit(p)]
  /\ UNCHANGED <<repo, registered, db, lock, ops, faults, clean>>

\* replay_snapshot_files, first read: the parent's snapshot.  Without one the
\* tree is listed in full.
FindParent(p) ==
  LET c == Head(op[p].todo) IN
  /\ op[p].pc = "commit" /\ op[p].todo # <<>>
  /\ op[p].kind = "rebuild" \/ ~HasSnapshot(c)
  /\ op' = [op EXCEPT ![p] =
              IF HasSnapshot(repo.parent[c])
                THEN [op[p] EXCEPT !.base = snap[repo.parent[c]].id, !.pc = "replay"]
                ELSE [op[p] EXCEPT !.files = FullListing(c), !.whole = TRUE, !.exact = TRUE,
                                   !.pc = "write"]]
  /\ UNCHANGED <<repo, registered, db, lock, ops, faults, clean>>

\* Second read: the files listed under that snapshot id, which may be gone or
\* be another snapshot's by now, with the diff of the two trees applied.  The
\* result is exact unless it is replayed over the files of another commit.
ListParent(p) ==
  LET c == Head(op[p].todo)
      of == {d \in Commits : snap[d].id = op[p].base}
      parent == IF of = {} THEN NoSnapshot ELSE snap[CHOOSE d \in of : TRUE]
  IN
  /\ op[p].pc = "replay"
  /\ op' = [op EXCEPT ![p] =
              [op[p] EXCEPT !.files = Replay(parent.files, c), !.whole = parent.whole,
                            !.exact = parent.exact /\ of \subseteq {repo.parent[c]},
                            !.pc = "write"]]
  /\ UNCHANGED <<repo, registered, db, lock, ops, faults, clean>>

\* Mutant: the loop ends at the first error.
CollectBreaks(p, hit) ==
  IF op[p].kind = "rebuild"
    THEN Exit(p, FALSE)
    ELSE /\ op' = [op EXCEPT ![p] = [NextCommit(p) EXCEPT !.hit = op[p].hit \cup hit,
                                                          !.todo = <<>>]]
         /\ UNCHANGED <<lock, clean>>

\* A commit whose processing failed: build and update collect the error and go
\* on with the next commit, rebuild returns it.
Collect(p, hit) ==
  IF op[p].kind = "rebuild"
    THEN Exit(p, FALSE)
    ELSE /\ op' = [op EXCEPT ![p] = [NextCommit(p) EXCEPT !.hit = op[p].hit \cup hit]]
         /\ UNCHANGED <<lock, clean>>

\* A graph_snapshots row that still has snapshot_files cannot be replaced.
Replaceable(c) == snap[c].files = NoSnapshot.files

\* A clean-up is about to delete the row of c or a graph of one of the files.
ComesUnder(c, files) ==
  \E r \in Procs :
    \/ /\ op[r].kind = "prune" /\ op[r].pc \in {"delete", "rows"}
       /\ c \in {d.commit : d \in op[r].doomed}
    \/ op[r].pc = "reclaim" /\ \E q \in Paths : files[q] \in op[r].orphans

\* The write transaction.  Files whose blob has a graph are reused, the others
\* parsed and persisted; a file whose persist fails is counted and left out,
\* though its nodes may have been stored before the failure.
WriteCommit(p) ==
  LET c == Head(op[p].todo)
      files == op[p].files
      fresh == {q \in Indexable(files) : files[q] \notin graphs}
  IN
  /\ op[p].pc = "write" /\ lock = NoProc /\ Replaceable(c)
  /\ \E bad \in SUBSET fresh : \E torn \in SUBSET bad :
       /\ bad # {} => faults < MaxFaults
       /\ faults' = IF bad = {} THEN faults ELSE faults + 1
       /\ graphs' = graphs \cup {files[q] : q \in (fresh \ bad) \cup torn}
       /\ snap' = [snap EXCEPT ![c] =
            [id |-> NextId, errors |-> Cardinality(bad),
             files |-> [q \in Paths |->
                          IF q \in Indexable(files) \ bad THEN files[q] ELSE NoBlob],
             whole |-> op[p].whole /\ bad = {}, exact |-> op[p].exact]]
  /\ dropped' = IF HasSnapshot(c) THEN dropped \cup {c} ELSE dropped
  /\ exposed' = IF ComesUnder(c, files) THEN exposed \cup {c} ELSE exposed \ {c}
  /\ rows' = rows \cup {c}
  /\ life' = IF HasSnapshot(c) THEN Cascade({snap[c].id}) ELSE life
  /\ op' = [op EXCEPT ![p] = NextCommit(p)]
  /\ UNCHANGED <<repo, registered, lock, ops, clean>>

\* An error after phase 3 rolls the transaction back.  Replacing a snapshot that
\* another process wrote meanwhile is such an error.
WriteRollsBack(p) ==
  /\ op[p].pc = "write" /\ lock = NoProc
  /\ IF Replaceable(Head(op[p].todo)) THEN faults < MaxFaults /\ faults' = faults + 1
                                      ELSE UNCHANGED faults
  /\ Collect(p, {Head(op[p].todo)})
  /\ UNCHANGED <<repo, registered, db, ops>>

\* An error in phase 1 (a store read, git show) returns with `?`: no rollback,
\* the connection keeps the transaction and its write lock.
WriteLeaks(p) ==
  /\ op[p].pc = "write" /\ lock = NoProc /\ faults < MaxFaults
  /\ faults' = faults + 1
  /\ IF op[p].kind = "rebuild"
       THEN Exit(p, FALSE)
       ELSE /\ op' = [op EXCEPT ![p] =
                        [NextCommit(p) EXCEPT !.hit = op[p].hit \cup {Head(op[p].todo)}]]
            /\ lock' = p
            /\ UNCHANGED clean
  /\ UNCHANGED <<repo, registered, db, ops>>

\* BEGIN IMMEDIATE fails: inside the leaked transaction, or busy.
WriteBlocked(p) ==
  /\ op[p].pc = "write" /\ lock # NoProc
  /\ Collect(p, {})
  /\ UNCHANGED <<repo, registered, db, ops, faults>>

-----------------------------------------------------------------------------
(* recompute_lifecycle: no transaction around its statements. *)

\* The commit just rebuilt has no snapshot any more, another process has deleted
\* it: the rebuild ends with an error.
Vanished(p) == op[p].kind = "rebuild" /\ \A c \in op[p].list : ~HasSnapshot(c)

\* The commits are done: list and reconstruct the snapshots.  With none listed
\* nothing is written.
ReadSnapshots(p) ==
  /\ \/ op[p].pc = "liferead"
     \/ op[p].pc = "commit" /\ op[p].todo = <<>> /\ ~Vanished(p)
  /\ IF Listed = {}
       THEN Exit(p, op[p].alone)
       ELSE /\ op' = [op EXCEPT ![p] = [op[p] EXCEPT !.pending = LifecycleRows, !.pc = "clear"]]
            /\ UNCHANGED <<lock, clean>>
  /\ UNCHANGED <<repo, registered, db, ops, faults>>

\* replace_node_history: DELETE, then one INSERT per row.
ClearLifecycle(p) ==
  /\ op[p].pc = "clear" /\ lock = NoProc
  /\ life' = {}
  /\ GoTo(p, "insert")
  /\ UNCHANGED <<repo, registered, snap, rows, graphs, dropped, exposed, lock, ops, faults,
                 clean>>

Insertable(r) ==
  /\ \A s \in life : s.sym # r.sym
  /\ \A id \in {r.first, r.last} : \E c \in Commits : snap[c].id = id

InsertRow(p) ==
  /\ op[p].pc = "insert" /\ lock = NoProc
  /\ \E r \in op[p].pending :
       /\ Insertable(r)
       /\ life' = life \cup {r}
       /\ op' = [op EXCEPT ![p] = [op[p] EXCEPT !.pending = op[p].pending \ {r}]]
  /\ UNCHANGED <<repo, registered, snap, rows, graphs, dropped, exposed, lock, ops, faults,
                 clean>>

Finish(p) ==
  /\ op[p].pc = "insert" /\ op[p].pending = {}
  /\ Exit(p, op[p].alone)
  /\ UNCHANGED <<repo, registered, db, ops, faults>>

\* A statement outside process_commit fails: a constraint, the write lock held
\* by another process, or (the reclaiming transaction begins with a read) a
\* write of another process in between.  With its own leaked transaction open
\* the process goes through the motions and loses them when it exits.
Abort(p) ==
  /\ \/ op[p].pc \in {"delete", "rows"} /\ op[p].doomed # {} /\ lock # NoProc
     \/ op[p].pc = "reclaim" /\ op[p].orphans # {} /\ (lock # NoProc \/ ~op[p].alone)
     \/ op[p].pc \in {"clear", "insert"} /\ lock # NoProc
     \/ op[p].pc = "insert" /\ \E r \in op[p].pending : ~Insertable(r)
     \/ op[p].pc = "commit" /\ op[p].todo = <<>> /\ Vanished(p)
  /\ Exit(p, FALSE)
  /\ UNCHANGED <<repo, registered, db, ops, faults>>

\* The process dies between two statements.
Crash(p) ==
  /\ Running(p) /\ faults < MaxFaults
  /\ faults' = faults + 1
  /\ Exit(p, FALSE)
  /\ UNCHANGED <<repo, registered, db, ops>>

-----------------------------------------------------------------------------
Init ==
  /\ repo \in Histories
  /\ registered = FALSE
  /\ snap = [c \in Commits |-> NoSnapshot]
  /\ rows = {} /\ graphs = {} /\ life = {}
  /\ lock = NoProc
  /\ op = [p \in Procs |-> Idle]
  /\ ops = 0 /\ faults = 0
  /\ clean = TRUE /\ dropped = {} /\ exposed = {}

Next ==
  \E p \in Procs :
    \/ StartBuild(p) \/ StartUpdate(p) \/ UpdateNothing(p)
    \/ StartRebuild(p) \/ StartPrune(p)
    \/ DeleteSnapshots(p) \/ DeleteCommits(p) \/ SelectOrphans(p) \/ DeleteOrphans(p)
    \/ SkipIndexed(p) \/ FindParent(p) \/ ListParent(p)
    \/ WriteCommit(p) \/ WriteRollsBack(p) \/ WriteLeaks(p) \/ WriteBlocked(p)
    \/ ReadSnapshots(p) \/ ClearLifecycle(p) \/ InsertRow(p) \/ Finish(p)
    \/ Abort(p) \/ Crash(p)

Spec == Init /\ [][Next]_vars

-----------------------------------------------------------------------------
(* Properties. *)

\* The shape of the state, and ids that identify at most one snapshot.
SnapshotType ==
  [id : Nat, files : Tree, errors : Nat, whole : BOOLEAN, exact : BOOLEAN]
RowType == [sym : Blobs, first : Nat, last : Nat, removed : 0 .. NCommits]
OpType ==
  [kind : Kinds \cup {"none"},
   pc : {"idle", "delete", "rows", "orphans", "reclaim", "commit", "replay", "write",
         "liferead", "clear", "insert"},
   todo : Seq(Commits), list : SUBSET Commits, hit : SUBSET Commits,
   base : Nat, files : Tree, whole : BOOLEAN, exact : BOOLEAN,
   doomed : SUBSET [id : Nat, commit : Commits], orphans : SUBSET Blobs,
   pending : SUBSET RowType, alone : BOOLEAN]
TypeOK ==
  /\ repo \in Histories /\ registered \in BOOLEAN
  /\ snap \in [Commits -> SnapshotType]
  /\ rows \subseteq Commits /\ graphs \subseteq Blobs /\ life \subseteq RowType
  /\ lock \in Procs \cup {NoProc}
  /\ op \in [Procs -> OpType]
  /\ ops \in Nat /\ faults \in Nat /\ clean \in BOOLEAN
  /\ dropped \subseteq Commits /\ exposed \subseteq Commits
  /\ \A c, d \in Commits : HasSnapshot(c) /\ snap[c].id = snap[d].id => c = d

\* What a snapshot needs is there: its commits row, without which neither
\* list_snapshots_ordered nor prune sees it, and the stored graph of each of its
\* files.  Prunes and rebuilds run beside builds and may stop at any point; the
\* only snapshots they can leave without a row or a graph are those written
\* (exposed) while a prune that has chosen the same commit has not yet deleted
\* its row, or while one of the blobs is on a clean-up's list of orphans.
SnapshotIsUsable ==
  \A c \in Commits : HasSnapshot(c) /\ c \notin exposed =>
    /\ c \in rows
    /\ \A q \in Paths : snap[c].files[q] \in graphs \cup {NoBlob}

\* When nothing runs and the last operation with work to do ran alone to its end,
\* the lifecycle rows are those of the listed snapshots and stored graphs,
\* whatever crashed or raced before it.  (An update that finds no commit missing
\* recomputes nothing; and recompute_lifecycle leaves the rows alone when none of
\* the snapshots is listed, which takes a row deleted under an exposed one.)
LifecycleIsCurrent ==
  clean /\ (\A p \in Procs : ~Running(p)) /\ (Listed = {} => \A c \in Commits : ~HasSnapshot(c))
    => life = LifecycleRows

\* The abstract view of the store: the listing under each commit's snapshot.
Absent == [none |-> TRUE]
Catalog ==
  INSTANCE SnapshotCatalog WITH
    Repos <- Histories, Stored <- Indexable,
    catalog <- [c \in Commits |->
                  IF HasSnapshot(c)
                    THEN [files |-> snap[c].files, whole |-> snap[c].whole,
                          exact |-> snap[c].exact]
                    ELSE Absent]

\* Builds, updates, rebuilds and prunes by several processes at once, with their
\* failures and crashes, implement the catalog: a snapshot appears in the one
\* step of process_commit's transaction, disappears as a whole, and no run
\* rewrites one that holds files.  The diff replayed over the parent's snapshot,
\* read in two steps before, gives files of the commit's own tree, and all that
\* are indexable unless a persist failed, or the parent's listing was gone, for
\* it or one it was replayed from.  It can give another commit's files only when
\* the parent's snapshot was deleted (its id is reused), or had such files itself.
ImplementsCatalog == Catalog!Spec

\* Errors of single commits are collected and the run continues: a build or
\* update that ran alone has indexed every commit of its list whose own
\* processing did not fail, unless an error of phase 1 has left the
\* transaction open, inside which no later commit can begin.
RunContinues ==
  \A p \in Procs :
    op[p].kind \in {"build", "update"} /\ op[p].pc = "clear" /\ op[p].alone /\ lock # p =>
      \A c \in op[p].list \ op[p].hit : HasSnapshot(c)
=============================================================================
