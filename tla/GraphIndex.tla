----------------------------- MODULE GraphIndex -----------------------------
(***************************************************************************)
(* Full builds and incremental updates of the code graph:                  *)
(*   packages/atlas-engine/src/build.rs, update.rs, update_files.rs        *)
(*   packages/atlas-engine/src/build_budget.rs                             *)
(*   packages/atlas-repo/src/diff.rs                                       *)
(*   packages/atlas-store-sqlite/src/store/build_state.rs, mutation.rs     *)
(* and the commands around them (atlas build, atlas update, the MCP build  *)
(* tool, the agent hooks), which share one database and may overlap.       *)
(*                                                                         *)
(* The graph holds one slice per file: here, the content it was parsed     *)
(* from.  A default update trusts last_indexed_ref, a commit: it processes *)
(* what git diff reports against that commit.  The model asks when that is *)
(* enough to find every slice that does not match its file.  A commit is   *)
(* represented by its tree.  A rename is a deletion and an addition: the   *)
(* stable rename moves a slice whose content is the new file's.            *)
(***************************************************************************)
EXTENDS FiniteSets, Naturals

CONSTANTS
  Files,       \* the supported files
  Contents,    \* what a file can contain
  Absent,      \* no such file, no slice
  Unread,      \* not parsed in this run
  NoRef,       \* no commit recorded
  Procs,       \* processes that run builds and updates
  MaxEdits,    \* bound: changes of the user (edits, staging, commits)
  MaxRuns      \* bound: builds and updates

ASSUME GraphIndexAssumption ==
  /\ Absent \notin Contents /\ Unread \notin Contents \cup {Absent}
  /\ NoRef \notin [Files -> Contents \cup {Absent}]
  /\ MaxEdits \in Nat /\ MaxRuns \in Nat

VARIABLES
  work, index, head,   \* the repository: working tree, git index, commit
  graph,               \* the slices of the graph database
  ref,                 \* graph_build_state.last_indexed_ref
  state,               \* graph_build_state.state
  run,                 \* what each process is doing
  blame,               \* history: what may have left a slice stale unnoticed
  settled,             \* history: a run that Settles ended, nothing happened since
  edits, runs          \* counters (bounded)

vars == <<work, index, head, graph, ref, state, run, blame, settled, edits, runs>>
repo == <<work, index, head>>
db == <<graph, ref, state>>

Values == Contents \cup {Absent}
Trees == [Files -> Values]

Targets == {"build", "worktree", "staged", "files", "base"}
\* The targets that look at part of the changes only.
SubsetTargets == {"staged", "files", "base"}
Causes == {"revert", "commit", "subset", "fresh", "skipped", "build"}

Pcs == {"idle", "list", "delete", "parse", "deps", "write", "finish"}
Runs == [pc : Pcs, target : Targets, dels : SUBSET Files, todo : SUBSET Files,
         mine : SUBSET Files, known : Trees, parsed : [Files -> Values \cup {Unread}],
         partial : BOOLEAN, blocked : BOOLEAN, lost : BOOLEAN, skipped : BOOLEAN,
         fresh : BOOLEAN, disturbed : SUBSET (Causes \cup {"edit", "overlap"})]

NothingParsed == [f \in Files |-> Unread]
NoSlices == [f \in Files |-> Absent]
Idle == [pc |-> "idle", target |-> "build", dels |-> {}, todo |-> {}, mine |-> {},
         known |-> NoSlices, parsed |-> NothingParsed, partial |-> FALSE, blocked |-> FALSE, lost |-> FALSE,
         skipped |-> FALSE, fresh |-> FALSE, disturbed |-> {}]

Active(p) == run[p].pc # "idle"
Quiet == \A p \in Procs : ~Active(p)
Parsed(p) == {f \in Files : run[p].parsed[f] # Unread}

\* A committed repository and an empty graph.
Init ==
  /\ work \in Trees /\ index = work /\ head = work
  /\ graph = NoSlices
  /\ ref = NoRef
  /\ state = "none"
  /\ run = [p \in Procs |-> Idle]
  /\ blame = {} /\ settled = FALSE
  /\ edits = 0 /\ runs = 0

-----------------------------------------------------------------------------
(* The user.                                                               *)

\* What happens while a run is active may concern what it has read already.
Disturb(r, c) == IF r.pc = "idle" THEN r ELSE [r EXCEPT !.disturbed = @ \cup c]

UserStep(c) ==
  /\ edits < MaxEdits /\ edits' = edits + 1
  /\ blame' = blame \cup c
  /\ run' = [p \in Procs |-> Disturb(run[p], c \cup {"edit"})]
  /\ settled' = FALSE
  /\ UNCHANGED <<db, runs>>

\* A commit holds this content that the graph was or will be compared with: to put
\* it back is noted.
PutsBack(f, v) == IF v = head[f] \/ (ref # NoRef /\ v = ref[f]) THEN {"revert"} ELSE {}

\* A file is written, created or removed.
Edit(f, v) ==
  /\ v # work[f]
  /\ work' = [work EXCEPT ![f] = v]
  /\ UserStep(PutsBack(f, v))
  /\ UNCHANGED <<index, head>>

\* git add, git rm.  A file that was not in the index is back for git diff.
Stage(f) ==
  /\ index[f] # work[f]
  /\ index' = [index EXCEPT ![f] = work[f]]
  /\ UserStep(IF index[f] = Absent THEN PutsBack(f, work[f]) ELSE {})
  /\ UNCHANGED <<work, head>>

Commit ==
  /\ head # index
  /\ head' = index
  /\ UserStep(IF Quiet THEN {} ELSE {"commit"})
  /\ UNCHANGED <<work, index>>

-----------------------------------------------------------------------------
(* What git diff reports (diff.rs).  A file that is not in the index is    *)
(* untracked, or deleted as far as git diff is concerned.                  *)

DiffTree(t) == {f \in Files : IF index[f] = Absent THEN t[f] # Absent ELSE t[f] # work[f]}
DiffIndex == {f \in Files : index[f] \notin {Absent, work[f]}}
DiffStaged == {f \in Files : index[f] # head[f]}

\* Mutant: the default target looks at unstaged changes only.
DiffUnstaged == DiffIndex

\* The default target: BaseRef(last_indexed_ref), or the index without one.
DiffDefault == IF ref = NoRef THEN DiffIndex ELSE DiffTree(ref)

\* The changes of a target; the files of an explicit update are the caller's
\* choice, and so is the base of --base: HEAD here.
Changes(t) ==
  CASE t = "worktree" -> {DiffDefault}
    [] t = "staged" -> {DiffStaged}
    [] t = "base" -> {DiffTree(head)}
    [] t = "files" -> SUBSET Files \ {{}}

\* ChangeType::Deleted.
IsDeletion(t, f) == IF t = "files" THEN work[f] = Absent
                    ELSE index[f] = Absent \/ (t # "staged" /\ work[f] = Absent)

-----------------------------------------------------------------------------
(* A run of build_graph or update_graph.                                   *)

Set(p, r) == run' = [run EXCEPT ![p] = r]
At(p, pcs) == run[p].pc \in pcs
KeepHistory == UNCHANGED <<blame, settled, edits, runs>>

\* The command: begin_build_for_repo, whose failure is ignored.
Begin(p, t) ==
  /\ ~Active(p) /\ runs < MaxRuns
  /\ runs' = runs + 1
  /\ LET others == IF Quiet THEN {} ELSE {"overlap"}
     IN  run' = [q \in Procs |->
           IF q = p THEN [Idle EXCEPT !.pc = "list", !.target = t, !.disturbed = others]
           ELSE Disturb(run[q], others)]
  /\ state' \in {state, "building"}
  /\ settled' = FALSE
  /\ UNCHANGED <<repo, graph, ref, blame, edits>>

\* build_graph lists the slices it is going to clear.
ListSlices(p) ==
  /\ At(p, {"list"}) /\ run[p].target = "build"
  /\ Set(p, [run[p] EXCEPT !.pc = "delete", !.dels = {f \in Files : graph[f] # Absent}])
  /\ UNCHANGED <<repo, db>> /\ KeepHistory

\* update_graph asks git for the changes and sorts them; when the time is up the
\* rest of them is dropped.
DetectChanges(p) ==
  /\ At(p, {"list"}) /\ run[p].target # "build"
  /\ \E changes \in Changes(run[p].target) : \E kept \in SUBSET changes :
       LET gone == {f \in kept : IsDeletion(run[p].target, f)}
       IN  Set(p, [run[p] EXCEPT !.pc = "delete", !.dels = gone,
                                 !.todo = kept \ gone, !.mine = kept \ gone,
                                 !.partial = kept # changes, !.fresh = ref = NoRef])
  /\ UNCHANGED <<repo, db>> /\ KeepHistory

\* delete_file_graph_for_repo: one transaction per file.
DeleteSlice(p, f) ==
  /\ At(p, {"delete"}) /\ f \in run[p].dels
  /\ graph' = [graph EXCEPT ![f] = Absent]
  /\ Set(p, [run[p] EXCEPT !.dels = @ \ {f}])
  /\ UNCHANGED <<repo, ref, state>> /\ KeepHistory

\* build_graph reads the stored hashes and lists the files (untracked ones too).
Scan(p) ==
  /\ At(p, {"delete"}) /\ run[p].dels = {}
  /\ Set(p, IF run[p].target = "build"
            THEN [run[p] EXCEPT !.pc = "parse", !.known = graph,
                                !.todo = {f \in Files : work[f] # Absent}]
            ELSE [run[p] EXCEPT !.pc = "parse"])
  /\ UNCHANGED <<repo, db>> /\ KeepHistory

\* A file is read and parsed.  One that is gone is an error like any other; a build
\* skips one whose hash was stored, by another process since it cleared the graph.
ParseFile(p, f) ==
  /\ At(p, {"parse", "deps"}) /\ f \in run[p].todo
  /\ Set(p, [run[p] EXCEPT !.todo = @ \ {f},
               !.parsed = IF work[f] \in {Absent, run[p].known[f]} THEN @
                          ELSE [run[p].parsed EXCEPT ![f] = work[f]]])
  /\ UNCHANGED <<repo, db>> /\ KeepHistory

\* A file cannot be read: it is left out; with too many of them
\* (note_parse_failure) the run stops reading.
ParseFails(p, f) ==
  /\ At(p, {"parse", "deps"}) /\ f \in run[p].todo
  /\ \/ Set(p, [run[p] EXCEPT !.todo = @ \ {f}, !.skipped = TRUE])
     \/ Set(p, [run[p] EXCEPT !.todo = {}, !.skipped = TRUE, !.blocked = TRUE])
  /\ UNCHANGED <<repo, db>> /\ KeepHistory

\* The byte, file or time budget: files are dropped and the report says partial.
BudgetStops(p) ==
  /\ At(p, {"parse", "deps"})
  /\ \E S \in SUBSET run[p].todo :
       /\ S # {}
       /\ Set(p, [run[p] EXCEPT !.todo = @ \ S, !.partial = TRUE])
  /\ UNCHANGED <<repo, db>> /\ KeepHistory

\* update_graph parses the files that depend on changed symbols as well, one of them
\* if it has stopped reading.
FindDependents(p) ==
  /\ At(p, {"parse"}) /\ run[p].todo = {} /\ run[p].target # "build"
  /\ \E S \in SUBSET {f \in Files \ run[p].mine : graph[f] # Absent} :
       /\ run[p].blocked => Cardinality(S) <= 1
       /\ Set(p, [run[p] EXCEPT !.pc = "deps", !.todo = S])
  /\ UNCHANGED <<repo, db>> /\ KeepHistory

StartWriting(p) ==
  /\ At(p, {"deps"}) /\ run[p].todo = {}
  /\ Set(p, [run[p] EXCEPT !.pc = "write"])
  /\ UNCHANGED <<repo, db>> /\ KeepHistory

\* Mutant: the batch replaces the slices of files it has not parsed too.
WriteAll(p) ==
  /\ At(p, {"write"}) /\ Parsed(p) # {}
  /\ graph' = run[p].parsed
  /\ Set(p, [run[p] EXCEPT !.parsed = NothingParsed])
  /\ UNCHANGED <<repo, ref, state>> /\ KeepHistory

\* replace_files_transactional_for_repo on a batch.  A build stores a batch before
\* it parses the next, an update stores when all is parsed.  The retrieval chunks
\* and the call targets are best effort: their failures are counted.
WriteBatch(p) ==
  /\ \E S \in SUBSET Parsed(p) :
       /\ S # {}
       /\ \/ At(p, {"parse"}) /\ run[p].target = "build" /\ S = Parsed(p)
          \/ At(p, {"write"})
       /\ graph' = [f \in Files |-> IF f \in S THEN run[p].parsed[f] ELSE graph[f]]
       /\ \E failed \in BOOLEAN :
            Set(p, [run[p] EXCEPT
                      !.parsed = [f \in Files |-> IF f \in S THEN Unread ELSE run[p].parsed[f]],
                      !.lost = @ \/ failed])
  /\ UNCHANGED <<repo, ref, state>> /\ KeepHistory

\* Mutant: a partial run counts as clean.
IsDegradedNoBudget(r) == r.lost

\* is_degraded.  The budget report is the worst one, and a blocked one does not
\* say partial.
IsDegraded(r) == (r.partial /\ ~r.blocked) \/ r.lost

\* What this run may have left behind, if it records the commit or not.
RunCauses(r, recorded) ==
  (IF recorded /\ r.target \in SubsetTargets THEN {"subset"} ELSE {})
  \cup (IF recorded /\ r.target = "worktree" /\ r.fresh THEN {"fresh"} ELSE {})
  \cup (IF (recorded \/ r.target = "build") /\ (r.skipped \/ r.blocked) THEN {"skipped"} ELSE {})
  \cup (IF r.target = "build" /\ IsDegraded(r) THEN {"build"} ELSE {})

\* A build that is clean and had the database to itself makes good what happened
\* before it.
MakesGood(r, recorded) ==
  r.target = "build" /\ recorded /\ RunCauses(r, recorded) = {} /\ "overlap" \notin r.disturbed

\* The end of build_graph and update_graph: a run that is not degraded records
\* HEAD as it is now.  A failure to do so is logged.
Record(p) ==
  /\ Parsed(p) = {} /\ run[p].todo = {}
  /\ At(p, IF run[p].target = "build" THEN {"parse"} ELSE {"write"})
  /\ \E recorded \in {FALSE, ~IsDegraded(run[p])} :
       /\ ref' = IF recorded THEN head ELSE ref
       /\ blame' = IF MakesGood(run[p], recorded) THEN run[p].disturbed \cap Causes
                   ELSE blame \cup RunCauses(run[p], recorded)
  /\ Set(p, [run[p] EXCEPT !.pc = "finish"])
  /\ UNCHANGED <<repo, graph, state, settled, edits, runs>>

\* finish_build_for_repo.
FinishState(r) == CASE r.blocked -> "build_failed"
                    [] ~r.blocked /\ IsDegraded(r) -> "degraded"
                    [] OTHER -> "built"

\* History: the run ends built, read all it had to read, and nothing disturbed it.
\* An update rests on what earlier runs left, a build does not.
Settles(r) ==
  /\ FinishState(r) = "built" /\ r.disturbed = {} /\ ~r.skipped
  /\ r.target = "build" \/ (r.target = "worktree" /\ blame = {} /\ ref # NoRef)

Finish(p) ==
  /\ At(p, {"finish"})
  /\ state' = FinishState(run[p])
  /\ settled' = Settles(run[p])
  /\ Set(p, Idle)
  /\ UNCHANGED <<repo, graph, ref, blame, edits, runs>>

Broken(r) == IF r.target = "build" /\ r.pc # "finish" THEN {"build"} ELSE {}

\* A store error or --fail-fast: the error is returned and fail_build_for_repo
\* notes it.
RunFails(p) ==
  /\ At(p, Pcs \ {"idle", "finish"})
  /\ state' = "build_failed"
  /\ blame' = blame \cup Broken(run[p])
  /\ Set(p, Idle)
  /\ UNCHANGED <<repo, graph, ref, settled, edits, runs>>

\* The process is killed, a canceled MCP call returns after begin_build, or the
\* last note cannot be stored.
Crash(p) ==
  /\ Active(p)
  /\ blame' = blame \cup Broken(run[p])
  /\ Set(p, Idle)
  /\ UNCHANGED <<repo, db, settled, edits, runs>>

-----------------------------------------------------------------------------
Next ==
  \/ \E f \in Files : (\E v \in Values : Edit(f, v)) \/ Stage(f)
  \/ Commit
  \/ \E p \in Procs :
       \/ \E t \in Targets : Begin(p, t)
       \/ ListSlices(p) \/ DetectChanges(p) \/ Scan(p) \/ BudgetStops(p)
       \/ FindDependents(p) \/ StartWriting(p) \/ WriteBatch(p)
       \/ Record(p) \/ Finish(p) \/ RunFails(p) \/ Crash(p)
       \/ \E f \in Files : DeleteSlice(p, f) \/ ParseFile(p, f) \/ ParseFails(p, f)

Spec == Init /\ [][Next]_vars

-----------------------------------------------------------------------------
(* Properties.                                                             *)

\* Every variable keeps its type.
TypeOK ==
  /\ work \in Trees /\ index \in Trees /\ head \in Trees
  /\ graph \in Trees
  /\ ref \in Trees \cup {NoRef}
  /\ state \in {"none", "building", "built", "degraded", "build_failed"}
  /\ run \in [Procs -> Runs]
  /\ blame \subseteq Causes /\ settled \in BOOLEAN
  /\ edits \in 0..MaxEdits /\ runs \in 0..MaxRuns

\* git diff can report the file: it is in the index, or gone.
Visible(f) == index[f] # Absent \/ work[f] = Absent

\* The scheme of last_indexed_ref works: whatever updates crash, fail, are degraded
\* or overlap, and however files are edited meanwhile, with a recorded commit and
\* no run under way a default update would process every file whose slice does not
\* match it, unless one of the six causes has occurred since the last clean build.
NoOtherCause ==
  Quiet /\ ref # NoRef /\ blame = {} =>
    \A f \in Files : Visible(f) /\ graph[f] # work[f] => f \in DiffDefault

\* A full build or a default update that ends with state built, during which nothing
\* was edited, staged, committed or run beside it, and which could read every file it
\* had to read, leaves a graph that matches every file git diff can report, until the
\* next change or run: a build whatever was there before it and whether or not it
\* could record the commit, an update if a commit is recorded and none of the six
\* causes has occurred since the last clean build.  (An update after a build that was
\* interrupted ends built as well, and finds nothing to do.)
SettledIsCurrent ==
  settled => \A f \in Files : Visible(f) => graph[f] = work[f]
=============================================================================
