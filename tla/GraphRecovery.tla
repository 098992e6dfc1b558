--------------------------- MODULE GraphRecovery ---------------------------
(***************************************************************************)
(* The graph database as a file: the health check of a build or update,    *)
(* the quarantine of a bad database, the fresh one and its rebuild, and    *)
(* what readers conclude from the result:                                  *)
(*   packages/atlas-store-sqlite/src/store/recovery.rs, lifecycle.rs,      *)
(*     build_state.rs                                                      *)
(*   packages/atlas-cli/src/commands/graph/build.rs, update.rs             *)
(*   packages/atlas-mcp/src/tools/context_ops/build.rs, dispatch.rs        *)
(*   packages/atlas-core/src/health.rs, readiness.rs                       *)
(*                                                                         *)
(* Nothing locks the path: each step of a run opens whatever file is there *)
(* and creates one if there is none, while a run that has a database open  *)
(* goes on writing to it after it was moved away.  A database (an inode)   *)
(* is numbered when it is created; a quarantine moves its sidecar files    *)
(* (WAL and shared memory) after it.  No file of the repository changes    *)
(* (GraphIndex is about those), so a full graph has a slice of every file, *)
(* and stale_index is false.                                               *)
(***************************************************************************)
EXTENDS FiniteSets, FiniteSetsExt, Naturals

CONSTANTS
  Files,       \* the supported files of the repository
  Procs,       \* processes that run builds and updates
  MaxRuns,     \* bound: builds and updates
  MaxDamage,   \* bound: databases that go bad
  MaxKills     \* bound: processes killed

ASSUME GraphRecoveryAssumption ==
  Files # {} /\ MaxRuns \in Nat /\ MaxDamage \in Nat /\ MaxKills \in Nat

VARIABLES
  path,        \* the database at db_path, or NoDb
  last,        \* the databases created so far are 1..last
  db,          \* their contents
  quarantine,  \* worldtree.db.quarantine.<UTC>.<n>: n to a database, or NoDb
  run,         \* what each process is doing
  blame,       \* history: what was done to a database behind the back of its user
  runs, damage, kills   \* counters (bounded)

vars == <<path, last, db, quarantine, run, blame, runs, damage, kills>>

NoDb == 0
Dbs == 1..(MaxRuns + 1)
Attempts == 0..MaxRuns
States == {"none", "building", "built", "degraded", "build_failed"}
Ends == {"built", "degraded", "build_failed"}
\* corrupt: cannot be opened.  inconsistent: opens, and its checks find issues.
Healths == {"ok", "corrupt", "inconsistent"}
Causes == {"busy", "raced", "incremental", "overlap", "split", "skipped"}

Pcs == {"idle", "inspect", "pick", "rename", "sidecar", "create", "begin", "open", "write",
        "commit", "finish", "fail", "meta"}
\* end: what the summary of the run says so far.  left: history, what it could not read.
Runs == [pc : Pcs, full : BOOLEAN, saw : Dbs \cup {NoDb}, attempt : Attempts,
         store : Dbs \cup {NoDb}, todo : SUBSET Files, end : Ends, left : SUBSET Files,
         met : SUBSET {"run", "damage"}]
Idle == [pc |-> "idle", full |-> FALSE, saw |-> NoDb, attempt |-> 0,
         store |-> NoDb, todo |-> {}, end |-> "built", left |-> {}, met |-> {}]

NewDb == [health |-> "ok", slices |-> {}, state |-> "none"]
BuiltDb == [health |-> "ok", slices |-> Files, state |-> "built"]

\* No database yet, or one that was built.
Init ==
  /\ path \in {NoDb, 1} /\ last = path
  /\ db = [i \in Dbs |-> IF i = path THEN BuiltDb ELSE NewDb]
  /\ quarantine = [n \in Attempts |-> NoDb]
  /\ run = [p \in Procs |-> Idle]
  /\ blame = [i \in Dbs |-> {}]
  /\ runs = 0 /\ damage = 0 /\ kills = 0

At(p, pc) == run[p].pc = pc
Active(p) == ~At(p, "idle")
Quiet == \A p \in Procs : ~Active(p)
Set(p, r) == run' = [run EXCEPT ![p] = r]
Go(p, pc) == Set(p, [run[p] EXCEPT !.pc = pc])
\* build_graph or update_graph has returned: its locals are gone.
Return(p, pc) == Set(p, [Idle EXCEPT !.pc = pc, !.met = run[p].met])
\* History: what an active run meets with on its way.
Meet(r, what) == IF r.pc = "idle" THEN r ELSE [r EXCEPT !.met = @ \cup what]
KeepCounters == UNCHANGED <<runs, damage, kills>>
Keep == UNCHANGED <<path, last, db>>

-----------------------------------------------------------------------------
(* Store::open.                                                            *)

\* A transaction of another process on the database is under way.
Locked(p, i) == \E q \in Procs \ {p} : At(q, "commit") /\ run[q].store = i

\* Opening creates the file if there is none, and it writes (stamp_provenance): it
\* fails on a corrupt file, and when it cannot have the lock for 5 s.
OpenFails(p) == path # NoDb /\ (db[path].health = "corrupt" \/ Locked(p, path))
Opened == IF path = NoDb THEN last + 1 ELSE path
StateOf(i) == db[i].state

\* The database at the path is opened, created if there is none, and its build state
\* set to st: what writes after opening has just had the lock.
OpenAndSet(p, st) ==
  /\ ~OpenFails(p)
  /\ path' = Opened
  /\ last' = IF path = NoDb THEN Opened ELSE last
  /\ db' = [db EXCEPT ![Opened].state = st]

-----------------------------------------------------------------------------
(* prepare_graph_store_rebuild.                                            *)

Start(p, full) ==
  /\ ~Active(p) /\ runs < MaxRuns
  /\ runs' = runs + 1
  /\ LET others == IF Quiet THEN {} ELSE {"run"}
     IN  run' = [q \in Procs |->
           IF q = p THEN [Idle EXCEPT !.pc = "inspect", !.full = full, !.met = others]
           ELSE Meet(run[q], others)]
  /\ Keep /\ UNCHANGED <<quarantine, blame, damage, kills>>

\* Mutant: a build that was interrupted counts as damage.
BadInterrupted(i) == db[i].health # "ok" \/ db[i].state = "building"

\* graph_store_health_class finds issues.
Bad(i) == db[i].health # "ok"

\* inspect_graph_store_health: no file is fine; an error of Store::open is a bad
\* database whatever the error is, a lock held for too long included.
Inspect(p) ==
  /\ At(p, "inspect")
  /\ Set(p, [run[p] EXCEPT !.saw = path,
               !.pc = IF path # NoDb /\ (OpenFails(p) \/ Bad(path)) THEN "pick" ELSE "begin"])
  /\ blame' = IF path # NoDb /\ ~Bad(path) /\ Locked(p, path)
              THEN [blame EXCEPT ![path] = @ \cup {"busy"}] ELSE blame
  /\ Keep /\ KeepCounters /\ UNCHANGED quarantine

\* graph_store_health_class returns an error: BlockOnly.
InspectFails(p) ==
  /\ At(p, "inspect") /\ path # NoDb /\ ~OpenFails(p)
  /\ Set(p, Idle)
  /\ Keep /\ KeepCounters /\ UNCHANGED <<quarantine, blame>>

\* Mutant: the first name is taken whether it is free or not.
FreeAttemptUnchecked == 0

\* The first attempt whose name is free.
FreeAttempt == Min({n \in Attempts : quarantine[n] = NoDb})

\* quarantine_graph_store chooses a name; the clock may show the second of another
\* quarantine, the case with collisions.  Without a file the run ends.
Pick(p) ==
  /\ At(p, "pick")
  /\ IF path = NoDb THEN Set(p, Idle)
     ELSE Set(p, [run[p] EXCEPT !.pc = "rename", !.attempt = FreeAttempt])
  /\ Keep /\ KeepCounters /\ UNCHANGED <<quarantine, blame>>

\* fs::rename moves the database that is there now, and replaces what has the name by
\* now.
Rename(p) ==
  /\ At(p, "rename")
  /\ IF path = NoDb
     THEN Set(p, Idle) /\ UNCHANGED <<path, quarantine, blame>>
     ELSE /\ quarantine' = [quarantine EXCEPT ![run[p].attempt] = path]
          /\ path' = NoDb
          /\ blame' = [i \in Dbs |->
                         IF path # run[p].saw /\ i \in {path, quarantine[run[p].attempt]}
                         THEN blame[i] \cup {"raced"} ELSE blame[i]]
          /\ Go(p, "sidecar")
  /\ KeepCounters /\ UNCHANGED <<last, db>>

\* Then the sidecar files, if there were any.  Whoever has created a database since has
\* removed the old ones, and the move fails; or it takes the files of the new database,
\* which then has lost what was in them, or is broken for those who have it open.
MoveSidecars(p) ==
  /\ At(p, "sidecar")
  /\ \/ Set(p, Idle) /\ UNCHANGED db
     \/ /\ Go(p, "create")
        /\ \/ UNCHANGED db
           \/ /\ path # NoDb
              /\ \E h \in {db[path].health, "corrupt"} :
                   db' = [db EXCEPT ![path] = [NewDb EXCEPT !.health = h]]
  /\ KeepCounters /\ UNCHANGED <<path, last, quarantine, blame>>

\* Mutant: an update goes on incrementally.
CreateFreshOnly(p) ==
  /\ At(p, "create")
  /\ IF OpenFails(p) THEN Keep /\ Set(p, Idle)
     ELSE OpenAndSet(p, StateOf(Opened)) /\ Go(p, "begin")
  /\ KeepCounters /\ UNCHANGED <<quarantine, blame>>

\* Store::open creates the fresh database; full_rebuild_required.
CreateFresh(p) ==
  /\ At(p, "create")
  /\ IF OpenFails(p) THEN Keep /\ Set(p, Idle)
     ELSE /\ OpenAndSet(p, StateOf(Opened))
          /\ Set(p, [run[p] EXCEPT !.pc = "begin", !.full = TRUE])
  /\ KeepCounters /\ UNCHANGED <<quarantine, blame>>

-----------------------------------------------------------------------------
(* The build or update.                                                    *)

\* Mutant: the build state is not set to building.
BeginUnmarked(p) ==
  /\ At(p, "begin")
  /\ IF OpenFails(p) THEN Keep ELSE OpenAndSet(p, StateOf(Opened))
  /\ Go(p, "open")
  /\ KeepCounters /\ UNCHANGED <<quarantine, blame>>

\* begin_build_for_repo; a failure is ignored.
BeginBuild(p) ==
  /\ At(p, "begin")
  /\ IF OpenFails(p) THEN Keep ELSE OpenAndSet(p, "building")
  /\ Go(p, "open")
  /\ KeepCounters /\ UNCHANGED <<quarantine, blame>>

\* An MCP call that was canceled returns here.
Canceled(p) ==
  /\ At(p, "open")
  /\ Set(p, Idle)
  /\ Keep /\ KeepCounters /\ UNCHANGED <<quarantine, blame>>

\* What the run that opens the database may find, or others may find through it.
OpenCauses(p) ==
  (IF ~run[p].full /\ db[Opened].slices # Files THEN {"incremental"} ELSE {})
  \cup (IF "run" \in run[p].met THEN {"overlap"} ELSE {})

\* build_graph opens the database and clears it; update_graph opens it and takes the
\* changes the caller asked for.
OpenGraph(p) ==
  /\ At(p, "open")
  /\ IF OpenFails(p) THEN Keep /\ Return(p, "fail") /\ UNCHANGED blame
     ELSE /\ path' = Opened
          /\ last' = IF path = NoDb THEN Opened ELSE last
          /\ db' = IF run[p].full THEN [db EXCEPT ![Opened].slices = {}] ELSE db
          /\ blame' = [blame EXCEPT ![Opened] = @ \cup OpenCauses(p)]
          /\ \E S \in IF run[p].full THEN {Files} ELSE SUBSET Files :
               Set(p, [run[p] EXCEPT !.pc = "write", !.store = Opened, !.todo = S])
  /\ KeepCounters /\ UNCHANGED quarantine

\* A transaction that replaces the slice of a file, on the database that was opened:
\* it takes the lock,
BatchBegins(p) ==
  /\ At(p, "write") /\ run[p].todo # {}
  /\ ~Locked(p, run[p].store)
  /\ Go(p, "commit")
  /\ Keep /\ KeepCounters /\ UNCHANGED <<quarantine, blame>>

\* and commits.
BatchCommits(p, f) ==
  /\ At(p, "commit") /\ f \in run[p].todo
  /\ db' = [db EXCEPT ![run[p].store].slices = @ \cup {f}]
  /\ Set(p, [run[p] EXCEPT !.pc = "write", !.todo = @ \ {f}])
  /\ KeepCounters /\ UNCHANGED <<path, last, quarantine, blame>>

\* A file cannot be read or parsed: it is left out.  With too many of them the run is
\* blocked and reads no more.
ParseFails(p, f) ==
  /\ At(p, "write") /\ f \in run[p].todo
  /\ \/ /\ Set(p, [run[p] EXCEPT !.todo = @ \ {f}, !.left = @ \cup {f}])
        /\ blame' = [blame EXCEPT ![run[p].store] = @ \cup {"skipped"}]
     \/ /\ Set(p, [run[p] EXCEPT !.todo = {}, !.end = "build_failed"])
        /\ UNCHANGED blame
  /\ Keep /\ KeepCounters /\ UNCHANGED quarantine

\* The budget drops files, or chunks or call targets cannot be stored.
Degrades(p) ==
  /\ At(p, "write")
  /\ \E S \in SUBSET run[p].todo :
       Set(p, [run[p] EXCEPT !.todo = S, !.end = IF @ = "built" THEN "degraded" ELSE @])
  /\ Keep /\ KeepCounters /\ UNCHANGED <<quarantine, blame>>

\* An error of the store, a lock held for too long, or --fail-fast.
WriteFails(p) ==
  /\ run[p].pc \in {"write", "commit"}
  /\ Return(p, "fail")
  /\ Keep /\ KeepCounters /\ UNCHANGED <<quarantine, blame>>

\* set_last_indexed_ref inserts a row that says built where there is none; a degraded
\* run skips it (a blocked one may not), and a failure is logged.  The database is
\* closed.
Record(p) ==
  /\ At(p, "write") /\ run[p].todo = {}
  /\ \E recorded \in {FALSE, run[p].end # "degraded" /\ ~Locked(p, run[p].store)} :
       db' = [db EXCEPT ![run[p].store].state =
                IF recorded /\ @ = "none" THEN "built" ELSE @]
  /\ Go(p, "finish")
  /\ KeepCounters /\ UNCHANGED <<path, last, quarantine, blame>>

\* finish_build_for_repo or fail_build_for_repo, on the database that is at the path
\* by now; if it cannot be opened nothing is noted.
Note(p, pc, st) ==
  /\ At(p, pc)
  /\ IF OpenFails(p) THEN Keep /\ Set(p, Idle)
     ELSE OpenAndSet(p, st) /\ Return(p, "meta")
  /\ blame' = IF pc = "finish" /\ Opened # run[p].store
              THEN [blame EXCEPT ![Opened] = @ \cup {"split"}] ELSE blame
  /\ KeepCounters /\ UNCHANGED quarantine

\* Mutant: a run that returns Ok is noted as built.
FinishBuilt(p) == Note(p, "finish", "built")

\* The state the summary gives: built, degraded, or failed when it was blocked.
Finish(p) == Note(p, "finish", run[p].end)
Fail(p) == Note(p, "fail", "build_failed")

\* persist_build_recovery_metadata opens the database once more.
SetMetadata(p) ==
  /\ At(p, "meta")
  /\ IF OpenFails(p) THEN Keep
     ELSE OpenAndSet(p, IF StateOf(Opened) = "none" THEN "build_failed" ELSE StateOf(Opened))
  /\ Set(p, Idle)
  /\ KeepCounters /\ UNCHANGED <<quarantine, blame>>

-----------------------------------------------------------------------------
(* Everyone else.                                                          *)

\* Mutant: a reader starts a database of its own.
ReaderReplaces ==
  /\ path' = last + 1 /\ last' = last + 1
  /\ KeepCounters /\ UNCHANGED <<db, quarantine, run, blame>>

\* A graph-backed tool opens the database to derive its readiness, and thereby
\* creates one.
ReaderOpens ==
  /\ path = NoDb
  /\ path' = last + 1 /\ last' = last + 1
  /\ KeepCounters /\ UNCHANGED <<db, quarantine, run, blame>>

\* The database goes bad.
Damage ==
  /\ damage < MaxDamage /\ damage' = damage + 1
  /\ path # NoDb /\ ~Bad(path)
  /\ \E h \in {"corrupt", "inconsistent"} : db' = [db EXCEPT ![path].health = h]
  /\ run' = [p \in Procs |-> Meet(run[p], {"damage"})]
  /\ UNCHANGED <<path, last, quarantine, blame, runs, kills>>

\* A process is killed; its transaction is rolled back.
Kill(p) ==
  /\ Active(p) /\ kills < MaxKills /\ kills' = kills + 1
  /\ Set(p, Idle)
  /\ Keep /\ UNCHANGED <<quarantine, blame, runs, damage>>

Next ==
  \/ ReaderOpens \/ Damage
  \/ \E p \in Procs :
       \/ \E full \in BOOLEAN : Start(p, full)
       \/ Inspect(p) \/ InspectFails(p) \/ Pick(p) \/ Rename(p) \/ MoveSidecars(p) \/ CreateFresh(p)
       \/ BeginBuild(p) \/ Canceled(p) \/ OpenGraph(p)
       \/ BatchBegins(p) \/ (\E f \in Files : BatchCommits(p, f) \/ ParseFails(p, f))
       \/ Degrades(p) \/ WriteFails(p)
       \/ Record(p) \/ Finish(p) \/ Fail(p) \/ SetMetadata(p)
       \/ Kill(p)

Spec == Init /\ [][Next]_vars

-----------------------------------------------------------------------------
(* Properties.                                                             *)

\* Every variable keeps its type, and no more databases are created than moved away.
TypeOK ==
  /\ path \in {NoDb, last} /\ last \in 0..(MaxRuns + 1)
  /\ db \in [Dbs -> [health : Healths, slices : SUBSET Files, state : States]]
  /\ quarantine \in [Attempts -> Dbs \cup {NoDb}]
  /\ run \in [Procs -> Runs]
  /\ blame \in [Dbs -> SUBSET Causes]
  /\ runs \in 0..MaxRuns /\ damage \in 0..MaxDamage /\ kills \in 0..MaxKills

\* A database is created at the path and leaves it only through a quarantine.
Moved == (1..last) \ {path}

\* "quarantine physically corrupt or logically inconsistent worldtree.db": a healthy
\* database is moved away only because a transaction of more than 5 s kept the health
\* check from opening it, or because another run had replaced the bad one that the
\* check saw.
OnlyBadIsQuarantined ==
  \A i \in Moved : db[i].health # "ok" \/ blame[i] \cap {"busy", "raced"} # {}

\* "keep quarantined DB for inspection instead of deleting it": a database that was
\* moved away can be found under a quarantine name, unless a run that moved what it
\* had not checked replaced it.
EvidenceIsKept ==
  \A i \in Moved : (\E n \in Attempts : quarantine[n] = i) \/ "raced" \in blame[i]

\* derive_execution_state: the graph is fresh, and graph-backed tools answer from it.
Fresh(i) == /\ ~Bad(i)
            /\ db[i].state = "built" \/ (db[i].state = "none" /\ db[i].slices # {})

\* At any time, in the middle of a run too, a graph that tools answer from is complete,
\* unless a run could not read a file, an incremental update was run on an incomplete
\* graph, runs overlapped on it, or the end of a run was noted in another database than
\* it was built in: exhausted budgets, failures, kills, cancellations, damage and
\* quarantines are all noticed.
FreshIsComplete ==
  path # NoDb /\ Fresh(path) /\ blame[path] \subseteq {"busy", "raced"}
    => db[path].slices = Files

\* Whatever happened before, a build, or an update that found the database bad, that no
\* one interferes with and that comes to its end leaves a healthy database that says how
\* the run ended, and says built only if every file that could be read has its slice: the
\* graph is then fresh, and otherwise tools do not take it for fresh.
SoloRunHeals ==
  [][\A p \in Procs :
       run[p].met = {} /\ At(p, "finish") /\ run'[p].pc = "meta"
         /\ (run[p].full \/ (run[p].saw # NoDb /\ Bad(run[p].saw)))
       => /\ path' # NoDb /\ ~Bad(path)'
          /\ Fresh(path)' <=> run[p].end = "built"
          /\ run[p].end = "built" => Files \ run[p].left \subseteq db'[path'].slices]_vars
=============================================================================
