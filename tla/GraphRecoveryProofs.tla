------------------------ MODULE GraphRecoveryProofs ------------------------
(***************************************************************************)
(* Proofs about GraphRecovery, for any files, processes and bounds.        *)
(***************************************************************************)
EXTENDS GraphRecovery, FiniteSetTheorems, TLAPS

USE GraphRecoveryAssumption

-----------------------------------------------------------------------------
(* The inductive invariant.                                                *)

\* The runs that may still move a database away, the databases that were moved, and
\* the quarantine names in use: a run moves at most one database, to one name.
Ahead == {p \in Procs : run[p].pc \in {"inspect", "pick", "rename"}}
Gone == IF path = NoDb THEN last ELSE last - 1
Used == {n \in Attempts : quarantine[n] # NoDb}
Counts ==
  /\ IsFiniteSet(Ahead) /\ Gone + Cardinality(Ahead) <= runs
  /\ Cardinality(Used) <= Gone

\* A database that was not created yet is empty.
Unborn == \A i \in Dbs : i > last => db[i] = NewDb

\* A run that is about to move the database has seen a bad one, or could not open it;
\* and while that one is still at the path the name it has chosen is free.
Sight(p) ==
  /\ run[p].saw <= last
  /\ run[p].pc \in {"pick", "rename"} =>
       run[p].saw # NoDb /\ (Bad(run[p].saw) \/ "busy" \in blame[run[p].saw])
  /\ run[p].pc = "rename" /\ path = run[p].saw => quarantine[run[p].attempt] = NoDb

QuarantineInv == OnlyBadIsQuarantined /\ EvidenceIsKept /\ \A p \in Procs : Sight(p)

\* A run that has met no other is the only one.
Alone == \A p \in Procs : Active(p) /\ "run" \notin run[p].met =>
           \A q \in Procs : Active(q) => q = p

Unblamed(i) == blame[i] \subseteq {"busy", "raced"}
Marked(i) == db[i].slices = Files \/ db[i].state \in {"building", "degraded", "build_failed"}

\* An incomplete graph is marked as such, unless it is to blame on what the causes name.
Honest(i) == Unblamed(i) => Marked(i) \/ (db[i].state = "none" /\ db[i].slices = {})

\* A run that opens the graph alone has marked it.
Begun(p) == run[p].pc = "open" /\ "run" \notin run[p].met =>
              path # NoDb /\ (db[path].state = "building" \/ db[path].health = "corrupt")

\* A run at work that is to end well has what is missing in its queue.
Working(p) ==
  run[p].pc \in {"write", "commit", "finish"} =>
    /\ run[p].store \in 1..last /\ (run[p].pc = "finish" => run[p].todo = {})
    /\ Unblamed(run[p].store) =>
         /\ Marked(run[p].store)
         /\ run[p].end = "built" => Files \ db[run[p].store].slices \subseteq run[p].todo

FreshInv == Alone /\ (\A i \in Dbs : Honest(i)) /\ \A p \in Procs : Begun(p) /\ Working(p)

\* Who works on the database that a run takes the sidecars of has opened it beside that run.
Swept(p) ==
  run[p].pc = "sidecar" =>
    \A q \in Procs : run[q].pc \in {"write", "commit", "finish"} /\ run[q].store = path
      => "overlap" \in blame[path]

SweptInv == \A p \in Procs : Swept(p)

\* A run that has met neither another run nor damage works on a healthy database, in
\* full if it had to replace a bad one.
Solo(p) ==
  run[p].met = {} =>
    /\ run[p].pc \in {"sidecar", "begin", "open", "write", "commit", "finish"} =>
         path = NoDb \/ ~Bad(path)
    /\ run[p].pc = "create" => path = NoDb \/ db[path].health # "inconsistent"
    /\ run[p].pc \in {"begin", "open", "write", "commit", "finish"} /\ run[p].saw # NoDb
         /\ Bad(run[p].saw) => run[p].full
    /\ run[p].pc \in {"write", "commit", "finish"} =>
         /\ path = run[p].store /\ path # NoDb
         /\ run[p].full /\ run[p].end = "built" =>
              Files \ db[path].slices \subseteq run[p].todo \cup run[p].left
         /\ run[p].pc = "finish" => run[p].todo = {}

-----------------------------------------------------------------------------
(* Facts about the operators.                                              *)

\* A set of numbers has a least one.
LEMMA MinFacts ==
  ASSUME NEW S \in SUBSET Nat, S # {}
  PROVE  Min(S) \in S
<1>1. PICK x \in S : \A y \in S : ~(<<y, x>> \in OpToRel(<, Nat))
  BY WFMin, NatLessThanWellFounded
<1>2. ASSUME NEW y \in S PROVE x <= y
  <2>1. y < x => <<y, x>> \in OpToRel(<, Nat)
    BY DEF OpToRel
  <2>2. ~(y < x)
    BY <1>1, <2>1, Zenon
  <2>. QED
    BY <2>2
<1>. QED
  BY <1>2 DEF Min

\* The database at the path is opened, or created under the next number.
Opening ==
  \/ UNCHANGED <<path, last>>
  \/ path = NoDb /\ path' = last + 1 /\ last' = last + 1

\* Every way to open is one of the two, and there is a number left.
LEMMA OpenFacts ==
  ASSUME TypeOK, Counts
  PROVE  /\ Opened \in Dbs /\ Opened \in 1 .. MaxRuns + 1
         /\ \A p \in Procs : \A st : OpenAndSet(p, st) =>
              Opening /\ db' = [db EXCEPT ![Opened].state = st]
         /\ path' = Opened /\ (last' = IF path = NoDb THEN Opened ELSE last) => Opening
<1>1. Cardinality(Ahead) \in Nat /\ runs \in 0..MaxRuns /\ last \in Nat
  BY FS_CardinalityType DEF TypeOK, Counts
<1>2. path = NoDb => last + 1 \in 1 .. MaxRuns + 1
  BY <1>1 DEF Counts, Gone
<1>3. Opened \in 1 .. MaxRuns + 1
  BY <1>2 DEF Opened, TypeOK, NoDb
<1>. QED
  BY <1>3 DEF Opened, Dbs, OpenAndSet, Opening

\* Opening moves no database away.
LEMMA CountsKept ==
  ASSUME TypeOK, Counts, Opening, quarantine' = quarantine, runs' = runs, Ahead' \subseteq Ahead
  PROVE  Counts' /\ path' \in {NoDb, last'} /\ last' \in 0 .. MaxRuns + 1
<1>0. Cardinality(Ahead) \in Nat /\ runs \in 0..MaxRuns /\ last \in Nat /\ IsFiniteSet(Ahead)
  BY FS_CardinalityType DEF TypeOK, Counts
<1>1. IsFiniteSet(Ahead') /\ Cardinality(Ahead') <= Cardinality(Ahead) /\ Cardinality(Ahead') \in Nat
  BY <1>0, FS_Subset, FS_CardinalityType
<1>2. Gone' = Gone /\ Gone \in Nat
  BY <1>0 DEF Opening, Gone, NoDb, TypeOK
<1>3. Used' = Used
  BY DEF Used
<1>4. path' \in {NoDb, last'} /\ last' \in 0 .. MaxRuns + 1
  BY <1>0, OpenFacts DEF Opening, Opened, TypeOK
<1>5. Gone' + Cardinality(Ahead') <= runs'
  BY <1>0, <1>1, <1>2 DEF Counts
<1>. QED
  BY <1>1, <1>2, <1>3, <1>4, <1>5 DEF Counts

\* At first there is at most one database, and no run.
LEMMA TypeInit == Init => TypeOK /\ Counts
<1>. SUFFICES ASSUME Init PROVE TypeOK /\ Counts
  OBVIOUS
<1>1. Idle \in Runs
  BY DEF Idle, Runs, Pcs, Attempts, Ends
<1>2. TypeOK
  BY <1>1 DEF Init, TypeOK, NoDb, Dbs, BuiltDb, NewDb, Healths, States
<1>3. Ahead = {} /\ Used = {} /\ Gone = 0
  BY DEF Init, Ahead, Used, Gone, Idle, NoDb
<1>. QED
  BY <1>2, <1>3, FS_EmptySet DEF Counts, Init

\* A run that begins, or that meets another, keeps its form.
LEMMA MeetFacts ==
  ASSUME NEW r \in Runs, NEW what \in SUBSET {"run", "damage"}
  PROVE  /\ Meet(r, what) \in Runs /\ Meet(r, what).pc = r.pc /\ Meet(r, what).full = r.full
         /\ Meet(r, what).saw = r.saw /\ Meet(r, what).attempt = r.attempt
         /\ Meet(r, what).store = r.store /\ Meet(r, what).todo = r.todo
         /\ Meet(r, what).end = r.end /\ Meet(r, what).left = r.left
         /\ r.pc # "idle" => Meet(r, what).met = r.met \cup what
         /\ r.pc = "idle" => Meet(r, what) = r
BY DEF Meet, Runs

-----------------------------------------------------------------------------
(* Types, and how many databases there can be.                             *)

Databases == [health : Healths, slices : SUBSET Files, state : States]
AheadPcs == {"inspect", "pick", "rename"}

\* A step of one run that moves no database away.
LEMMA TypeRunStep ==
  ASSUME TypeOK, Counts, NEW p \in Procs, run' = [run EXCEPT ![p] = run'[p]],
         run'[p] \in Runs, run'[p].pc \in AheadPcs => run[p].pc \in AheadPcs,
         Opening, UNCHANGED <<quarantine, runs, damage>>, kills' \in 0..MaxKills,
         db' \in [Dbs -> Databases], blame' \in [Dbs -> SUBSET Causes]
  PROVE  TypeOK' /\ Counts'
<1>1. run' \in [Procs -> Runs] /\ \A q \in Procs : q # p => run'[q] = run[q]
  BY DEF TypeOK
<1>2. Ahead' \subseteq Ahead
  BY <1>1 DEF Ahead, AheadPcs
<1>3. Counts' /\ path' \in {NoDb, last'} /\ last' \in 0 .. MaxRuns + 1
  BY <1>2, CountsKept
<1>. QED
  BY <1>1, <1>3 DEF TypeOK, Databases

\* Where a run is set to another place, and what it keeps.
LEMMA GoFacts ==
  ASSUME TypeOK, NEW p \in Procs, NEW pc \in Pcs, Go(p, pc)
  PROVE  /\ run' = [run EXCEPT ![p] = run'[p]] /\ run'[p] \in Runs /\ run'[p].pc = pc
         /\ run'[p].full = run[p].full /\ run'[p].saw = run[p].saw
         /\ run'[p].attempt = run[p].attempt /\ run'[p].store = run[p].store
         /\ run'[p].todo = run[p].todo /\ run'[p].met = run[p].met
         /\ run'[p].end = run[p].end /\ run'[p].left = run[p].left
<1>1. run' = [run EXCEPT ![p] = [run[p] EXCEPT !.pc = pc]] /\ run[p] \in Runs
  BY DEF Go, Set, TypeOK
<1>2. run'[p] = [run[p] EXCEPT !.pc = pc]
  BY <1>1 DEF TypeOK
<1>3. run' = [run EXCEPT ![p] = run'[p]]
  BY <1>1, <1>2
<1>4. /\ run'[p] \in Runs /\ run'[p].pc = pc
      /\ run'[p].full = run[p].full /\ run'[p].saw = run[p].saw
      /\ run'[p].attempt = run[p].attempt /\ run'[p].store = run[p].store
      /\ run'[p].todo = run[p].todo /\ run'[p].met = run[p].met
      /\ run'[p].end = run[p].end /\ run'[p].left = run[p].left
  BY <1>1, <1>2 DEF Runs
<1>. QED
  BY <1>3, <1>4

\* A run that ends, or dies.
LEMMA IdleRun == Idle \in Runs /\ Idle.pc = "idle" /\ Idle.saw = NoDb /\ Idle.met = {}
BY DEF Idle, Runs, Pcs, Attempts, Ends

\* It leaves no trace of what it was.
LEMMA IdleFacts ==
  ASSUME TypeOK, NEW p \in Procs, Set(p, Idle)
  PROVE  /\ run' = [run EXCEPT ![p] = run'[p]] /\ run'[p] = Idle
         /\ run'[p] \in Runs /\ run'[p].pc = "idle" /\ run'[p].saw = NoDb
<1>1. run' = [run EXCEPT ![p] = run'[p]] /\ run'[p] = Idle
  BY DEF Set, TypeOK
<1>. QED
  BY <1>1, IdleRun

\* A build or update that has returned only keeps what it met.
LEMMA ReturnFacts ==
  ASSUME TypeOK, NEW p \in Procs, NEW pc \in Pcs, Return(p, pc)
  PROVE  /\ run' = [run EXCEPT ![p] = run'[p]] /\ run'[p] \in Runs
         /\ run'[p].pc = pc /\ run'[p].saw = NoDb /\ run'[p].met = run[p].met
<1>1. run' = [run EXCEPT ![p] = [Idle EXCEPT !.pc = pc, !.met = run[p].met]] /\ run[p] \in Runs
  BY DEF Return, Set, TypeOK
<1>2. run'[p] = [Idle EXCEPT !.pc = pc, !.met = run[p].met]
  BY <1>1 DEF TypeOK
<1>3. run' = [run EXCEPT ![p] = run'[p]]
  BY <1>1, <1>2
<1>4. /\ run'[p] \in Runs /\ run'[p].pc = pc /\ run'[p].saw = NoDb
      /\ run'[p].met = run[p].met
  <2>. DEFINE m == run[p].met
  <2>1. m \in SUBSET {"run", "damage"} /\ run'[p] = [Idle EXCEPT !.pc = pc, !.met = m]
    BY <1>1, <1>2 DEF Runs
  <2>. HIDE DEF m
  <2>2. PICK r \in Runs : r = Idle
    BY IdleRun
  <2>3. /\ [r EXCEPT !.pc = pc, !.met = m] \in Runs /\ [r EXCEPT !.pc = pc, !.met = m].pc = pc
        /\ [r EXCEPT !.pc = pc, !.met = m].saw = r.saw /\ [r EXCEPT !.pc = pc, !.met = m].met = m
    BY <2>1 DEF Runs
  <2>4. run'[p] \in Runs /\ run'[p].pc = pc /\ run'[p].saw = NoDb /\ run'[p].met = m
    BY <2>1, <2>2, <2>3, IdleRun
  <2>. QED
    BY <2>4 DEF m
<1>. QED
  BY <1>3, <1>4

\* A run leaves out files: it says so, or cannot help it.
LEMMA ShedFacts ==
  ASSUME TypeOK, NEW p \in Procs, Degrades(p) \/ \E f \in Files : ParseFails(p, f)
  PROVE  /\ run' = [run EXCEPT ![p] = run'[p]] /\ run'[p] \in Runs /\ run[p].pc = "write"
         /\ run'[p].pc = "write" /\ run'[p].full = run[p].full /\ run'[p].saw = run[p].saw
         /\ run'[p].attempt = run[p].attempt /\ run'[p].store = run[p].store
         /\ run'[p].met = run[p].met
         /\ run'[p].end = "built" =>
              /\ run[p].end = "built"
              /\ run[p].todo \subseteq run'[p].todo \cup run'[p].left
              /\ run[p].left \subseteq run'[p].left
              /\ \/ run'[p].todo = run[p].todo
                 \/ run[p].store \in Dbs => "skipped" \in blame'[run[p].store]
         /\ UNCHANGED <<path, last, db, quarantine, runs, damage, kills>>
         /\ blame' \in [Dbs -> SUBSET Causes] /\ \A i \in Dbs : blame[i] \subseteq blame'[i]
<1>0. /\ run[p] \in Runs /\ blame \in [Dbs -> SUBSET Causes] /\ run[p].pc = "write"
      /\ "skipped" \in Causes
  BY DEF TypeOK, Degrades, ParseFails, At, Causes
<1>1. UNCHANGED <<path, last, db, quarantine, runs, damage, kills>>
  BY DEF Degrades, ParseFails, Keep, KeepCounters
<1>. DEFINE Shape(r) ==
       /\ r \in Runs /\ r.pc = "write" /\ r.full = run[p].full /\ r.saw = run[p].saw
       /\ r.attempt = run[p].attempt /\ r.store = run[p].store /\ r.met = run[p].met
<1>2. ASSUME NEW r, Set(p, r)
      PROVE  run' = [run EXCEPT ![p] = run'[p]] /\ run'[p] = r
  BY <1>2 DEF Set, TypeOK
<1>3. ASSUME NEW f \in Files, ParseFails(p, f),
             Set(p, [run[p] EXCEPT !.todo = @ \ {f}, !.left = @ \cup {f}]),
             blame' = [blame EXCEPT ![run[p].store] = @ \cup {"skipped"}]
      PROVE  /\ Shape(run'[p]) /\ run'[p].end = run[p].end
             /\ run'[p].todo = run[p].todo \ {f} /\ run'[p].left = run[p].left \cup {f}
             /\ run[p].store \in Dbs => "skipped" \in blame'[run[p].store]
             /\ blame' \in [Dbs -> SUBSET Causes] /\ \A i \in Dbs : blame[i] \subseteq blame'[i]
  <2>1. run'[p] = [run[p] EXCEPT !.todo = run[p].todo \ {f}, !.left = run[p].left \cup {f}]
    BY <1>2, <1>3
  <2>2. run[p].todo \ {f} \in SUBSET Files /\ run[p].left \cup {f} \in SUBSET Files
    BY <1>0 DEF Runs
  <2>3. /\ Shape(run'[p]) /\ run'[p].end = run[p].end
        /\ run'[p].todo = run[p].todo \ {f} /\ run'[p].left = run[p].left \cup {f}
    <3>. DEFINE T == run[p].todo \ {f}
                L == run[p].left \cup {f}
    <3>1. run'[p] = [run[p] EXCEPT !.todo = T, !.left = L] /\ T \in SUBSET Files /\ L \in SUBSET Files
      BY <2>1, <2>2
    <3>. HIDE DEF T, L
    <3>2. Shape(run'[p]) /\ run'[p].end = run[p].end /\ run'[p].todo = T /\ run'[p].left = L
      BY <1>0, <3>1 DEF Runs
    <3>. QED
      BY <3>2 DEF T, L
  <2>. QED
    BY <1>0, <1>3, <2>3
<1>4. ASSUME NEW S \in SUBSET run[p].todo, NEW e \in Ends, Set(p, [run[p] EXCEPT !.todo = S, !.end = e])
      PROVE  Shape(run'[p]) /\ run'[p].end = e
  <2>1. run'[p] = [run[p] EXCEPT !.todo = S, !.end = e]
    BY <1>2, <1>4
  <2>. QED
    BY <1>0, <2>1 DEF Runs
<1>5. CASE Degrades(p)
  <2>1. PICK S \in SUBSET run[p].todo :
          Set(p, [run[p] EXCEPT !.todo = S, !.end = IF @ = "built" THEN "degraded" ELSE @])
    BY <1>5 DEF Degrades
  <2>2. PICK e \in Ends : e = (IF run[p].end = "built" THEN "degraded" ELSE run[p].end)
    BY <1>0 DEF Runs, Ends
  <2>3. Set(p, [run[p] EXCEPT !.todo = S, !.end = e]) /\ e # "built" /\ blame' = blame
    BY <1>5, <2>1, <2>2 DEF Degrades
  <2>. QED
    BY <1>0, <1>1, <1>2, <1>4, <2>3
<1>6. ASSUME NEW f \in Files, ParseFails(p, f),
             Set(p, [run[p] EXCEPT !.todo = {}, !.end = "build_failed"]), UNCHANGED blame
      PROVE  Shape(run'[p]) /\ run'[p].end = "build_failed"
  BY <1>4, <1>6 DEF Ends
<1>7. ASSUME NEW f \in Files, ParseFails(p, f)
      PROVE  \/ /\ Set(p, [run[p] EXCEPT !.todo = @ \ {f}, !.left = @ \cup {f}])
                /\ blame' = [blame EXCEPT ![run[p].store] = @ \cup {"skipped"}]
             \/ Set(p, [run[p] EXCEPT !.todo = {}, !.end = "build_failed"]) /\ UNCHANGED blame
  BY <1>7 DEF ParseFails
<1>8. ASSUME NEW f \in Files, ParseFails(p, f)
      PROVE  /\ run' = [run EXCEPT ![p] = run'[p]] /\ Shape(run'[p])
             /\ run'[p].end = "built" =>
                  /\ run[p].end = "built"
                  /\ run[p].todo \subseteq run'[p].todo \cup run'[p].left
                  /\ run[p].left \subseteq run'[p].left
                  /\ \/ run'[p].todo = run[p].todo
                     \/ run[p].store \in Dbs => "skipped" \in blame'[run[p].store]
             /\ blame' \in [Dbs -> SUBSET Causes] /\ \A i \in Dbs : blame[i] \subseteq blame'[i]
  <2>1. run' = [run EXCEPT ![p] = run'[p]]
    BY <1>2, <1>7, <1>8
  <2>2. CASE /\ Set(p, [run[p] EXCEPT !.todo = @ \ {f}, !.left = @ \cup {f}])
             /\ blame' = [blame EXCEPT ![run[p].store] = @ \cup {"skipped"}]
    <3>1. /\ Shape(run'[p]) /\ run'[p].end = run[p].end
          /\ run'[p].todo = run[p].todo \ {f} /\ run'[p].left = run[p].left \cup {f}
          /\ run[p].store \in Dbs => "skipped" \in blame'[run[p].store]
          /\ blame' \in [Dbs -> SUBSET Causes] /\ \A i \in Dbs : blame[i] \subseteq blame'[i]
      BY <1>3, <1>8, <2>2
    <3>. HIDE DEF Shape
    <3>. QED
      BY <2>1, <3>1
  <2>3. CASE Set(p, [run[p] EXCEPT !.todo = {}, !.end = "build_failed"]) /\ UNCHANGED blame
    <3>1. Shape(run'[p]) /\ run'[p].end = "build_failed"
      BY <1>6, <1>8, <2>3
    <3>. HIDE DEF Shape
    <3>. QED
      BY <1>0, <2>1, <2>3, <3>1
  <2>. QED
    BY <1>7, <1>8, <2>2, <2>3
<1>. QED
  BY <1>0, <1>1, <1>5, <1>8

\* A build state is written.
LEMMA StateWritten ==
  ASSUME TypeOK, NEW i \in Dbs, NEW st \in States, db' = [db EXCEPT ![i].state = st]
  PROVE  /\ db' \in [Dbs -> Databases] /\ \A k \in Dbs : k # i => db'[k] = db[k]
         /\ db'[i].state = st /\ db'[i].health = db[i].health /\ db'[i].slices = db[i].slices
<1>1. db' = [db EXCEPT ![i] = [db[i] EXCEPT !.state = st]] /\ db[i] \in Databases
  BY DEF TypeOK, Databases
<1>2. db'[i] = [db[i] EXCEPT !.state = st] /\ \A k \in Dbs : k # i => db'[k] = db[k]
  BY <1>1 DEF TypeOK
<1>3. [db[i] EXCEPT !.state = st] \in Databases
  BY <1>1 DEF Databases
<1>. QED
  BY <1>1, <1>2, <1>3 DEF TypeOK, Databases

\* Slices are written.
LEMMA SlicesWritten ==
  ASSUME TypeOK, NEW i \in Dbs, NEW fs \in SUBSET Files, db' = [db EXCEPT ![i].slices = fs]
  PROVE  /\ db' \in [Dbs -> Databases] /\ \A k \in Dbs : k # i => db'[k] = db[k]
         /\ db'[i].slices = fs /\ db'[i].health = db[i].health /\ db'[i].state = db[i].state
<1>1. db' = [db EXCEPT ![i] = [db[i] EXCEPT !.slices = fs]] /\ db[i] \in Databases
  BY DEF TypeOK, Databases
<1>2. db'[i] = [db[i] EXCEPT !.slices = fs] /\ \A k \in Dbs : k # i => db'[k] = db[k]
  BY <1>1 DEF TypeOK
<1>3. [db[i] EXCEPT !.slices = fs] \in Databases
  BY <1>1 DEF Databases
<1>. QED
  BY <1>1, <1>2, <1>3 DEF TypeOK, Databases

\* There is a free name while a run may need one.
LEMMA FreeFacts ==
  ASSUME TypeOK, Counts, NEW p \in Procs, run[p].pc \in AheadPcs
  PROVE  FreeAttempt \in Attempts /\ quarantine[FreeAttempt] = NoDb
<1>. DEFINE Free == {n \in Attempts : quarantine[n] = NoDb}
<1>1. IsFiniteSet(Attempts) /\ Cardinality(Attempts) = MaxRuns + 1
  BY FS_Interval DEF Attempts
<1>2. /\ Cardinality(Ahead) \in Nat /\ runs \in 0..MaxRuns /\ Gone \in Int
      /\ IsFiniteSet(Used) /\ Cardinality(Used) \in Nat
  BY <1>1, FS_CardinalityType, FS_Subset DEF TypeOK, Counts, Used, Gone
<1>3. Cardinality(Used) <= MaxRuns
  BY <1>2 DEF Counts
<1>4. Used # Attempts
  BY <1>1, <1>3
<1>5. Free # {}
  BY <1>4 DEF Used
<1>6. Free \in SUBSET Nat
  BY DEF Attempts
<1>. QED
  BY <1>5, <1>6, MinFacts DEF FreeAttempt

\* The steps of a run that open no database.
LEMMA TypeInspect ==
  ASSUME TypeOK, Counts, NEW p \in Procs,
         \/ Inspect(p) \/ InspectFails(p) \/ Pick(p) \/ Canceled(p) \/ Kill(p)
         \/ BatchBegins(p) \/ WriteFails(p)
  PROVE  TypeOK' /\ Counts'
<1>. USE DEF Keep, KeepCounters, At
<1>0. /\ run[p] \in Runs /\ path \in Dbs \cup {NoDb} /\ db \in [Dbs -> Databases]
      /\ blame \in [Dbs -> SUBSET Causes]
  BY DEF TypeOK, Dbs, NoDb, Databases
<1>1. UNCHANGED <<path, last, db, quarantine, runs, damage>> /\ Opening
  BY DEF Inspect, InspectFails, Pick, Canceled, Kill, BatchBegins, WriteFails, Opening
<1>2. kills' \in 0..MaxKills
  BY DEF Inspect, InspectFails, Pick, Canceled, Kill, BatchBegins, WriteFails, TypeOK
<1>3. blame' \in [Dbs -> SUBSET Causes]
  <2>1. "busy" \in Causes
    BY DEF Causes
  <2>. QED
    BY <1>0, <2>1 DEF Inspect, InspectFails, Pick, Canceled, Kill, BatchBegins, WriteFails
<1>4. CASE Inspect(p)
  <2>. DEFINE pc == IF path # NoDb /\ (OpenFails(p) \/ Bad(path)) THEN "pick" ELSE "begin"
  <2>1. /\ run' = [run EXCEPT ![p] = run'[p]] /\ run'[p] = [run[p] EXCEPT !.saw = path, !.pc = pc]
        /\ pc \in Pcs /\ run[p].pc \in AheadPcs
    BY <1>4 DEF Inspect, Set, TypeOK, Pcs, AheadPcs
  <2>. HIDE DEF pc
  <2>2. run'[p] \in Runs
    BY <1>0, <2>1 DEF Runs
  <2>. QED
    BY <1>0, <1>1, <1>2, <1>3, <2>1, <2>2, TypeRunStep
<1>5. CASE Pick(p)
  <2>1. CASE path = NoDb
    <3>1. Set(p, Idle)
      BY <1>5, <2>1 DEF Pick
    <3>. QED
      BY <1>0, <1>1, <1>2, <1>3, <3>1, IdleFacts, TypeRunStep DEF AheadPcs
  <2>2. CASE path # NoDb
    <3>1. /\ run' = [run EXCEPT ![p] = run'[p]] /\ run[p].pc \in AheadPcs
          /\ run'[p] = [run[p] EXCEPT !.pc = "rename", !.attempt = FreeAttempt]
      BY <1>5, <2>2 DEF Pick, Set, TypeOK, AheadPcs
    <3>2. run'[p] \in Runs
      BY <1>0, <3>1, FreeFacts DEF Runs, Pcs
    <3>. QED
      BY <1>0, <1>1, <1>2, <1>3, <3>1, <3>2, TypeRunStep
  <2>. QED
    BY <2>1, <2>2
<1>6. CASE Canceled(p) \/ Kill(p) \/ InspectFails(p)
  <2>1. Set(p, Idle)
    BY <1>6 DEF Canceled, Kill, InspectFails
  <2>. QED
    BY <1>0, <1>1, <1>2, <1>3, <2>1, IdleFacts, TypeRunStep DEF AheadPcs
<1>7. CASE BatchBegins(p) \/ WriteFails(p)
  <2>1. Go(p, "commit") \/ Return(p, "fail")
    BY <1>7 DEF BatchBegins, WriteFails
  <2>2. "commit" \in Pcs /\ "fail" \in Pcs
    BY DEF Pcs
  <2>3. /\ run' = [run EXCEPT ![p] = run'[p]] /\ run'[p] \in Runs
        /\ run'[p].pc \in {"commit", "fail"}
    BY <2>1, <2>2, GoFacts, ReturnFacts
  <2>. QED
    BY <1>0, <1>1, <1>2, <1>3, <2>3, TypeRunStep DEF AheadPcs
<1>. QED
  BY <1>4, <1>5, <1>6, <1>7

\* Files are left out.
LEMMA TypeShed ==
  ASSUME TypeOK, Counts, NEW p \in Procs, Degrades(p) \/ \E f \in Files : ParseFails(p, f)
  PROVE  TypeOK' /\ Counts'
<1>1. /\ run' = [run EXCEPT ![p] = run'[p]] /\ run'[p] \in Runs /\ run'[p].pc = "write"
      /\ UNCHANGED <<path, last, db, quarantine, runs, damage, kills>>
      /\ blame' \in [Dbs -> SUBSET Causes]
  BY ShedFacts
<1>2. Opening /\ db' \in [Dbs -> Databases] /\ kills' \in 0..MaxKills
  BY <1>1 DEF Opening, TypeOK, Databases
<1>. QED
  BY <1>1, <1>2, TypeRunStep DEF AheadPcs

\* A database is as if it were new, or broken.
LEMMA SidecarsTaken ==
  ASSUME TypeOK, NEW h \in Healths, NEW i \in Dbs,
         db' = [db EXCEPT ![i] = [NewDb EXCEPT !.health = h]]
  PROVE  /\ db' \in [Dbs -> Databases] /\ \A k \in Dbs : k # i => db'[k] = db[k]
         /\ db'[i].state = "none" /\ db'[i].slices = {} /\ db'[i].health = h
<1>1. /\ [NewDb EXCEPT !.health = h] \in Databases /\ [NewDb EXCEPT !.health = h].state = "none"
      /\ [NewDb EXCEPT !.health = h].slices = {} /\ [NewDb EXCEPT !.health = h].health = h
  BY DEF NewDb, Databases, States
<1>. QED
  BY <1>1 DEF TypeOK, Databases

\* The sidecars are moved, or are those of another database.
LEMMA SidecarFacts ==
  ASSUME TypeOK, NEW p \in Procs, MoveSidecars(p)
  PROVE  /\ UNCHANGED <<path, last, quarantine, blame, runs, damage, kills>>
         /\ run[p].pc = "sidecar" /\ (Set(p, Idle) \/ Go(p, "create"))
         /\ db' \in [Dbs -> Databases]
         /\ \/ db' = db
            \/ /\ path \in Dbs /\ Go(p, "create") /\ \A k \in Dbs : k # path => db'[k] = db[k]
               /\ db'[path].state = "none" /\ db'[path].slices = {}
               /\ db'[path].health \in {db[path].health, "corrupt"}
<1>0. db \in [Dbs -> Databases] /\ (path # NoDb => path \in Dbs)
  BY DEF TypeOK, Dbs, NoDb, Databases
<1>1. /\ UNCHANGED <<path, last, quarantine, blame, runs, damage, kills>>
      /\ run[p].pc = "sidecar" /\ (Set(p, Idle) \/ Go(p, "create"))
  BY DEF MoveSidecars, KeepCounters, At
<1>2. CASE db' = db
  BY <1>0, <1>1, <1>2
<1>3. CASE db' # db
  <2>1. /\ path # NoDb /\ Go(p, "create")
        /\ \E h \in {db[path].health, "corrupt"} :
             db' = [db EXCEPT ![path] = [NewDb EXCEPT !.health = h]]
    BY <1>3 DEF MoveSidecars
  <2>2. PICK h \in {db[path].health, "corrupt"} :
             db' = [db EXCEPT ![path] = [NewDb EXCEPT !.health = h]]
    BY <2>1
  <2>3. h \in Healths /\ path \in Dbs
    BY <1>0, <2>1 DEF Databases, Healths
  <2>4. /\ db' \in [Dbs -> Databases] /\ \A k \in Dbs : k # path => db'[k] = db[k]
        /\ db'[path].state = "none" /\ db'[path].slices = {} /\ db'[path].health = h
    BY <2>2, <2>3, SidecarsTaken
  <2>. QED
    BY <1>1, <2>1, <2>3, <2>4
<1>. QED
  BY <1>2, <1>3

\* The move of the sidecars.
LEMMA TypeSidecars ==
  ASSUME TypeOK, Counts, NEW p \in Procs, MoveSidecars(p)
  PROVE  TypeOK' /\ Counts'
<1>1. /\ UNCHANGED <<path, last, quarantine, blame, runs, damage, kills>>
      /\ run[p].pc = "sidecar" /\ (Set(p, Idle) \/ Go(p, "create"))
      /\ db' \in [Dbs -> Databases]
  BY SidecarFacts
<1>2. /\ run' = [run EXCEPT ![p] = run'[p]] /\ run'[p] \in Runs
      /\ run'[p].pc \in {"idle", "create"}
  BY <1>1, IdleFacts, GoFacts DEF Pcs
<1>3. Opening /\ kills' \in 0..MaxKills /\ blame' \in [Dbs -> SUBSET Causes]
  BY <1>1 DEF Opening, TypeOK
<1>. QED
  BY <1>1, <1>2, <1>3, TypeRunStep DEF AheadPcs

\* The steps of a run that open the database, or write to it.
LEMMA TypeWork ==
  ASSUME TypeOK, Counts, NEW p \in Procs,
         \/ CreateFresh(p) \/ BeginBuild(p) \/ OpenGraph(p) \/ Record(p)
         \/ \E f \in Files : BatchCommits(p, f)
         \/ Finish(p) \/ Fail(p) \/ SetMetadata(p)
  PROVE  TypeOK' /\ Counts'
<1>. USE DEF Keep, KeepCounters, At
<1>0. /\ run[p] \in Runs /\ path \in Dbs \cup {NoDb} /\ db \in [Dbs -> Databases]
      /\ blame \in [Dbs -> SUBSET Causes] /\ Opened \in Dbs
      /\ kills \in 0..MaxKills
  BY OpenFacts DEF TypeOK, Dbs, NoDb, Databases
<1>1. UNCHANGED <<quarantine, runs, damage, kills>>
  BY DEF CreateFresh, BeginBuild, OpenGraph, Record, BatchCommits, Finish, Fail, Note, SetMetadata
<1>2. /\ StateOf(Opened) \in States /\ {"building", "built", "build_failed"} \subseteq States
      /\ run[p].end \in States
  BY <1>0 DEF StateOf, States, Databases, Runs, Ends
<1>3. ASSUME Keep \/ \E st \in States : OpenAndSet(p, st)
      PROVE  Opening /\ db' \in [Dbs -> Databases]
  <2>1. CASE Keep
    BY <1>0, <2>1 DEF Opening
  <2>2. ASSUME NEW st \in States, OpenAndSet(p, st) PROVE Opening /\ db' \in [Dbs -> Databases]
    BY <1>0, <2>2, OpenFacts, StateWritten
  <2>. QED
    BY <1>3, <2>1, <2>2
<1>4. {"open", "fail", "meta", "finish", "write", "begin"} \subseteq Pcs
  BY DEF Pcs
<1>5. CASE CreateFresh(p)
  <2>1. Opening /\ db' \in [Dbs -> Databases] /\ blame' = blame
    BY <1>2, <1>3, <1>5 DEF CreateFresh
  <2>2. CASE Set(p, Idle)
    BY <1>0, <1>1, <2>1, <2>2, IdleFacts, TypeRunStep DEF AheadPcs
  <2>3. CASE Set(p, [run[p] EXCEPT !.pc = "begin", !.full = TRUE])
    <3>1. /\ run' = [run EXCEPT ![p] = run'[p]]
          /\ run'[p] = [run[p] EXCEPT !.pc = "begin", !.full = TRUE]
      BY <2>3 DEF Set, TypeOK
    <3>2. run'[p] \in Runs /\ run'[p].pc = "begin"
      BY <1>0, <1>4, <3>1 DEF Runs
    <3>. QED
      BY <1>0, <1>1, <2>1, <3>1, <3>2, TypeRunStep DEF AheadPcs
  <2>. QED
    BY <1>5, <2>2, <2>3 DEF CreateFresh
<1>6. CASE BeginBuild(p)
  <2>1. Opening /\ db' \in [Dbs -> Databases] /\ blame' = blame
    BY <1>2, <1>3, <1>6 DEF BeginBuild
  <2>2. Go(p, "open")
    BY <1>6 DEF BeginBuild
  <2>. QED
    BY <1>0, <1>1, <1>4, <2>1, <2>2, GoFacts, TypeRunStep DEF AheadPcs
<1>7. CASE OpenGraph(p)
  <2>1. CASE OpenFails(p)
    <3>1. Opening /\ db' \in [Dbs -> Databases] /\ blame' = blame /\ Return(p, "fail")
      BY <1>3, <1>7, <2>1 DEF OpenGraph
    <3>2. run' = [run EXCEPT ![p] = run'[p]] /\ run'[p] \in Runs /\ run'[p].pc = "fail"
      BY <1>4, <3>1, ReturnFacts
    <3>. QED
      BY <1>0, <1>1, <3>1, <3>2, TypeRunStep DEF AheadPcs
  <2>2. CASE ~OpenFails(p)
    <3>1. PICK S \in SUBSET Files :
            Set(p, [run[p] EXCEPT !.pc = "write", !.store = Opened, !.todo = S])
      BY <1>7, <2>2 DEF OpenGraph
    <3>2. /\ run' = [run EXCEPT ![p] = run'[p]]
          /\ run'[p] = [run[p] EXCEPT !.pc = "write", !.store = Opened, !.todo = S]
      BY <3>1 DEF Set, TypeOK
    <3>3. run'[p] \in Runs /\ run'[p].pc = "write"
      BY <1>0, <1>4, <3>2 DEF Runs
    <3>4. Opening
      BY <1>7, <2>2, OpenFacts DEF OpenGraph
    <3>5. db' \in [Dbs -> Databases]
      <4>1. CASE run[p].full
        <5>1. db' = [db EXCEPT ![Opened].slices = {}] /\ {} \in SUBSET Files
          BY <1>7, <2>2, <4>1 DEF OpenGraph
        <5>. QED
          BY <1>0, <5>1, SlicesWritten
      <4>2. CASE ~run[p].full
        BY <1>0, <1>7, <2>2, <4>2 DEF OpenGraph
      <4>. QED
        BY <4>1, <4>2
    <3>6. blame' \in [Dbs -> SUBSET Causes]
      <4>1. OpenCauses(p) \subseteq Causes
        BY DEF OpenCauses, Causes
      <4>. QED
        BY <1>0, <1>7, <2>2, <4>1 DEF OpenGraph
    <3>. QED
      BY <1>0, <1>1, <3>2, <3>3, <3>4, <3>5, <3>6, TypeRunStep DEF AheadPcs
  <2>. QED
    BY <2>1, <2>2
<1>8. ASSUME NEW f \in Files, BatchCommits(p, f) PROVE TypeOK' /\ Counts'
  <2>1. /\ run' = [run EXCEPT ![p] = run'[p]]
        /\ run'[p] = [run[p] EXCEPT !.pc = "write", !.todo = @ \ {f}]
    BY <1>8 DEF BatchCommits, Set, TypeOK
  <2>2. run'[p] \in Runs /\ run'[p].pc = "write"
    BY <1>0, <1>4, <2>1 DEF Runs
  <2>3. Opening /\ blame' = blame
    BY <1>8 DEF BatchCommits, Opening
  <2>4. db' \in [Dbs -> Databases]
    <3>1. CASE run[p].store \in Dbs
      <4>1. db[run[p].store].slices \cup {f} \in SUBSET Files
        BY <1>0, <3>1 DEF Databases
      <4>2. db' = [db EXCEPT ![run[p].store].slices = db[run[p].store].slices \cup {f}]
        BY <1>8 DEF BatchCommits
      <4>. QED
        BY <3>1, <4>1, <4>2, SlicesWritten
    <3>2. CASE run[p].store \notin Dbs
      BY <1>0, <1>8, <3>2 DEF BatchCommits
    <3>. QED
      BY <3>1, <3>2
  <2>. QED
    BY <1>0, <1>1, <2>1, <2>2, <2>3, <2>4, TypeRunStep DEF AheadPcs
<1>9. CASE Record(p)
  <2>1. Go(p, "finish") /\ Opening /\ blame' = blame
    BY <1>9 DEF Record, Opening
  <2>2. db' \in [Dbs -> Databases]
    <3>1. CASE run[p].store \in Dbs
      <4>1. \E st \in States : db' = [db EXCEPT ![run[p].store].state = st]
        BY <1>0, <1>2, <1>9, <3>1 DEF Record, Databases
      <4>. QED
        BY <3>1, <4>1, StateWritten
    <3>2. CASE run[p].store \notin Dbs
      BY <1>0, <1>9, <3>2 DEF Record
    <3>. QED
      BY <3>1, <3>2
  <2>. QED
    BY <1>0, <1>1, <1>4, <2>1, <2>2, GoFacts, TypeRunStep DEF AheadPcs
<1>10. CASE Finish(p) \/ Fail(p)
  <2>1. Opening /\ db' \in [Dbs -> Databases]
    BY <1>2, <1>3, <1>10 DEF Finish, Fail, Note
  <2>2. blame' \in [Dbs -> SUBSET Causes]
    <3>1. "split" \in Causes
      BY DEF Causes
    <3>. QED
      BY <1>0, <1>10, <3>1 DEF Finish, Fail, Note
  <2>3. Set(p, Idle) \/ Return(p, "meta")
    BY <1>10 DEF Finish, Fail, Note
  <2>4. CASE Set(p, Idle)
    BY <1>0, <1>1, <2>1, <2>2, <2>4, IdleFacts, TypeRunStep DEF AheadPcs
  <2>5. CASE Return(p, "meta")
    <3>1. run' = [run EXCEPT ![p] = run'[p]] /\ run'[p] \in Runs /\ run'[p].pc = "meta"
      BY <1>4, <2>5, ReturnFacts
    <3>. QED
      BY <1>0, <1>1, <2>1, <2>2, <3>1, TypeRunStep DEF AheadPcs
  <2>. QED
    BY <2>3, <2>4, <2>5
<1>11. CASE SetMetadata(p)
  <2>1. Opening /\ db' \in [Dbs -> Databases] /\ blame' = blame /\ Set(p, Idle)
    BY <1>2, <1>3, <1>11 DEF SetMetadata
  <2>. QED
    BY <1>0, <1>1, <2>1, IdleFacts, TypeRunStep DEF AheadPcs
<1>. QED
  BY <1>5, <1>6, <1>7, <1>8, <1>9, <1>10, <1>11

\* A database is moved away: one run less can do so, and one more is gone.
LEMMA TypeRename ==
  ASSUME TypeOK, Counts, NEW p \in Procs, Rename(p)
  PROVE  TypeOK' /\ Counts'
<1>. USE DEF KeepCounters, At
<1>0. /\ run[p] \in Runs /\ path \in Dbs \cup {NoDb} /\ db \in [Dbs -> Databases]
      /\ blame \in [Dbs -> SUBSET Causes] /\ run[p].pc \in AheadPcs /\ kills \in 0..MaxKills
      /\ run[p].attempt \in Attempts
  BY DEF TypeOK, Dbs, NoDb, Databases, Rename, AheadPcs, Runs
<1>1. CASE path = NoDb
  <2>1. Set(p, Idle) /\ Opening /\ UNCHANGED <<db, blame, quarantine, runs, damage, kills>>
    BY <1>1 DEF Rename, Opening
  <2>. QED
    BY <1>0, <2>1, IdleFacts, TypeRunStep
<1>2. CASE path # NoDb
  <2>1. /\ quarantine' = [quarantine EXCEPT ![run[p].attempt] = path] /\ path' = NoDb
        /\ UNCHANGED <<last, db, runs, damage, kills>> /\ Go(p, "sidecar")
    BY <1>2 DEF Rename
  <2>2. /\ run' = [run EXCEPT ![p] = run'[p]] /\ run'[p] \in Runs /\ run'[p].pc = "sidecar"
    BY <2>1, GoFacts DEF Pcs
  <2>3. run' \in [Procs -> Runs] /\ \A q \in Procs : q # p => run'[q] = run[q]
    BY <2>2 DEF TypeOK
  <2>4. blame' \in [Dbs -> SUBSET Causes]
    <3>1. "raced" \in Causes
      BY DEF Causes
    <3>2. blame' = [i \in Dbs |-> IF path # run[p].saw /\ i \in {path, quarantine[run[p].attempt]}
                                  THEN blame[i] \cup {"raced"} ELSE blame[i]]
      BY <1>2 DEF Rename
    <3>. QED
      BY <1>0, <3>1, <3>2
  <2>5. TypeOK'
    BY <1>0, <1>2, <2>1, <2>3, <2>4 DEF TypeOK, Databases
  <2>6. Ahead' = Ahead \ {p} /\ p \in Ahead
    BY <1>0, <2>2, <2>3 DEF Ahead, AheadPcs
  <2>7. /\ IsFiniteSet(Ahead') /\ Cardinality(Ahead') = Cardinality(Ahead) - 1
        /\ Cardinality(Ahead) \in Nat
    BY <2>6, FS_RemoveElement, FS_CardinalityType DEF Counts
  <2>8. Gone \in Nat /\ Gone' = Gone + 1 /\ runs \in Nat
    BY <1>2, <2>1 DEF Gone, TypeOK, NoDb
  <2>9. Used' \subseteq Used \cup {run[p].attempt}
    BY <1>0, <2>1 DEF Used, TypeOK
  <2>10. IsFiniteSet(Used)
    <3>1. IsFiniteSet(Attempts) /\ Used \subseteq Attempts
      BY FS_Interval DEF Used, Attempts
    <3>. QED
      BY <3>1, FS_Subset
  <2>11. IsFiniteSet(Used') /\ Cardinality(Used') <= Cardinality(Used) + 1
    <3>1. /\ IsFiniteSet(Used \cup {run[p].attempt})
          /\ Cardinality(Used \cup {run[p].attempt}) <= Cardinality(Used) + 1
      <4>1. Cardinality(Used) \in Nat
        BY <2>10, FS_CardinalityType
      <4>2. /\ IsFiniteSet(Used \cup {run[p].attempt})
            /\ Cardinality(Used \cup {run[p].attempt})
                 = IF run[p].attempt \in Used THEN Cardinality(Used) ELSE Cardinality(Used) + 1
        BY <2>10, FS_AddElement
      <4>. QED
        BY <4>1, <4>2
    <3>2. IsFiniteSet(Used') /\ Cardinality(Used') <= Cardinality(Used \cup {run[p].attempt})
      BY <2>9, <3>1, FS_Subset
    <3>. QED
      BY <2>10, <3>1, <3>2, FS_CardinalityType
  <2>12. Cardinality(Used) \in Nat /\ Cardinality(Used') \in Nat
    BY <2>10, <2>11, FS_CardinalityType
  <2>13. Gone' + Cardinality(Ahead') <= runs' /\ Cardinality(Used') <= Gone'
    BY <2>1, <2>7, <2>8, <2>11, <2>12 DEF Counts
  <2>. QED
    BY <2>5, <2>7, <2>13 DEF Counts
<1>. QED
  BY <1>1, <1>2

\* A run starts, and so one more may move a database away.
LEMMA TypeStart ==
  ASSUME TypeOK, Counts, NEW p \in Procs, NEW full \in BOOLEAN, Start(p, full)
  PROVE  TypeOK' /\ Counts'
<1>. DEFINE others == IF Quiet THEN {} ELSE {"run"}
            r == [Idle EXCEPT !.pc = "inspect", !.full = full, !.met = others]
<1>0. others \in SUBSET {"run", "damage"}
  OBVIOUS
<1>1. /\ run' = [q \in Procs |-> IF q = p THEN r ELSE Meet(run[q], others)]
      /\ UNCHANGED <<path, last, db, quarantine, blame, damage, kills>>
      /\ run[p].pc = "idle" /\ runs < MaxRuns /\ runs' = runs + 1
  BY DEF Start, Keep, Active, At
<1>. HIDE DEF others
<1>2. r \in Runs /\ r.pc = "inspect"
  BY <1>0, IdleRun DEF Runs, Pcs
<1>. HIDE DEF r
<1>3. /\ run' \in [Procs -> Runs] /\ run'[p].pc = "inspect"
      /\ \A q \in Procs : q # p => run'[q].pc = run[q].pc
  BY <1>0, <1>1, <1>2, MeetFacts DEF TypeOK
<1>4. TypeOK'
  BY <1>1, <1>3 DEF TypeOK
<1>5. Ahead' = Ahead \cup {p} /\ p \notin Ahead
  BY <1>1, <1>3 DEF Ahead
<1>6. /\ IsFiniteSet(Ahead') /\ Cardinality(Ahead') = Cardinality(Ahead) + 1
      /\ Cardinality(Ahead) \in Nat
  BY <1>5, FS_AddElement, FS_CardinalityType DEF Counts
<1>7. Gone' = Gone /\ Used' = Used /\ Gone \in Int /\ runs \in Nat
  BY <1>1 DEF Gone, Used, TypeOK
<1>8. Gone' + Cardinality(Ahead') <= runs'
  BY <1>1, <1>6, <1>7 DEF Counts
<1>. QED
  BY <1>4, <1>6, <1>7, <1>8 DEF Counts

\* A reader creates a database, or one goes bad.
LEMMA TypeOthers ==
  ASSUME TypeOK, Counts, ReaderOpens \/ Damage
  PROVE  TypeOK' /\ Counts'
<1>. USE DEF KeepCounters
<1>1. CASE ReaderOpens
  <2>1. /\ Opening /\ UNCHANGED <<db, quarantine, run, blame, runs, damage, kills>>
        /\ Ahead' = Ahead
    BY <1>1 DEF ReaderOpens, Opening, Ahead
  <2>. QED
    BY <2>1, CountsKept DEF TypeOK
<1>2. CASE Damage
  <2>1. /\ UNCHANGED <<path, last, quarantine, blame, runs, kills>> /\ Opening
        /\ damage' \in 0..MaxDamage /\ path # NoDb
        /\ run' = [p \in Procs |-> Meet(run[p], {"damage"})]
    BY <1>2 DEF Damage, Opening, TypeOK
  <2>2. run' \in [Procs -> Runs] /\ Ahead' = Ahead
    BY <2>1, MeetFacts DEF TypeOK, Ahead
  <2>3. path \in Dbs /\ db \in [Dbs -> Databases]
    BY <2>1 DEF TypeOK, Dbs, NoDb, Databases
  <2>4. PICK h \in {"corrupt", "inconsistent"} : db' = [db EXCEPT ![path].health = h]
    BY <1>2 DEF Damage
  <2>5. db' \in [Dbs -> Databases]
    BY <2>3, <2>4 DEF Databases, Healths
  <2>. QED
    BY <2>1, <2>2, <2>5, CountsKept DEF TypeOK, Databases
<1>. QED
  BY <1>1, <1>2

\* Every step keeps the types and the counts.
LEMMA TypeStep == TypeOK /\ Counts /\ [Next]_vars => TypeOK' /\ Counts'
<1>1. ASSUME TypeOK, Counts, UNCHANGED vars PROVE TypeOK' /\ Counts'
  BY <1>1 DEF vars, TypeOK, Counts, Ahead, Gone, Used
<1>. QED
  BY <1>1, TypeInspect, TypeShed, TypeSidecars, TypeWork, TypeRename, TypeStart, TypeOthers
     DEF Next

\* Every variable keeps its type; in particular there is always a quarantine name left,
\* and no more databases are created than moved away.
THEOREM TypeCorrect == Spec => []TypeOK
<1>1. Spec => [](TypeOK /\ Counts)
  BY TypeInit, TypeStep, PTL DEF Spec
<1>. QED
  BY <1>1, PTL

-----------------------------------------------------------------------------
(* What a step does to the databases.                                      *)

\* Opening a database and setting its state does that and nothing else.
LEMMA OpenEffect ==
  ASSUME TypeOK, Counts, NEW p \in Procs, NEW st \in States, OpenAndSet(p, st)
  PROVE  /\ Opening /\ ~OpenFails(p) /\ path' = Opened /\ Opened \in Dbs
         /\ \A i \in Dbs : i # Opened => db'[i] = db[i]
         /\ db'[Opened].state = st /\ db'[Opened].health = db[Opened].health
         /\ db'[Opened].slices = db[Opened].slices
<1>1. Opening /\ db' = [db EXCEPT ![Opened].state = st] /\ Opened \in Dbs
  BY OpenFacts
<1>2. ~OpenFails(p) /\ path' = Opened
  BY DEF OpenAndSet
<1>. QED
  BY <1>1, <1>2, StateWritten

\* No step of a run but the move of the sidecars changes the health of a database.
LEMMA HealthKept ==
  ASSUME TypeOK, Counts, NEW p \in Procs,
         \/ \E full \in BOOLEAN : Start(p, full)
         \/ Inspect(p) \/ InspectFails(p) \/ Pick(p) \/ Rename(p) \/ CreateFresh(p)
         \/ BeginBuild(p) \/ Canceled(p) \/ OpenGraph(p)
         \/ BatchBegins(p) \/ (\E f \in Files : BatchCommits(p, f) \/ ParseFails(p, f))
         \/ Degrades(p) \/ WriteFails(p)
         \/ Record(p) \/ Finish(p) \/ Fail(p) \/ SetMetadata(p)
         \/ Kill(p),
         NEW i \in Dbs
  PROVE  db'[i].health = db[i].health
<1>. USE DEF Keep
<1>0. db \in [Dbs -> Databases] /\ Opened \in Dbs
  BY OpenFacts DEF TypeOK, Databases
<1>1. /\ StateOf(Opened) \in States /\ {"building", "built", "build_failed"} \subseteq States
      /\ run[p].end \in States
  BY <1>0 DEF StateOf, States, Databases, TypeOK, Runs, Ends
<1>2. CASE UNCHANGED db
  BY <1>2
<1>3. ASSUME NEW st \in States, OpenAndSet(p, st) PROVE db'[i].health = db[i].health
  BY <1>3, OpenEffect
<1>4. CASE OpenGraph(p)
  <2>1. db' = db \/ db' = [db EXCEPT ![Opened].slices = {}]
    BY <1>4 DEF OpenGraph
  <2>2. {} \in SUBSET Files
    OBVIOUS
  <2>. QED
    BY <1>0, <2>1, <2>2, SlicesWritten
<1>5. ASSUME NEW f \in Files, BatchCommits(p, f) PROVE db'[i].health = db[i].health
  BY <1>0, <1>5 DEF BatchCommits, Databases
<1>6. CASE Record(p)
  BY <1>0, <1>6 DEF Record, Databases
<1>7. CASE CreateFresh(p) \/ BeginBuild(p) \/ Finish(p) \/ Fail(p) \/ SetMetadata(p)
  BY <1>1, <1>2, <1>3, <1>7 DEF CreateFresh, BeginBuild, Finish, Fail, Note, SetMetadata
<1>. QED
  BY <1>2, <1>4, <1>5, <1>6, <1>7
     DEF Start, Inspect, InspectFails, Pick, Rename, Canceled, BatchBegins, ParseFails,
         Degrades, WriteFails, Kill

\* A bad database stays bad, and no cause is forgotten.
LEMMA Monotone ==
  ASSUME TypeOK, Counts, [Next]_vars, NEW i \in Dbs
  PROVE  (Bad(i) => Bad(i)') /\ blame[i] \subseteq blame'[i]
<1>0. db \in [Dbs -> Databases] /\ blame \in [Dbs -> SUBSET Causes]
  BY DEF TypeOK, Databases
<1>1. Bad(i) => Bad(i)'
  <2>1. CASE Damage
    BY <1>0, <2>1 DEF Damage, Bad, Databases
  <2>2. CASE ReaderOpens \/ UNCHANGED vars
    BY <2>2 DEF ReaderOpens, vars, Bad
  <2>3. ASSUME NEW p \in Procs, MoveSidecars(p) PROVE Bad(i) => Bad(i)'
    <3>1. \/ db' = db
          \/ /\ \A k \in Dbs : k # path => db'[k] = db[k]
             /\ db'[path].health \in {db[path].health, "corrupt"}
      BY <2>3, SidecarFacts
    <3>. QED
      BY <3>1 DEF Bad
  <2>. QED
    BY <2>1, <2>2, <2>3, HealthKept DEF Next, Bad
<1>2. blame[i] \subseteq blame'[i]
  <2>1. ASSUME NEW p \in Procs, Inspect(p) \/ Rename(p) \/ OpenGraph(p) \/ Finish(p) \/ Fail(p)
        PROVE  blame[i] \subseteq blame'[i]
    BY <1>0, <2>1 DEF Inspect, Rename, OpenGraph, Finish, Fail, Note
  <2>2. ASSUME NEW p \in Procs, Degrades(p) \/ \E f \in Files : ParseFails(p, f)
        PROVE  blame[i] \subseteq blame'[i]
    BY <2>2, ShedFacts
  <2>3. blame' = blame \/ \E p \in Procs : \/ Inspect(p) \/ Rename(p) \/ OpenGraph(p)
                                           \/ Finish(p) \/ Fail(p)
                                           \/ \E f \in Files : ParseFails(p, f)
    BY DEF Next, vars, ReaderOpens, Damage, Start, InspectFails, Pick, MoveSidecars, CreateFresh,
           BeginBuild, Canceled, BatchBegins, BatchCommits, Degrades, WriteFails, Record,
           SetMetadata, Kill
  <2>. QED
    BY <2>1, <2>2, <2>3
<1>. QED
  BY <1>1, <1>2

-----------------------------------------------------------------------------
(* What is moved away.                                                     *)

\* Nothing was moved away, and no one has looked.
LEMMA QuarantineInit == Init => QuarantineInv
<1>. SUFFICES ASSUME Init PROVE QuarantineInv
  OBVIOUS
<1>1. Moved = {}
  BY DEF Init, Moved, NoDb
<1>. QED
  BY <1>1 DEF Init, QuarantineInv, OnlyBadIsQuarantined, EvidenceIsKept, Sight, Idle, NoDb

\* Opening a database moves none.
LEMMA MovedKept ==
  ASSUME TypeOK, Opening
  PROVE  Moved' = Moved /\ last <= last' /\ (\A i \in 1..last : path' = i => path = i)
         /\ last \in Nat /\ last' \in Nat
<1>1. last \in Nat /\ last' \in Nat /\ last <= last'
  BY DEF TypeOK, Opening
<1>2. CASE UNCHANGED <<path, last>>
  BY <1>1, <1>2 DEF Moved
<1>3. CASE path = NoDb /\ path' = last + 1 /\ last' = last + 1
  BY <1>1, <1>3 DEF Moved, NoDb
<1>. QED
  BY <1>2, <1>3, <1>1 DEF Opening

\* What a run has seen stays seen while it goes on, or ends.
LEMMA SightKept ==
  ASSUME TypeOK, TypeOK', Counts, [Next]_vars, Opening, quarantine' = quarantine,
         NEW q \in Procs, Sight(q),
         \/ /\ run'[q].pc = run[q].pc /\ run'[q].saw = run[q].saw
            /\ run'[q].attempt = run[q].attempt
         \/ run'[q].pc \notin {"pick", "rename"} /\ run'[q].saw \in {run[q].saw, NoDb}
  PROVE  Sight(q)'
<1>1. last <= last' /\ last \in Nat /\ last' \in Nat /\ (\A i \in 1..last : path' = i => path = i)
  BY MovedKept
<1>2. run[q].saw \in Dbs \cup {NoDb} /\ run[q].saw <= last
  BY DEF TypeOK, Runs, Sight
<1>3. run[q].saw \in Nat /\ (run[q].saw # NoDb => run[q].saw \in Dbs /\ run[q].saw \in 1..last)
  BY <1>1, <1>2 DEF Dbs, NoDb
<1>4. ASSUME run[q].saw # NoDb
      PROVE  /\ Bad(run[q].saw) => db'[run[q].saw].health # "ok"
             /\ blame[run[q].saw] \subseteq blame'[run[q].saw]
  <2>. DEFINE i == run[q].saw
  <2>1. i \in Dbs
    BY <1>3, <1>4
  <2>. HIDE DEF i
  <2>2. (Bad(i) => db'[i].health # "ok") /\ blame[i] \subseteq blame'[i]
    BY <2>1, Monotone DEF Bad
  <2>. QED
    BY <2>2 DEF i
<1>. QED
  BY <1>1, <1>3, <1>4 DEF Sight, NoDb, Bad

\* The steps of a run that is under way, the rename aside.
Steps(p) ==
  \/ Inspect(p) \/ InspectFails(p) \/ Pick(p) \/ MoveSidecars(p) \/ CreateFresh(p)
  \/ BeginBuild(p) \/ Canceled(p) \/ OpenGraph(p)
  \/ BatchBegins(p) \/ (\E f \in Files : BatchCommits(p, f) \/ ParseFails(p, f))
  \/ Degrades(p) \/ WriteFails(p)
  \/ Record(p) \/ Finish(p) \/ Fail(p) \/ SetMetadata(p) \/ Kill(p)

\* Such a step moves no database and touches no other run, and what the run has seen
\* changes only where it looks.
LEMMA StepShape ==
  ASSUME TypeOK, Counts, NEW p \in Procs, Steps(p)
  PROVE  /\ Opening /\ quarantine' = quarantine
         /\ \A q \in Procs : q # p => run'[q] = run[q]
         /\ \/ Inspect(p) \/ (Pick(p) /\ path # NoDb)
            \/ run'[p].pc \notin {"pick", "rename"} /\ run'[p].saw \in {run[p].saw, NoDb}
<1>. USE DEF Keep, KeepCounters
<1>0. run[p] \in Runs
  BY DEF TypeOK
<1>1. quarantine' = quarantine
  BY DEF Steps, Inspect, InspectFails, Pick, MoveSidecars, CreateFresh, BeginBuild, Canceled,
         OpenGraph, BatchBegins, BatchCommits, ParseFails, Degrades, WriteFails, Record,
         Finish, Fail, Note, SetMetadata, Kill
<1>2. Opening
  <2>1. CASE UNCHANGED <<path, last>>
    BY <2>1 DEF Opening
  <2>2. ASSUME NEW st, OpenAndSet(p, st) PROVE Opening
    BY <2>2, OpenFacts
  <2>3. ASSUME path' = Opened, last' = IF path = NoDb THEN Opened ELSE last PROVE Opening
    BY <2>3, OpenFacts
  <2>. QED
    BY <2>1, <2>2, <2>3
       DEF Steps, Inspect, InspectFails, Pick, MoveSidecars, CreateFresh, BeginBuild, Canceled,
           OpenGraph, BatchBegins, BatchCommits, ParseFails, Degrades, WriteFails, Record,
           Finish, Fail, Note, SetMetadata, Kill
<1>3. ASSUME NEW q \in Procs, q # p PROVE run'[q] = run[q]
  <2>1. \E r : Set(p, r)
    BY DEF Steps, Inspect, InspectFails, Pick, MoveSidecars, CreateFresh, BeginBuild, Canceled,
           OpenGraph, BatchBegins, BatchCommits, ParseFails, Degrades, WriteFails, Record,
           Finish, Fail, Note, SetMetadata, Kill, Go, Return
  <2>. QED
    BY <1>3, <2>1 DEF Set, TypeOK
<1>4. CASE Set(p, Idle)
  BY <1>1, <1>2, <1>3, <1>4, IdleFacts
<1>5. CASE \E pc \in {"create", "open", "commit", "fail", "finish", "meta"} :
             Go(p, pc) \/ Return(p, pc)
  <2>1. PICK pc \in {"create", "open", "commit", "fail", "finish", "meta"} :
          Go(p, pc) \/ Return(p, pc)
    BY <1>5
  <2>2. pc \in Pcs
    BY DEF Pcs
  <2>3. run'[p].pc = pc /\ run'[p].saw \in {run[p].saw, NoDb}
    BY <2>1, <2>2, GoFacts, ReturnFacts
  <2>. QED
    BY <1>1, <1>2, <1>3, <2>3
<1>6. CASE CreateFresh(p) /\ Set(p, [run[p] EXCEPT !.pc = "begin", !.full = TRUE])
  <2>1. run'[p] = [run[p] EXCEPT !.pc = "begin", !.full = TRUE]
    BY <1>6 DEF Set, TypeOK
  <2>2. run'[p].pc = "begin" /\ run'[p].saw = run[p].saw
    BY <1>0, <2>1 DEF Runs
  <2>. QED
    BY <1>1, <1>2, <1>3, <2>2
<1>7. CASE OpenGraph(p) /\ ~Return(p, "fail")
  <2>1. PICK S : run'[p] = [run[p] EXCEPT !.pc = "write", !.store = Opened, !.todo = S]
    BY <1>7 DEF OpenGraph, Set, TypeOK
  <2>2. run'[p].pc = "write" /\ run'[p].saw = run[p].saw
    BY <1>0, <2>1 DEF Runs
  <2>. QED
    BY <1>1, <1>2, <1>3, <2>2
<1>8. ASSUME NEW f \in Files, BatchCommits(p, f)
      PROVE  run'[p].pc = "write" /\ run'[p].saw = run[p].saw
  <2>1. run'[p] = [run[p] EXCEPT !.pc = "write", !.todo = @ \ {f}]
    BY <1>8 DEF BatchCommits, Set, TypeOK
  <2>. QED
    BY <1>0, <2>1 DEF Runs
<1>9. ASSUME Degrades(p) \/ \E f \in Files : ParseFails(p, f)
      PROVE  run'[p].pc = "write" /\ run'[p].saw = run[p].saw
  BY <1>9, ShedFacts
<1>. QED
  BY <1>1, <1>2, <1>3, <1>4, <1>5, <1>6, <1>7, <1>8, <1>9
     DEF Steps, InspectFails, Pick, MoveSidecars, CreateFresh, BeginBuild, Canceled, OpenGraph,
         BatchBegins, WriteFails, Record, Finish, Fail, Note, SetMetadata, Kill

\* A step that moves no database keeps what is said of those that were moved.
LEMMA EvidenceKept ==
  ASSUME TypeOK, Counts, [Next]_vars, Opening, quarantine' = quarantine,
         OnlyBadIsQuarantined, EvidenceIsKept
  PROVE  OnlyBadIsQuarantined' /\ EvidenceIsKept'
<1>1. Moved' = Moved /\ Moved \subseteq Dbs
  BY MovedKept DEF Moved, TypeOK, Dbs
<1>2. ASSUME NEW i \in Moved
      PROVE  (db[i].health # "ok" => db'[i].health # "ok") /\ blame[i] \subseteq blame'[i]
  BY <1>1, Monotone DEF Bad
<1>. QED
  BY <1>1, <1>2 DEF OnlyBadIsQuarantined, EvidenceIsKept

\* A run looks at the database: what it is to move away it has seen bad, or busy.
LEMMA SightInspect ==
  ASSUME TypeOK, Counts, NEW p \in Procs, Inspect(p)
  PROVE  Sight(p)'
<1>. DEFINE pc == IF path # NoDb /\ (OpenFails(p) \/ Bad(path)) THEN "pick" ELSE "begin"
<1>0. /\ run[p] \in Runs /\ path \in Dbs \cup {NoDb} /\ db \in [Dbs -> Databases]
      /\ blame \in [Dbs -> SUBSET Causes] /\ path <= last
  BY DEF TypeOK, Dbs, NoDb, Databases
<1>1. /\ UNCHANGED <<path, last, db, quarantine>>
      /\ run'[p] = [run[p] EXCEPT !.saw = path, !.pc = pc] /\ pc \in {"pick", "begin"}
  BY DEF Inspect, Keep, Set, TypeOK
<1>2. ASSUME pc = "pick" PROVE path # NoDb /\ (Bad(path) \/ "busy" \in blame'[path])
  BY <1>0, <1>2 DEF Inspect, OpenFails, Bad
<1>. HIDE DEF pc
<1>3. run'[p].saw = path /\ run'[p].pc = pc
  BY <1>0, <1>1 DEF Runs
<1>. QED
  BY <1>0, <1>1, <1>2, <1>3 DEF Sight, Bad

\* A run chooses a name that is free.
LEMMA SightPick ==
  ASSUME TypeOK, Counts, NEW p \in Procs, Pick(p), path # NoDb, Sight(p)
  PROVE  Sight(p)'
<1>0. run[p] \in Runs /\ run[p].pc = "pick"
  BY DEF TypeOK, Pick, At
<1>1. /\ UNCHANGED <<path, last, db, quarantine, blame>>
      /\ run'[p] = [run[p] EXCEPT !.pc = "rename", !.attempt = FreeAttempt]
  BY DEF Pick, Keep, Set, TypeOK
<1>2. FreeAttempt \in Attempts /\ quarantine[FreeAttempt] = NoDb
  BY <1>0, FreeFacts DEF AheadPcs
<1>3. run'[p].saw = run[p].saw /\ run'[p].attempt = FreeAttempt
  BY <1>0, <1>1 DEF Runs
<1>. QED
  BY <1>0, <1>1, <1>2, <1>3 DEF Sight, Bad

\* The rename: what is moved was seen bad or busy, or raced; and so was what it replaces.
LEMMA QuarantineRename ==
  ASSUME TypeOK, TypeOK', Counts, NEW p \in Procs, Rename(p), path # NoDb, QuarantineInv
  PROVE  QuarantineInv'
<1>. DEFINE a == run[p].attempt
<1>0. /\ run[p] \in Runs /\ path \in Dbs /\ path \in 1..last /\ last \in Nat
      /\ blame \in [Dbs -> SUBSET Causes] /\ a \in Attempts
      /\ run[p].pc = "rename" /\ Moved \subseteq Dbs
  BY DEF TypeOK, Dbs, NoDb, Rename, At, Runs, Moved
<1>1. /\ quarantine' = [quarantine EXCEPT ![a] = path] /\ path' = NoDb
      /\ UNCHANGED <<last, db>> /\ Go(p, "sidecar")
      /\ blame' = [i \in Dbs |-> IF path # run[p].saw /\ i \in {path, quarantine[a]}
                                 THEN blame[i] \cup {"raced"} ELSE blame[i]]
  BY DEF Rename
<1>2. /\ run'[p].pc = "sidecar" /\ run'[p].saw = run[p].saw
      /\ \A q \in Procs : q # p => run'[q] = run[q]
  <2>1. run'[p].pc = "sidecar" /\ run'[p].saw = run[p].saw
    BY <1>1, GoFacts DEF Pcs
  <2>. QED
    BY <1>1, <2>1 DEF Go, Set, TypeOK
<1>3. Moved' = Moved \cup {path}
  BY <1>0, <1>1 DEF Moved, NoDb
<1>4. \A i \in Dbs : blame[i] \subseteq blame'[i]
  BY <1>1
<1>5. Sight(p)
  BY DEF QuarantineInv
<1>6. OnlyBadIsQuarantined'
  <2>1. ASSUME NEW i \in Moved PROVE db'[i].health # "ok" \/ blame'[i] \cap {"busy", "raced"} # {}
    BY <1>0, <1>1, <1>4 DEF QuarantineInv, OnlyBadIsQuarantined
  <2>2. db'[path].health # "ok" \/ blame'[path] \cap {"busy", "raced"} # {}
    BY <1>0, <1>1, <1>5 DEF Sight, Bad
  <2>. QED
    BY <1>3, <2>1, <2>2 DEF OnlyBadIsQuarantined
<1>7. EvidenceIsKept'
  <2>1. quarantine'[a] = path
    BY <1>0, <1>1 DEF TypeOK
  <2>2. ASSUME NEW i \in Moved
        PROVE  (\E n \in Attempts : quarantine'[n] = i) \/ "raced" \in blame'[i]
    <3>1. CASE "raced" \in blame[i]
      BY <1>0, <1>4, <3>1
    <3>2. ASSUME NEW n \in Attempts, quarantine[n] = i, n # a
          PROVE  \E m \in Attempts : quarantine'[m] = i
      BY <1>1, <3>2 DEF TypeOK
    <3>3. CASE quarantine[a] = i
      <4>1. i # NoDb
        BY DEF Moved, NoDb
      <4>2. path # run[p].saw
        BY <1>0, <1>5, <3>3, <4>1 DEF Sight
      <4>. QED
        BY <1>0, <1>1, <3>3, <4>2
    <3>. QED
      BY <3>1, <3>2, <3>3 DEF QuarantineInv, EvidenceIsKept
  <2>. QED
    BY <1>0, <1>3, <2>1, <2>2 DEF EvidenceIsKept
<1>8. ASSUME NEW q \in Procs PROVE Sight(q)'
  <2>1. CASE q = p
    BY <1>1, <1>2, <1>5, <2>1 DEF Sight
  <2>2. CASE q # p
    <3>1. run'[q] = run[q] /\ Sight(q) /\ run[q].saw \in Dbs \cup {NoDb}
      BY <1>2, <2>2 DEF QuarantineInv, TypeOK, Runs
    <3>2. run[q].saw # NoDb => blame[run[q].saw] \subseteq blame'[run[q].saw]
      BY <1>4, <3>1
    <3>. QED
      BY <1>1, <3>1, <3>2 DEF Sight, Bad
  <2>. QED
    BY <2>1, <2>2
<1>. QED
  BY <1>6, <1>7, <1>8 DEF QuarantineInv

\* Another run starts, or the database goes bad: the runs under way have seen what they
\* have seen.
LEMMA QuarantineOthers ==
  ASSUME TypeOK, TypeOK', Counts, QuarantineInv,
         \/ ReaderOpens \/ Damage \/ UNCHANGED vars
         \/ \E p \in Procs : \E full \in BOOLEAN : Start(p, full)
  PROVE  QuarantineInv'
<1>. USE DEF Keep, KeepCounters
<1>0. Opening /\ quarantine' = quarantine /\ [Next]_vars
  BY DEF ReaderOpens, Damage, Start, Next, vars, Opening
<1>1. ASSUME NEW q \in Procs
      PROVE  \/ /\ run'[q].pc = run[q].pc /\ run'[q].saw = run[q].saw
                /\ run'[q].attempt = run[q].attempt
             \/ run'[q].pc \notin {"pick", "rename"} /\ run'[q].saw \in {run[q].saw, NoDb}
  <2>1. CASE ReaderOpens \/ UNCHANGED vars
    BY <2>1 DEF ReaderOpens, vars
  <2>2. CASE Damage
    <3>1. run'[q] = Meet(run[q], {"damage"}) /\ run[q] \in Runs
      BY <2>2 DEF Damage, TypeOK
    <3>. QED
      BY <3>1, MeetFacts
  <2>3. ASSUME NEW p \in Procs, NEW full \in BOOLEAN, Start(p, full)
        PROVE  \/ /\ run'[q].pc = run[q].pc /\ run'[q].saw = run[q].saw
                  /\ run'[q].attempt = run[q].attempt
               \/ run'[q].pc \notin {"pick", "rename"} /\ run'[q].saw \in {run[q].saw, NoDb}
    <3>. DEFINE others == IF Quiet THEN {} ELSE {"run"}
    <3>1. run'[q] = IF q = p THEN [Idle EXCEPT !.pc = "inspect", !.full = full, !.met = others]
                    ELSE Meet(run[q], others)
      BY <2>3 DEF Start
    <3>2. others \in SUBSET {"run", "damage"} /\ run[q] \in Runs
      BY DEF TypeOK
    <3>. HIDE DEF others
    <3>3. CASE q = p
      BY <3>1, <3>3 DEF Idle
    <3>4. CASE q # p
      BY <3>1, <3>2, <3>4, MeetFacts
    <3>. QED
      BY <3>3, <3>4
  <2>. QED
    BY <2>1, <2>2, <2>3
<1>. QED
  BY <1>0, <1>1, EvidenceKept, SightKept DEF QuarantineInv

\* Every step keeps the invariant.
LEMMA QuarantineStep ==
  TypeOK /\ Counts /\ QuarantineInv /\ [Next]_vars => QuarantineInv'
<1>. SUFFICES ASSUME TypeOK, Counts, QuarantineInv, [Next]_vars PROVE QuarantineInv'
  OBVIOUS
<1>0. TypeOK'
  BY TypeStep
<1>1. ASSUME NEW p \in Procs, Steps(p) PROVE QuarantineInv'
  <2>1. /\ Opening /\ quarantine' = quarantine
        /\ \A q \in Procs : q # p => run'[q] = run[q]
        /\ \/ Inspect(p) \/ (Pick(p) /\ path # NoDb)
           \/ run'[p].pc \notin {"pick", "rename"} /\ run'[p].saw \in {run[p].saw, NoDb}
    BY <1>1, StepShape
  <2>2. OnlyBadIsQuarantined' /\ EvidenceIsKept'
    BY <2>1, EvidenceKept DEF QuarantineInv
  <2>3. ASSUME NEW q \in Procs, q # p PROVE Sight(q)'
    <3>1. run'[q] = run[q] /\ Sight(q)
      BY <2>1, <2>3 DEF QuarantineInv
    <3>. QED
      BY <1>0, <2>1, <3>1, SightKept
  <2>4. Sight(p)'
    <3>1. Sight(p)
      BY DEF QuarantineInv
    <3>. QED
      BY <1>0, <2>1, <3>1, SightKept, SightInspect, SightPick
  <2>. QED
    BY <2>2, <2>3, <2>4 DEF QuarantineInv
<1>2. ASSUME NEW p \in Procs, Rename(p) PROVE QuarantineInv'
  <2>1. CASE path # NoDb
    BY <1>0, <1>2, <2>1, QuarantineRename
  <2>2. CASE path = NoDb
    <3>1. Opening /\ quarantine' = quarantine /\ Set(p, Idle)
      BY <1>2, <2>2 DEF Rename, Opening
    <3>2. /\ run'[p].pc = "idle" /\ run'[p].saw = NoDb
          /\ \A q \in Procs : q # p => run'[q] = run[q]
      <4>1. run'[p].pc = "idle" /\ run'[p].saw = NoDb
        BY <3>1, IdleFacts
      <4>. QED
        BY <3>1, <4>1 DEF Set, TypeOK
    <3>3. ASSUME NEW q \in Procs PROVE Sight(q)'
      <4>1. Sight(q)
        BY DEF QuarantineInv
      <4>. QED
        BY <1>0, <3>1, <3>2, <4>1, SightKept
    <3>. QED
      BY <3>1, <3>3, EvidenceKept DEF QuarantineInv
  <2>. QED
    BY <2>1, <2>2
<1>. QED
  BY <1>0, <1>1, <1>2, QuarantineOthers DEF Next, Steps

\* A healthy database is moved away only because a long transaction kept the health check
\* from opening it, or because the bad one that the check saw had been replaced.
THEOREM QuarantineIsJustified == Spec => []OnlyBadIsQuarantined
<1>1. Spec => [](TypeOK /\ Counts /\ QuarantineInv)
  BY TypeInit, TypeStep, QuarantineInit, QuarantineStep, PTL DEF Spec
<1>2. QuarantineInv => OnlyBadIsQuarantined
  BY DEF QuarantineInv
<1>. QED
  BY <1>1, <1>2, PTL

\* What was moved away is there for inspection, unless a run that moved what it had not
\* checked replaced it.
THEOREM EvidenceSurvives == Spec => []EvidenceIsKept
<1>1. Spec => [](TypeOK /\ Counts /\ QuarantineInv)
  BY TypeInit, TypeStep, QuarantineInit, QuarantineStep, PTL DEF Spec
<1>2. QuarantineInv => EvidenceIsKept
  BY DEF QuarantineInv
<1>. QED
  BY <1>1, <1>2, PTL

-----------------------------------------------------------------------------
(* What tools answer from.                                                 *)

Work == {"write", "commit", "finish"}

\* A run that takes a step is under way; it ends, or goes on with what it has met.
LEMMA RunShape ==
  ASSUME TypeOK, Counts, NEW p \in Procs, Steps(p) \/ Rename(p)
  PROVE  /\ Active(p) /\ \A q \in Procs : q # p => run'[q] = run[q]
         /\ \/ run'[p].pc = "idle"
            \/ run'[p].pc # "idle" /\ run'[p].met = run[p].met
         /\ last \in Nat /\ last' \in Nat /\ last <= last'
<1>. USE DEF At
<1>0. run[p] \in Runs
  BY DEF TypeOK
<1>1. Active(p)
  BY DEF Active, Steps, Inspect, InspectFails, Pick, Rename, MoveSidecars, CreateFresh,
         BeginBuild, Canceled, OpenGraph, BatchBegins, BatchCommits, ParseFails, Degrades,
         WriteFails, Record, Finish, Fail, Note, SetMetadata, Kill
<1>2. \A q \in Procs : q # p => run'[q] = run[q]
  <2>1. CASE Rename(p)
    BY <2>1 DEF Rename, Go, Set, TypeOK
  <2>. QED
    BY <2>1, StepShape
<1>3. ASSUME Set(p, Idle) PROVE run'[p].pc = "idle"
  BY <1>3, IdleFacts
<1>4. ASSUME NEW pc \in Pcs \ {"idle"}, Go(p, pc) \/ Return(p, pc)
      PROVE  run'[p].pc # "idle" /\ run'[p].met = run[p].met
  BY <1>4, GoFacts, ReturnFacts
<1>5. {"open", "commit", "fail", "finish", "meta", "sidecar", "create"} \subseteq Pcs \ {"idle"}
  BY DEF Pcs
<1>6. ASSUME Set(p, [run[p] EXCEPT !.pc = "begin", !.full = TRUE])
      PROVE  run'[p].pc # "idle" /\ run'[p].met = run[p].met
  <2>1. run'[p] = [run[p] EXCEPT !.pc = "begin", !.full = TRUE]
    BY <1>6 DEF Set, TypeOK
  <2>. QED
    BY <1>0, <2>1 DEF Runs
<1>7. ASSUME NEW S, Set(p, [run[p] EXCEPT !.pc = "write", !.store = Opened, !.todo = S])
      PROVE  run'[p].pc # "idle" /\ run'[p].met = run[p].met
  <2>1. run'[p] = [run[p] EXCEPT !.pc = "write", !.store = Opened, !.todo = S]
    BY <1>7 DEF Set, TypeOK
  <2>. QED
    BY <1>0, <2>1 DEF Runs
<1>8. ASSUME NEW f \in Files, BatchCommits(p, f)
      PROVE  run'[p].pc # "idle" /\ run'[p].met = run[p].met
  <2>1. run'[p] = [run[p] EXCEPT !.pc = "write", !.todo = @ \ {f}]
    BY <1>8 DEF BatchCommits, Set, TypeOK
  <2>. QED
    BY <1>0, <2>1 DEF Runs
<1>9. CASE Inspect(p)
  <2>1. PICK pc \in {"pick", "begin"} : run'[p] = [run[p] EXCEPT !.saw = path, !.pc = pc]
    BY <1>9 DEF Inspect, Set, TypeOK
  <2>. QED
    BY <1>0, <1>1, <1>2, <1>9, <2>1, StepShape, MovedKept DEF Runs, Steps
<1>10. CASE Pick(p) /\ path # NoDb
  <2>1. run'[p] = [run[p] EXCEPT !.pc = "rename", !.attempt = FreeAttempt]
    BY <1>10 DEF Pick, Set, TypeOK
  <2>2. run'[p].pc # "idle" /\ run'[p].met = run[p].met
    BY <1>0, <2>1 DEF Runs
  <2>. QED
    BY <1>1, <1>2, <1>10, <2>2, StepShape, MovedKept DEF Steps
<1>11. last \in Nat /\ last' \in Nat /\ last <= last'
  <2>1. CASE Rename(p)
    BY <2>1 DEF Rename, TypeOK
  <2>. QED
    BY <2>1, StepShape, MovedKept
<1>12. CASE Rename(p)
  BY <1>1, <1>2, <1>3, <1>4, <1>5, <1>11, <1>12 DEF Rename
<1>13. CASE Steps(p) /\ ~Inspect(p) /\ ~(Pick(p) /\ path # NoDb)
  <2>1. \/ Set(p, Idle) \/ (\E pc \in Pcs \ {"idle"} : Go(p, pc) \/ Return(p, pc))
        \/ Set(p, [run[p] EXCEPT !.pc = "begin", !.full = TRUE])
        \/ (\E S : Set(p, [run[p] EXCEPT !.pc = "write", !.store = Opened, !.todo = S]))
        \/ (\E f \in Files : BatchCommits(p, f))
        \/ Degrades(p) \/ (\E f \in Files : ParseFails(p, f))
    BY <1>5, <1>13
       DEF Steps, InspectFails, Pick, MoveSidecars, CreateFresh, BeginBuild, Canceled, OpenGraph,
           BatchBegins, WriteFails, Record, Finish, Fail, Note, SetMetadata, Kill
  <2>2. ASSUME Degrades(p) \/ \E f \in Files : ParseFails(p, f)
        PROVE  run'[p].pc # "idle" /\ run'[p].met = run[p].met
    BY <2>2, ShedFacts
  <2>3. run'[p].pc = "idle" \/ (run'[p].pc # "idle" /\ run'[p].met = run[p].met)
    BY <1>3, <1>4, <1>6, <1>7, <1>8, <2>1, <2>2
  <2>. QED
    BY <1>1, <1>2, <1>11, <2>3
<1>. QED
  BY <1>9, <1>10, <1>12, <1>13

\* No run is under way, and the graph is complete.
LEMMA FreshInit == Init => FreshInv
<1>. SUFFICES ASSUME Init PROVE FreshInv
  OBVIOUS
<1>1. \A p \in Procs : run[p] = Idle
  BY DEF Init
<1>2. \A i \in Dbs : db[i] = BuiltDb \/ db[i] = NewDb
  BY DEF Init
<1>3. Alone /\ \A p \in Procs : Begun(p) /\ Working(p)
  BY <1>1 DEF Alone, Begun, Working, Idle, Active, At
<1>4. \A i \in Dbs : Honest(i)
  BY <1>2 DEF Honest, Marked, BuiltDb, NewDb
<1>. QED
  BY <1>3, <1>4 DEF FreshInv

\* What a step of a run must see to: the database it changes is marked, and what others
\* are to write to it is not taken away.
LEMMA FreshRun ==
  ASSUME TypeOK, TypeOK', Counts, [Next]_vars, FreshInv,
         NEW p \in Procs, Steps(p) \/ Rename(p), Begun(p)', Working(p)',
         NEW d \in Dbs,
         \A i \in Dbs : i # d => db'[i].slices = db[i].slices /\ db'[i].state = db[i].state,
         \/ db'[d].slices = db[d].slices /\ db'[d].state = db[d].state
         \/ /\ Unblamed(d)' => Marked(d)'
            /\ Unblamed(d)' => \/ db[d].slices \subseteq db'[d].slices
                               \/ \A q \in Procs : Active(q) => q = p
         \/ /\ Honest(d)'
            /\ Unblamed(d)' => \A q \in Procs : run[q].pc \in Work => run[q].store # d
  PROVE  FreshInv'
<1>1. /\ Active(p) /\ \A q \in Procs : q # p => run'[q] = run[q]
      /\ \/ run'[p].pc = "idle"
         \/ run'[p].pc # "idle" /\ run'[p].met = run[p].met
      /\ last \in Nat /\ last' \in Nat /\ last <= last'
  BY RunShape
<1>2. \A i \in Dbs : blame[i] \subseteq blame'[i]
  BY Monotone
<1>3. \A i \in Dbs : Unblamed(i)' => Unblamed(i)
  BY <1>2 DEF Unblamed
<1>4. Alone'
  BY <1>1 DEF FreshInv, Alone, Active, At
<1>5. ASSUME NEW q \in Procs, q # p PROVE Begun(q)'
  BY <1>1, <1>5 DEF FreshInv, Alone, Begun, Active, At
<1>6. ASSUME NEW i \in Dbs PROVE Honest(i)'
  <2>1. Honest(i)
    BY DEF FreshInv
  <2>2. CASE db'[i].slices = db[i].slices /\ db'[i].state = db[i].state
    BY <1>3, <2>1, <2>2 DEF Honest, Marked
  <2>. QED
    BY <2>2 DEF Honest
<1>7. ASSUME NEW q \in Procs, q # p PROVE Working(q)'
  <2>1. Working(q) /\ run'[q] = run[q]
    BY <1>1, <1>7 DEF FreshInv
  <2>. SUFFICES ASSUME run[q].pc \in Work PROVE Working(q)'
    BY <2>1 DEF Working, Work
  <2>2. run[q].store \in 1..last /\ Active(q) /\ (run[q].pc = "finish" => run[q].todo = {})
    BY <2>1 DEF Working, Work, Active, At
  <2>3. PICK s \in Dbs : s = run[q].store
    BY <2>2 DEF TypeOK, Dbs
  <2>4. Unblamed(s) => /\ Marked(s)
                       /\ run[q].end = "built" => Files \ db[s].slices \subseteq run[q].todo
    BY <2>1, <2>3 DEF Working, Work
  <2>5. Unblamed(s)' => /\ Marked(s)'
                        /\ run[q].end = "built" => Files \ db'[s].slices \subseteq run[q].todo
    <3>1. CASE db'[s].slices = db[s].slices /\ db'[s].state = db[s].state
      BY <1>3, <2>4, <3>1 DEF Marked
    <3>. QED
      BY <1>3, <1>7, <2>2, <2>3, <2>4, <3>1
  <2>6. s \in 1..last'
    BY <1>1, <2>2, <2>3
  <2>. QED
    BY <2>1, <2>2, <2>3, <2>5, <2>6 DEF Working, Unblamed, Marked
<1>. QED
  BY <1>4, <1>5, <1>6, <1>7 DEF FreshInv

\* A run that looks, moves, ends or fails writes nothing.
LEMMA FreshLook ==
  ASSUME TypeOK, TypeOK', Counts, [Next]_vars, FreshInv, NEW p \in Procs,
         \/ Inspect(p) \/ InspectFails(p) \/ Pick(p) \/ Rename(p) \/ Canceled(p) \/ Kill(p)
         \/ WriteFails(p) \/ BatchBegins(p)
  PROVE  FreshInv'
<1>. USE DEF Keep
<1>0. run[p] \in Runs /\ Working(p)
  BY DEF TypeOK, FreshInv
<1>1. db' = db /\ 1 \in Dbs
  BY DEF Inspect, InspectFails, Pick, Rename, Canceled, Kill, WriteFails, BatchBegins, Dbs
<1>2. Begun(p)' /\ Working(p)'
  <2>1. CASE run'[p].pc \notin Work \cup {"open"}
    BY <2>1 DEF Begun, Working, Work
  <2>2. CASE Set(p, Idle)
    BY <2>1, <2>2, IdleFacts DEF Work
  <2>3. CASE Go(p, "sidecar") \/ Return(p, "fail")
    BY <2>1, <2>3, GoFacts, ReturnFacts DEF Pcs, Work
  <2>4. CASE Inspect(p)
    <3>1. PICK pc \in {"pick", "begin"} : run'[p] = [run[p] EXCEPT !.saw = path, !.pc = pc]
      BY <2>4 DEF Inspect, Set, TypeOK
    <3>2. run'[p].pc \in {"pick", "begin"}
      BY <1>0, <3>1 DEF Runs
    <3>. QED
      BY <2>1, <3>2 DEF Work
  <2>5. CASE Pick(p) /\ path # NoDb
    <3>1. run'[p] = [run[p] EXCEPT !.pc = "rename", !.attempt = FreeAttempt]
      BY <2>5 DEF Pick, Set, TypeOK
    <3>2. run'[p].pc = "rename"
      BY <1>0, <3>1 DEF Runs
    <3>. QED
      BY <2>1, <3>2 DEF Work
  <2>6. CASE BatchBegins(p)
    <3>1. Go(p, "commit") /\ run[p].pc = "write" /\ UNCHANGED <<db, last, blame>>
      BY <2>6 DEF BatchBegins, At
    <3>2. /\ run'[p].pc = "commit" /\ run'[p].store = run[p].store /\ run'[p].todo = run[p].todo
          /\ run'[p].end = run[p].end
      BY <3>1, GoFacts DEF Pcs
    <3>. QED
      BY <1>0, <3>1, <3>2 DEF Begun, Working, Unblamed, Marked
  <2>. QED
    BY <2>2, <2>3, <2>4, <2>5, <2>6 DEF InspectFails, Pick, Rename, Canceled, Kill, WriteFails
<1>3. Steps(p) \/ Rename(p)
  BY DEF Steps
<1>. QED
  BY <1>1, <1>2, <1>3, FreshRun

\* Files are left out: the run will not say built, or the graph is to blame.
LEMMA FreshShed ==
  ASSUME TypeOK, TypeOK', Counts, [Next]_vars, FreshInv, NEW p \in Procs,
         Degrades(p) \/ \E f \in Files : ParseFails(p, f)
  PROVE  FreshInv'
<1>0. run[p] \in Runs /\ Working(p) /\ Steps(p)
  BY DEF TypeOK, FreshInv, Steps
<1>1. /\ run[p].pc = "write" /\ run'[p].pc = "write" /\ run'[p].store = run[p].store
      /\ run'[p].end = "built" =>
           /\ run[p].end = "built"
           /\ \/ run'[p].todo = run[p].todo
              \/ run[p].store \in Dbs => "skipped" \in blame'[run[p].store]
      /\ db' = db /\ last' = last
      /\ \A i \in Dbs : blame[i] \subseteq blame'[i]
  BY ShedFacts
<1>2. run[p].store \in 1..last
  BY <1>0, <1>1 DEF Working
<1>3. PICK s \in Dbs : s = run[p].store
  BY <1>2 DEF TypeOK, Dbs
<1>4. Unblamed(s) => /\ Marked(s)
                     /\ run[p].end = "built" => Files \ db[s].slices \subseteq run[p].todo
  BY <1>0, <1>1, <1>3 DEF Working
<1>5. ASSUME Unblamed(s)'
      PROVE  /\ Marked(s)'
             /\ run'[p].end = "built" => Files \ db'[s].slices \subseteq run'[p].todo
  <2>1. "skipped" \notin blame'[s] /\ Unblamed(s)
    BY <1>1, <1>5 DEF Unblamed
  <2>. QED
    BY <1>1, <1>3, <1>4, <2>1 DEF Marked
<1>6. Begun(p)' /\ Working(p)'
  BY <1>1, <1>2, <1>3, <1>5 DEF Begun, Working, Unblamed, Marked
<1>7. \A i \in Dbs : db'[i].slices = db[i].slices /\ db'[i].state = db[i].state
  BY <1>1
<1>. QED
  BY <1>0, <1>3, <1>6, <1>7, FreshRun

\* The sidecars that are taken are those of a graph that is empty then, and that no one
\* works on without blame.
LEMMA FreshSidecars ==
  ASSUME TypeOK, TypeOK', Counts, [Next]_vars, FreshInv, SweptInv, NEW p \in Procs,
         MoveSidecars(p)
  PROVE  FreshInv'
<1>0. Steps(p) /\ 1 \in Dbs
  BY DEF Steps, Dbs
<1>1. /\ UNCHANGED <<path, last, quarantine, blame, runs, damage, kills>>
      /\ run[p].pc = "sidecar" /\ (Set(p, Idle) \/ Go(p, "create"))
      /\ \/ db' = db
         \/ /\ path \in Dbs /\ \A k \in Dbs : k # path => db'[k] = db[k]
            /\ db'[path].state = "none" /\ db'[path].slices = {}
  BY SidecarFacts
<1>2. run'[p].pc \in {"idle", "create"}
  BY <1>1, IdleFacts, GoFacts DEF Pcs
<1>3. Begun(p)' /\ Working(p)'
  BY <1>2 DEF Begun, Working
<1>4. CASE db' = db
  BY <1>0, <1>3, <1>4, FreshRun
<1>5. CASE /\ path \in Dbs /\ \A k \in Dbs : k # path => db'[k] = db[k]
           /\ db'[path].state = "none" /\ db'[path].slices = {}
  <2>1. PICK d \in Dbs : d = path
    BY <1>5
  <2>2. \A i \in Dbs : i # d => db'[i].slices = db[i].slices /\ db'[i].state = db[i].state
    BY <1>5, <2>1
  <2>3. Honest(d)'
    BY <1>5, <2>1 DEF Honest
  <2>4. Unblamed(d)' => \A q \in Procs : run[q].pc \in Work => run[q].store # d
    BY <1>1, <2>1 DEF SweptInv, Swept, Work, Unblamed
  <2>. QED
    BY <1>0, <1>3, <2>2, <2>3, <2>4, FreshRun
<1>. QED
  BY <1>1, <1>4, <1>5

\* The database is opened and its build state kept, or set to one that no tool answers from.
LEMMA FreshState ==
  ASSUME TypeOK, TypeOK', Counts, [Next]_vars, FreshInv, NEW p \in Procs, Steps(p),
         run'[p].pc \notin Work, Begun(p)',
         \/ Keep
         \/ \E st \in States : OpenAndSet(p, st) /\
              (st = StateOf(Opened) \/ st \in {"building", "degraded", "build_failed"})
  PROVE  FreshInv'
<1>1. Working(p)' /\ 1 \in Dbs
  BY DEF Working, Work, Dbs
<1>2. CASE Keep
  BY <1>1, <1>2, FreshRun DEF Keep
<1>3. ASSUME NEW st \in States, OpenAndSet(p, st),
             st = StateOf(Opened) \/ st \in {"building", "degraded", "build_failed"}
      PROVE  FreshInv'
  <2>1. /\ Opened \in Dbs
        /\ \A i \in Dbs : i # Opened => db'[i] = db[i]
        /\ db'[Opened].state = st /\ db'[Opened].slices = db[Opened].slices
    BY <1>3, OpenEffect
  <2>2. PICK d \in Dbs : d = Opened
    BY <2>1
  <2>3. \A i \in Dbs : i # d => db'[i].slices = db[i].slices /\ db'[i].state = db[i].state
    BY <2>1, <2>2
  <2>4. db'[d].state = st /\ db'[d].slices = db[d].slices
    BY <2>1, <2>2
  <2>5. \/ db'[d].slices = db[d].slices /\ db'[d].state = db[d].state
        \/ Marked(d)'
    BY <1>3, <2>2, <2>4 DEF StateOf, Marked
  <2>. QED
    BY <1>1, <2>3, <2>4, <2>5, FreshRun
<1>. QED
  BY <1>2, <1>3

\* Before the graph is opened, and after it was closed.
LEMMA FreshAround ==
  ASSUME TypeOK, TypeOK', Counts, [Next]_vars, FreshInv, NEW p \in Procs,
         CreateFresh(p) \/ BeginBuild(p) \/ Fail(p) \/ SetMetadata(p)
  PROVE  FreshInv'
<1>0. /\ run[p] \in Runs /\ Steps(p) /\ Opened \in Dbs /\ db \in [Dbs -> Databases]
      /\ path \in Dbs \cup {NoDb} /\ NoDb \notin Dbs
  BY OpenFacts DEF TypeOK, Steps, Databases, Dbs, NoDb
<1>1. StateOf(Opened) \in States /\ {"building", "build_failed"} \subseteq States
  BY <1>0 DEF StateOf, States, Databases
<1>2. \/ Keep
      \/ \E st \in States : OpenAndSet(p, st) /\
           (st = StateOf(Opened) \/ st \in {"building", "degraded", "build_failed"})
  BY <1>1 DEF CreateFresh, BeginBuild, Fail, Note, SetMetadata
<1>3. CASE run'[p].pc \notin Work \cup {"open"}
  <2>1. Begun(p)' /\ run'[p].pc \notin Work
    BY <1>3 DEF Begun
  <2>. QED
    BY <1>0, <1>2, <2>1, FreshState
<1>4. CASE Set(p, Idle)
  BY <1>3, <1>4, IdleFacts DEF Work
<1>5. CASE Return(p, "meta")
  BY <1>3, <1>5, ReturnFacts DEF Work, Pcs
<1>6. CASE Set(p, [run[p] EXCEPT !.pc = "begin", !.full = TRUE])
  <2>1. run'[p] = [run[p] EXCEPT !.pc = "begin", !.full = TRUE]
    BY <1>6 DEF Set, TypeOK
  <2>2. run'[p].pc = "begin"
    BY <1>0, <2>1 DEF Runs
  <2>. QED
    BY <1>3, <2>2 DEF Work
<1>7. CASE BeginBuild(p)
  <2>1. run'[p].pc = "open" /\ run'[p].met = run[p].met /\ Active(p)
    BY <1>7, GoFacts DEF BeginBuild, Pcs, Active, At
  <2>2. Begun(p)'
    <3>1. CASE OpenFails(p)
      <4>1. UNCHANGED <<path, db>>
        BY <1>7, <3>1 DEF BeginBuild, Keep
      <4>2. ASSUME "run" \notin run[p].met PROVE ~Locked(p, path)
        BY <2>1, <4>2 DEF FreshInv, Alone, Locked, Active, At
      <4>. QED
        BY <2>1, <3>1, <4>1, <4>2 DEF Begun, OpenFails
    <3>2. CASE ~OpenFails(p)
      <4>1. OpenAndSet(p, "building")
        BY <1>7, <3>2 DEF BeginBuild
      <4>2. path' = Opened /\ db'[Opened].state = "building"
        BY <1>1, <4>1, OpenEffect
      <4>. QED
        BY <1>0, <4>2 DEF Begun
    <3>. QED
      BY <3>1, <3>2
  <2>3. run'[p].pc \notin Work
    BY <2>1 DEF Work
  <2>. QED
    BY <1>0, <1>2, <2>2, <2>3, FreshState
<1>. QED
  BY <1>4, <1>5, <1>6, <1>7 DEF CreateFresh, Fail, Note, SetMetadata

\* The graph is opened: one that is not to blame is the one the run has marked, alone.
LEMMA FreshOpen ==
  ASSUME TypeOK, TypeOK', Counts, [Next]_vars, FreshInv, NEW p \in Procs, OpenGraph(p)
  PROVE  FreshInv'
<1>0. /\ run[p] \in Runs /\ Steps(p) /\ Opened \in Dbs /\ db \in [Dbs -> Databases]
      /\ blame \in [Dbs -> SUBSET Causes] /\ run[p].pc = "open" /\ Active(p) /\ Begun(p)
  BY OpenFacts DEF TypeOK, Steps, Databases, OpenGraph, At, Active, FreshInv
<1>1. CASE OpenFails(p)
  <2>1. Keep /\ run'[p].pc = "fail"
    BY <1>1, ReturnFacts DEF OpenGraph, Pcs
  <2>2. Begun(p)' /\ run'[p].pc \notin Work
    BY <2>1 DEF Begun, Work
  <2>. QED
    BY <1>0, <2>1, <2>2, FreshState
<1>2. CASE ~OpenFails(p)
  <2>1. /\ path' = Opened /\ last' = IF path = NoDb THEN Opened ELSE last
        /\ db' = IF run[p].full THEN [db EXCEPT ![Opened].slices = {}] ELSE db
        /\ blame' = [blame EXCEPT ![Opened] = @ \cup OpenCauses(p)]
    BY <1>2 DEF OpenGraph
  <2>2. PICK S \in IF run[p].full THEN {Files} ELSE SUBSET Files :
          run'[p] = [run[p] EXCEPT !.pc = "write", !.store = Opened, !.todo = S]
    BY <1>2 DEF OpenGraph, Set, TypeOK
  <2>3. run'[p].pc = "write" /\ run'[p].store = Opened /\ run'[p].todo = S
    BY <1>0, <2>2 DEF Runs
  <2>4. PICK d \in Dbs : d = Opened
    BY <1>0
  <2>5. Opened \in 1..last'
    BY <2>1 DEF Opened, TypeOK, NoDb
  <2>6. /\ \A i \in Dbs : i # d => db'[i] = db[i]
        /\ db'[d].state = db[d].state
        /\ db'[d].slices = IF run[p].full THEN {} ELSE db[d].slices
    <3>1. {} \in SUBSET Files
      OBVIOUS
    <3>2. CASE run[p].full
      <4>1. db' = [db EXCEPT ![d].slices = {}]
        BY <2>1, <2>4, <3>2
      <4>2. /\ \A i \in Dbs : i # d => db'[i] = db[i]
            /\ db'[d].state = db[d].state /\ db'[d].slices = {}
        BY <3>1, <4>1, SlicesWritten
      <4>. QED
        BY <3>2, <4>2
    <3>3. CASE ~run[p].full
      BY <2>1, <3>3
    <3>. QED
      BY <3>2, <3>3
  <2>7. OpenCauses(p) \subseteq blame'[d]
    BY <1>0, <2>1, <2>4
  <2>8. ASSUME Unblamed(d)'
        PROVE  /\ "run" \notin run[p].met /\ Marked(d)'
               /\ Files \ db'[d].slices \subseteq S
    <3>1. OpenCauses(p) = {}
      BY <2>7, <2>8 DEF Unblamed, OpenCauses
    <3>2. "run" \notin run[p].met /\ (~run[p].full => db[d].slices = Files)
      BY <2>4, <3>1 DEF OpenCauses
    <3>3. path # NoDb /\ db[path].state = "building"
      BY <1>0, <1>2, <3>2 DEF Begun, OpenFails
    <3>4. d = path
      BY <2>4, <3>3 DEF Opened
    <3>5. Marked(d)'
      BY <2>6, <3>3, <3>4 DEF Marked
    <3>6. Files \ db'[d].slices \subseteq S
      BY <2>2, <2>6, <3>2
    <3>. QED
      BY <3>2, <3>5, <3>6
  <2>9. Begun(p)' /\ Working(p)'
    <3>1. Begun(p)'
      BY <2>3 DEF Begun
    <3>2. Working(p)'
      BY <2>3, <2>4, <2>5, <2>8 DEF Working, Unblamed, Marked
    <3>. QED
      BY <3>1, <3>2
  <2>10. ASSUME Unblamed(d)' PROVE \A q \in Procs : Active(q) => q = p
    BY <1>0, <2>8, <2>10 DEF FreshInv, Alone
  <2>11. \A i \in Dbs : i # d => db'[i].slices = db[i].slices /\ db'[i].state = db[i].state
    BY <2>6
  <2>. QED
    BY <1>0, <2>8, <2>9, <2>10, <2>11, FreshRun
<1>. QED
  BY <1>1, <1>2

\* A slice is written, the last one is recorded: what was marked stays so.
LEMMA FreshWrite ==
  ASSUME TypeOK, TypeOK', Counts, [Next]_vars, FreshInv, NEW p \in Procs,
         (\E f \in Files : BatchCommits(p, f)) \/ Record(p)
  PROVE  FreshInv'
<1>0. /\ run[p] \in Runs /\ Steps(p) /\ db \in [Dbs -> Databases] /\ run[p].pc \in Work
      /\ Working(p) /\ UNCHANGED <<last, blame>>
  BY DEF TypeOK, Steps, Databases, BatchCommits, Record, At, Work, FreshInv
<1>1. PICK d \in Dbs : d = run[p].store
  BY <1>0 DEF Working, Work, TypeOK, Dbs
<1>2. /\ run[p].store \in 1..last
      /\ Unblamed(d) => /\ Marked(d)
                        /\ run[p].end = "built" => Files \ db[d].slices \subseteq run[p].todo
  BY <1>0, <1>1 DEF Working, Work
<1>3. db[d] \in Databases /\ db[d].slices \subseteq Files
  BY <1>0 DEF Databases
<1>4. ASSUME NEW f \in Files, BatchCommits(p, f) PROVE FreshInv'
  <2>1. db' = [db EXCEPT ![d].slices = db[d].slices \cup {f}]
    BY <1>1, <1>4 DEF BatchCommits
  <2>2. db[d].slices \cup {f} \in SUBSET Files
    BY <1>3
  <2>3. /\ \A i \in Dbs : i # d => db'[i] = db[i]
        /\ db'[d].slices = db[d].slices \cup {f} /\ db'[d].state = db[d].state
    BY <2>1, <2>2, SlicesWritten
  <2>4. run'[p] = [run[p] EXCEPT !.pc = "write", !.todo = @ \ {f}]
    BY <1>4 DEF BatchCommits, Set, TypeOK
  <2>5. /\ run'[p].pc = "write" /\ run'[p].store = d /\ run'[p].todo = run[p].todo \ {f}
        /\ run'[p].end = run[p].end
    BY <1>0, <1>1, <2>4 DEF Runs
  <2>6. Unblamed(d)' => /\ Marked(d)'
                        /\ run'[p].end = "built" => Files \ db'[d].slices \subseteq run'[p].todo
    BY <1>0, <1>2, <1>3, <2>3, <2>5 DEF Unblamed, Marked
  <2>7. Begun(p)' /\ Working(p)'
    BY <1>0, <1>1, <1>2, <2>5, <2>6 DEF Begun, Working, Unblamed, Marked
  <2>. QED
    BY <1>0, <2>3, <2>6, <2>7, FreshRun
<1>5. CASE Record(p)
  <2>1. \E st \in States : db' = [db EXCEPT ![d].state = st] /\
          (st = db[d].state \/ (st = "built" /\ db[d].state = "none"))
    BY <1>1, <1>3, <1>5 DEF Record, Databases, States
  <2>2. /\ \A i \in Dbs : i # d => db'[i] = db[i]
        /\ db'[d].slices = db[d].slices
        /\ db'[d].state = db[d].state \/ (db'[d].state = "built" /\ db[d].state = "none")
    BY <2>1, StateWritten
  <2>3. Go(p, "finish") /\ run[p].todo = {}
    BY <1>5 DEF Record
  <2>4. /\ run'[p].pc = "finish" /\ run'[p].store = d /\ run'[p].todo = {}
        /\ run'[p].end = run[p].end
    BY <1>1, <2>3, GoFacts DEF Pcs
  <2>5. Unblamed(d)' => /\ Marked(d)'
                        /\ run'[p].end = "built" => Files \ db'[d].slices \subseteq {}
    <3>. SUFFICES ASSUME Unblamed(d)'
                  PROVE  Marked(d)' /\ (run'[p].end = "built" => Files \ db'[d].slices \subseteq {})
      OBVIOUS
    <3>1. Marked(d) /\ (run[p].end = "built" => Files \ db[d].slices \subseteq {})
      BY <1>0, <1>2, <2>3 DEF Unblamed
    <3>. QED
      BY <2>2, <2>4, <3>1 DEF Marked
  <2>6. Begun(p)' /\ Working(p)'
    BY <1>0, <1>1, <1>2, <2>4, <2>5 DEF Begun, Working, Unblamed, Marked
  <2>. QED
    BY <1>0, <2>2, <2>5, <2>6, FreshRun
<1>. QED
  BY <1>4, <1>5

\* The run finishes: if it built what it notes as built, that is complete.
LEMMA FreshFinish ==
  ASSUME TypeOK, TypeOK', Counts, [Next]_vars, FreshInv, NEW p \in Procs, Finish(p)
  PROVE  FreshInv'
<1>0. /\ run[p] \in Runs /\ Steps(p) /\ db \in [Dbs -> Databases] /\ run[p].pc = "finish"
      /\ Working(p) /\ Opened \in Dbs /\ blame \in [Dbs -> SUBSET Causes] /\ "built" \in States
  BY OpenFacts DEF TypeOK, Steps, Databases, Finish, Note, At, FreshInv, States
<1>1. run'[p].pc \in {"idle", "meta"}
  BY IdleFacts, ReturnFacts DEF Finish, Note, Pcs
<1>2. Begun(p)' /\ Working(p)' /\ run'[p].pc \notin Work
  BY <1>1 DEF Begun, Working, Work
<1>3. CASE OpenFails(p)
  <2>1. Keep
    BY <1>3 DEF Finish, Note
  <2>. QED
    BY <1>0, <1>2, <2>1, FreshState
<1>4. CASE ~OpenFails(p) /\ run[p].end # "built"
  <2>1. OpenAndSet(p, run[p].end) /\ run[p].end \in {"degraded", "build_failed"}
    BY <1>0, <1>4 DEF Finish, Note, Runs, Ends
  <2>2. {"degraded", "build_failed"} \subseteq States
    BY DEF States
  <2>. QED
    BY <1>0, <1>2, <2>1, <2>2, FreshState
<1>5. CASE ~OpenFails(p) /\ run[p].end = "built"
  <2>1. OpenAndSet(p, "built")
    BY <1>5 DEF Finish, Note
  <2>2. PICK d \in Dbs : d = Opened
    BY <1>0
  <2>3. /\ \A i \in Dbs : i # d => db'[i] = db[i]
        /\ db'[d].slices = db[d].slices
    BY <1>0, <2>1, <2>2, OpenEffect
  <2>4. Unblamed(d)' => Marked(d)'
    <3>. SUFFICES ASSUME Unblamed(d)' PROVE Marked(d)'
      OBVIOUS
    <3>1. d = run[p].store /\ blame' = blame
      <4>1. CASE Opened = run[p].store
        BY <2>2, <4>1 DEF Finish, Note
      <4>2. CASE Opened # run[p].store
        <5>1. "split" \in blame'[d]
          BY <1>0, <2>2, <4>2 DEF Finish, Note
        <5>. QED
          BY <5>1 DEF Unblamed
      <4>. QED
        BY <4>1, <4>2
    <3>2. Files \ db[d].slices \subseteq {} /\ db[d].slices \subseteq Files
      BY <1>0, <1>5, <3>1 DEF Working, Unblamed, Databases
    <3>. QED
      BY <2>3, <3>2 DEF Marked
  <2>. QED
    BY <1>0, <1>2, <2>3, <2>4, FreshRun
<1>. QED
  BY <1>3, <1>4, <1>5

\* Another run starts, a reader creates a database, or one goes bad.
LEMMA FreshOthers ==
  ASSUME TypeOK, TypeOK', Counts, FreshInv,
         \/ ReaderOpens \/ Damage \/ UNCHANGED vars
         \/ \E p \in Procs : \E full \in BOOLEAN : Start(p, full)
  PROVE  FreshInv'
<1>. USE DEF Keep, KeepCounters
<1>0. blame' = blame /\ last \in Nat /\ last' \in Nat /\ last <= last'
  <2>1. blame' = blame /\ Opening
    BY DEF ReaderOpens, Damage, Start, vars, Opening
  <2>. QED
    BY <2>1, MovedKept
<1>1. ASSUME NEW i \in Dbs
      PROVE  db'[i].slices = db[i].slices /\ db'[i].state = db[i].state
  <2>1. CASE Damage
    BY <2>1 DEF Damage, TypeOK
  <2>. QED
    BY <2>1 DEF ReaderOpens, Start, vars
<1>2. ASSUME NEW q \in Procs, run'[q].pc \in Work \cup {"open"}
      PROVE  /\ run'[q].pc = run[q].pc /\ run'[q].store = run[q].store
             /\ run'[q].todo = run[q].todo /\ run[q].met \subseteq run'[q].met
             /\ run'[q].end = run[q].end
  <2>0. run[q] \in Runs
    BY DEF TypeOK
  <2>1. CASE ReaderOpens \/ UNCHANGED vars
    BY <2>1 DEF ReaderOpens, vars
  <2>2. CASE Damage
    <3>1. run'[q] = Meet(run[q], {"damage"})
      BY <2>2 DEF Damage
    <3>. QED
      BY <2>0, <3>1, MeetFacts
  <2>3. ASSUME NEW p \in Procs, NEW full \in BOOLEAN, Start(p, full)
        PROVE  /\ run'[q].pc = run[q].pc /\ run'[q].store = run[q].store
               /\ run'[q].todo = run[q].todo /\ run[q].met \subseteq run'[q].met
               /\ run'[q].end = run[q].end
    <3>. DEFINE others == IF Quiet THEN {} ELSE {"run"}
    <3>1. run'[q] = IF q = p THEN [Idle EXCEPT !.pc = "inspect", !.full = full, !.met = others]
                    ELSE Meet(run[q], others)
      BY <2>3 DEF Start
    <3>2. others \in SUBSET {"run", "damage"}
      OBVIOUS
    <3>. HIDE DEF others
    <3>3. q # p
      BY <1>2, <3>1 DEF Idle, Work
    <3>. QED
      BY <2>0, <3>1, <3>2, <3>3, MeetFacts
  <2>. QED
    BY <2>1, <2>2, <2>3
<1>3. ASSUME NEW i \in Dbs PROVE Honest(i)'
  BY <1>0, <1>1 DEF FreshInv, Honest, Unblamed, Marked
<1>4. ASSUME NEW q \in Procs PROVE Working(q)'
  <2>. SUFFICES ASSUME run'[q].pc \in Work PROVE Working(q)'
    BY DEF Working, Work
  <2>1. /\ run'[q].pc = run[q].pc /\ run'[q].store = run[q].store
        /\ run'[q].todo = run[q].todo /\ run'[q].end = run[q].end /\ Working(q)
    BY <1>2 DEF FreshInv
  <2>2. run[q].store \in 1..last /\ (run[q].pc = "finish" => run[q].todo = {})
    BY <2>1 DEF Working, Work
  <2>3. PICK s \in Dbs : s = run[q].store
    BY <2>2 DEF TypeOK, Dbs
  <2>4. Unblamed(s)' => /\ Marked(s)'
                        /\ run[q].end = "built" => Files \ db'[s].slices \subseteq run[q].todo
    BY <1>0, <1>1, <2>1, <2>3 DEF Working, Work, Unblamed, Marked
  <2>5. s \in 1..last'
    BY <1>0, <2>2, <2>3
  <2>. QED
    BY <2>1, <2>2, <2>3, <2>4, <2>5 DEF Working, Unblamed, Marked
<1>5. ASSUME NEW q \in Procs PROVE Begun(q)'
  <2>. SUFFICES ASSUME run'[q].pc = "open", "run" \notin run'[q].met PROVE Begun(q)'
    BY DEF Begun
  <2>1. /\ path # NoDb /\ (db[path].state = "building" \/ db[path].health = "corrupt")
    BY <1>2 DEF FreshInv, Begun
  <2>2. CASE ReaderOpens \/ UNCHANGED vars \/ \E p \in Procs : \E full \in BOOLEAN : Start(p, full)
    BY <2>1, <2>2 DEF ReaderOpens, Start, vars, Begun
  <2>3. CASE Damage
    <3>1. path \in Dbs
      BY <2>1 DEF TypeOK, Dbs, NoDb
    <3>2. db[path].state = "building" /\ path' = path
      BY <2>1, <2>3 DEF Damage, Bad
    <3>3. db'[path].state = db[path].state
      BY <1>1, <3>1
    <3>. QED
      BY <2>1, <3>2, <3>3 DEF Begun
  <2>. QED
    BY <2>2, <2>3
<1>6. Alone'
  <2>0. Alone
    BY DEF FreshInv
  <2>1. CASE ReaderOpens \/ UNCHANGED vars
    BY <2>0, <2>1 DEF ReaderOpens, vars, Alone, Active, At
  <2>2. CASE Damage
    <3>1. \A q \in Procs : /\ run'[q].pc = run[q].pc
                           /\ run[q].pc # "idle" => run'[q].met = run[q].met \cup {"damage"}
      <4>1. \A q \in Procs : run'[q] = Meet(run[q], {"damage"}) /\ run[q] \in Runs
        BY <2>2 DEF Damage, TypeOK
      <4>. QED
        BY <4>1, MeetFacts
    <3>. QED
      BY <2>0, <3>1 DEF Alone, Active, At
  <2>3. ASSUME NEW p \in Procs, NEW full \in BOOLEAN, Start(p, full) PROVE Alone'
    <3>. DEFINE others == IF Quiet THEN {} ELSE {"run"}
    <3>1. \A q \in Procs :
             run'[q] = IF q = p THEN [Idle EXCEPT !.pc = "inspect", !.full = full, !.met = others]
                       ELSE Meet(run[q], others)
      BY <2>3 DEF Start
    <3>2. others \in SUBSET {"run", "damage"} /\ \A q \in Procs : run[q] \in Runs
      BY DEF TypeOK
    <3>. HIDE DEF others
    <3>3. run'[p].met = others
      BY <3>1 DEF Idle
    <3>4. \A q \in Procs : q # p =>
             /\ run'[q].pc = run[q].pc
             /\ run[q].pc # "idle" => run'[q].met = run[q].met \cup others
      BY <3>1, <3>2, MeetFacts
    <3>5. CASE Quiet
      BY <3>4, <3>5 DEF Quiet, Alone, Active, At
    <3>6. CASE ~Quiet
      <4>1. others = {"run"}
        BY <3>6 DEF others
      <4>. QED
        BY <3>3, <3>4, <4>1 DEF Alone, Active, At
    <3>. QED
      BY <3>5, <3>6
  <2>. QED
    BY <2>1, <2>2, <2>3
<1>. QED
  BY <1>3, <1>4, <1>5, <1>6 DEF FreshInv

\* A run comes to work by opening the graph, and to the sidecars by moving a database.
LEMMA StoreShape ==
  ASSUME TypeOK, Counts, NEW p \in Procs, Steps(p) \/ Rename(p)
  PROVE  /\ run'[p].pc \in Work =>
              \/ run[p].pc \in Work /\ run'[p].store = run[p].store
              \/ OpenGraph(p) /\ ~OpenFails(p)
         /\ run'[p].pc = "sidecar" => Rename(p) /\ path' = NoDb
<1>0. run[p] \in Runs
  BY DEF TypeOK
<1>1. CASE Set(p, Idle)
  BY <1>1, IdleFacts DEF Work
<1>2. ASSUME NEW pc \in {"create", "open", "fail", "meta"}, Go(p, pc) \/ Return(p, pc)
      PROVE  run'[p].pc \notin Work \cup {"sidecar"}
  BY <1>2, GoFacts, ReturnFacts DEF Work, Pcs
<1>3. CASE BatchBegins(p) \/ Record(p)
  <2>1. run[p].pc \in Work /\ (Go(p, "commit") \/ Go(p, "finish"))
    BY <1>3 DEF BatchBegins, Record, Work, At
  <2>2. run'[p].pc \in {"commit", "finish"} /\ run'[p].store = run[p].store
    BY <2>1, GoFacts DEF Pcs
  <2>. QED
    BY <2>1, <2>2
<1>4. CASE Degrades(p) \/ \E f \in Files : ParseFails(p, f)
  <2>1. run[p].pc = "write" /\ run'[p].pc = "write" /\ run'[p].store = run[p].store
    BY <1>4, ShedFacts
  <2>. QED
    BY <2>1 DEF Work
<1>5. ASSUME NEW f \in Files, BatchCommits(p, f)
      PROVE  run[p].pc = "commit" /\ run'[p].pc = "write" /\ run'[p].store = run[p].store
  <2>1. run'[p] = [run[p] EXCEPT !.pc = "write", !.todo = @ \ {f}] /\ run[p].pc = "commit"
    BY <1>5 DEF BatchCommits, Set, TypeOK, At
  <2>. QED
    BY <1>0, <2>1 DEF Runs
<1>6. CASE OpenGraph(p) /\ ~OpenFails(p)
  <2>1. PICK S : run'[p] = [run[p] EXCEPT !.pc = "write", !.store = Opened, !.todo = S]
    BY <1>6 DEF OpenGraph, Set, TypeOK
  <2>2. run'[p].pc = "write"
    BY <1>0, <2>1 DEF Runs
  <2>. QED
    BY <1>6, <2>2
<1>7. CASE Rename(p) /\ path # NoDb
  <2>1. Go(p, "sidecar") /\ path' = NoDb
    BY <1>7 DEF Rename
  <2>2. run'[p].pc = "sidecar"
    BY <2>1, GoFacts DEF Pcs
  <2>. QED
    BY <1>7, <2>1, <2>2 DEF Work
<1>8. CASE Inspect(p)
  <2>1. PICK pc \in {"pick", "begin"} : run'[p] = [run[p] EXCEPT !.saw = path, !.pc = pc]
    BY <1>8 DEF Inspect, Set, TypeOK
  <2>2. run'[p].pc \in {"pick", "begin"}
    BY <1>0, <2>1 DEF Runs
  <2>. QED
    BY <2>2 DEF Work
<1>9. CASE Pick(p) /\ path # NoDb
  <2>1. run'[p] = [run[p] EXCEPT !.pc = "rename", !.attempt = FreeAttempt]
    BY <1>9 DEF Pick, Set, TypeOK
  <2>2. run'[p].pc = "rename"
    BY <1>0, <2>1 DEF Runs
  <2>. QED
    BY <2>2 DEF Work
<1>10. CASE Set(p, [run[p] EXCEPT !.pc = "begin", !.full = TRUE])
  <2>1. run'[p] = [run[p] EXCEPT !.pc = "begin", !.full = TRUE]
    BY <1>10 DEF Set, TypeOK
  <2>2. run'[p].pc = "begin"
    BY <1>0, <2>1 DEF Runs
  <2>. QED
    BY <2>2 DEF Work
<1>11. \/ Set(p, Idle)
       \/ \E pc \in {"create", "open", "fail", "meta"} : Go(p, pc) \/ Return(p, pc)
       \/ BatchBegins(p) \/ Record(p) \/ Degrades(p)
       \/ (\E f \in Files : BatchCommits(p, f) \/ ParseFails(p, f))
       \/ (OpenGraph(p) /\ ~OpenFails(p)) \/ (Rename(p) /\ path # NoDb)
       \/ Inspect(p) \/ (Pick(p) /\ path # NoDb)
       \/ Set(p, [run[p] EXCEPT !.pc = "begin", !.full = TRUE])
  BY DEF Steps, Rename, InspectFails, Pick, MoveSidecars, CreateFresh, BeginBuild, Canceled,
         OpenGraph, WriteFails, Finish, Fail, Note, SetMetadata, Kill
<1>. QED
  BY <1>1, <1>2, <1>3, <1>4, <1>5, <1>6, <1>7, <1>8, <1>9, <1>10, <1>11 DEF Work

\* Whoever opens the database of another run that is moving sidecars has met that run.
LEMMA SweptStep ==
  TypeOK /\ Counts /\ FreshInv /\ SweptInv /\ [Next]_vars => SweptInv'
<1>. SUFFICES ASSUME TypeOK, Counts, FreshInv, SweptInv, [Next]_vars PROVE SweptInv'
  OBVIOUS
<1>0. \A i \in Dbs : blame[i] \subseteq blame'[i]
  BY Monotone
<1>1. ASSUME NEW q \in Procs, run[q].pc \in Work
      PROVE  run[q].store \in 1..last /\ run[q].store \in Dbs
  BY <1>1 DEF FreshInv, Working, Work, TypeOK, Dbs
<1>2. ASSUME NEW r \in Procs, NEW q \in Procs, run[r].pc = "sidecar", run[q].pc \in Work,
             Opening, run[q].store = path'
      PROVE  "overlap" \in blame'[path']
  <2>1. path' = path /\ path \in Dbs
    BY <1>1, <1>2, MovedKept
  <2>. QED
    BY <1>0, <1>2, <2>1 DEF SweptInv, Swept, Work
<1>3. ASSUME NEW p \in Procs, Steps(p) \/ Rename(p) PROVE SweptInv'
  <2>. SUFFICES ASSUME NEW r \in Procs, NEW q \in Procs, run'[r].pc = "sidecar",
                       run'[q].pc \in Work, run'[q].store = path'
                PROVE  "overlap" \in blame'[path']
    BY DEF SweptInv, Swept, Work
  <2>1. /\ \A k \in Procs : k # p => run'[k] = run[k]
        /\ Active(p)
    BY <1>3, RunShape
  <2>2. /\ run'[p].pc \in Work =>
             \/ run[p].pc \in Work /\ run'[p].store = run[p].store
             \/ OpenGraph(p) /\ ~OpenFails(p)
        /\ run'[p].pc = "sidecar" => Rename(p) /\ path' = NoDb
    BY <1>3, StoreShape
  <2>3. CASE r = p
    <3>1. q # p
      BY <2>3 DEF Work
    <3>2. run[q].pc \in Work /\ run[q].store = NoDb
      BY <2>1, <2>2, <2>3, <3>1
    <3>. QED
      BY <1>1, <3>2 DEF NoDb
  <2>4. CASE r # p /\ ~(OpenGraph(p) /\ ~OpenFails(p) /\ q = p)
    <3>1. run[r].pc = "sidecar" /\ run[q].pc \in Work /\ run[q].store = path'
      BY <2>1, <2>2, <2>4
    <3>2. CASE Rename(p)
      <4>1. path' = path \/ path' = NoDb
        BY <3>2 DEF Rename
      <4>2. run[q].store \in 1..last /\ run[q].store \in Dbs
        BY <1>1, <3>1
      <4>3. path' = path /\ path \in Dbs
        BY <3>1, <4>1, <4>2 DEF NoDb
      <4>. QED
        BY <1>0, <3>1, <4>3 DEF SweptInv, Swept, Work
    <3>3. CASE Steps(p)
      BY <1>2, <3>1, <3>3, StepShape
    <3>. QED
      BY <1>3, <3>2, <3>3
  <2>5. CASE r # p /\ OpenGraph(p) /\ ~OpenFails(p)
    <3>1. run[r].pc = "sidecar" /\ Active(r)
      BY <2>1, <2>5 DEF Active, At
    <3>2. "run" \in run[p].met
      BY <2>1, <2>5, <3>1 DEF FreshInv, Alone
    <3>3. /\ path' = Opened /\ blame' = [blame EXCEPT ![Opened] = @ \cup OpenCauses(p)]
          /\ Opened \in Dbs
      BY <2>5, OpenFacts DEF OpenGraph
    <3>4. "overlap" \in OpenCauses(p)
      BY <3>2 DEF OpenCauses
    <3>. QED
      BY <3>3, <3>4 DEF TypeOK
  <2>. QED
    BY <2>3, <2>4, <2>5
<1>4. CASE ReaderOpens \/ UNCHANGED vars
  <2>1. Opening /\ run' = run
    BY <1>4 DEF ReaderOpens, vars, Opening
  <2>. QED
    BY <1>2, <2>1 DEF SweptInv, Swept, Work
<1>5. ASSUME Damage \/ \E p \in Procs : \E full \in BOOLEAN : Start(p, full) PROVE SweptInv'
  <2>1. Opening
    BY <1>5 DEF Damage, Start, Keep, Opening
  <2>2. ASSUME NEW q \in Procs, run'[q].pc \in Work \cup {"sidecar"}
        PROVE  run'[q].pc = run[q].pc /\ run'[q].store = run[q].store
    <3>0. run[q] \in Runs
      BY DEF TypeOK
    <3>1. CASE Damage
      <4>1. run'[q] = Meet(run[q], {"damage"})
        BY <3>1 DEF Damage
      <4>. QED
        BY <3>0, <4>1, MeetFacts
    <3>2. ASSUME NEW p \in Procs, NEW full \in BOOLEAN, Start(p, full)
          PROVE  run'[q].pc = run[q].pc /\ run'[q].store = run[q].store
      <4>. DEFINE others == IF Quiet THEN {} ELSE {"run"}
      <4>1. run'[q] = IF q = p THEN [Idle EXCEPT !.pc = "inspect", !.full = full, !.met = others]
                      ELSE Meet(run[q], others)
        BY <3>2 DEF Start
      <4>2. others \in SUBSET {"run", "damage"}
        OBVIOUS
      <4>. HIDE DEF others
      <4>3. q # p
        BY <2>2, <4>1 DEF Idle, Work
      <4>. QED
        BY <3>0, <4>1, <4>2, <4>3, MeetFacts
    <3>. QED
      BY <1>5, <3>1, <3>2
  <2>. SUFFICES ASSUME NEW r \in Procs, NEW q \in Procs, run'[r].pc = "sidecar",
                       run'[q].pc \in Work, run'[q].store = path'
                PROVE  "overlap" \in blame'[path']
    BY DEF SweptInv, Swept, Work
  <2>3. run[r].pc = "sidecar" /\ run[q].pc \in Work /\ run[q].store = path'
    BY <2>2
  <2>. QED
    BY <1>2, <2>1, <2>3
<1>. QED
  BY <1>3, <1>4, <1>5 DEF Next, Steps

\* Every step keeps the invariant.
LEMMA FreshStep ==
  TypeOK /\ Counts /\ FreshInv /\ SweptInv /\ [Next]_vars => FreshInv'
<1>. SUFFICES ASSUME TypeOK, Counts, FreshInv, SweptInv, [Next]_vars PROVE FreshInv'
  OBVIOUS
<1>0. TypeOK'
  BY TypeStep
<1>. QED
  BY <1>0, FreshOthers, FreshLook, FreshShed, FreshSidecars, FreshAround, FreshOpen,
     FreshWrite, FreshFinish DEF Next

\* No run is under way.
LEMMA SweptInit == Init => SweptInv
BY DEF Init, SweptInv, Swept, Idle

\* A graph that tools answer from is complete unless one of the causes is to blame.
THEOREM FreshGraphIsComplete == Spec => []FreshIsComplete
<1>1. Spec => [](TypeOK /\ Counts /\ FreshInv /\ SweptInv)
  BY TypeInit, TypeStep, FreshInit, FreshStep, SweptInit, SweptStep, PTL DEF Spec
<1>2. TypeOK /\ FreshInv => FreshIsComplete
  <2>. SUFFICES ASSUME TypeOK, FreshInv, path # NoDb, Fresh(path), Unblamed(path)
                PROVE  db[path].slices = Files
    BY DEF FreshIsComplete, Unblamed
  <2>1. path \in Dbs
    BY DEF TypeOK, Dbs, NoDb
  <2>. QED
    BY <2>1 DEF FreshInv, Honest, Marked, Fresh
<1>. QED
  BY <1>1, <1>2, PTL

-----------------------------------------------------------------------------
(* A run that no one interferes with.                                      *)

SoloInv == Unborn /\ \A p \in Procs : Solo(p)

\* No run is under way, and nothing is known of databases to come.
LEMMA SoloInit == Init => SoloInv
<1>. SUFFICES ASSUME Init PROVE SoloInv
  OBVIOUS
<1>1. \A p \in Procs : run[p] = Idle
  BY DEF Init
<1>2. Unborn
  BY DEF Init, Unborn, Dbs, NoDb
<1>. QED
  BY <1>1, <1>2 DEF SoloInv, Solo, Idle

\* What opening finds is healthy where what was there is.
LEMMA OpenedIsOk ==
  ASSUME TypeOK, Counts, Unborn, path = NoDb \/ ~Bad(path)
  PROVE  db[Opened].health = "ok"
<1>1. CASE path = NoDb
  <2>1. Opened \in Dbs /\ Opened > last
    BY <1>1, OpenFacts DEF Opened, TypeOK
  <2>. QED
    BY <2>1 DEF Unborn, NewDb
<1>. QED
  BY <1>1 DEF Opened, Bad

\* Only what was created is written to.
LEMMA UnbornStep ==
  ASSUME TypeOK, Counts, FreshInv, Unborn, [Next]_vars
  PROVE  Unborn'
<1>. USE DEF Keep, KeepCounters
<1>0. db \in [Dbs -> Databases] /\ Opened \in Dbs /\ last \in Nat
  BY OpenFacts DEF TypeOK, Databases
<1>1. ASSUME db' = db, last' \in Nat, last <= last' PROVE Unborn'
  BY <1>0, <1>1 DEF Unborn, Dbs
<1>2. ASSUME NEW p \in Procs, Steps(p) \/ Rename(p) PROVE Unborn'
  <2>0. last' \in Nat /\ last <= last'
    BY <1>2, RunShape
  <2>1. ASSUME NEW d \in Dbs, d <= last', \A i \in Dbs : i # d => db'[i] = db[i] PROVE Unborn'
    BY <1>0, <2>0, <2>1 DEF Unborn, Dbs
  <2>2. /\ StateOf(Opened) \in States /\ {"building", "built", "build_failed"} \subseteq States
        /\ run[p].end \in States
    BY <1>0 DEF StateOf, States, Databases, TypeOK, Runs, Ends
  <2>3. ASSUME path' = Opened, last' = IF path = NoDb THEN Opened ELSE last PROVE Opened <= last'
    BY <1>0, <2>3 DEF Opened, TypeOK, NoDb
  <2>4. ASSUME NEW st \in States, OpenAndSet(p, st) PROVE Unborn'
    <3>1. PICK d \in Dbs : d = Opened
      BY <1>0
    <3>2. d <= last'
      BY <2>3, <2>4, <3>1 DEF OpenAndSet
    <3>3. \A i \in Dbs : i # d => db'[i] = db[i]
      BY <2>4, <3>1, OpenEffect
    <3>. QED
      BY <2>1, <3>2, <3>3
  <2>5. CASE OpenGraph(p) /\ ~OpenFails(p)
    <3>1. PICK d \in Dbs : d = Opened
      BY <1>0
    <3>2. d <= last'
      BY <2>3, <2>5, <3>1 DEF OpenGraph
    <3>3. \A i \in Dbs : i # d => db'[i] = db[i]
      BY <1>0, <2>5, <3>1 DEF OpenGraph
    <3>. QED
      BY <2>1, <3>2, <3>3
  <2>6. CASE (\E f \in Files : BatchCommits(p, f)) \/ Record(p)
    <3>1. run[p].store \in 1..last
      BY <2>6 DEF FreshInv, Working, BatchCommits, Record, At
    <3>2. PICK d \in Dbs : d = run[p].store
      BY <3>1 DEF TypeOK, Dbs
    <3>3. \A i \in Dbs : i # d => db'[i] = db[i]
      BY <1>0, <2>6, <3>2 DEF BatchCommits, Record
    <3>. QED
      BY <1>0, <2>0, <2>1, <3>1, <3>2, <3>3
  <2>7. CASE MoveSidecars(p) /\ db' # db
    <3>1. path \in Dbs /\ path' = path /\ last' = last /\ \A k \in Dbs : k # path => db'[k] = db[k]
      BY <2>7, SidecarFacts
    <3>2. PICK d \in Dbs : d = path
      BY <3>1
    <3>3. d <= last'
      BY <3>1, <3>2 DEF TypeOK, NoDb, Dbs
    <3>. QED
      BY <2>1, <3>1, <3>2, <3>3
  <2>. QED
    BY <1>1, <1>2, <2>0, <2>2, <2>4, <2>5, <2>6, <2>7
       DEF Steps, Rename, Inspect, InspectFails, Pick, CreateFresh, BeginBuild, Canceled,
           OpenGraph, BatchBegins, ParseFails, Degrades, WriteFails, Finish, Fail, Note,
           SetMetadata, Kill
<1>3. CASE ReaderOpens \/ UNCHANGED vars \/ \E p \in Procs : \E full \in BOOLEAN : Start(p, full)
  <2>1. db' = db /\ Opening
    BY <1>3 DEF ReaderOpens, vars, Start, Opening
  <2>. QED
    BY <1>1, <2>1, MovedKept
<1>4. CASE Damage
  BY <1>0, <1>4 DEF Damage, Unborn, TypeOK, NoDb
<1>. QED
  BY <1>2, <1>3, <1>4 DEF Next, Steps

\* A step of one run does not concern another that is alone.
LEMMA SoloOther ==
  ASSUME TypeOK, Counts, FreshInv, NEW p \in Procs, Steps(p) \/ Rename(p),
         NEW q \in Procs, q # p
  PROVE  Solo(q)'
<1>1. Active(p) /\ run'[q] = run[q]
  BY RunShape
<1>2. run[q].met = {} => run[q].pc = "idle"
  BY <1>1 DEF FreshInv, Alone, Active, At
<1>. QED
  BY <1>1, <1>2 DEF Solo

\* A run that is alone takes the sidecars of a database a reader created, at worst.
LEMMA SoloSidecars ==
  ASSUME TypeOK, Counts, NEW p \in Procs, Solo(p), MoveSidecars(p)
  PROVE  Solo(p)'
<1>0. run[p] \in Runs
  BY DEF TypeOK
<1>1. /\ path' = path /\ run[p].pc = "sidecar"
      /\ \/ Set(p, Idle) /\ db' = db
         \/ Go(p, "create")
      /\ db' = db \/ db'[path].health \in {db[path].health, "corrupt"}
  BY SidecarFacts DEF MoveSidecars
<1>2. CASE Set(p, Idle)
  BY <1>2, IdleFacts DEF Solo
<1>3. CASE Go(p, "create")
  <2>1. run'[p].pc = "create" /\ run'[p].met = run[p].met
    BY <1>3, GoFacts DEF Pcs
  <2>2. run[p].met = {} => path = NoDb \/ db[path].health = "ok"
    BY <1>1 DEF Solo, Bad
  <2>. QED
    BY <1>1, <2>1, <2>2 DEF Solo
<1>. QED
  BY <1>1, <1>2, <1>3

\* A run that is alone, before it opens the graph.
LEMMA SoloPrepare ==
  ASSUME TypeOK, Counts, Unborn, NEW p \in Procs, Solo(p),
         \/ Inspect(p) \/ InspectFails(p) \/ Pick(p) \/ Rename(p)
         \/ CreateFresh(p) \/ BeginBuild(p)
  PROVE  Solo(p)'
<1>. USE DEF Keep
<1>0. /\ run[p] \in Runs /\ Opened \in Dbs
      /\ path \in Dbs \cup {NoDb}
  BY OpenFacts DEF TypeOK, Dbs, NoDb
<1>1. \A i \in Dbs : db'[i].health = db[i].health
  BY HealthKept
<1>2. CASE Set(p, Idle)
  <2>1. run'[p].pc = "idle"
    BY <1>2, IdleFacts
  <2>. QED
    BY <2>1 DEF Solo
<1>3. CASE Inspect(p)
  <2>. DEFINE pc == IF path # NoDb /\ (OpenFails(p) \/ Bad(path)) THEN "pick" ELSE "begin"
  <2>1. /\ run'[p] = [run[p] EXCEPT !.saw = path, !.pc = pc] /\ UNCHANGED <<path, db>>
        /\ pc \in {"pick", "begin"} /\ (pc = "begin" => path = NoDb \/ ~Bad(path))
    BY <1>3 DEF Inspect, Set, TypeOK
  <2>. HIDE DEF pc
  <2>2. run'[p].saw = path /\ run'[p].pc = pc
    BY <1>0, <2>1 DEF Runs
  <2>. QED
    BY <2>1, <2>2 DEF Solo, Bad
<1>4. CASE Pick(p) /\ path # NoDb
  <2>1. run'[p] = [run[p] EXCEPT !.pc = "rename", !.attempt = FreeAttempt]
    BY <1>4 DEF Pick, Set, TypeOK
  <2>2. run'[p].pc = "rename"
    BY <1>0, <2>1 DEF Runs
  <2>. QED
    BY <2>2 DEF Solo
<1>5. CASE Rename(p) /\ path # NoDb
  <2>1. run'[p].pc = "sidecar" /\ path' = NoDb
    BY <1>5, GoFacts DEF Rename, Pcs
  <2>. QED
    BY <2>1 DEF Solo
<1>6. ASSUME path = NoDb \/ ~Bad(path), Keep \/ \E st : OpenAndSet(p, st)
      PROVE  path' = NoDb \/ db'[path'].health = "ok"
  <2>1. path = NoDb \/ ~Bad(path)
    BY <1>6
  <2>2. CASE Keep
    BY <2>1, <2>2 DEF Bad
  <2>3. CASE \E st : OpenAndSet(p, st)
    <3>1. path' = Opened /\ db[Opened].health = "ok"
      BY <2>1, <2>3, OpenedIsOk DEF OpenAndSet
    <3>2. PICK d \in Dbs : d = Opened
      BY <1>0
    <3>. QED
      BY <1>1, <3>1, <3>2
  <2>. QED
    BY <1>6, <2>2, <2>3
<1>7. CASE CreateFresh(p) /\ ~OpenFails(p)
  <2>1. run'[p] = [run[p] EXCEPT !.pc = "begin", !.full = TRUE] /\ run[p].pc = "create"
    BY <1>7 DEF CreateFresh, Set, TypeOK, At
  <2>2. run'[p].pc = "begin" /\ run'[p].full = TRUE /\ run'[p].met = run[p].met
    BY <1>0, <2>1 DEF Runs
  <2>3. run[p].met = {} => path' = NoDb \/ db'[path'].health = "ok"
    <3>. SUFFICES ASSUME run[p].met = {} PROVE path' = NoDb \/ db'[path'].health = "ok"
      OBVIOUS
    <3>1. path # NoDb => db[path].health \in {"ok", "corrupt", "inconsistent"}
      BY <1>0 DEF TypeOK, Healths
    <3>2. path = NoDb \/ ~Bad(path)
      BY <1>7, <2>1, <3>1 DEF Solo, OpenFails, Bad
    <3>. QED
      BY <1>6, <1>7, <3>2 DEF CreateFresh
  <2>. QED
    BY <2>2, <2>3 DEF Solo, Bad
<1>8. CASE BeginBuild(p)
  <2>1. /\ run'[p].pc = "open" /\ run'[p].full = run[p].full /\ run'[p].met = run[p].met
        /\ run'[p].saw = run[p].saw /\ run[p].pc = "begin" /\ run[p].saw \in Dbs \cup {NoDb}
    BY <1>0, <1>8, GoFacts DEF BeginBuild, At, Pcs, Runs
  <2>2. run[p].met = {} => path' = NoDb \/ db'[path'].health = "ok"
    BY <1>6, <1>8, <2>1 DEF BeginBuild, Solo
  <2>3. run[p].saw # NoDb => db'[run[p].saw].health = db[run[p].saw].health
    BY <1>1, <2>1
  <2>. QED
    BY <2>1, <2>2, <2>3 DEF Solo, Bad
<1>. QED
  BY <1>2, <1>3, <1>4, <1>5, <1>7, <1>8 DEF InspectFails, Pick, Rename, CreateFresh

\* A run that is alone, at work on the graph and after it.
LEMMA SoloWork ==
  ASSUME TypeOK, Counts, Unborn, FreshInv, NEW p \in Procs, Solo(p),
         \/ Canceled(p) \/ OpenGraph(p) \/ BatchBegins(p) \/ WriteFails(p) \/ Record(p)
         \/ (\E f \in Files : BatchCommits(p, f) \/ ParseFails(p, f)) \/ Degrades(p)
         \/ Finish(p) \/ Fail(p) \/ SetMetadata(p) \/ Kill(p)
  PROVE  Solo(p)'
<1>. USE DEF Keep
<1>0. /\ run[p] \in Runs /\ Opened \in Dbs /\ path \in Dbs \cup {NoDb}
      /\ db \in [Dbs -> Databases] /\ run[p].saw \in Dbs \cup {NoDb} /\ NoDb \notin Dbs
  BY OpenFacts DEF TypeOK, Dbs, NoDb, Databases, Runs
<1>1. \A i \in Dbs : db'[i].health = db[i].health
  BY HealthKept
<1>2. CASE run'[p].pc \in {"idle", "fail", "meta"}
  BY <1>2 DEF Solo
<1>3. CASE Set(p, Idle)
  BY <1>2, <1>3, IdleFacts
<1>4. CASE Return(p, "fail") \/ Return(p, "meta")
  BY <1>2, <1>4, ReturnFacts DEF Pcs
<1>5. CASE OpenGraph(p) /\ ~OpenFails(p)
  <2>1. /\ path' = Opened /\ run[p].pc = "open"
        /\ db' = IF run[p].full THEN [db EXCEPT ![Opened].slices = {}] ELSE db
    BY <1>5 DEF OpenGraph, At
  <2>2. PICK S \in IF run[p].full THEN {Files} ELSE SUBSET Files :
          run'[p] = [run[p] EXCEPT !.pc = "write", !.store = Opened, !.todo = S]
    BY <1>5 DEF OpenGraph, Set, TypeOK
  <2>3. /\ run'[p].pc = "write" /\ run'[p].store = Opened /\ run'[p].todo = S
        /\ run'[p].met = run[p].met /\ run'[p].full = run[p].full /\ run'[p].saw = run[p].saw
    BY <1>0, <2>2 DEF Runs
  <2>4. PICK d \in Dbs : d = Opened
    BY <1>0
  <2>5. run[p].met = {} => db'[d].health = "ok"
    BY <1>1, <2>1, <2>4, OpenedIsOk DEF Solo
  <2>6. run[p].full => Files \ db'[d].slices \subseteq S
    BY <2>2
  <2>7. run[p].saw # NoDb => db'[run[p].saw].health = db[run[p].saw].health
    BY <1>0, <1>1
  <2>. QED
    BY <1>0, <2>1, <2>3, <2>4, <2>5, <2>6, <2>7 DEF Solo, Bad
<1>6. CASE BatchBegins(p)
  <2>1. Go(p, "commit") /\ run[p].pc = "write" /\ UNCHANGED <<path, db>>
    BY <1>6 DEF BatchBegins, At
  <2>2. /\ run'[p].pc = "commit" /\ run'[p].store = run[p].store /\ run'[p].todo = run[p].todo
        /\ run'[p].end = run[p].end /\ run'[p].left = run[p].left
        /\ run'[p].met = run[p].met /\ run'[p].full = run[p].full /\ run'[p].saw = run[p].saw
    BY <2>1, GoFacts DEF Pcs
  <2>. QED
    BY <2>1, <2>2 DEF Solo, Bad
<1>7. ASSUME run[p].pc \in Work, path' = path, run'[p].pc \in Work,
             run'[p].met = run[p].met, run'[p].full = run[p].full, run'[p].saw = run[p].saw,
             run'[p].store = run[p].store, run'[p].pc = "finish" => run'[p].todo = {},
             run[p].full /\ run[p].met = {} /\ run'[p].end = "built" =>
               Files \ db'[path].slices \subseteq run'[p].todo \cup run'[p].left
      PROVE  Solo(p)'
  <2>1. path # NoDb => db'[path].health = db[path].health
    BY <1>0, <1>1
  <2>2. run[p].saw # NoDb => db'[run[p].saw].health = db[run[p].saw].health
    BY <1>0, <1>1
  <2>. QED
    BY <1>7, <2>1, <2>2 DEF Solo, Bad, Work
<1>8. ASSUME NEW f \in Files, BatchCommits(p, f) PROVE Solo(p)'
  <2>1. run'[p] = [run[p] EXCEPT !.pc = "write", !.todo = @ \ {f}] /\ run[p].pc \in Work
    BY <1>8 DEF BatchCommits, Set, TypeOK, Work, At
  <2>2. /\ run'[p].pc = "write" /\ run'[p].store = run[p].store
        /\ run'[p].todo = run[p].todo \ {f}
        /\ run'[p].end = run[p].end /\ run'[p].left = run[p].left
        /\ run'[p].met = run[p].met /\ run'[p].full = run[p].full /\ run'[p].saw = run[p].saw
    BY <1>0, <2>1 DEF Runs
  <2>3. path' = path /\ db' = [db EXCEPT ![run[p].store].slices = @ \cup {f}]
    BY <1>8 DEF BatchCommits
  <2>4. ASSUME run[p].full, run[p].met = {}, run'[p].end = "built"
        PROVE  Files \ db'[path].slices \subseteq run'[p].todo \cup run'[p].left
    <3>1. /\ path = run[p].store /\ path \in Dbs
          /\ Files \ db[path].slices \subseteq run[p].todo \cup run[p].left
      BY <1>0, <2>1, <2>2, <2>4 DEF Solo, Work
    <3>2. db'[path].slices = db[path].slices \cup {f}
      BY <1>0, <2>3, <3>1 DEF Databases
    <3>. QED
      BY <2>2, <3>1, <3>2
  <2>. QED
    BY <1>7, <2>1, <2>2, <2>3, <2>4 DEF Work
<1>9. CASE Record(p)
  <2>1. Go(p, "finish") /\ run[p].pc \in Work /\ path' = path /\ run[p].todo = {}
    BY <1>9 DEF Record, At, Work
  <2>2. /\ run'[p].pc = "finish" /\ run'[p].store = run[p].store /\ run'[p].todo = {}
        /\ run'[p].end = run[p].end /\ run'[p].left = run[p].left
        /\ run'[p].met = run[p].met /\ run'[p].full = run[p].full /\ run'[p].saw = run[p].saw
    BY <2>1, GoFacts DEF Pcs
  <2>3. ASSUME run[p].full, run[p].met = {}, run'[p].end = "built"
        PROVE  Files \ db'[path].slices \subseteq run'[p].todo \cup run'[p].left
    <3>1. /\ path = run[p].store /\ path \in Dbs
          /\ Files \ db[path].slices \subseteq run[p].todo \cup run[p].left
      BY <1>0, <2>1, <2>2, <2>3 DEF Solo, Work
    <3>2. db'[path].slices = db[path].slices
      BY <1>0, <1>9, <3>1 DEF Databases, Record
    <3>. QED
      BY <2>1, <2>2, <3>1, <3>2
  <2>. QED
    BY <1>7, <2>1, <2>2, <2>3 DEF Work
<1>10. CASE Degrades(p) \/ \E f \in Files : ParseFails(p, f)
  <2>1. /\ run[p].pc = "write" /\ run'[p].pc = "write" /\ path' = path /\ db' = db
        /\ run'[p].store = run[p].store
        /\ run'[p].met = run[p].met /\ run'[p].full = run[p].full /\ run'[p].saw = run[p].saw
        /\ run'[p].end = "built" =>
             /\ run[p].end = "built"
             /\ run[p].todo \subseteq run'[p].todo \cup run'[p].left
             /\ run[p].left \subseteq run'[p].left
    BY <1>10, ShedFacts
  <2>2. ASSUME run[p].full, run[p].met = {}, run'[p].end = "built"
        PROVE  Files \ db'[path].slices \subseteq run'[p].todo \cup run'[p].left
    <3>1. Files \ db[path].slices \subseteq run[p].todo \cup run[p].left
      BY <2>1, <2>2 DEF Solo
    <3>. QED
      BY <2>1, <2>2, <3>1
  <2>. QED
    BY <1>7, <2>1, <2>2 DEF Work
<1>. QED
  BY <1>3, <1>4, <1>5, <1>6, <1>8, <1>9, <1>10
     DEF Canceled, OpenGraph, WriteFails, Finish, Fail, Note, SetMetadata, Kill

\* A run that meets another, or damage, is no longer alone.
LEMMA SoloOthers ==
  ASSUME TypeOK, Counts, SoloInv,
         \/ ReaderOpens \/ Damage \/ UNCHANGED vars
         \/ \E p \in Procs : \E full \in BOOLEAN : Start(p, full),
         NEW q \in Procs
  PROVE  Solo(q)'
<1>0. run[q] \in Runs /\ Solo(q) /\ Opened \in Dbs
  BY OpenFacts DEF TypeOK, SoloInv
<1>1. CASE ReaderOpens
  <2>1. path = NoDb /\ path' = Opened /\ UNCHANGED <<db, run>>
    BY <1>1 DEF ReaderOpens, Opened
  <2>2. db[Opened].health = "ok"
    BY <2>1, OpenedIsOk DEF SoloInv
  <2>. QED
    BY <1>0, <2>1, <2>2 DEF Solo, Bad
<1>2. CASE UNCHANGED vars
  BY <1>0, <1>2 DEF vars, Solo, Bad
<1>3. CASE Damage
  <2>1. run'[q] = Meet(run[q], {"damage"})
    BY <1>3 DEF Damage
  <2>2. run'[q].pc = "idle" \/ "damage" \in run'[q].met
    BY <1>0, <2>1, MeetFacts
  <2>. QED
    BY <2>2 DEF Solo
<1>4. ASSUME NEW p \in Procs, NEW full \in BOOLEAN, Start(p, full) PROVE Solo(q)'
  <2>. DEFINE others == IF Quiet THEN {} ELSE {"run"}
  <2>1. run'[q] = IF q = p THEN [Idle EXCEPT !.pc = "inspect", !.full = full, !.met = others]
                  ELSE Meet(run[q], others)
    BY <1>4 DEF Start
  <2>2. others \in SUBSET {"run", "damage"}
    OBVIOUS
  <2>3. run[q].pc # "idle" => others = {"run"}
    BY DEF Quiet, Active, At
  <2>. HIDE DEF others
  <2>4. CASE q = p
    <3>1. run'[q].pc = "inspect"
      BY <2>1, <2>4 DEF Idle
    <3>. QED
      BY <3>1 DEF Solo
  <2>5. CASE q # p
    <3>1. run'[q].pc = "idle" \/ "run" \in run'[q].met
      BY <1>0, <2>1, <2>2, <2>3, <2>5, MeetFacts
    <3>. QED
      BY <3>1 DEF Solo
  <2>. QED
    BY <2>4, <2>5
<1>. QED
  BY <1>1, <1>2, <1>3, <1>4

\* Every step keeps the invariant.
LEMMA SoloStep ==
  TypeOK /\ Counts /\ FreshInv /\ SoloInv /\ [Next]_vars => SoloInv'
<1>. SUFFICES ASSUME TypeOK, Counts, FreshInv, SoloInv, [Next]_vars PROVE SoloInv'
  OBVIOUS
<1>1. Unborn'
  BY UnbornStep DEF SoloInv
<1>2. ASSUME NEW p \in Procs, Steps(p) \/ Rename(p), NEW q \in Procs PROVE Solo(q)'
  <2>1. Solo(p) /\ Unborn
    BY DEF SoloInv
  <2>. QED
    BY <1>2, <2>1, SoloOther, SoloPrepare, SoloSidecars, SoloWork DEF Steps
<1>. QED
  BY <1>1, <1>2, SoloOthers DEF Next, Steps, SoloInv

\* Only the end of a run is noted at its end.
LEMMA FinishStep ==
  ASSUME TypeOK, Counts, [Next]_vars, NEW p \in Procs,
         run[p].pc = "finish", run'[p].pc = "meta"
  PROVE  Finish(p) /\ ~OpenFails(p)
<1>0. run[p] \in Runs
  BY DEF TypeOK
<1>1. ASSUME NEW q \in Procs, Steps(q) \/ Rename(q) PROVE Finish(p) /\ ~OpenFails(p)
  <2>1. q = p
    BY <1>1, RunShape
  <2>2. Finish(p) \/ Kill(p)
    BY <1>1, <2>1
       DEF Steps, Rename, Inspect, InspectFails, Pick, MoveSidecars, CreateFresh, BeginBuild,
           Canceled, OpenGraph, BatchBegins, BatchCommits, ParseFails, Degrades, WriteFails,
           Record, Finish, Fail, Note, SetMetadata, At
  <2>3. ~Set(p, Idle)
    BY IdleFacts
  <2>. QED
    BY <2>2, <2>3 DEF Kill, Finish, Note
<1>2. CASE ReaderOpens \/ UNCHANGED vars
  BY <1>2 DEF ReaderOpens, vars
<1>3. CASE Damage
  <2>1. run'[p] = Meet(run[p], {"damage"})
    BY <1>3 DEF Damage
  <2>. QED
    BY <1>0, <2>1, MeetFacts
<1>4. ASSUME NEW q \in Procs, NEW full \in BOOLEAN, Start(q, full) PROVE FALSE
  <2>. DEFINE others == IF Quiet THEN {} ELSE {"run"}
  <2>1. run'[p] = IF p = q THEN [Idle EXCEPT !.pc = "inspect", !.full = full, !.met = others]
                  ELSE Meet(run[p], others)
    BY <1>4 DEF Start
  <2>2. others \in SUBSET {"run", "damage"}
    OBVIOUS
  <2>. HIDE DEF others
  <2>3. p # q
    BY <1>4 DEF Start, Active, At
  <2>. QED
    BY <1>0, <2>1, <2>2, <2>3, MeetFacts
<1>. QED
  BY <1>1, <1>2, <1>3, <1>4 DEF Next, Steps

\* A build, or an update that found the database bad, that no one interferes with and that
\* comes to its end leaves a healthy database that says how it ended, and says built only
\* with a slice of every file that could be read, whatever happened before it.
THEOREM SoloRunsHeal == Spec => SoloRunHeals
<1>1. Spec => [](TypeOK /\ Counts /\ FreshInv /\ SweptInv /\ SoloInv)
  BY TypeInit, TypeStep, FreshInit, FreshStep, SweptInit, SweptStep, SoloInit, SoloStep, PTL
     DEF Spec
<1>. DEFINE Heals ==
       \A p \in Procs :
         run[p].met = {} /\ At(p, "finish") /\ run'[p].pc = "meta"
           /\ (run[p].full \/ (run[p].saw # NoDb /\ Bad(run[p].saw)))
         => /\ path' # NoDb /\ ~Bad(path)'
            /\ Fresh(path)' <=> run[p].end = "built"
            /\ run[p].end = "built" => Files \ run[p].left \subseteq db'[path'].slices
<1>2. TypeOK /\ Counts /\ FreshInv /\ SoloInv /\ [Next]_vars => Heals
  <2>. SUFFICES ASSUME TypeOK, Counts, FreshInv, SoloInv, [Next]_vars, NEW p \in Procs,
                       run[p].met = {}, run[p].pc = "finish", run'[p].pc = "meta",
                       run[p].full \/ (run[p].saw # NoDb /\ Bad(run[p].saw))
                PROVE  /\ path' # NoDb /\ ~Bad(path)'
                       /\ Fresh(path)' <=> run[p].end = "built"
                       /\ run[p].end = "built" => Files \ run[p].left \subseteq db'[path'].slices
    BY DEF At
  <2>1. Finish(p) /\ ~OpenFails(p) /\ Solo(p)
    BY FinishStep DEF SoloInv
  <2>2. OpenAndSet(p, run[p].end) /\ run[p].end \in {"built", "degraded", "build_failed"}
    BY <2>1 DEF Finish, Note, TypeOK, Runs, Ends
  <2>3. /\ path # NoDb /\ ~Bad(path)
        /\ run[p].end = "built" => Files \ db[path].slices \subseteq run[p].left
    BY <2>1 DEF Solo
  <2>4. path \in Dbs /\ Opened = path /\ run[p].end \in States
    BY <2>2, <2>3 DEF TypeOK, Dbs, NoDb, Opened, States
  <2>5. /\ path' = path /\ db'[path].state = run[p].end /\ db'[path].health = db[path].health
        /\ db'[path].slices = db[path].slices
    BY <2>2, <2>4, OpenEffect
  <2>6. path' # NoDb /\ db'[path'].health = "ok"
    BY <2>3, <2>5 DEF Bad
  <2>7. Fresh(path)' <=> run[p].end = "built"
    BY <2>2, <2>5, <2>6 DEF Fresh, Bad
  <2>. QED
    BY <2>3, <2>5, <2>6, <2>7 DEF Bad
<1>. QED
  BY <1>1, <1>2, PTL DEF Spec, SoloRunHeals
=============================================================================
