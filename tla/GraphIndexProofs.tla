-------------------------- MODULE GraphIndexProofs --------------------------
(***************************************************************************)
(* Proofs about GraphIndex: the types, the scheme of last_indexed_ref      *)
(* (NoOtherCause) and the runs that leave a current graph                  *)
(* (SettledIsCurrent), for every number of files, contents, processes,     *)
(* edits and runs.                                                         *)
(***************************************************************************)
EXTENDS GraphIndex, TLAPS

-----------------------------------------------------------------------------
(* The inductive invariant.                                                *)

\* The file differs from the commit that was recorded and from the one that would
\* be: nothing that is done to its slice can go unnoticed.
Stray(f) == work[f] # head[f] /\ (ref # NoRef => work[f] # ref[f])

\* Something that a run does not finish: it reports it, or leaves a cause.
Flagged(r) == r.skipped \/ r.blocked \/ r.partial \/ r.lost

\* The run is going to read this file as it is.
Reads(r, f) == f \in r.todo /\ work[f] \notin {Absent, r.known[f]}

\* A build that has cleared slices, or is about to, restores this one, or is known
\* not to.
Owes(r, f) ==
  /\ r.target = "build"
  /\ \/ r.pc = "delete"
     \/ r.pc = "parse" /\ (Reads(r, f) \/ r.parsed[f] = work[f] \/ Flagged(r))

Owed(f) == \E q \in Procs : Owes(run[q], f)

\* The run makes the slice match the file as it is.
Handles(r, f) ==
  \/ Reads(r, f)
  \/ r.parsed[f] = work[f]
  \/ f \in r.dels /\ work[f] = Absent
  \/ r.target = "build" /\ r.pc = "delete" /\ work[f] # Absent

\* Nothing has happened that a clean end of the run would not make good.
Trusted(r) == r.pc # "idle" /\ r.disturbed \cap Causes = {}
              /\ (blame = {} \/ "overlap" \notin r.disturbed)

\* A build covers everything; a default update does if it has a commit to compare
\* with and nothing escaped it before.
Covers(r) == r.target = "build" \/ (r.target = "worktree" /\ ~r.fresh /\ blame = {})

Working == {"delete", "parse", "deps", "write"}

\* Which steps a run has behind it.
StepOK(r) ==
  /\ r.pc \in {"idle", "list", "delete", "finish"} => \A f \in Files : r.parsed[f] = Unread
  /\ r.pc # "delete" => r.dels = {}
  /\ r.pc \in {"write", "finish"} => r.todo = {}
  /\ r.pc \in {"deps", "write"} => r.target # "build"
  /\ r.target # "build" => r.known = NoSlices
StepsOK == \A p \in Procs : StepOK(run[p])

\* What has disturbed a run is blamed; one that nobody overlapped is alone.
Noted == \A p \in Procs :
  Active(p) => /\ run[p].disturbed \cap Causes \subseteq blame
               /\ "overlap" \notin run[p].disturbed => \A q \in Procs \ {p} : ~Active(q)

\* A run that holds an older content of a file, or is about to delete the slice of
\* a file that is back, does so to a stray file.
StaleOf(r) == \A f \in Files :
  /\ r.parsed[f] \notin {Unread, work[f]} => Stray(f)
  /\ r.target # "build" /\ f \in r.dels /\ Visible(f) /\ work[f] # Absent => Stray(f)
Stale == \A p \in Procs : Trusted(run[p]) => StaleOf(run[p])

\* What a run that covers everything has done so far, or will do.
Claims(r) == Trusted(r) /\ Covers(r) /\ r.pc \in Working /\ ~Flagged(r)
ProgressOf(r) == \A f \in Files :
  Visible(f) /\ head[f] = work[f] /\ graph[f] # work[f] =>
    Handles(r, f) \/ (graph[f] = Absent /\ Owed(f))
Progress == \A p \in Procs : Claims(run[p]) => ProgressOf(run[p])

\* The scheme, with runs under way.
Scheme == blame = {} /\ ref # NoRef =>
  \A f \in Files : Visible(f) /\ ref[f] = work[f] /\ graph[f] # work[f] =>
    graph[f] = Absent /\ Owed(f)

SchemeInv == TypeOK /\ StepsOK /\ Noted /\ Stale /\ Progress /\ Scheme

\* An undisturbed run has read the files as they are.
ExactOf(r) == r.disturbed = {} => \A f \in Files :
  /\ r.parsed[f] \in {Unread, work[f]}
  /\ r.target # "build" /\ f \in r.dels /\ Visible(f) => work[f] = Absent

\* An undisturbed run that covers everything handles whatever does not match.
SettlingOf(r) ==
  r.disturbed = {} /\ ~Flagged(r) /\ Covers(r) /\ r.pc \in Working \cup {"finish"} =>
    \A f \in Files : Visible(f) /\ graph[f] # work[f] => Handles(r, f)

\* The first update alone records a commit at its end, and is blamed for it.
FirstOf(r) ==
  /\ r.target = "worktree" /\ r.fresh /\ r.disturbed = {}
  /\ r.pc # "idle" /\ ref # NoRef
  => blame # {}

Settling == \A p \in Procs : ExactOf(run[p]) /\ SettlingOf(run[p]) /\ FirstOf(run[p])

SettledParts == Settling /\ (settled => Quiet) /\ SettledIsCurrent
SettledInv == SchemeInv /\ SettledParts

-----------------------------------------------------------------------------
(* What a step makes of a run, field by field.                             *)

Become(p, s) == run' = [run EXCEPT ![p] = s]
SameFlags(s, r) ==
  /\ s.partial = r.partial /\ s.blocked = r.blocked
  /\ s.lost = r.lost /\ s.skipped = r.skipped
SameNames(s, r) ==
  s.target = r.target /\ s.disturbed = r.disturbed /\ s.fresh = r.fresh /\ s.known = r.known

LEMMA ListFacts ==
  ASSUME TypeOK, NEW p \in Procs, ListSlices(p)
  PROVE  \E s \in Runs :
           /\ Become(p, s) /\ SameFlags(s, run[p]) /\ SameNames(s, run[p])
           /\ s.pc = "delete" /\ s.dels = {f \in Files : graph[f] # Absent}
           /\ s.todo = run[p].todo /\ s.parsed = run[p].parsed
<1>1. PICK r \in Runs : r = run[p]
  BY DEF TypeOK
<1> DEFINE d == {f \in Files : graph[f] # Absent}
           s == [r EXCEPT !.pc = "delete", !.dels = d]
<1>2. s \in Runs
  BY DEF Runs, Pcs
<1>3. SameFlags(s, r) /\ SameNames(s, r) /\ s.pc = "delete" /\ s.dels = d
      /\ s.todo = r.todo /\ s.parsed = r.parsed
  BY DEF Runs, SameFlags, SameNames
<1>4. Become(p, s)
  BY <1>1 DEF ListSlices, Set, Become
<1> QED
  BY <1>1, <1>2, <1>3, <1>4

LEMMA DetectFacts ==
  ASSUME TypeOK, NEW p \in Procs, DetectChanges(p)
  PROVE  \E s \in Runs : \E changes \in Changes(run[p].target) : \E kept \in SUBSET changes :
           /\ Become(p, s)
           /\ s.target = run[p].target /\ s.disturbed = run[p].disturbed
           /\ s.known = run[p].known /\ s.parsed = run[p].parsed
           /\ s.blocked = run[p].blocked /\ s.lost = run[p].lost /\ s.skipped = run[p].skipped
           /\ s.pc = "delete"
           /\ s.dels = {f \in kept : IsDeletion(run[p].target, f)}
           /\ s.todo = kept \ s.dels
           /\ s.partial = (kept # changes) /\ s.fresh = (ref = NoRef)
<1>1. PICK r \in Runs : r = run[p]
  BY DEF TypeOK
<1>2. r.target \in Targets /\ r.target # "build"
  BY <1>1 DEF DetectChanges, Runs
<1>3. PICK changes \in Changes(run[p].target) : \E kept \in SUBSET changes :
        LET gone == {f \in kept : IsDeletion(run[p].target, f)}
        IN  Set(p, [run[p] EXCEPT !.pc = "delete", !.dels = gone,
                             !.todo = kept \ gone, !.mine = kept \ gone,
                             !.partial = kept # changes, !.fresh = ref = NoRef])
  BY DEF DetectChanges
<1>4. PICK kept \in SUBSET changes :
        LET gone == {f \in kept : IsDeletion(run[p].target, f)}
        IN  Set(p, [run[p] EXCEPT !.pc = "delete", !.dels = gone,
                             !.todo = kept \ gone, !.mine = kept \ gone,
                             !.partial = kept # changes, !.fresh = ref = NoRef])
  BY <1>3
<1> DEFINE gone == {f \in kept : IsDeletion(r.target, f)}
           part == kept # changes
           new == ref = NoRef
           s == [r EXCEPT !.pc = "delete", !.dels = gone, !.todo = kept \ gone,
                          !.mine = kept \ gone, !.partial = part, !.fresh = new]
<1>5. changes \subseteq Files
  BY <1>1, <1>2 DEF Changes, Targets, DiffDefault, DiffStaged, DiffTree, DiffIndex
<1>6. gone \in SUBSET Files /\ kept \ gone \in SUBSET Files /\ part \in BOOLEAN /\ new \in BOOLEAN
  BY <1>5
<1>7. Become(p, s)
  BY <1>1, <1>4 DEF Set, Become
<1> HIDE DEF gone, part, new
<1>8. s \in Runs
  BY <1>6 DEF Runs, Pcs
<1>9. /\ s.target = r.target /\ s.disturbed = r.disturbed
      /\ s.known = r.known /\ s.parsed = r.parsed
      /\ s.blocked = r.blocked /\ s.lost = r.lost /\ s.skipped = r.skipped
      /\ s.pc = "delete" /\ s.dels = gone /\ s.todo = kept \ gone
      /\ s.partial = part /\ s.fresh = new
  BY DEF Runs
<1> HIDE DEF s
<1>10. gone = {f \in kept : IsDeletion(r.target, f)} /\ part = (kept # changes) /\ new = (ref = NoRef)
  BY DEF gone, part, new
<1> QED
  BY <1>1, <1>7, <1>8, <1>9, <1>10

LEMMA DeleteFacts ==
  ASSUME TypeOK, NEW p \in Procs, NEW f \in Files, DeleteSlice(p, f)
  PROVE  \E s \in Runs :
           /\ Become(p, s) /\ SameFlags(s, run[p]) /\ SameNames(s, run[p])
           /\ s.pc = "delete" /\ s.dels = run[p].dels \ {f}
           /\ s.todo = run[p].todo /\ s.parsed = run[p].parsed
<1>1. PICK r \in Runs : r = run[p]
  BY DEF TypeOK
<1> DEFINE s == [r EXCEPT !.dels = r.dels \ {f}]
<1>2. s \in Runs
  BY DEF Runs
<1>3. SameFlags(s, r) /\ SameNames(s, r) /\ s.pc = r.pc /\ s.dels = r.dels \ {f}
      /\ s.todo = r.todo /\ s.parsed = r.parsed
  BY DEF Runs, SameFlags, SameNames
<1>4. Become(p, s) /\ r.pc = "delete"
  BY <1>1 DEF DeleteSlice, Set, Become, At
<1> QED
  BY <1>1, <1>2, <1>3, <1>4

LEMMA ScanFacts ==
  ASSUME TypeOK, NEW p \in Procs, Scan(p)
  PROVE  \E s \in Runs :
           /\ Become(p, s) /\ SameFlags(s, run[p])
           /\ s.target = run[p].target /\ s.disturbed = run[p].disturbed /\ s.fresh = run[p].fresh
           /\ s.pc = "parse" /\ s.dels = {} /\ s.parsed = run[p].parsed
           /\ IF s.target = "build"
              THEN s.known = graph /\ s.todo = {f \in Files : work[f] # Absent}
              ELSE s.known = run[p].known /\ s.todo = run[p].todo
<1>1. PICK r \in Runs : r = run[p]
  BY DEF TypeOK
<1>2. r.dels = {}
  BY <1>1 DEF Scan
<1>3. CASE r.target = "build"
  <2> DEFINE d == {f \in Files : work[f] # Absent}
             s == [r EXCEPT !.pc = "parse", !.known = graph, !.todo = d]
  <2>1. s \in Runs
    BY DEF Runs, Pcs, TypeOK
  <2>2. SameFlags(s, r) /\ s.target = r.target /\ s.disturbed = r.disturbed /\ s.fresh = r.fresh
        /\ s.pc = "parse" /\ s.dels = r.dels /\ s.parsed = r.parsed /\ s.known = graph /\ s.todo = d
    BY DEF Runs, SameFlags
  <2>3. Become(p, s)
    BY <1>1, <1>3 DEF Scan, Set, Become
  <2> QED
    BY <1>1, <1>2, <1>3, <2>1, <2>2, <2>3
<1>4. CASE r.target # "build"
  <2> DEFINE s == [r EXCEPT !.pc = "parse"]
  <2>1. s \in Runs
    BY DEF Runs, Pcs, TypeOK
  <2>2. SameFlags(s, r) /\ s.target = r.target /\ s.disturbed = r.disturbed /\ s.fresh = r.fresh
        /\ s.pc = "parse" /\ s.dels = r.dels /\ s.parsed = r.parsed /\ s.known = r.known
        /\ s.todo = r.todo
    BY DEF Runs, SameFlags
  <2>3. Become(p, s)
    BY <1>1, <1>4 DEF Scan, Set, Become
  <2> QED
    BY <1>1, <1>2, <1>4, <2>1, <2>2, <2>3
<1> QED
  BY <1>3, <1>4

LEMMA ParseFacts ==
  ASSUME TypeOK, NEW p \in Procs, NEW f \in Files, ParseFile(p, f)
  PROVE  \E s \in Runs :
           /\ Become(p, s) /\ SameFlags(s, run[p]) /\ SameNames(s, run[p])
           /\ s.pc = run[p].pc /\ s.pc \in {"parse", "deps"} /\ s.dels = run[p].dels
           /\ s.todo = run[p].todo \ {f}
           /\ \A g \in Files : s.parsed[g] =
                IF g = f /\ Reads(run[p], f) THEN work[f] ELSE run[p].parsed[g]
<1>1. PICK r \in Runs : r = run[p]
  BY DEF TypeOK
<1> DEFINE new == IF work[f] \in {Absent, r.known[f]} THEN r.parsed
                  ELSE [r.parsed EXCEPT ![f] = work[f]]
           s == [r EXCEPT !.todo = r.todo \ {f}, !.parsed = new]
<1>2. work[f] \in Values /\ r.parsed \in [Files -> Values \cup {Unread}]
  BY DEF TypeOK, Trees, Runs
<1>3. new \in [Files -> Values \cup {Unread}]
  BY <1>2
<1>4. f \in r.todo /\ r.pc \in {"parse", "deps"}
  BY <1>1 DEF ParseFile, At
<1>5. \A g \in Files : new[g] = IF g = f /\ Reads(r, f) THEN work[f] ELSE r.parsed[g]
  BY <1>2, <1>4 DEF Reads
<1>6. Become(p, s)
  BY <1>1 DEF ParseFile, Set, Become
<1> HIDE DEF new
<1>7. s \in Runs
  BY <1>3 DEF Runs
<1>8. SameFlags(s, r) /\ SameNames(s, r) /\ s.pc = r.pc /\ s.dels = r.dels
      /\ s.todo = r.todo \ {f} /\ s.parsed = new
  BY DEF Runs, SameFlags, SameNames
<1> HIDE DEF s
<1> QED
  BY <1>1, <1>4, <1>5, <1>6, <1>7, <1>8

\* A file is left out: the run is flagged.
LEMMA DropFacts ==
  ASSUME TypeOK, NEW p \in Procs, BudgetStops(p) \/ \E f \in Files : ParseFails(p, f)
  PROVE  \E s \in Runs :
           /\ Become(p, s) /\ SameNames(s, run[p]) /\ Flagged(s)
           /\ s.pc = run[p].pc /\ s.pc \in {"parse", "deps"} /\ s.dels = run[p].dels
           /\ s.todo \subseteq run[p].todo /\ s.parsed = run[p].parsed
<1>1. PICK r \in Runs : r = run[p]
  BY DEF TypeOK
<1>2. r.pc \in {"parse", "deps"}
  BY <1>1 DEF BudgetStops, ParseFails, At
<1>3. \E T \in SUBSET r.todo :
        \/ Become(p, [r EXCEPT !.todo = T, !.skipped = TRUE])
        \/ Become(p, [r EXCEPT !.todo = T, !.skipped = TRUE, !.blocked = TRUE])
        \/ Become(p, [r EXCEPT !.todo = T, !.partial = TRUE])
  <2>1. CASE BudgetStops(p)
    <3>1. PICK S \in SUBSET r.todo : Set(p, [run[p] EXCEPT !.todo = @ \ S, !.partial = TRUE])
      BY <1>1, <2>1 DEF BudgetStops
    <3>2. r.todo \ S \in SUBSET r.todo
      OBVIOUS
    <3>3. Become(p, [r EXCEPT !.todo = r.todo \ S, !.partial = TRUE])
      BY <1>1, <3>1 DEF Set, Become
    <3> QED
      BY <3>2, <3>3
  <2>2. ASSUME NEW f \in Files, ParseFails(p, f)
        PROVE  \E T \in SUBSET r.todo :
                 \/ Become(p, [r EXCEPT !.todo = T, !.skipped = TRUE])
                 \/ Become(p, [r EXCEPT !.todo = T, !.skipped = TRUE, !.blocked = TRUE])
                 \/ Become(p, [r EXCEPT !.todo = T, !.partial = TRUE])
    <3>1. CASE Set(p, [run[p] EXCEPT !.todo = @ \ {f}, !.skipped = TRUE])
      <4>1. Become(p, [r EXCEPT !.todo = r.todo \ {f}, !.skipped = TRUE])
        BY <1>1, <3>1 DEF Set, Become
      <4>2. r.todo \ {f} \in SUBSET r.todo
        OBVIOUS
      <4> QED
        BY <4>1, <4>2
    <3>2. CASE Set(p, [run[p] EXCEPT !.todo = {}, !.skipped = TRUE, !.blocked = TRUE])
      <4>1. Become(p, [r EXCEPT !.todo = {}, !.skipped = TRUE, !.blocked = TRUE])
        BY <1>1, <3>2 DEF Set, Become
      <4>2. {} \in SUBSET r.todo
        OBVIOUS
      <4> QED
        BY <4>1, <4>2
    <3> QED
      BY <2>2, <3>1, <3>2 DEF ParseFails
  <2> QED
    BY <2>1, <2>2
<1>4. PICK T \in SUBSET r.todo :
        \/ Become(p, [r EXCEPT !.todo = T, !.skipped = TRUE])
        \/ Become(p, [r EXCEPT !.todo = T, !.skipped = TRUE, !.blocked = TRUE])
        \/ Become(p, [r EXCEPT !.todo = T, !.partial = TRUE])
  BY <1>3
<1>5. CASE Become(p, [r EXCEPT !.todo = T, !.skipped = TRUE])
  <2> DEFINE s == [r EXCEPT !.todo = T, !.skipped = TRUE]
  <2>1. s \in Runs
    BY DEF Runs
  <2>2. SameNames(s, r) /\ Flagged(s) /\ s.pc = r.pc /\ s.dels = r.dels /\ s.todo = T
        /\ s.parsed = r.parsed
    BY DEF Runs, SameNames, Flagged
  <2> QED
    BY <1>1, <1>2, <1>5, <2>1, <2>2
<1>6. CASE Become(p, [r EXCEPT !.todo = T, !.skipped = TRUE, !.blocked = TRUE])
  <2> DEFINE s == [r EXCEPT !.todo = T, !.skipped = TRUE, !.blocked = TRUE]
  <2>1. s \in Runs
    BY DEF Runs
  <2>2. SameNames(s, r) /\ Flagged(s) /\ s.pc = r.pc /\ s.dels = r.dels /\ s.todo = T
        /\ s.parsed = r.parsed
    BY DEF Runs, SameNames, Flagged
  <2> QED
    BY <1>1, <1>2, <1>6, <2>1, <2>2
<1>7. CASE Become(p, [r EXCEPT !.todo = T, !.partial = TRUE])
  <2> DEFINE s == [r EXCEPT !.todo = T, !.partial = TRUE]
  <2>1. s \in Runs
    BY DEF Runs
  <2>2. SameNames(s, r) /\ Flagged(s) /\ s.pc = r.pc /\ s.dels = r.dels /\ s.todo = T
        /\ s.parsed = r.parsed
    BY DEF Runs, SameNames, Flagged
  <2> QED
    BY <1>1, <1>2, <1>7, <2>1, <2>2
<1> QED
  BY <1>4, <1>5, <1>6, <1>7

LEMMA DependentsFacts ==
  ASSUME TypeOK, NEW p \in Procs, FindDependents(p)
  PROVE  \E s \in Runs :
           /\ Become(p, s) /\ SameFlags(s, run[p]) /\ SameNames(s, run[p])
           /\ s.pc = "deps" /\ s.dels = run[p].dels /\ s.parsed = run[p].parsed
<1>1. PICK r \in Runs : r = run[p]
  BY DEF TypeOK
<1>2. PICK S \in SUBSET Files : Become(p, [r EXCEPT !.pc = "deps", !.todo = S])
  BY <1>1 DEF FindDependents, Set, Become
<1> DEFINE s == [r EXCEPT !.pc = "deps", !.todo = S]
<1>3. s \in Runs
  BY DEF Runs, Pcs
<1>4. SameFlags(s, r) /\ SameNames(s, r) /\ s.pc = "deps" /\ s.dels = r.dels
      /\ s.parsed = r.parsed
  BY DEF Runs, SameFlags, SameNames
<1> QED
  BY <1>1, <1>2, <1>3, <1>4

LEMMA StartFacts ==
  ASSUME TypeOK, NEW p \in Procs, StartWriting(p)
  PROVE  \E s \in Runs :
           /\ Become(p, s) /\ SameFlags(s, run[p]) /\ SameNames(s, run[p])
           /\ s.pc = "write" /\ s.dels = run[p].dels /\ s.todo = run[p].todo
           /\ s.parsed = run[p].parsed
<1>1. PICK r \in Runs : r = run[p]
  BY DEF TypeOK
<1> DEFINE s == [r EXCEPT !.pc = "write"]
<1>2. s \in Runs
  BY DEF Runs, Pcs
<1>3. SameFlags(s, r) /\ SameNames(s, r) /\ s.pc = "write" /\ s.dels = r.dels
      /\ s.todo = r.todo /\ s.parsed = r.parsed
  BY DEF Runs, SameFlags, SameNames
<1>4. Become(p, s)
  BY <1>1 DEF StartWriting, Set, Become
<1> QED
  BY <1>1, <1>2, <1>3, <1>4

LEMMA WriteFacts ==
  ASSUME TypeOK, NEW p \in Procs, WriteBatch(p)
  PROVE  \E s \in Runs : \E S \in SUBSET Parsed(p) :
           /\ Become(p, s) /\ SameNames(s, run[p]) /\ (Flagged(run[p]) => Flagged(s))
           /\ s.pc = run[p].pc /\ s.pc \in {"parse", "write"}
           /\ s.dels = run[p].dels /\ s.todo = run[p].todo
           /\ \A g \in Files : s.parsed[g] = IF g \in S THEN Unread ELSE run[p].parsed[g]
           /\ \A g \in Files : graph'[g] = IF g \in S THEN run[p].parsed[g] ELSE graph[g]
           /\ graph' \in Trees
<1>1. PICK r \in Runs : r = run[p]
  BY DEF TypeOK
<1>2. PICK S \in SUBSET Parsed(p) :
        /\ \/ At(p, {"parse"}) /\ run[p].target = "build" /\ S = Parsed(p)
           \/ At(p, {"write"})
        /\ graph' = [f \in Files |-> IF f \in S THEN run[p].parsed[f] ELSE graph[f]]
        /\ \E failed \in BOOLEAN :
             Set(p, [run[p] EXCEPT
                       !.parsed = [f \in Files |-> IF f \in S THEN Unread ELSE run[p].parsed[f]],
                       !.lost = @ \/ failed])
  BY DEF WriteBatch
<1>3. PICK failed \in BOOLEAN :
        Set(p, [run[p] EXCEPT
                  !.parsed = [f \in Files |-> IF f \in S THEN Unread ELSE run[p].parsed[f]],
                  !.lost = @ \/ failed])
  BY <1>2
<1> DEFINE new == [f \in Files |-> IF f \in S THEN Unread ELSE r.parsed[f]]
           bad == r.lost \/ failed
           s == [r EXCEPT !.parsed = new, !.lost = bad]
<1>4. r.parsed \in [Files -> Values \cup {Unread}] /\ graph \in Trees
  BY DEF TypeOK, Runs
<1>5. \A g \in S : g \in Files /\ r.parsed[g] # Unread
  BY <1>1 DEF Parsed
<1>6. graph' \in Trees
  BY <1>1, <1>2, <1>4, <1>5 DEF Trees
<1>7. new \in [Files -> Values \cup {Unread}] /\ bad \in BOOLEAN
  BY <1>4
<1>8. \A g \in Files : new[g] = IF g \in S THEN Unread ELSE r.parsed[g]
  OBVIOUS
<1>9. Become(p, s)
  BY <1>1, <1>3 DEF Set, Become
<1>10. r.lost => bad
  OBVIOUS
<1> HIDE DEF new, bad
<1>11. s \in Runs
  BY <1>7 DEF Runs
<1>12. SameNames(s, r) /\ s.pc = r.pc /\ s.dels = r.dels /\ s.todo = r.todo /\ s.parsed = new
       /\ s.partial = r.partial /\ s.blocked = r.blocked /\ s.skipped = r.skipped /\ s.lost = bad
  BY DEF Runs, SameNames
<1>13. Flagged(r) => Flagged(s)
  BY <1>10, <1>12 DEF Flagged
<1>14. r.pc \in {"parse", "write"}
  BY <1>1, <1>2 DEF At
<1>15. \A g \in Files : graph'[g] = IF g \in S THEN r.parsed[g] ELSE graph[g]
  BY <1>1, <1>2
<1> HIDE DEF s
<1> QED
  BY <1>1, <1>6, <1>8, <1>9, <1>11, <1>12, <1>13, <1>14, <1>15

LEMMA RecordFacts ==
  ASSUME TypeOK, NEW p \in Procs, Record(p)
  PROVE  \E s \in Runs : \E recorded \in {FALSE, ~IsDegraded(run[p])} :
           /\ Become(p, s) /\ SameFlags(s, run[p]) /\ SameNames(s, run[p])
           /\ s.pc = "finish" /\ s.dels = run[p].dels /\ s.todo = run[p].todo
           /\ s.parsed = run[p].parsed
           /\ ref' = IF recorded THEN head ELSE ref
           /\ blame' = IF MakesGood(run[p], recorded) THEN run[p].disturbed \cap Causes
                       ELSE blame \cup RunCauses(run[p], recorded)
<1>1. PICK r \in Runs : r = run[p]
  BY DEF TypeOK
<1>2. PICK recorded \in {FALSE, ~IsDegraded(run[p])} :
           /\ ref' = IF recorded THEN head ELSE ref
           /\ blame' = IF MakesGood(run[p], recorded) THEN run[p].disturbed \cap Causes
                       ELSE blame \cup RunCauses(run[p], recorded)
  BY Zenon DEF Record
<1> DEFINE s == [r EXCEPT !.pc = "finish"]
<1>3. s \in Runs
  BY DEF Runs, Pcs
<1>4. SameFlags(s, r) /\ SameNames(s, r) /\ s.pc = "finish" /\ s.dels = r.dels
      /\ s.todo = r.todo /\ s.parsed = r.parsed
  BY DEF Runs, SameFlags, SameNames
<1>5. Become(p, s)
  BY <1>1 DEF Record, Set, Become
<1> HIDE DEF s
<1>6. /\ Become(p, s) /\ SameFlags(s, run[p]) /\ SameNames(s, run[p])
      /\ s.pc = "finish" /\ s.dels = run[p].dels /\ s.todo = run[p].todo
      /\ s.parsed = run[p].parsed
  BY <1>1, <1>4, <1>5
<1> QED
  BY <1>2, <1>3, <1>6, Zenon

LEMMA IdleFacts ==
  /\ Idle \in Runs /\ Idle.pc = "idle" /\ Idle.target = "build" /\ Idle.dels = {}
  /\ Idle.todo = {} /\ Idle.parsed = NothingParsed /\ Idle.known = NoSlices
  /\ Idle.disturbed = {} /\ ~Flagged(Idle) /\ Idle.fresh = FALSE
<1>1. NoSlices \in Trees /\ NothingParsed \in [Files -> Values \cup {Unread}]
  BY DEF NoSlices, Trees, Values, NothingParsed
<1>2. Idle \in Runs
  BY <1>1 DEF Idle, Runs, Pcs, Targets
<1> QED
  BY <1>2 DEF Idle, Flagged

\* The user's steps and those of others only leave their mark.
LEMMA DisturbFacts ==
  ASSUME NEW r \in Runs, NEW c \in SUBSET (Causes \cup {"edit", "overlap"})
  PROVE  LET s == Disturb(r, c)
         IN  /\ s \in Runs /\ SameFlags(s, r) /\ s.pc = r.pc /\ s.target = r.target
             /\ s.fresh = r.fresh /\ s.known = r.known /\ s.dels = r.dels /\ s.todo = r.todo
             /\ s.parsed = r.parsed
             /\ s.disturbed = IF r.pc = "idle" THEN r.disturbed ELSE r.disturbed \cup c
<1>1. CASE r.pc = "idle"
  BY <1>1 DEF Disturb, SameFlags
<1>2. CASE r.pc # "idle"
  <2> DEFINE d == r.disturbed \cup c
             s == [r EXCEPT !.disturbed = d]
  <2>1. d \in SUBSET (Causes \cup {"edit", "overlap"})
    BY DEF Runs
  <2> HIDE DEF d
  <2>2. s \in Runs
    BY <2>1 DEF Runs
  <2>3. SameFlags(s, r) /\ s.pc = r.pc /\ s.target = r.target
             /\ s.fresh = r.fresh /\ s.known = r.known /\ s.dels = r.dels /\ s.todo = r.todo
             /\ s.parsed = r.parsed /\ s.disturbed = d
    BY DEF Runs, SameFlags
  <2>4. s = Disturb(r, c)
    BY <1>2 DEF Disturb, d
  <2> QED
    BY <1>2, <2>2, <2>3, <2>4 DEF d
<1> QED
  BY <1>1, <1>2

\* What the user's step and the beginning of a run do to the runs.
Marked(p, c) ==
  /\ run'[p] \in Runs /\ SameFlags(run'[p], run[p]) /\ run'[p].pc = run[p].pc
  /\ run'[p].target = run[p].target /\ run'[p].fresh = run[p].fresh
  /\ run'[p].known = run[p].known /\ run'[p].dels = run[p].dels
  /\ run'[p].todo = run[p].todo /\ run'[p].parsed = run[p].parsed
  /\ run'[p].disturbed = IF run[p].pc = "idle" THEN run[p].disturbed ELSE run[p].disturbed \cup c

LEMMA UserFacts ==
  ASSUME TypeOK, NEW c \in SUBSET Causes, UserStep(c)
  PROVE  /\ \A p \in Procs : Marked(p, c \cup {"edit"})
         /\ run' \in [Procs -> Runs]
         /\ blame' = blame \cup c /\ settled' = FALSE
         /\ graph' = graph /\ ref' = ref /\ state' = state /\ runs' = runs
         /\ edits' \in 0..MaxEdits
<1>1. run' = [p \in Procs |-> Disturb(run[p], c \cup {"edit"})]
  BY DEF UserStep
<1>2. ASSUME NEW p \in Procs
      PROVE  Marked(p, c \cup {"edit"})
  <2>1. PICK r \in Runs : r = run[p]
    BY DEF TypeOK
  <2>2. PICK d \in SUBSET (Causes \cup {"edit", "overlap"}) : d = c \cup {"edit"}
    OBVIOUS
  <2>3. run'[p] = Disturb(r, d)
    BY <1>1, <2>1, <2>2
  <2>4. Marked(p, d)
    BY <2>1, <2>3, DisturbFacts DEF Marked
  <2> QED
    BY <2>2, <2>4
<1>3. run' \in [Procs -> Runs]
  BY <1>1, <1>2 DEF Marked
<1>4. edits' \in 0..MaxEdits
  BY GraphIndexAssumption DEF UserStep, TypeOK
<1> QED
  BY <1>2, <1>3, <1>4 DEF UserStep, db

Begun(p, t, c) ==
  /\ c = {} <=> Quiet
  /\ \A q \in Procs \ {p} : Marked(q, c)
  /\ run'[p] \in Runs /\ ~Flagged(run'[p])
  /\ run'[p].pc = "list" /\ run'[p].target = t
  /\ run'[p].known = NoSlices /\ run'[p].dels = {} /\ run'[p].todo = {}
  /\ run'[p].parsed = NothingParsed /\ run'[p].disturbed = c /\ run'[p].fresh = FALSE
  /\ run' \in [Procs -> Runs]

LEMMA BeginStep ==
  ASSUME TypeOK, NEW p \in Procs, NEW t \in Targets, Begin(p, t)
  PROVE  \E c \in {{}, {"overlap"}} : Begun(p, t, c)
<1>1. PICK c \in {{}, {"overlap"}} :
        /\ c = {} <=> Quiet
        /\ run' = [q \in Procs |->
             IF q = p THEN [Idle EXCEPT !.pc = "list", !.target = t, !.disturbed = c]
             ELSE Disturb(run[q], c)]
  BY DEF Begin
<1>2. ASSUME NEW q \in Procs \ {p}
      PROVE  Marked(q, c)
  <2>1. PICK r \in Runs : r = run[q]
    BY DEF TypeOK
  <2>2. PICK d \in SUBSET (Causes \cup {"edit", "overlap"}) : d = c
    OBVIOUS
  <2>3. run'[q] = Disturb(r, d)
    BY <1>1, <2>1, <2>2
  <2> QED
    BY <2>1, <2>2, <2>3, DisturbFacts DEF Marked
<1>7. PICK r \in Runs : r = Idle
  BY IdleFacts
<1> DEFINE s == [r EXCEPT !.pc = "list", !.target = t, !.disturbed = c]
<1>8. s \in Runs
  BY DEF Runs, Pcs
<1>9. SameFlags(s, r) /\ s.pc = "list" /\ s.target = t /\ s.fresh = r.fresh
      /\ s.known = r.known /\ s.dels = r.dels /\ s.todo = r.todo /\ s.parsed = r.parsed
      /\ s.disturbed = c
  BY DEF Runs, SameFlags
<1>10. ~Flagged(s)
  BY <1>7, <1>9, IdleFacts DEF Flagged, SameFlags
<1>3. run'[p] = s
  BY <1>1, <1>7
<1> HIDE DEF s
<1>4. run'[p] \in Runs
  BY <1>3, <1>8
<1>5. run' \in [Procs -> Runs]
  BY <1>1, <1>2, <1>4 DEF Marked
<1>6. /\ ~Flagged(run'[p])
      /\ run'[p].pc = "list" /\ run'[p].target = t
      /\ run'[p].known = NoSlices /\ run'[p].dels = {} /\ run'[p].todo = {}
      /\ run'[p].parsed = NothingParsed /\ run'[p].disturbed = c /\ run'[p].fresh = FALSE
  BY <1>3, <1>7, <1>9, <1>10, IdleFacts
<1> QED
  BY <1>1, <1>2, <1>4, <1>5, <1>6, Zenon DEF Begun

-----------------------------------------------------------------------------
(* Types.                                                                  *)

LEMMA TypeStep ==
  ASSUME TypeOK, [Next]_vars
  PROVE  TypeOK'
<1> USE GraphIndexAssumption
<1>1. ASSUME NEW p \in Procs, NEW s \in Runs, Become(p, s)
      PROVE  run' \in [Procs -> Runs]
  BY <1>1 DEF TypeOK, Become
<1>2. ASSUME NEW f \in Files, NEW v \in Values, Edit(f, v)
      PROVE  TypeOK'
  <2>1. PICK c \in SUBSET Causes : c = PutsBack(f, v)
    BY DEF PutsBack, Causes
  <2>2. work' \in Trees
    BY <1>2 DEF Edit, TypeOK, Trees
  <2>3. UserStep(c)
    BY <1>2, <2>1 DEF Edit
  <2> QED
    BY <1>2, <2>2, <2>3, UserFacts DEF Edit, TypeOK
<1>3. ASSUME NEW f \in Files, Stage(f)
      PROVE  TypeOK'
  <2>1. PICK c \in SUBSET Causes : c = IF index[f] = Absent THEN PutsBack(f, work[f]) ELSE {}
    BY DEF PutsBack, Causes
  <2>2. index' \in Trees
    BY <1>3 DEF Stage, TypeOK, Trees
  <2>3. UserStep(c)
    BY <1>3, <2>1 DEF Stage
  <2> QED
    BY <1>3, <2>2, <2>3, UserFacts DEF Stage, TypeOK
<1>4. CASE Commit
  <2>1. PICK c \in SUBSET Causes : c = IF Quiet THEN {} ELSE {"commit"}
    BY DEF Causes
  <2>2. UserStep(c)
    BY <1>4, <2>1 DEF Commit
  <2> QED
    BY <1>4, <2>2, UserFacts DEF Commit, TypeOK
<1>5. ASSUME NEW p \in Procs, NEW t \in Targets, Begin(p, t)
      PROVE  TypeOK'
  <2>1. run' \in [Procs -> Runs]
    BY <1>5, BeginStep DEF Begun
  <2>2. runs' \in 0..MaxRuns
    BY <1>5 DEF Begin, TypeOK
  <2>3. state' \in {state, "building"} /\ settled' = FALSE
    BY <1>5, Zenon DEF Begin
  <2> QED
    BY <1>5, <2>1, <2>2, <2>3 DEF Begin, TypeOK, repo
<1>6. ASSUME NEW p \in Procs,
             \/ ListSlices(p) \/ DetectChanges(p) \/ Scan(p) \/ BudgetStops(p)
             \/ FindDependents(p) \/ StartWriting(p)
             \/ \E f \in Files : ParseFile(p, f) \/ ParseFails(p, f)
      PROVE  TypeOK'
  <2>1. run' \in [Procs -> Runs]
    BY <1>1, <1>6, ListFacts, DetectFacts, ScanFacts, DropFacts, DependentsFacts, StartFacts, ParseFacts
  <2>2. UNCHANGED <<repo, db, blame, settled, edits, runs>>
    BY <1>6 DEF ListSlices, DetectChanges, Scan, BudgetStops, FindDependents, StartWriting,
                ParseFile, ParseFails, KeepHistory
  <2> QED
    BY <2>1, <2>2 DEF TypeOK, repo, db
<1>7. ASSUME NEW p \in Procs, NEW f \in Files, DeleteSlice(p, f)
      PROVE  TypeOK'
  <2>1. run' \in [Procs -> Runs]
    BY <1>1, <1>7, DeleteFacts
  <2>2. graph' \in Trees
    BY <1>7 DEF DeleteSlice, TypeOK, Trees, Values
  <2> QED
    BY <1>7, <2>1, <2>2 DEF TypeOK, DeleteSlice, KeepHistory, repo
<1>8. ASSUME NEW p \in Procs, WriteBatch(p)
      PROVE  TypeOK'
  <2>1. run' \in [Procs -> Runs] /\ graph' \in Trees
    BY <1>1, <1>8, WriteFacts
  <2> QED
    BY <1>8, <2>1 DEF TypeOK, WriteBatch, KeepHistory, repo
<1>9. ASSUME NEW p \in Procs, Record(p)
      PROVE  TypeOK'
  <2>1. run' \in [Procs -> Runs] /\ ref' \in Trees \cup {NoRef}
    BY <1>1, <1>9, RecordFacts DEF TypeOK
  <2>2. PICK recorded : blame' = IF MakesGood(run[p], recorded) THEN run[p].disturbed \cap Causes
                                 ELSE blame \cup RunCauses(run[p], recorded)
    BY <1>9, RecordFacts, Zenon
  <2>3. RunCauses(run[p], recorded) \subseteq Causes
    BY DEF RunCauses, Causes
  <2>4. blame' \subseteq Causes
    BY <2>2, <2>3 DEF TypeOK
  <2> QED
    BY <1>9, <2>1, <2>4 DEF TypeOK, Record, repo
<1>10. ASSUME NEW p \in Procs, Finish(p)
       PROVE  TypeOK'
  <2>1. Become(p, Idle)
    BY <1>10 DEF Finish, Set, Become
  <2>2. state' \in {"built", "degraded", "build_failed"}
    BY <1>10 DEF Finish, FinishState
  <2>3. settled' \in BOOLEAN
    BY <1>10, Zenon DEF Finish, Settles
  <2> QED
    BY <1>1, <1>10, <2>1, <2>2, <2>3, IdleFacts DEF TypeOK, Finish, repo
<1>11. ASSUME NEW p \in Procs, RunFails(p) \/ Crash(p)
       PROVE  TypeOK'
  <2>1. Become(p, Idle)
    BY <1>11 DEF RunFails, Crash, Set, Become
  <2>2. blame' \subseteq Causes
    BY <1>11 DEF RunFails, Crash, Broken, TypeOK, Causes
  <2> QED
    BY <1>1, <1>11, <2>1, <2>2, IdleFacts DEF TypeOK, RunFails, Crash, repo, db
<1>12. CASE UNCHANGED vars
  BY <1>12 DEF vars, TypeOK
<1> QED
  BY <1>2, <1>3, <1>4, <1>5, <1>6, <1>7, <1>8, <1>9, <1>10, <1>11, <1>12 DEF Next

LEMMA TypeInit == Init => TypeOK
<1>1. NoSlices \in Trees
  BY DEF NoSlices, Trees, Values
<1>2. Init => run \in [Procs -> Runs]
  BY IdleFacts DEF Init
<1>3. Init => settled \in BOOLEAN
  BY DEF Init
<1>4. Init => edits \in 0..MaxEdits /\ runs \in 0..MaxRuns /\ blame \subseteq Causes
  BY GraphIndexAssumption DEF Init
<1> QED
  BY <1>1, <1>2, <1>3, <1>4 DEF Init, TypeOK

\* Whatever overlaps, is dropped or fails, the repository, the database and the
\* runs of build_graph and update_graph keep their types.
THEOREM TypeCorrect == Spec => []TypeOK
BY TypeInit, TypeStep, PTL DEF Spec

-----------------------------------------------------------------------------
(* The order of the steps.                                                 *)

LEMMA MarkedSteps ==
  ASSUME StepsOK
  PROVE  \A p \in Procs : \A c : Marked(p, c) => StepOK(run'[p])
<1>1. ASSUME NEW p \in Procs, NEW c, Marked(p, c)
      PROVE  StepOK(run'[p])
  <2>1. run'[p].pc = run[p].pc /\ run'[p].target = run[p].target
        /\ run'[p].known = run[p].known /\ run'[p].dels = run[p].dels
        /\ run'[p].todo = run[p].todo /\ run'[p].parsed = run[p].parsed
    BY <1>1, Zenon DEF Marked
  <2>2. StepOK(run[p])
    BY DEF StepsOK
  <2> QED
    BY <2>1, <2>2 DEF StepOK
<1> QED
  BY <1>1

LEMMA StepsStep ==
  ASSUME TypeOK, StepsOK, [Next]_vars
  PROVE  StepsOK'
<1>1. ASSUME NEW p \in Procs, NEW s \in Runs, Become(p, s), StepOK(s)
      PROVE  StepsOK'
  <2>1. run \in [Procs -> Runs]
    BY DEF TypeOK
  <2>2. \A q \in Procs : run'[q] = IF q = p THEN s ELSE run[q]
    BY <1>1, <2>1 DEF Become
  <2>3. \A q \in Procs : StepOK(run'[q])
    BY <1>1, <2>2 DEF StepsOK
  <2> QED
    BY <2>3 DEF StepsOK, StepOK
<1>2. ASSUME NEW c, NEW p, \A q \in Procs \ {p} : Marked(q, c),
             p \in Procs => StepOK(run'[p])
      PROVE  StepsOK'
  <2>1. ASSUME NEW q \in Procs \ {p}
        PROVE  StepOK(run'[q])
    BY <1>2, <2>1, MarkedSteps
  <2>2. \A q \in Procs : StepOK(run'[q])
    BY <1>2, <2>1
  <2> QED
    BY <2>2 DEF StepsOK, StepOK
<1>3. ASSUME NEW c \in SUBSET Causes, UserStep(c)
      PROVE  StepsOK'
  <2>1. \A p \in Procs : Marked(p, c \cup {"edit"})
    BY <1>3, UserFacts
  <2>2. ASSUME NEW q \in Procs
        PROVE  StepOK(run'[q])
    BY <2>1, <2>2, MarkedSteps
  <2> QED
    BY <2>2 DEF StepsOK, StepOK
<1>4. ASSUME NEW f \in Files, (\E v \in Values : Edit(f, v)) \/ Stage(f)
      PROVE  StepsOK'
  <2>1. \E c \in SUBSET Causes : UserStep(c)
    BY <1>4 DEF Edit, Stage, PutsBack, Causes
  <2> QED
    BY <1>3, <2>1
<1>5. CASE Commit
  <2>1. \E c \in SUBSET Causes : UserStep(c)
    BY <1>5 DEF Commit, Causes
  <2> QED
    BY <1>3, <2>1
<1>6. ASSUME NEW p \in Procs, NEW t \in Targets, Begin(p, t)
      PROVE  StepsOK'
  <2>1. PICK c \in {{}, {"overlap"}} : Begun(p, t, c)
    BY <1>6, BeginStep
  <2>2. StepOK(run'[p])
    BY <2>1 DEF StepOK, NothingParsed, Begun
  <2> QED
    BY <1>2, <2>1, <2>2 DEF Begun
<1>7. ASSUME NEW p \in Procs, ListSlices(p)
      PROVE  StepsOK'
  <2>1. StepOK(run[p]) /\ run[p].pc = "list" /\ run[p].target = "build"
    BY <1>7 DEF StepsOK, ListSlices, At
  <2> QED
    BY <1>1, <1>7, <2>1, ListFacts DEF StepOK, SameNames
<1>8. ASSUME NEW p \in Procs, DetectChanges(p)
      PROVE  StepsOK'
  <2>1. StepOK(run[p]) /\ run[p].pc = "list" /\ run[p].target # "build"
    BY <1>8 DEF StepsOK, DetectChanges, At
  <2>2. PICK s \in Runs : Become(p, s) /\ s.target = run[p].target /\ s.known = run[p].known
                          /\ s.parsed = run[p].parsed /\ s.pc = "delete"
    BY <1>8, DetectFacts
  <2> QED
    BY <1>1, <2>1, <2>2 DEF StepOK
<1>9. ASSUME NEW p \in Procs, NEW f \in Files, DeleteSlice(p, f)
      PROVE  StepsOK'
  <2>1. StepOK(run[p]) /\ run[p].pc = "delete"
    BY <1>9 DEF StepsOK, DeleteSlice, At
  <2> QED
    BY <1>1, <1>9, <2>1, DeleteFacts DEF StepOK, SameNames
<1>10. ASSUME NEW p \in Procs, Scan(p)
       PROVE  StepsOK'
  <2>1. StepOK(run[p]) /\ run[p].pc = "delete"
    BY <1>10 DEF StepsOK, Scan, At
  <2> QED
    BY <1>1, <1>10, <2>1, ScanFacts DEF StepOK
<1>11. ASSUME NEW p \in Procs, NEW f \in Files, ParseFile(p, f)
       PROVE  StepsOK'
  <2>1. StepOK(run[p])
    BY DEF StepsOK
  <2> QED
    BY <1>1, <1>11, <2>1, ParseFacts DEF StepOK, SameNames
<1>12. ASSUME NEW p \in Procs, BudgetStops(p) \/ \E f \in Files : ParseFails(p, f)
       PROVE  StepsOK'
  <2>1. StepOK(run[p])
    BY DEF StepsOK
  <2> QED
    BY <1>1, <1>12, <2>1, DropFacts DEF StepOK, SameNames
<1>13. ASSUME NEW p \in Procs, FindDependents(p)
       PROVE  StepsOK'
  <2>1. StepOK(run[p]) /\ run[p].target # "build" /\ run[p].pc = "parse"
    BY <1>13 DEF StepsOK, FindDependents, At
  <2> QED
    BY <1>1, <1>13, <2>1, DependentsFacts DEF StepOK, SameNames
<1>14. ASSUME NEW p \in Procs, StartWriting(p)
       PROVE  StepsOK'
  <2>1. StepOK(run[p]) /\ run[p].pc = "deps" /\ run[p].todo = {}
    BY <1>14 DEF StepsOK, StartWriting, At
  <2> QED
    BY <1>1, <1>14, <2>1, StartFacts DEF StepOK, SameNames
<1>15. ASSUME NEW p \in Procs, WriteBatch(p)
       PROVE  StepsOK'
  <2>1. StepOK(run[p])
    BY DEF StepsOK
  <2>2. PICK s \in Runs : Become(p, s) /\ SameNames(s, run[p]) /\ s.pc = run[p].pc
           /\ s.pc \in {"parse", "write"} /\ s.dels = run[p].dels /\ s.todo = run[p].todo
    BY <1>15, WriteFacts
  <2> QED
    BY <1>1, <2>1, <2>2 DEF StepOK, SameNames
<1>16. ASSUME NEW p \in Procs, Record(p)
       PROVE  StepsOK'
  <2>1. StepOK(run[p]) /\ run[p].pc \in {"parse", "write"} /\ run[p].todo = {} /\ Parsed(p) = {}
    BY <1>16 DEF StepsOK, Record, At
  <2>2. PICK s \in Runs : Become(p, s) /\ SameNames(s, run[p]) /\ s.pc = "finish"
           /\ s.dels = run[p].dels /\ s.todo = run[p].todo /\ s.parsed = run[p].parsed
    BY <1>16, RecordFacts
  <2> QED
    BY <1>1, <2>1, <2>2 DEF StepOK, SameNames, Parsed
<1>17. ASSUME NEW p \in Procs, Finish(p) \/ RunFails(p) \/ Crash(p)
       PROVE  StepsOK'
  <2>1. Become(p, Idle)
    BY <1>17 DEF Finish, RunFails, Crash, Set, Become
  <2>2. StepOK(Idle)
    BY IdleFacts DEF StepOK, NothingParsed
  <2> QED
    BY <1>1, <2>1, <2>2, IdleFacts
<1>18. CASE UNCHANGED vars
  BY <1>18 DEF vars, StepsOK, StepOK
<1> QED
  BY <1>4, <1>5, <1>6, <1>7, <1>8, <1>9, <1>10, <1>11, <1>12, <1>13, <1>14, <1>15, <1>16,
     <1>17, <1>18 DEF Next

-----------------------------------------------------------------------------
(* The scheme of last_indexed_ref: the steps inside a run.                 *)

\* What the step of a run may do to the slices: leave them, make them match, or
\* touch those of stray files and of files git diff does not see; a build may
\* clear what it is going to restore.
Moves(p, s) == Trusted(run[p]) => \A f \in Files :
  \/ graph'[f] = graph[f] \/ graph'[f] = work[f]
  \/ Stray(f) \/ ~Visible(f)
  \/ graph'[f] = Absent /\ Owes(s, f)

KeepsOwing(p, s) == \A f \in Files :
  Owes(run[p], f) /\ graph[f] = Absent /\ graph'[f] # work[f] => Owes(s, f)

Own(s) == Claims(s) => \A f \in Files :
  Visible(f) /\ head[f] = work[f] /\ graph'[f] # work[f] =>
    \/ Handles(s, f)
    \/ graph[f] = Absent /\ graph'[f] = Absent /\ Owed(f)
    \/ graph'[f] = Absent /\ Owes(s, f)

LEMMA InnerStep ==
  ASSUME TypeOK, Noted, Stale, Progress, Scheme,
         NEW p \in Procs, NEW s \in Runs, Become(p, s),
         work' = work, index' = index, head' = head, ref' = ref, blame' = blame,
         run[p].pc # "idle", s.pc # "idle",
         s.target = run[p].target, s.disturbed = run[p].disturbed,
         Trusted(s) => StaleOf(s), Moves(p, s), KeepsOwing(p, s), Own(s)
  PROVE  Noted' /\ Stale' /\ Progress' /\ Scheme'
<1>1. \A q \in Procs : run'[q] = IF q = p THEN s ELSE run[q]
  BY DEF Become, TypeOK
<1>2. Noted'
  <2>1. \A q \in Procs : run'[q].disturbed = run[q].disturbed
                         /\ (run'[q].pc # "idle" <=> run[q].pc # "idle")
    BY <1>1
  <2> QED
    BY <2>1 DEF Noted, Active
<1>3. Stale'
  <2> SUFFICES ASSUME NEW q \in Procs, Trusted(run[q])'
               PROVE  StaleOf(run[q])'
    BY DEF Stale
  <2>1. CASE q = p
    <3>1. Trusted(s)
      BY <1>1, <2>1 DEF Trusted
    <3>2. StaleOf(s)
      BY <3>1
    <3> QED
      BY <1>1, <2>1, <3>2 DEF StaleOf, Stray, Visible
  <2>2. CASE q # p
    <3>1. Trusted(run[q])
      BY <1>1, <2>2 DEF Trusted
    <3>2. StaleOf(run[q])
      BY <3>1 DEF Stale
    <3> QED
      BY <1>1, <2>2, <3>2 DEF StaleOf, Stray, Visible
  <2> QED
    BY <2>1, <2>2
<1>4. ASSUME NEW f \in Files, graph'[f] # work[f], graph[f] = Absent, Owed(f)
      PROVE  Owed(f)'
  <2>1. PICK q \in Procs : Owes(run[q], f)
    BY <1>4 DEF Owed
  <2>2. CASE q = p
    <3>1. Owes(s, f)
      BY <1>4, <2>1, <2>2 DEF KeepsOwing
    <3>2. Owes(run[p], f)'
      BY <1>1, <3>1 DEF Owes, Reads, Flagged
    <3> QED
      BY <3>2 DEF Owed
  <2>3. CASE q # p
    <3>1. Owes(run[q], f)'
      BY <1>1, <2>1, <2>3 DEF Owes, Reads, Flagged
    <3> QED
      BY <3>1 DEF Owed
  <2> QED
    BY <2>2, <2>3
<1>5. ASSUME NEW f \in Files, Owes(s, f)
      PROVE  Owed(f)'
  <2>1. Owes(run[p], f)'
    BY <1>1, <1>5 DEF Owes, Reads, Flagged
  <2> QED
    BY <2>1 DEF Owed
<1>6. blame = {} => Trusted(run[p])
  BY DEF Trusted, Noted, Active
<1>7. Progress'
  <2> SUFFICES ASSUME NEW q \in Procs, Claims(run[q])'
               PROVE  ProgressOf(run[q])'
    BY DEF Progress
  <2> SUFFICES ASSUME NEW f \in Files, Visible(f)', head'[f] = work'[f], graph'[f] # work'[f]
               PROVE  Handles(run[q], f)' \/ (graph'[f] = Absent /\ Owed(f)')
    BY DEF ProgressOf
  <2>1. Visible(f) /\ head[f] = work[f] /\ graph'[f] # work[f]
    BY DEF Visible
  <2>2. CASE q = p
    <3>1. Claims(s)
      BY <1>1, <2>2 DEF Claims, Trusted, Covers, Flagged
    <3>2. \/ Handles(s, f)
          \/ graph[f] = Absent /\ graph'[f] = Absent /\ Owed(f)
          \/ graph'[f] = Absent /\ Owes(s, f)
      BY <2>1, <3>1 DEF Own
    <3>3. Handles(s, f) => Handles(run[q], f)'
      BY <1>1, <2>2 DEF Handles, Reads
    <3> QED
      BY <1>4, <1>5, <2>1, <3>2, <3>3
  <2>3. CASE q # p
    <3>1. Claims(run[q])
      BY <1>1, <2>3 DEF Claims, Trusted, Covers, Flagged
    <3>2. blame = {}
      BY <2>3, <3>1 DEF Claims, Trusted, Noted, Active
    <3>3. \/ graph'[f] = graph[f]
          \/ graph'[f] = Absent /\ Owes(s, f)
      BY <1>6, <2>1, <3>2 DEF Moves, Stray
    <3>4. graph'[f] = graph[f] => Handles(run[q], f) \/ (graph[f] = Absent /\ Owed(f))
      BY <2>1, <3>1 DEF Progress, ProgressOf
    <3>5. Handles(run[q], f) => Handles(run[q], f)'
      BY <1>1, <2>3 DEF Handles, Reads
    <3> QED
      BY <1>4, <1>5, <2>1, <3>3, <3>4, <3>5
  <2> QED
    BY <2>2, <2>3
<1>8. Scheme'
  <2> SUFFICES ASSUME blame' = {}, ref' # NoRef, NEW f \in Files,
                      Visible(f)', ref'[f] = work'[f], graph'[f] # work'[f]
               PROVE  graph'[f] = Absent /\ Owed(f)'
    BY DEF Scheme
  <2>1. Visible(f) /\ ref[f] = work[f] /\ graph'[f] # work[f] /\ blame = {} /\ ref # NoRef
    BY DEF Visible
  <2>2. \/ graph'[f] = graph[f]
        \/ graph'[f] = Absent /\ Owes(s, f)
    BY <1>6, <2>1 DEF Moves, Stray
  <2>3. graph'[f] = graph[f] => graph[f] = Absent /\ Owed(f)
    BY <2>1 DEF Scheme
  <2> QED
    BY <1>4, <1>5, <2>1, <2>2, <2>3
<1> QED
  BY <1>2, <1>3, <1>7, <1>8

\* A run that goes on keeps its claims if it goes on with what it handles.
LEMMA GoesOn ==
  ASSUME Progress, NEW p \in Procs, NEW s \in Runs,
         s.target = run[p].target, s.disturbed = run[p].disturbed, s.fresh = run[p].fresh,
         run[p].pc \in Working, Flagged(run[p]) => Flagged(s),
         Moves(p, s),
         ~Flagged(s) => \A f \in Files :
           Visible(f) /\ graph'[f] # work[f] /\ Handles(run[p], f) => Handles(s, f)
  PROVE  Own(s)
<1> SUFFICES ASSUME Claims(s), NEW f \in Files,
                    Visible(f), head[f] = work[f], graph'[f] # work[f]
             PROVE  \/ Handles(s, f)
                    \/ graph[f] = Absent /\ graph'[f] = Absent /\ Owed(f)
                    \/ graph'[f] = Absent /\ Owes(s, f)
  BY DEF Own
<1>1. Claims(run[p]) /\ ~Flagged(s)
  BY DEF Claims, Trusted, Covers, Working
<1>2. \/ graph'[f] = graph[f]
      \/ graph'[f] = Absent /\ Owes(s, f)
  BY <1>1 DEF Moves, Stray, Claims
<1>3. graph'[f] = graph[f] => Handles(run[p], f) \/ (graph[f] = Absent /\ Owed(f))
  BY <1>1 DEF Progress, ProgressOf
<1> QED
  BY <1>1, <1>2, <1>3

SchemeParts == Noted /\ Stale /\ Progress /\ Scheme

LEMMA SchemeList ==
  ASSUME TypeOK, StepsOK, SchemeParts, NEW p \in Procs, ListSlices(p)
  PROVE  SchemeParts'
<1>1. PICK s \in Runs :
           /\ Become(p, s) /\ SameFlags(s, run[p]) /\ SameNames(s, run[p])
           /\ s.pc = "delete" /\ s.dels = {f \in Files : graph[f] # Absent}
           /\ s.todo = run[p].todo /\ s.parsed = run[p].parsed
  BY ListFacts
<1>2. /\ run[p].pc = "list" /\ run[p].target = "build" /\ s.target = "build"
      /\ \A f \in Files : s.parsed[f] = Unread
  BY <1>1 DEF ListSlices, At, StepsOK, StepOK, SameNames
<1>3. /\ work' = work /\ index' = index /\ head' = head /\ ref' = ref /\ graph' = graph
      /\ blame' = blame
  BY DEF ListSlices, KeepHistory, repo, db
<1>4. StaleOf(s)
  BY <1>2 DEF StaleOf
<1>5. Moves(p, s) /\ KeepsOwing(p, s)
  BY <1>2, <1>3 DEF Moves, KeepsOwing, Owes
<1>6. Own(s)
  BY <1>1, <1>2, <1>3 DEF Own, Handles
<1> QED
  BY <1>1, <1>2, <1>3, <1>4, <1>5, <1>6, InnerStep DEF SchemeParts, SameNames

LEMMA SchemeDetect ==
  ASSUME TypeOK, StepsOK, SchemeParts, NEW p \in Procs, DetectChanges(p)
  PROVE  SchemeParts'
<1>1. PICK s \in Runs : \E changes \in Changes(run[p].target) : \E kept \in SUBSET changes :
           /\ Become(p, s)
           /\ s.target = run[p].target /\ s.disturbed = run[p].disturbed
           /\ s.known = run[p].known /\ s.parsed = run[p].parsed
           /\ s.blocked = run[p].blocked /\ s.lost = run[p].lost /\ s.skipped = run[p].skipped
           /\ s.pc = "delete"
           /\ s.dels = {f \in kept : IsDeletion(run[p].target, f)}
           /\ s.todo = kept \ s.dels
           /\ s.partial = (kept # changes) /\ s.fresh = (ref = NoRef)
  BY DetectFacts
<1>2. PICK changes \in Changes(run[p].target) : \E kept \in SUBSET changes :
           /\ Become(p, s)
           /\ s.target = run[p].target /\ s.disturbed = run[p].disturbed
           /\ s.known = run[p].known /\ s.parsed = run[p].parsed
           /\ s.pc = "delete"
           /\ s.dels = {f \in kept : IsDeletion(run[p].target, f)}
           /\ s.todo = kept \ s.dels
           /\ s.partial = (kept # changes) /\ s.fresh = (ref = NoRef)
  BY <1>1
<1>3. PICK kept \in SUBSET changes :
           /\ Become(p, s)
           /\ s.target = run[p].target /\ s.disturbed = run[p].disturbed
           /\ s.known = run[p].known /\ s.parsed = run[p].parsed
           /\ s.pc = "delete"
           /\ s.dels = {f \in kept : IsDeletion(run[p].target, f)}
           /\ s.todo = kept \ s.dels
           /\ s.partial = (kept # changes) /\ s.fresh = (ref = NoRef)
  BY <1>2
<1>4. /\ run[p].pc = "list" /\ run[p].target # "build" /\ s.target # "build"
      /\ s.known = NoSlices /\ \A f \in Files : s.parsed[f] = Unread
  BY <1>3 DEF DetectChanges, At, StepsOK, StepOK
<1>5. /\ work' = work /\ index' = index /\ head' = head /\ ref' = ref /\ graph' = graph
      /\ blame' = blame
  BY DEF DetectChanges, KeepHistory, repo, db
<1>6. ASSUME NEW f \in Files, f \in s.dels, Visible(f)
      PROVE  work[f] = Absent
  BY <1>3, <1>6 DEF IsDeletion, Visible
<1>7. StaleOf(s)
  BY <1>4, <1>6 DEF StaleOf
<1>8. Moves(p, s) /\ KeepsOwing(p, s)
  BY <1>4, <1>5 DEF Moves, KeepsOwing, Owes
<1>9. Own(s)
  <2> SUFFICES ASSUME Claims(s), NEW f \in Files,
                      Visible(f), head[f] = work[f], graph'[f] # work[f]
               PROVE  Handles(s, f) \/ (graph[f] = Absent /\ graph'[f] = Absent /\ Owed(f))
    BY DEF Own
  <2>1. s.target = "worktree" /\ ref # NoRef /\ blame = {} /\ kept = changes
    BY <1>3, <1>4 DEF Claims, Covers, Flagged
  <2>2. changes = DiffTree(ref)
    BY <1>3, <2>1 DEF Changes, DiffDefault
  <2>3. CASE f \notin kept
    <3>1. ref[f] = work[f]
      BY <2>1, <2>2, <2>3 DEF DiffTree, Visible
    <3> QED
      BY <1>5, <2>1, <3>1 DEF SchemeParts, Scheme
  <2>4. CASE f \in kept /\ IsDeletion("worktree", f)
    <3>1. f \in s.dels
      BY <1>3, <2>1, <2>4
    <3>2. work[f] = Absent
      BY <1>6, <3>1
    <3> QED
      BY <3>1, <3>2 DEF Handles
  <2>5. CASE f \in kept /\ ~IsDeletion("worktree", f)
    <3>1. f \in s.todo
      BY <1>3, <2>1, <2>5
    <3>2. work[f] # Absent
      BY <2>5 DEF IsDeletion
    <3>3. s.known[f] = Absent
      BY <1>4 DEF NoSlices
    <3> QED
      BY <3>1, <3>2, <3>3 DEF Handles, Reads
  <2> QED
    BY <2>3, <2>4, <2>5
<1> QED
  BY <1>3, <1>4, <1>5, <1>7, <1>8, <1>9, InnerStep DEF SchemeParts

LEMMA SchemeDelete ==
  ASSUME TypeOK, StepsOK, SchemeParts, NEW p \in Procs, NEW f \in Files, DeleteSlice(p, f)
  PROVE  SchemeParts'
<1>1. PICK s \in Runs :
           /\ Become(p, s) /\ SameFlags(s, run[p]) /\ SameNames(s, run[p])
           /\ s.pc = "delete" /\ s.dels = run[p].dels \ {f}
           /\ s.todo = run[p].todo /\ s.parsed = run[p].parsed
  BY DeleteFacts
<1>2. run[p].pc = "delete" /\ f \in run[p].dels
  BY DEF DeleteSlice, At
<1>3. /\ work' = work /\ index' = index /\ head' = head /\ ref' = ref /\ blame' = blame
      /\ \A g \in Files : graph'[g] = IF g = f THEN Absent ELSE graph[g]
  BY DEF DeleteSlice, KeepHistory, repo, TypeOK, Trees
<1>4. Trusted(s) => Trusted(run[p])
  BY <1>1, <1>2 DEF Trusted, SameNames
<1>5. Trusted(run[p]) => StaleOf(run[p])
  BY DEF SchemeParts, Stale
<1>6. Trusted(s) => StaleOf(s)
  BY <1>1, <1>4, <1>5 DEF StaleOf, SameNames
<1>7. Moves(p, s)
  <2> SUFFICES ASSUME Trusted(run[p])
               PROVE  \/ graph'[f] = work[f] \/ Stray(f) \/ ~Visible(f)
                      \/ graph'[f] = Absent /\ Owes(s, f)
    BY <1>3 DEF Moves
  <2>1. CASE run[p].target = "build"
    BY <1>1, <1>3, <2>1 DEF Owes, SameNames
  <2>2. CASE run[p].target # "build"
    BY <1>2, <1>3, <1>5, <2>2 DEF StaleOf
  <2> QED
    BY <2>1, <2>2
<1>8. KeepsOwing(p, s)
  BY <1>1 DEF KeepsOwing, Owes, SameNames
<1>9. \A g \in Files : graph'[g] # work[g] /\ Handles(run[p], g) => Handles(s, g)
  BY <1>1, <1>2, <1>3 DEF Handles, Reads, SameNames
<1>10. Own(s)
  BY <1>1, <1>2, <1>7, <1>9, GoesOn DEF SchemeParts, SameNames, SameFlags, Flagged, Working
<1> QED
  BY <1>1, <1>2, <1>3, <1>6, <1>7, <1>8, <1>10, InnerStep DEF SchemeParts, SameNames

LEMMA SchemeScan ==
  ASSUME TypeOK, StepsOK, SchemeParts, NEW p \in Procs, Scan(p)
  PROVE  SchemeParts'
<1>1. PICK s \in Runs :
           /\ Become(p, s) /\ SameFlags(s, run[p])
           /\ s.target = run[p].target /\ s.disturbed = run[p].disturbed /\ s.fresh = run[p].fresh
           /\ s.pc = "parse" /\ s.dels = {} /\ s.parsed = run[p].parsed
           /\ IF s.target = "build"
              THEN s.known = graph /\ s.todo = {f \in Files : work[f] # Absent}
              ELSE s.known = run[p].known /\ s.todo = run[p].todo
  BY ScanFacts
<1>2. run[p].pc = "delete" /\ run[p].dels = {}
  BY DEF Scan, At
<1>3. /\ work' = work /\ index' = index /\ head' = head /\ ref' = ref /\ graph' = graph
      /\ blame' = blame
  BY DEF Scan, KeepHistory, repo, db
<1>4. \A g \in Files : s.parsed[g] = Unread
  BY <1>1, <1>2 DEF StepsOK, StepOK
<1>5. StaleOf(s)
  BY <1>1, <1>4 DEF StaleOf
<1>6. Moves(p, s)
  BY <1>3 DEF Moves
<1>7. KeepsOwing(p, s)
  BY <1>1, <1>2, <1>3 DEF KeepsOwing, Owes, Reads
<1>8. \A g \in Files : graph'[g] # work[g] /\ Handles(run[p], g) => Handles(s, g)
  BY <1>1, <1>2, <1>3 DEF Handles, Reads
<1>9. Own(s)
  BY <1>1, <1>2, <1>6, <1>8, GoesOn DEF SchemeParts, SameFlags, Flagged, Working
<1> QED
  BY <1>1, <1>2, <1>3, <1>5, <1>6, <1>7, <1>9, InnerStep DEF SchemeParts

LEMMA SchemeParse ==
  ASSUME TypeOK, StepsOK, SchemeParts, NEW p \in Procs, NEW f \in Files, ParseFile(p, f)
  PROVE  SchemeParts'
<1>1. PICK s \in Runs :
           /\ Become(p, s) /\ SameFlags(s, run[p]) /\ SameNames(s, run[p])
           /\ s.pc = run[p].pc /\ s.pc \in {"parse", "deps"} /\ s.dels = run[p].dels
           /\ s.todo = run[p].todo \ {f}
           /\ \A g \in Files : s.parsed[g] =
                IF g = f /\ Reads(run[p], f) THEN work[f] ELSE run[p].parsed[g]
  BY ParseFacts
<1>2. /\ work' = work /\ index' = index /\ head' = head /\ ref' = ref /\ graph' = graph
      /\ blame' = blame
  BY DEF ParseFile, KeepHistory, repo, db
<1>3. Trusted(s) => Trusted(run[p])
  BY <1>1 DEF Trusted, SameNames
<1>4. Trusted(run[p]) => StaleOf(run[p])
  BY DEF SchemeParts, Stale
<1>5. Trusted(s) => StaleOf(s)
  BY <1>1, <1>3, <1>4 DEF StaleOf, SameNames
<1>6. Moves(p, s)
  BY <1>2 DEF Moves
<1>7. \A g \in Files : /\ Reads(run[p], g) => Reads(s, g) \/ s.parsed[g] = work[g]
                       /\ run[p].parsed[g] = work[g] => s.parsed[g] = work[g]
  BY <1>1 DEF Reads, SameNames
<1>8. KeepsOwing(p, s)
  BY <1>1, <1>7 DEF KeepsOwing, Owes, SameNames, SameFlags, Flagged
<1>9. \A g \in Files : Handles(run[p], g) => Handles(s, g)
  BY <1>1, <1>7 DEF Handles, SameNames
<1>10. Own(s)
  BY <1>1, <1>6, <1>9, GoesOn DEF SchemeParts, SameNames, SameFlags, Flagged, Working
<1> QED
  BY <1>1, <1>2, <1>5, <1>6, <1>8, <1>10, InnerStep DEF SchemeParts, SameNames

LEMMA SchemeDrop ==
  ASSUME TypeOK, StepsOK, SchemeParts, NEW p \in Procs,
         BudgetStops(p) \/ \E f \in Files : ParseFails(p, f)
  PROVE  SchemeParts'
<1>1. PICK s \in Runs :
           /\ Become(p, s) /\ SameNames(s, run[p]) /\ Flagged(s)
           /\ s.pc = run[p].pc /\ s.pc \in {"parse", "deps"} /\ s.dels = run[p].dels
           /\ s.todo \subseteq run[p].todo /\ s.parsed = run[p].parsed
  BY DropFacts
<1>2. /\ work' = work /\ index' = index /\ head' = head /\ ref' = ref /\ graph' = graph
      /\ blame' = blame
  BY DEF BudgetStops, ParseFails, KeepHistory, repo, db
<1>3. Trusted(s) => Trusted(run[p])
  BY <1>1 DEF Trusted, SameNames
<1>4. Trusted(run[p]) => StaleOf(run[p])
  BY DEF SchemeParts, Stale
<1>5. Trusted(s) => StaleOf(s)
  BY <1>1, <1>3, <1>4 DEF StaleOf, SameNames
<1>6. Moves(p, s)
  BY <1>2 DEF Moves
<1>7. KeepsOwing(p, s)
  BY <1>1 DEF KeepsOwing, Owes, SameNames
<1>8. Own(s)
  BY <1>1 DEF Own, Claims
<1> QED
  BY <1>1, <1>2, <1>5, <1>6, <1>7, <1>8, InnerStep DEF SchemeParts, SameNames

LEMMA SchemeDependents ==
  ASSUME TypeOK, StepsOK, SchemeParts, NEW p \in Procs, FindDependents(p)
  PROVE  SchemeParts'
<1>1. PICK s \in Runs :
           /\ Become(p, s) /\ SameFlags(s, run[p]) /\ SameNames(s, run[p])
           /\ s.pc = "deps" /\ s.dels = run[p].dels /\ s.parsed = run[p].parsed
  BY DependentsFacts
<1>2. run[p].pc = "parse" /\ run[p].todo = {} /\ run[p].target # "build"
  BY DEF FindDependents, At
<1>3. /\ work' = work /\ index' = index /\ head' = head /\ ref' = ref /\ graph' = graph
      /\ blame' = blame
  BY DEF FindDependents, KeepHistory, repo, db
<1>4. Trusted(s) => Trusted(run[p])
  BY <1>1, <1>2 DEF Trusted, SameNames
<1>5. Trusted(run[p]) => StaleOf(run[p])
  BY DEF SchemeParts, Stale
<1>6. Trusted(s) => StaleOf(s)
  BY <1>1, <1>4, <1>5 DEF StaleOf, SameNames
<1>7. Moves(p, s)
  BY <1>3 DEF Moves
<1>8. KeepsOwing(p, s)
  BY <1>2 DEF KeepsOwing, Owes
<1>9. \A g \in Files : Handles(run[p], g) => Handles(s, g)
  BY <1>1, <1>2 DEF Handles, Reads
<1>10. Own(s)
  BY <1>1, <1>2, <1>7, <1>9, GoesOn DEF SchemeParts, SameNames, SameFlags, Flagged, Working
<1> QED
  BY <1>1, <1>2, <1>3, <1>6, <1>7, <1>8, <1>10, InnerStep DEF SchemeParts, SameNames

LEMMA SchemeStart ==
  ASSUME TypeOK, StepsOK, SchemeParts, NEW p \in Procs, StartWriting(p)
  PROVE  SchemeParts'
<1>1. PICK s \in Runs :
           /\ Become(p, s) /\ SameFlags(s, run[p]) /\ SameNames(s, run[p])
           /\ s.pc = "write" /\ s.dels = run[p].dels /\ s.todo = run[p].todo
           /\ s.parsed = run[p].parsed
  BY StartFacts
<1>2. run[p].pc = "deps" /\ run[p].target # "build"
  BY DEF StartWriting, At, StepsOK, StepOK
<1>3. /\ work' = work /\ index' = index /\ head' = head /\ ref' = ref /\ graph' = graph
      /\ blame' = blame
  BY DEF StartWriting, KeepHistory, repo, db
<1>4. Trusted(s) => Trusted(run[p])
  BY <1>1, <1>2 DEF Trusted, SameNames
<1>5. Trusted(run[p]) => StaleOf(run[p])
  BY DEF SchemeParts, Stale
<1>6. Trusted(s) => StaleOf(s)
  BY <1>1, <1>4, <1>5 DEF StaleOf, SameNames
<1>7. Moves(p, s)
  BY <1>3 DEF Moves
<1>8. KeepsOwing(p, s)
  BY <1>2 DEF KeepsOwing, Owes
<1>9. \A g \in Files : Handles(run[p], g) => Handles(s, g)
  BY <1>1, <1>2 DEF Handles, Reads, SameNames
<1>10. Own(s)
  BY <1>1, <1>2, <1>7, <1>9, GoesOn DEF SchemeParts, SameNames, SameFlags, Flagged, Working
<1> QED
  BY <1>1, <1>2, <1>3, <1>6, <1>7, <1>8, <1>10, InnerStep DEF SchemeParts, SameNames

LEMMA SchemeWrite ==
  ASSUME TypeOK, StepsOK, SchemeParts, NEW p \in Procs, WriteBatch(p)
  PROVE  SchemeParts'
<1>1. PICK s \in Runs : \E S \in SUBSET Parsed(p) :
           /\ Become(p, s) /\ SameNames(s, run[p]) /\ (Flagged(run[p]) => Flagged(s))
           /\ s.pc = run[p].pc /\ s.pc \in {"parse", "write"}
           /\ s.dels = run[p].dels /\ s.todo = run[p].todo
           /\ \A g \in Files : s.parsed[g] = IF g \in S THEN Unread ELSE run[p].parsed[g]
           /\ \A g \in Files : graph'[g] = IF g \in S THEN run[p].parsed[g] ELSE graph[g]
           /\ graph' \in Trees
  BY WriteFacts
<1>2. PICK S \in SUBSET Parsed(p) :
           /\ Become(p, s) /\ SameNames(s, run[p]) /\ (Flagged(run[p]) => Flagged(s))
           /\ s.pc = run[p].pc /\ s.pc \in {"parse", "write"}
           /\ s.dels = run[p].dels /\ s.todo = run[p].todo
           /\ \A g \in Files : s.parsed[g] = IF g \in S THEN Unread ELSE run[p].parsed[g]
           /\ \A g \in Files : graph'[g] = IF g \in S THEN run[p].parsed[g] ELSE graph[g]
  BY <1>1
<1>3. /\ work' = work /\ index' = index /\ head' = head /\ ref' = ref /\ blame' = blame
  BY DEF WriteBatch, KeepHistory, repo
<1>4. Trusted(s) => Trusted(run[p])
  BY <1>2 DEF Trusted, SameNames
<1>5. Trusted(run[p]) => StaleOf(run[p])
  BY DEF SchemeParts, Stale
<1>6. \A g \in S : run[p].parsed[g] # Unread
  BY DEF Parsed
<1>7. Trusted(s) => StaleOf(s)
  BY <1>2, <1>4, <1>5 DEF StaleOf, SameNames
<1>8. Moves(p, s)
  BY <1>2, <1>5, <1>6 DEF Moves, StaleOf
<1>9. \A g \in Files : graph'[g] # work[g] =>
        /\ Reads(run[p], g) => Reads(s, g)
        /\ run[p].parsed[g] = work[g] => s.parsed[g] = work[g]
  BY <1>2 DEF Reads, SameNames
<1>10. KeepsOwing(p, s)
  BY <1>2, <1>9 DEF KeepsOwing, Owes, SameNames
<1>11. \A g \in Files : graph'[g] # work[g] /\ Handles(run[p], g) => Handles(s, g)
  BY <1>2, <1>9 DEF Handles, SameNames
<1>12. Own(s)
  BY <1>2, <1>8, <1>11, GoesOn DEF SchemeParts, SameNames, Working
<1> QED
  BY <1>2, <1>3, <1>7, <1>8, <1>10, <1>12, InnerStep DEF SchemeParts, SameNames

-----------------------------------------------------------------------------
(* The end of a run.                                                       *)

\* A run without a cause of its own is clean.
LEMMA CleanRun ==
  ASSUME NEW r \in Runs, NEW recorded \in {FALSE, ~IsDegraded(r)},
         RunCauses(r, recorded) = {}
  PROVE  /\ r.target = "build" => ~Flagged(r)
         /\ recorded => ~Flagged(r) /\ (r.target = "build" \/ (r.target = "worktree" /\ ~r.fresh))
<1>1. recorded => ~IsDegraded(r)
  OBVIOUS
<1>2. ~(recorded /\ r.target \in SubsetTargets)
  BY DEF RunCauses
<1>3. ~(recorded /\ r.target = "worktree" /\ r.fresh)
  BY DEF RunCauses
<1>4. ~((recorded \/ r.target = "build") /\ (r.skipped \/ r.blocked))
  BY DEF RunCauses
<1>5. ~(r.target = "build" /\ IsDegraded(r))
  BY DEF RunCauses
<1>6. r.target \in Targets
  BY DEF Runs
<1>7. recorded => r.target = "build" \/ (r.target = "worktree" /\ ~r.fresh)
  BY <1>2, <1>3, <1>6 DEF Targets, SubsetTargets
<1> QED
  BY <1>1, <1>4, <1>5, <1>7 DEF Flagged, IsDegraded

LEMMA SchemeRecord ==
  ASSUME TypeOK, StepsOK, SchemeParts, NEW p \in Procs, Record(p)
  PROVE  SchemeParts'
<1>1. PICK s \in Runs : \E recorded \in {FALSE, ~IsDegraded(run[p])} :
           /\ Become(p, s) /\ SameFlags(s, run[p]) /\ SameNames(s, run[p])
           /\ s.pc = "finish" /\ s.dels = run[p].dels /\ s.todo = run[p].todo
           /\ s.parsed = run[p].parsed
           /\ ref' = IF recorded THEN head ELSE ref
           /\ blame' = IF MakesGood(run[p], recorded) THEN run[p].disturbed \cap Causes
                       ELSE blame \cup RunCauses(run[p], recorded)
  BY RecordFacts, Zenon
<1>2. PICK recorded \in {FALSE, ~IsDegraded(run[p])} :
           /\ Become(p, s) /\ SameNames(s, run[p])
           /\ s.pc = "finish" /\ s.dels = run[p].dels /\ s.todo = run[p].todo
           /\ s.parsed = run[p].parsed
           /\ ref' = IF recorded THEN head ELSE ref
           /\ blame' = IF MakesGood(run[p], recorded) THEN run[p].disturbed \cap Causes
                       ELSE blame \cup RunCauses(run[p], recorded)
  BY <1>1, Zenon
<1>3. PICK r \in Runs : r = run[p]
  BY DEF TypeOK
<1>4. /\ r.todo = {} /\ r.pc \in {"parse", "write"} /\ r.dels = {}
      /\ (r.target = "build" => r.pc = "parse")
      /\ \A f \in Files : r.parsed[f] = Unread
  BY <1>3 DEF Record, At, Parsed, StepsOK, StepOK
<1>5. work' = work /\ index' = index /\ head' = head /\ graph' = graph
  BY DEF Record, repo
<1>6. \A q \in Procs : run'[q] = IF q = p THEN s ELSE run[q]
  BY <1>2 DEF Become, TypeOK
<1>7. \A f \in Files : work[f] # Unread
  BY GraphIndexAssumption DEF TypeOK, Trees, Values
<1>8. \A f \in Files : ~Handles(r, f)
  BY <1>4, <1>7 DEF Handles, Reads
<1>9. ~Flagged(r) => \A f \in Files : ~Owes(r, f)
  BY <1>4, <1>7 DEF Owes, Reads
<1>10. \A q \in Procs : run'[q].disturbed = run[q].disturbed
                        /\ (run'[q].pc # "idle" <=> run[q].pc # "idle")
  BY <1>2, <1>3, <1>4, <1>6 DEF SameNames
<1>11. StaleOf(run[p])'
  BY <1>2, <1>3, <1>4, <1>6 DEF StaleOf
<1>12. run'[p].pc = "finish" /\ ~Claims(run[p])'
  BY <1>2, <1>6 DEF Claims, Working
<1>13. CASE MakesGood(r, recorded)
  <2>1. /\ r.target = "build" /\ ref' = head /\ "overlap" \notin r.disturbed
        /\ RunCauses(r, recorded) = {} /\ blame' = r.disturbed \cap Causes
    BY <1>2, <1>3, <1>13 DEF MakesGood
  <2>2. ~Flagged(r)
    BY <1>3, <2>1, CleanRun
  <2>3. \A q \in Procs \ {p} : run[q].pc = "idle" /\ run'[q].pc = "idle"
    BY <1>3, <1>4, <1>6, <2>1 DEF SchemeParts, Noted, Active
  <2>4. Noted'
    BY <1>3, <1>10, <2>1, <2>3 DEF Noted, Active
  <2>5. Stale'
    BY <1>11, <2>3 DEF Stale, Trusted
  <2>6. Progress'
    <3>1. \A q \in Procs : ~Claims(run[q])'
      BY <1>12, <2>3 DEF Claims, Trusted
    <3> QED
      BY <3>1 DEF Progress
  <2>7. Scheme'
    <3> SUFFICES ASSUME blame' = {}, NEW f \in Files,
                        Visible(f)', ref'[f] = work'[f], graph'[f] # work'[f]
                 PROVE  FALSE
      BY DEF Scheme
    <3>1. Claims(run[p])
      BY <1>3, <1>4, <2>1, <2>2 DEF Claims, Trusted, Covers, Working
    <3>2. Visible(f) /\ head[f] = work[f] /\ graph[f] # work[f]
      BY <1>5, <2>1 DEF Visible
    <3>3. Owed(f)
      BY <1>3, <1>8, <3>1, <3>2 DEF SchemeParts, Progress, ProgressOf
    <3>4. PICK q \in Procs : Owes(run[q], f)
      BY <3>3 DEF Owed
    <3> QED
      BY <1>3, <1>9, <2>2, <2>3, <3>4 DEF Owes
  <2> QED
    BY <2>4, <2>5, <2>6, <2>7 DEF SchemeParts
<1>14. CASE ~MakesGood(r, recorded)
  <2>1. blame' = blame \cup RunCauses(r, recorded)
    BY <1>2, <1>3, <1>14
  <2>2. blame' = {} => blame = {} /\ RunCauses(r, recorded) = {}
    BY <2>1
  <2>3. \A q \in Procs : Trusted(run[q])' => Trusted(run[q])
    BY <1>10, <2>2 DEF Trusted
  <2>4. Noted'
    BY <1>10, <2>1 DEF SchemeParts, Noted, Active
  <2>5. \A f \in Files : Stray(f) => Stray(f)'
    BY <1>2, <1>5 DEF Stray
  <2>6. Stale'
    <3> SUFFICES ASSUME NEW q \in Procs, q # p, Trusted(run[q])'
                 PROVE  StaleOf(run[q])'
      BY <1>11 DEF Stale
    <3>1. StaleOf(run[q])
      BY <2>3 DEF SchemeParts, Stale
    <3> QED
      BY <1>5, <1>6, <2>5, <3>1 DEF StaleOf, Visible
  <2>7. ASSUME NEW f \in Files, blame' = {}, Owed(f)
        PROVE  Owed(f)'
    <3>1. PICK q \in Procs : Owes(run[q], f)
      BY <2>7 DEF Owed
    <3>2. q # p
      <4>1. r.target = "build" => ~Flagged(r)
        BY <1>3, <2>2, <2>7, CleanRun
      <4> QED
        BY <1>3, <1>9, <3>1, <4>1 DEF Owes
    <3>3. Owes(run[q], f)'
      BY <1>5, <1>6, <3>1, <3>2 DEF Owes, Reads, Flagged
    <3> QED
      BY <3>3 DEF Owed
  <2>8. Progress'
    <3> SUFFICES ASSUME NEW q \in Procs, q # p, Claims(run[q])', NEW f \in Files,
                        Visible(f)', head'[f] = work'[f], graph'[f] # work'[f]
                 PROVE  Handles(run[q], f)' \/ (graph'[f] = Absent /\ Owed(f)')
      BY <1>12 DEF Progress, ProgressOf
    <3>1. Claims(run[q])
      BY <1>6, <2>2, <2>3 DEF Claims, Covers, Flagged
    <3>2. blame' = {}
      <4>1. "overlap" \in run[q].disturbed
        BY <1>3, <1>4, <3>1 DEF Claims, Trusted, SchemeParts, Noted, Active
      <4> QED
        BY <1>6, <4>1 DEF Claims, Trusted
    <3>3. Handles(run[q], f) \/ (graph[f] = Absent /\ Owed(f))
      BY <1>5, <3>1 DEF SchemeParts, Progress, ProgressOf, Visible
    <3>4. Handles(run[q], f) => Handles(run[q], f)'
      BY <1>5, <1>6 DEF Handles, Reads
    <3> QED
      BY <1>5, <2>7, <3>2, <3>3, <3>4
  <2>9. Scheme'
    <3> SUFFICES ASSUME blame' = {}, ref' # NoRef, NEW f \in Files,
                        Visible(f)', ref'[f] = work'[f], graph'[f] # work'[f]
                 PROVE  graph[f] = Absent /\ Owed(f)
      BY <1>5, <2>7 DEF Scheme
    <3>1. Visible(f) /\ graph[f] # work[f] /\ ref'[f] = work[f]
      BY <1>5 DEF Visible
    <3>2. CASE ~recorded
      BY <1>2, <2>2, <3>1, <3>2 DEF SchemeParts, Scheme
    <3>3. CASE recorded
      <4>1. ~Flagged(r) /\ (r.target = "build" \/ (r.target = "worktree" /\ ~r.fresh))
        BY <1>3, <2>2, <3>3, CleanRun
      <4>2. Trusted(r)
        BY <1>3, <1>4, <2>2 DEF Trusted, SchemeParts, Noted, Active
      <4>3. Claims(run[p])
        BY <1>3, <1>4, <2>2, <4>1, <4>2 DEF Claims, Covers, Working
      <4>4. head[f] = work[f]
        BY <1>2, <3>1, <3>3
      <4> QED
        BY <1>3, <1>8, <3>1, <4>3, <4>4 DEF SchemeParts, Progress, ProgressOf
    <3> QED
      BY <3>2, <3>3
  <2> QED
    BY <2>4, <2>6, <2>8, <2>9 DEF SchemeParts
<1> QED
  BY <1>13, <1>14

LEMMA SchemeEnd ==
  ASSUME TypeOK, StepsOK, SchemeParts, NEW p \in Procs, Finish(p) \/ RunFails(p) \/ Crash(p)
  PROVE  SchemeParts'
<1>1. Become(p, Idle) /\ run[p].pc # "idle"
  BY DEF Finish, RunFails, Crash, Set, Become, At, Active, Pcs
<1>2. work' = work /\ index' = index /\ head' = head /\ graph' = graph /\ ref' = ref
  BY DEF Finish, RunFails, Crash, repo, db
<1>3. /\ blame \subseteq blame'
      /\ blame' = {} => ~(run[p].target = "build" /\ run[p].pc \in {"delete", "parse"})
  BY DEF Finish, RunFails, Crash, Broken, At
<1>4. \A q \in Procs : run'[q] = IF q = p THEN Idle ELSE run[q]
  BY <1>1 DEF Become, TypeOK
<1>5. run'[p].pc = "idle"
  BY <1>4, IdleFacts
<1>6. blame' = {} => blame = {}
  BY <1>3
<1>7. \A q \in Procs : Trusted(run[q])' => q # p /\ Trusted(run[q])
  BY <1>4, <1>5, <1>6 DEF Trusted
<1>8. Noted'
  BY <1>3, <1>4, <1>5 DEF SchemeParts, Noted, Active
<1>9. Stale'
  <2> SUFFICES ASSUME NEW q \in Procs, Trusted(run[q])'
               PROVE  StaleOf(run[q])'
    BY DEF Stale
  <2>1. StaleOf(run[q]) /\ q # p
    BY <1>7 DEF SchemeParts, Stale
  <2> QED
    BY <1>2, <1>4, <2>1 DEF StaleOf, Stray, Visible
<1>10. ASSUME NEW f \in Files, blame' = {}, Owed(f)
       PROVE  Owed(f)'
  <2>1. PICK q \in Procs : Owes(run[q], f)
    BY <1>10 DEF Owed
  <2>2. q # p
    BY <1>3, <1>10, <2>1 DEF Owes
  <2>3. Owes(run[q], f)'
    BY <1>2, <1>4, <2>1, <2>2 DEF Owes, Reads, Flagged
  <2> QED
    BY <2>3 DEF Owed
<1>11. Progress'
  <2> SUFFICES ASSUME NEW q \in Procs, Claims(run[q])', NEW f \in Files,
                      Visible(f)', head'[f] = work'[f], graph'[f] # work'[f]
               PROVE  Handles(run[q], f)' \/ (graph'[f] = Absent /\ Owed(f)')
    BY DEF Progress, ProgressOf
  <2>1. q # p /\ Trusted(run[q])
    BY <1>7 DEF Claims
  <2>2. Claims(run[q])
    BY <1>4, <1>6, <2>1 DEF Claims, Covers, Flagged
  <2>3. blame' = {}
    <3>1. "overlap" \in run[q].disturbed
      BY <1>1, <2>1 DEF Trusted, SchemeParts, Noted, Active
    <3> QED
      BY <1>4, <2>1, <3>1 DEF Claims, Trusted
  <2>4. Handles(run[q], f) \/ (graph[f] = Absent /\ Owed(f))
    BY <1>2, <2>2 DEF SchemeParts, Progress, ProgressOf, Visible
  <2>5. Handles(run[q], f) => Handles(run[q], f)'
    BY <1>2, <1>4, <2>1 DEF Handles, Reads
  <2> QED
    BY <1>2, <1>10, <2>3, <2>4, <2>5
<1>12. Scheme'
  <2> SUFFICES ASSUME blame' = {}, ref' # NoRef, NEW f \in Files,
                      Visible(f)', ref'[f] = work'[f], graph'[f] # work'[f]
               PROVE  graph[f] = Absent /\ Owed(f)
    BY <1>2, <1>10 DEF Scheme
  <2> QED
    BY <1>2, <1>6 DEF SchemeParts, Scheme, Visible
<1> QED
  BY <1>8, <1>9, <1>11, <1>12 DEF SchemeParts

-----------------------------------------------------------------------------
(* The user, and the beginning of a run.                                   *)

\* A mark changes nothing but what has disturbed the run.
LEMMA MarkedFacts ==
  \A p \in Procs : \A c : Marked(p, c) =>
    /\ run'[p].pc = run[p].pc /\ run'[p].target = run[p].target
    /\ Flagged(run'[p]) <=> Flagged(run[p])
    /\ run'[p].fresh = run[p].fresh
    /\ \A f \in Files : work'[f] = work[f] =>
         /\ Owes(run[p], f)' <=> Owes(run[p], f)
         /\ Handles(run[p], f)' <=> Handles(run[p], f)
<1> SUFFICES ASSUME NEW p \in Procs, NEW c, Marked(p, c)
             PROVE  /\ run'[p].pc = run[p].pc /\ run'[p].target = run[p].target
                    /\ Flagged(run'[p]) <=> Flagged(run[p])
                    /\ run'[p].fresh = run[p].fresh
                    /\ \A f \in Files : work'[f] = work[f] =>
                         /\ Owes(run[p], f)' <=> Owes(run[p], f)
                         /\ Handles(run[p], f)' <=> Handles(run[p], f)
  OBVIOUS
<1>1. run'[p].pc = run[p].pc /\ run'[p].target = run[p].target /\ run'[p].fresh = run[p].fresh
      /\ run'[p].known = run[p].known /\ run'[p].dels = run[p].dels
      /\ run'[p].todo = run[p].todo /\ run'[p].parsed = run[p].parsed
      /\ SameFlags(run'[p], run[p])
  BY Zenon DEF Marked
<1>2. Flagged(run'[p]) <=> Flagged(run[p])
  BY <1>1 DEF Flagged, SameFlags
<1>3. \A f \in Files : work'[f] = work[f] => (Owes(run[p], f)' <=> Owes(run[p], f))
  BY <1>1, <1>2 DEF Owes, Reads, Flagged
<1>4. \A f \in Files : work'[f] = work[f] => (Handles(run[p], f)' <=> Handles(run[p], f))
  BY <1>1 DEF Handles, Reads
<1> QED
  BY <1>1, <1>2, <1>3, <1>4

LEMMA SchemeBegin ==
  ASSUME TypeOK, StepsOK, SchemeParts, NEW p \in Procs, NEW t \in Targets, Begin(p, t)
  PROVE  SchemeParts'
<1>1. PICK c \in {{}, {"overlap"}} : Begun(p, t, c)
  BY BeginStep
<1>2. work' = work /\ index' = index /\ head' = head /\ graph' = graph /\ ref' = ref /\ blame' = blame
  BY DEF Begin, repo
<1>3. run[p].pc = "idle"
  BY DEF Begin, Active
<1>4. \A q \in Procs \ {p} : Marked(q, c)
  BY <1>1 DEF Begun
<1>5. run'[p].pc = "list" /\ run'[p].disturbed = c /\ run'[p].dels = {}
      /\ \A f \in Files : run'[p].parsed[f] = Unread
  BY <1>1 DEF Begun, NothingParsed
<1>6. ASSUME NEW q \in Procs \ {p}
      PROVE  /\ run'[q].pc = run[q].pc /\ run'[q].dels = run[q].dels
             /\ run'[q].parsed = run[q].parsed /\ run'[q].target = run[q].target
             /\ run'[q].disturbed \cap Causes = run[q].disturbed \cap Causes
             /\ "overlap" \notin run'[q].disturbed => "overlap" \notin run[q].disturbed
             /\ run[q].pc # "idle" => "overlap" \in run'[q].disturbed
  <2>1. /\ run'[q].pc = run[q].pc /\ run'[q].dels = run[q].dels
        /\ run'[q].parsed = run[q].parsed /\ run'[q].target = run[q].target
        /\ run'[q].disturbed = IF run[q].pc = "idle" THEN run[q].disturbed
                               ELSE run[q].disturbed \cup c
    BY <1>4, <1>6, Zenon DEF Marked
  <2>2. run[q].pc # "idle" => c = {"overlap"}
    BY <1>1 DEF Begun, Quiet, Active
  <2>3. c \cap Causes = {}
    BY DEF Causes
  <2> QED
    BY <2>1, <2>2, <2>3
<1>7. Noted'
  <2>1. run'[p].disturbed \cap Causes \subseteq blame
    BY <1>5 DEF Causes
  <2>2. "overlap" \notin run'[p].disturbed => \A q \in Procs \ {p} : run'[q].pc = "idle"
    BY <1>1, <1>5, <1>6 DEF Begun, Quiet, Active
  <2> QED
    BY <1>2, <1>6, <2>1, <2>2 DEF SchemeParts, Noted, Active
<1>8. \A q \in Procs \ {p} : Trusted(run[q])' => Trusted(run[q])
  BY <1>2, <1>6 DEF Trusted
<1>9. Stale'
  <2> SUFFICES ASSUME NEW q \in Procs, Trusted(run[q])'
               PROVE  StaleOf(run[q])'
    BY DEF Stale
  <2>1. CASE q = p
    BY <1>5, <2>1 DEF StaleOf
  <2>2. CASE q # p
    <3>1. StaleOf(run[q])
      BY <1>8, <2>2 DEF SchemeParts, Stale
    <3> QED
      BY <1>2, <1>6, <2>2, <3>1 DEF StaleOf, Stray, Visible
  <2> QED
    BY <2>1, <2>2
<1>10. ASSUME NEW f \in Files, Owed(f)
       PROVE  Owed(f)'
  <2>1. PICK q \in Procs : Owes(run[q], f)
    BY <1>10 DEF Owed
  <2>2. q # p
    BY <1>3, <2>1 DEF Owes
  <2>3. Owes(run[q], f)'
    BY <1>2, <1>4, <2>1, <2>2, MarkedFacts
  <2> QED
    BY <2>3 DEF Owed
<1>11. Progress'
  <2> SUFFICES ASSUME NEW q \in Procs, Claims(run[q])', NEW f \in Files,
                      Visible(f)', head'[f] = work'[f], graph'[f] # work'[f]
               PROVE  Handles(run[q], f)' \/ (graph'[f] = Absent /\ Owed(f)')
    BY DEF Progress, ProgressOf
  <2>1. q # p
    BY <1>5 DEF Claims, Working
  <2>2. Trusted(run[q])
    BY <1>8, <2>1 DEF Claims
  <2>3. Claims(run[q])
    <3>1. run'[q].pc = run[q].pc /\ run'[q].target = run[q].target
          /\ (Flagged(run'[q]) <=> Flagged(run[q])) /\ run'[q].fresh = run[q].fresh
      BY <1>2, <1>4, <2>1, MarkedFacts
    <3>2. Flagged(run[q])' <=> Flagged(run'[q])
      BY DEF Flagged
    <3> QED
      BY <1>2, <2>2, <3>1, <3>2 DEF Claims, Covers
  <2>4. Handles(run[q], f) \/ (graph[f] = Absent /\ Owed(f))
    BY <1>2, <2>3 DEF SchemeParts, Progress, ProgressOf, Visible
  <2>5. Handles(run[q], f) => Handles(run[q], f)'
    BY <1>2, <1>4, <2>1, MarkedFacts
  <2> QED
    BY <1>2, <1>10, <2>4, <2>5
<1>12. Scheme'
  BY <1>2, <1>10 DEF SchemeParts, Scheme, Visible
<1> QED
  BY <1>7, <1>9, <1>11, <1>12 DEF SchemeParts

\* What the user does that puts nothing back: every file is as it was for git diff
\* and for the runs, or has become a stray.
Harmless ==
  \/ Quiet /\ work' = work /\ index' = index
  \/ \A f \in Files :
       Stray(f)' \/ (work'[f] = work[f] /\ head'[f] = head[f] /\ (Visible(f)' => Visible(f)))

LEMMA SchemeUser ==
  ASSUME TypeOK, StepsOK, SchemeParts, NEW c \in SUBSET Causes, UserStep(c), c = {} => Harmless
  PROVE  SchemeParts'
<1>1. /\ \A p \in Procs : Marked(p, c \cup {"edit"})
      /\ blame' = blame \cup c /\ graph' = graph /\ ref' = ref
  BY UserFacts
<1>2. ASSUME NEW q \in Procs
      PROVE  /\ run'[q].pc = run[q].pc /\ run'[q].dels = run[q].dels
             /\ run'[q].parsed = run[q].parsed /\ run'[q].target = run[q].target
             /\ run'[q].disturbed = IF run[q].pc = "idle" THEN run[q].disturbed
                                    ELSE run[q].disturbed \cup (c \cup {"edit"})
  BY <1>1, <1>2, Zenon DEF Marked
<1>3. "edit" \notin Causes /\ "overlap" \notin Causes
  BY DEF Causes
<1>4. Noted'
  <2>1. ASSUME NEW q \in Procs, run[q].pc # "idle"
        PROVE  /\ run'[q].disturbed \cap Causes \subseteq (run[q].disturbed \cap Causes) \cup c
               /\ "overlap" \notin run'[q].disturbed => "overlap" \notin run[q].disturbed
    BY <1>2, <1>3, <2>1
  <2> QED
    BY <1>1, <1>2, <2>1 DEF SchemeParts, Noted, Active
<1>5. ASSUME NEW q \in Procs, Trusted(run[q])'
      PROVE  Trusted(run[q]) /\ c = {} /\ ~Quiet
  <2>1. run[q].pc # "idle" /\ run'[q].disturbed = run[q].disturbed \cup (c \cup {"edit"})
    BY <1>2, <1>5 DEF Trusted
  <2>2. c = {} /\ run[q].disturbed \cap Causes = {}
    BY <1>5, <2>1 DEF Trusted
  <2>3. blame' = {} \/ "overlap" \notin run'[q].disturbed
    BY <1>5 DEF Trusted
  <2>4. blame = {} \/ "overlap" \notin run[q].disturbed
    BY <1>1, <2>1, <2>2, <2>3
  <2> QED
    BY <2>1, <2>2, <2>4 DEF Trusted, Quiet, Active
<1>6. ASSUME NEW q \in Procs, Trusted(run[q])', NEW f \in Files
      PROVE  Stray(f)' \/ (work'[f] = work[f] /\ head'[f] = head[f] /\ (Visible(f)' => Visible(f)))
  BY <1>5, <1>6 DEF Harmless
<1>7. Stale'
  <2> SUFFICES ASSUME NEW q \in Procs, Trusted(run[q])', NEW f \in Files, ~Stray(f)'
               PROVE  /\ run'[q].parsed[f] \in {Unread, work'[f]}
                      /\ ~(run'[q].target # "build" /\ f \in run'[q].dels /\ Visible(f)'
                           /\ work'[f] # Absent)
    BY DEF Stale, StaleOf
  <2>1. StaleOf(run[q])
    BY <1>5 DEF SchemeParts, Stale
  <2>2. work'[f] = work[f] /\ head'[f] = head[f] /\ (Visible(f)' => Visible(f))
    BY <1>6
  <2>3. ~Stray(f)
    BY <1>1, <2>2 DEF Stray
  <2> QED
    BY <1>2, <2>1, <2>2, <2>3 DEF StaleOf
<1>8. ASSUME NEW f \in Files, work'[f] = work[f], Owed(f)
      PROVE  Owed(f)'
  <2>1. PICK q \in Procs : Owes(run[q], f)
    BY <1>8 DEF Owed
  <2>2. Owes(run[q], f)'
    BY <1>1, <1>8, <2>1, MarkedFacts
  <2> QED
    BY <2>2 DEF Owed
<1>9. Progress'
  <2> SUFFICES ASSUME NEW q \in Procs, Claims(run[q])', NEW f \in Files,
                      Visible(f)', head'[f] = work'[f], graph'[f] # work'[f]
               PROVE  Handles(run[q], f)' \/ (graph'[f] = Absent /\ Owed(f)')
    BY DEF Progress, ProgressOf
  <2>1. Trusted(run[q])' /\ Trusted(run[q]) /\ c = {}
    BY <1>5 DEF Claims
  <2>2. work'[f] = work[f] /\ head'[f] = head[f] /\ Visible(f)
    BY <1>6, <2>1 DEF Stray
  <2>3. run'[q].pc = run[q].pc /\ run'[q].target = run[q].target
        /\ (Flagged(run'[q]) <=> Flagged(run[q])) /\ run'[q].fresh = run[q].fresh
        /\ (Handles(run[q], f)' <=> Handles(run[q], f))
    BY <1>1, <2>2, MarkedFacts
  <2>4. Flagged(run[q])' <=> Flagged(run'[q])
    BY DEF Flagged
  <2>5. Claims(run[q])
    BY <1>1, <2>1, <2>3, <2>4 DEF Claims, Covers
  <2>6. Handles(run[q], f) \/ (graph[f] = Absent /\ Owed(f))
    BY <1>1, <2>2, <2>5 DEF SchemeParts, Progress, ProgressOf
  <2> QED
    BY <1>1, <1>8, <2>2, <2>3, <2>6
<1>10. Scheme'
  <2> SUFFICES ASSUME blame' = {}, ref' # NoRef, NEW f \in Files,
                      Visible(f)', ref'[f] = work'[f], graph'[f] # work'[f]
               PROVE  graph'[f] = Absent /\ Owed(f)'
    BY DEF Scheme
  <2>1. blame = {} /\ c = {}
    BY <1>1
  <2>2. work'[f] = work[f] /\ Visible(f)
    BY <2>1 DEF Harmless, Stray, Visible
  <2> QED
    BY <1>1, <1>8, <2>1, <2>2 DEF SchemeParts, Scheme
<1> QED
  BY <1>4, <1>7, <1>9, <1>10 DEF SchemeParts

LEMMA SchemeEdit ==
  ASSUME TypeOK, StepsOK, SchemeParts, NEW f \in Files, NEW v \in Values, Edit(f, v)
  PROVE  SchemeParts'
<1>1. PICK c \in SUBSET Causes : c = PutsBack(f, v)
  BY DEF PutsBack, Causes
<1>2. UserStep(c)
  BY <1>1 DEF Edit
<1>3. /\ \A g \in Files : work'[g] = IF g = f THEN v ELSE work[g]
      /\ index' = index /\ head' = head /\ ref' = ref
  BY DEF Edit, UserStep, db, TypeOK, Trees
<1>4. c = {} => Stray(f)'
  BY <1>1, <1>3 DEF PutsBack, Stray
<1>5. c = {} => Harmless
  BY <1>3, <1>4 DEF Harmless, Visible
<1> QED
  BY <1>2, <1>5, SchemeUser

LEMMA SchemeStage ==
  ASSUME TypeOK, StepsOK, SchemeParts, NEW f \in Files, Stage(f)
  PROVE  SchemeParts'
<1>1. PICK c \in SUBSET Causes : c = IF index[f] = Absent THEN PutsBack(f, work[f]) ELSE {}
  BY DEF PutsBack, Causes
<1>2. UserStep(c)
  BY <1>1 DEF Stage
<1>3. /\ \A g \in Files : index'[g] = IF g = f THEN work[g] ELSE index[g]
      /\ work' = work /\ head' = head /\ ref' = ref
  BY DEF Stage, UserStep, db, TypeOK, Trees
<1>4. c = {} => Stray(f)' \/ Visible(f)
  BY <1>1, <1>3 DEF PutsBack, Stray, Visible
<1>5. c = {} => Harmless
  BY <1>3, <1>4 DEF Harmless, Visible
<1> QED
  BY <1>2, <1>5, SchemeUser

LEMMA SchemeCommit ==
  ASSUME TypeOK, StepsOK, SchemeParts, Commit
  PROVE  SchemeParts'
<1>1. PICK c \in SUBSET Causes : c = IF Quiet THEN {} ELSE {"commit"}
  BY DEF Causes
<1>2. UserStep(c)
  BY <1>1 DEF Commit
<1>3. c = {} => Harmless
  BY <1>1 DEF Harmless, Commit
<1> QED
  BY <1>2, <1>3, SchemeUser

LEMMA SchemeStep ==
  ASSUME SchemeInv, [Next]_vars
  PROVE  SchemeInv'
<1>1. TypeOK' /\ StepsOK'
  BY TypeStep, StepsStep DEF SchemeInv
<1>2. CASE UNCHANGED vars
  <2>1. SchemeParts'
    BY <1>2 DEF vars, SchemeInv, SchemeParts, Noted, Stale, Progress, Scheme, Active, Trusted,
                StaleOf, Claims, ProgressOf, Stray, Visible, Covers, Flagged, Owed, Owes, Handles, Reads
  <2> QED
    BY <1>1, <2>1 DEF SchemeInv, SchemeParts
<1>3. CASE Next
  <2>1. TypeOK /\ StepsOK /\ SchemeParts
    BY DEF SchemeInv, SchemeParts
  <2>2. SchemeParts'
    BY <1>3, <2>1, SchemeEdit, SchemeStage, SchemeCommit, SchemeBegin, SchemeList, SchemeDetect,
       SchemeScan, SchemeDrop, SchemeDependents, SchemeStart, SchemeWrite, SchemeRecord, SchemeEnd,
       SchemeDelete, SchemeParse DEF Next
  <2> QED
    BY <1>1, <2>2 DEF SchemeInv, SchemeParts
<1> QED
  BY <1>2, <1>3

LEMMA SchemeInit == Init => SchemeInv
<1> SUFFICES ASSUME Init
             PROVE  SchemeInv
  OBVIOUS
<1>1. \A p \in Procs : run[p] = Idle
  BY DEF Init
<1>2. \A p \in Procs : run[p].pc = "idle" /\ run[p].dels = {} /\ run[p].known = NoSlices
                       /\ run[p].target = "build" /\ run[p].parsed = NothingParsed
  BY <1>1, IdleFacts
<1>3. StepsOK
  BY <1>2 DEF StepsOK, StepOK, NothingParsed
<1>4. Noted /\ Stale /\ Progress
  BY <1>2 DEF Noted, Stale, Progress, Active, Claims, Trusted
<1>5. Scheme
  BY DEF Scheme, Init
<1> QED
  BY <1>3, <1>4, <1>5, TypeInit DEF SchemeInv

\* A visible file is reported unless it is what the recorded commit holds.
LEMMA SchemeFinds == SchemeInv => NoOtherCause
<1> SUFFICES ASSUME SchemeInv, Quiet, ref # NoRef, blame = {}, NEW f \in Files,
                    Visible(f), graph[f] # work[f]
             PROVE  f \in DiffDefault
  BY DEF NoOtherCause
<1>1. ~Owed(f)
  BY DEF Owed, Owes, Quiet, Active
<1>2. ref[f] # work[f]
  BY <1>1 DEF SchemeInv, Scheme
<1> QED
  BY <1>2 DEF DiffDefault, DiffTree, Visible

\* The scheme of last_indexed_ref works, whatever overlaps, is dropped, fails or
\* crashes: when no run is under way, a default update of update_graph processes
\* every visible file whose slice does not match, unless a cause has been noted
\* since the last clean build.
THEOREM UpdatesFindStaleSlices == Spec => []NoOtherCause
<1>1. SchemeInv /\ [Next]_vars => SchemeInv'
  BY SchemeStep
<1> QED
  BY <1>1, SchemeInit, SchemeFinds, PTL DEF Spec

-----------------------------------------------------------------------------
(* The runs that leave a current graph.                                    *)

\* An undisturbed run is alone.
LEMMA Alone ==
  ASSUME Noted, NEW p \in Procs, NEW q \in Procs, p # q,
         run[p].pc # "idle", run[q].disturbed = {}
  PROVE  run[q].pc = "idle"
BY DEF Noted, Active

LEMMA IdleSettling ==
  ASSUME StepsOK
  PROVE  \A p \in Procs : run[p].pc = "idle" =>
           ExactOf(run[p]) /\ SettlingOf(run[p]) /\ FirstOf(run[p])
BY DEF StepsOK, StepOK, ExactOf, SettlingOf, FirstOf, Working

\* The step of a run that does not touch the repository and the record.
LEMMA InnerSettled ==
  ASSUME TypeOK, StepsOK', Noted, SettledParts,
         NEW p \in Procs, NEW s \in Runs, Become(p, s),
         work' = work, index' = index, settled' = settled,
         run[p].pc # "idle",
         ExactOf(run[p])', SettlingOf(run[p])', FirstOf(run[p])'
  PROVE  SettledParts'
<1>1. \A q \in Procs : run'[q] = IF q = p THEN s ELSE run[q]
  BY DEF Become, TypeOK
<1>2. ~settled'
  BY DEF SettledParts, Quiet, Active
<1>3. ASSUME NEW q \in Procs, q # p
      PROVE  ExactOf(run[q])' /\ SettlingOf(run[q])' /\ FirstOf(run[q])'
  <2>1. run'[q] = run[q]
    BY <1>1, <1>3
  <2>2. CASE run[q].disturbed = {}
    <3>1. run'[q].pc = "idle"
      BY <1>3, <2>1, <2>2, Alone
    <3>2. StepOK(run'[q])
      BY DEF StepsOK, StepOK
    <3> QED
      BY <3>1, <3>2 DEF StepOK, ExactOf, SettlingOf, FirstOf, Working
  <2>3. CASE run[q].disturbed # {}
    BY <2>1, <2>3 DEF ExactOf, SettlingOf, FirstOf
  <2> QED
    BY <2>2, <2>3
<1>4. Settling'
  BY <1>3 DEF Settling
<1> QED
  BY <1>2, <1>4 DEF SettledParts, SettledIsCurrent

\* A run that goes on with what it handles.
LEMMA GoesOnSettled ==
  ASSUME TypeOK, Noted, SettledParts,
         NEW p \in Procs, NEW s \in Runs, Become(p, s),
         work' = work, index' = index, ref' = ref, blame' = blame,
         s.target = run[p].target, s.disturbed = run[p].disturbed, s.fresh = run[p].fresh,
         run[p].pc \in Working, Flagged(run[p]) => Flagged(s),
         run[p].disturbed = {} => \A f \in Files :
           \/ graph'[f] = graph[f] \/ graph'[f] = work[f] \/ ~Visible(f) \/ Handles(s, f),
         ~Flagged(s) => \A f \in Files :
           Visible(f) /\ graph'[f] # work[f] /\ Handles(run[p], f) => Handles(s, f)
  PROVE  SettlingOf(run[p])' /\ FirstOf(run[p])'
<1>1. run'[p] = s
  BY DEF Become, TypeOK
<1>2. FirstOf(run[p])'
  BY <1>1 DEF FirstOf, SettledParts, Settling, Working
<1>3. SettlingOf(run[p])'
  <2> SUFFICES ASSUME s.disturbed = {}, ~Flagged(s), Covers(s), NEW f \in Files,
                      Visible(f), graph'[f] # work[f]
               PROVE  Handles(s, f)
    BY <1>1 DEF SettlingOf, Flagged, Covers, Visible, Handles, Reads
  <2>1. \A g \in Files : Visible(g) /\ graph[g] # work[g] => Handles(run[p], g)
    <3>1. Covers(run[p]) /\ ~Flagged(run[p])
      BY DEF Covers
    <3> QED
      BY <3>1 DEF SettledParts, Settling, SettlingOf
  <2> QED
    BY <2>1
<1> QED
  BY <1>2, <1>3

LEMMA SettledList ==
  ASSUME TypeOK, StepsOK, StepsOK', SchemeParts, SettledParts, NEW p \in Procs, ListSlices(p)
  PROVE  SettledParts'
<1>1. PICK s \in Runs :
           /\ Become(p, s) /\ SameFlags(s, run[p]) /\ SameNames(s, run[p])
           /\ s.pc = "delete" /\ s.dels = {f \in Files : graph[f] # Absent}
           /\ s.todo = run[p].todo /\ s.parsed = run[p].parsed
  BY ListFacts
<1>2. /\ run[p].pc = "list" /\ s.target = "build" /\ run'[p] = s
      /\ \A f \in Files : s.parsed[f] = Unread
  BY <1>1 DEF ListSlices, At, StepsOK, StepOK, SameNames, Become, TypeOK
<1>3. work' = work /\ index' = index /\ graph' = graph /\ settled' = settled
  BY DEF ListSlices, KeepHistory, repo, db
<1>4. ExactOf(run[p])' /\ FirstOf(run[p])'
  BY <1>2 DEF ExactOf, FirstOf
<1>5. SettlingOf(run[p])'
  BY <1>1, <1>2, <1>3 DEF SettlingOf, Handles
<1> QED
  BY <1>1, <1>2, <1>3, <1>4, <1>5, InnerSettled DEF SchemeParts

LEMMA SettledDetect ==
  ASSUME TypeOK, StepsOK, StepsOK', SchemeParts, SettledParts, NEW p \in Procs, DetectChanges(p)
  PROVE  SettledParts'
<1>1. PICK s \in Runs : \E changes \in Changes(run[p].target) : \E kept \in SUBSET changes :
           /\ Become(p, s)
           /\ s.target = run[p].target /\ s.disturbed = run[p].disturbed
           /\ s.known = run[p].known /\ s.parsed = run[p].parsed
           /\ s.blocked = run[p].blocked /\ s.lost = run[p].lost /\ s.skipped = run[p].skipped
           /\ s.pc = "delete"
           /\ s.dels = {f \in kept : IsDeletion(run[p].target, f)}
           /\ s.todo = kept \ s.dels
           /\ s.partial = (kept # changes) /\ s.fresh = (ref = NoRef)
  BY DetectFacts
<1>2. PICK changes \in Changes(run[p].target) : \E kept \in SUBSET changes :
           /\ Become(p, s)
           /\ s.target = run[p].target /\ s.disturbed = run[p].disturbed
           /\ s.known = run[p].known /\ s.parsed = run[p].parsed
           /\ s.pc = "delete"
           /\ s.dels = {f \in kept : IsDeletion(run[p].target, f)}
           /\ s.todo = kept \ s.dels
           /\ s.partial = (kept # changes) /\ s.fresh = (ref = NoRef)
  BY <1>1
<1>3. PICK kept \in SUBSET changes :
           /\ Become(p, s)
           /\ s.target = run[p].target /\ s.disturbed = run[p].disturbed
           /\ s.known = run[p].known /\ s.parsed = run[p].parsed
           /\ s.pc = "delete"
           /\ s.dels = {f \in kept : IsDeletion(run[p].target, f)}
           /\ s.todo = kept \ s.dels
           /\ s.partial = (kept # changes) /\ s.fresh = (ref = NoRef)
  BY <1>2
<1>4. /\ run[p].pc = "list" /\ run[p].target # "build" /\ s.target # "build" /\ run'[p] = s
      /\ s.known = NoSlices /\ \A f \in Files : s.parsed[f] = Unread
  BY <1>3 DEF DetectChanges, At, StepsOK, StepOK, Become, TypeOK
<1>5. /\ work' = work /\ index' = index /\ ref' = ref /\ graph' = graph /\ blame' = blame
      /\ settled' = settled
  BY DEF DetectChanges, KeepHistory, repo, db
<1>6. ASSUME NEW f \in Files, f \in s.dels, Visible(f)
      PROVE  work[f] = Absent
  BY <1>3, <1>6 DEF IsDeletion, Visible
<1>7. ExactOf(run[p])'
  BY <1>4, <1>5, <1>6 DEF ExactOf, Visible
<1>8. FirstOf(run[p])'
  BY <1>3, <1>4, <1>5 DEF FirstOf
<1>9. SettlingOf(run[p])'
  <2> SUFFICES ASSUME s.disturbed = {}, ~Flagged(s), Covers(s), NEW f \in Files,
                      Visible(f), graph[f] # work[f]
               PROVE  Handles(s, f)
    BY <1>4, <1>5 DEF SettlingOf, Flagged, Covers, Visible, Handles, Reads
  <2>1. s.target = "worktree" /\ ref # NoRef /\ blame = {} /\ kept = changes
    BY <1>3, <1>4 DEF Covers, Flagged
  <2>2. changes = DiffTree(ref)
    BY <1>3, <2>1 DEF Changes, DiffDefault
  <2>3. f \in kept
    <3> SUFFICES ASSUME f \notin kept
                 PROVE  FALSE
      OBVIOUS
    <3>1. ref[f] = work[f]
      BY <2>1, <2>2 DEF DiffTree, Visible
    <3>2. PICK q \in Procs : Owes(run[q], f)
      BY <2>1, <3>1 DEF SchemeParts, Scheme, Owed
    <3>3. q # p /\ run[q].pc # "idle"
      BY <1>4, <3>2 DEF Owes
    <3> QED
      BY <1>3, <1>4, <3>3 DEF SchemeParts, Noted, Active
  <2>4. CASE IsDeletion("worktree", f)
    <3>1. f \in s.dels
      BY <1>3, <2>1, <2>3, <2>4
    <3>2. work[f] = Absent
      BY <1>6, <3>1
    <3> QED
      BY <3>1, <3>2 DEF Handles
  <2>5. CASE ~IsDeletion("worktree", f)
    <3>1. f \in s.todo
      BY <1>3, <2>1, <2>3, <2>5
    <3>2. work[f] # Absent
      BY <2>5 DEF IsDeletion
    <3>3. s.known[f] = Absent
      BY <1>4 DEF NoSlices
    <3> QED
      BY <3>1, <3>2, <3>3 DEF Handles, Reads
  <2> QED
    BY <2>4, <2>5
<1> QED
  BY <1>3, <1>4, <1>5, <1>7, <1>8, <1>9, InnerSettled DEF SchemeParts

\* The steps that read: what the run handled it goes on handling, or it is flagged.
ReadStep(p) ==
  \/ Scan(p) \/ BudgetStops(p) \/ FindDependents(p) \/ StartWriting(p)
  \/ \E f \in Files : ParseFile(p, f) \/ ParseFails(p, f)

Continues(r, s) ==
  /\ s.target = r.target /\ s.disturbed = r.disturbed /\ s.fresh = r.fresh
  /\ Flagged(r) => Flagged(s)
  /\ s.dels \subseteq r.dels
  /\ \A f \in Files : s.parsed[f] \in {r.parsed[f], work[f]}
  /\ ~Flagged(s) => \A f \in Files : graph[f] # work[f] /\ Handles(r, f) => Handles(s, f)

LEMMA ReadContinues ==
  ASSUME TypeOK, StepsOK, NEW p \in Procs, ReadStep(p)
  PROVE  \E s \in Runs : Become(p, s) /\ Continues(run[p], s)
<1>1. CASE Scan(p)
  <2>1. PICK s \in Runs :
           /\ Become(p, s) /\ SameFlags(s, run[p])
           /\ s.target = run[p].target /\ s.disturbed = run[p].disturbed /\ s.fresh = run[p].fresh
           /\ s.pc = "parse" /\ s.dels = {} /\ s.parsed = run[p].parsed
           /\ IF s.target = "build"
              THEN s.known = graph /\ s.todo = {f \in Files : work[f] # Absent}
              ELSE s.known = run[p].known /\ s.todo = run[p].todo
    BY <1>1, ScanFacts
  <2>2. run[p].pc = "delete" /\ run[p].dels = {}
    BY <1>1 DEF Scan, At
  <2>3. \A g \in Files : graph[g] # work[g] /\ Handles(run[p], g) => Handles(s, g)
    BY <2>1, <2>2 DEF Handles, Reads
  <2> QED
    BY <2>1, <2>3 DEF Continues, SameFlags, Flagged
<1>2. ASSUME NEW f \in Files, ParseFile(p, f)
      PROVE  \E s \in Runs : Become(p, s) /\ Continues(run[p], s)
  <2>1. PICK s \in Runs :
           /\ Become(p, s) /\ SameFlags(s, run[p]) /\ SameNames(s, run[p])
           /\ s.pc = run[p].pc /\ s.pc \in {"parse", "deps"} /\ s.dels = run[p].dels
           /\ s.todo = run[p].todo \ {f}
           /\ \A g \in Files : s.parsed[g] =
                IF g = f /\ Reads(run[p], f) THEN work[f] ELSE run[p].parsed[g]
    BY <1>2, ParseFacts
  <2>2. \A g \in Files : /\ Reads(run[p], g) => Reads(s, g) \/ s.parsed[g] = work[g]
                         /\ run[p].parsed[g] = work[g] => s.parsed[g] = work[g]
    BY <2>1 DEF Reads, SameNames
  <2>3. \A g \in Files : Handles(run[p], g) => Handles(s, g)
    BY <2>1, <2>2 DEF Handles, SameNames
  <2> QED
    BY <2>1, <2>3 DEF Continues, SameNames, SameFlags, Flagged
<1>3. CASE BudgetStops(p) \/ \E f \in Files : ParseFails(p, f)
  BY <1>3, DropFacts DEF Continues, SameNames
<1>4. CASE FindDependents(p)
  <2>1. PICK s \in Runs :
           /\ Become(p, s) /\ SameFlags(s, run[p]) /\ SameNames(s, run[p])
           /\ s.pc = "deps" /\ s.dels = run[p].dels /\ s.parsed = run[p].parsed
    BY <1>4, DependentsFacts
  <2>2. run[p].pc = "parse" /\ run[p].todo = {} /\ run[p].target # "build"
    BY <1>4 DEF FindDependents, At
  <2>3. \A g \in Files : Handles(run[p], g) => Handles(s, g)
    BY <2>1, <2>2 DEF Handles, Reads
  <2> QED
    BY <2>1, <2>3 DEF Continues, SameNames, SameFlags, Flagged
<1>5. CASE StartWriting(p)
  <2>1. PICK s \in Runs :
           /\ Become(p, s) /\ SameFlags(s, run[p]) /\ SameNames(s, run[p])
           /\ s.pc = "write" /\ s.dels = run[p].dels /\ s.todo = run[p].todo
           /\ s.parsed = run[p].parsed
    BY <1>5, StartFacts
  <2>2. run[p].pc = "deps"
    BY <1>5 DEF StartWriting, At
  <2>3. \A g \in Files : Handles(run[p], g) => Handles(s, g)
    BY <2>1, <2>2 DEF Handles, Reads, SameNames
  <2> QED
    BY <2>1, <2>3 DEF Continues, SameNames, SameFlags, Flagged
<1> QED
  BY <1>1, <1>2, <1>3, <1>4, <1>5 DEF ReadStep

LEMMA SettledRead ==
  ASSUME TypeOK, StepsOK, StepsOK', SchemeParts, SettledParts, NEW p \in Procs, ReadStep(p)
  PROVE  SettledParts'
<1>1. PICK s \in Runs : Become(p, s) /\ Continues(run[p], s)
  BY ReadContinues
<1>2. /\ work' = work /\ index' = index /\ ref' = ref /\ graph' = graph /\ blame' = blame
      /\ settled' = settled
  BY DEF ReadStep, Scan, BudgetStops, FindDependents, StartWriting, ParseFile, ParseFails,
         KeepHistory, repo, db
<1>3. run[p].pc \in Working
  BY DEF ReadStep, Scan, BudgetStops, FindDependents, StartWriting, ParseFile, ParseFails, At, Working
<1>4. run'[p] = s
  BY <1>1 DEF Become, TypeOK
<1>5. ExactOf(run[p])'
  <2>1. ExactOf(run[p])
    BY DEF SettledParts, Settling
  <2> QED
    BY <1>1, <1>2, <1>4, <2>1 DEF ExactOf, Continues, Visible
<1>6. SettlingOf(run[p])' /\ FirstOf(run[p])'
  BY <1>1, <1>2, <1>3, GoesOnSettled DEF Continues, SchemeParts
<1> QED
  BY <1>1, <1>2, <1>3, <1>5, <1>6, InnerSettled DEF SchemeParts, Working

LEMMA SettledDelete ==
  ASSUME TypeOK, StepsOK, StepsOK', SchemeParts, SettledParts,
         NEW p \in Procs, NEW f \in Files, DeleteSlice(p, f)
  PROVE  SettledParts'
<1>1. PICK s \in Runs :
           /\ Become(p, s) /\ SameFlags(s, run[p]) /\ SameNames(s, run[p])
           /\ s.pc = "delete" /\ s.dels = run[p].dels \ {f}
           /\ s.todo = run[p].todo /\ s.parsed = run[p].parsed
  BY DeleteFacts
<1>2. run[p].pc = "delete" /\ f \in run[p].dels /\ run'[p] = s
  BY <1>1 DEF DeleteSlice, At, Become, TypeOK
<1>3. /\ work' = work /\ index' = index /\ ref' = ref /\ blame' = blame /\ settled' = settled
      /\ \A g \in Files : graph'[g] = IF g = f THEN Absent ELSE graph[g]
  BY DEF DeleteSlice, KeepHistory, repo, TypeOK, Trees
<1>4. ExactOf(run[p])
  BY DEF SettledParts, Settling
<1>5. ExactOf(run[p])'
  BY <1>1, <1>2, <1>3, <1>4 DEF ExactOf, Visible, SameNames
<1>6. run[p].disturbed = {} => \A g \in Files :
        graph'[g] = graph[g] \/ graph'[g] = work[g] \/ ~Visible(g) \/ Handles(s, g)
  BY <1>1, <1>2, <1>3, <1>4 DEF ExactOf, Handles, SameNames
<1>7. \A g \in Files : graph'[g] # work[g] /\ Handles(run[p], g) => Handles(s, g)
  BY <1>1, <1>2, <1>3 DEF Handles, Reads, SameNames
<1>8. SettlingOf(run[p])' /\ FirstOf(run[p])'
  BY <1>1, <1>2, <1>3, <1>6, <1>7, GoesOnSettled
     DEF SchemeParts, SameNames, SameFlags, Flagged, Working
<1> QED
  BY <1>1, <1>2, <1>3, <1>5, <1>8, InnerSettled DEF SchemeParts

LEMMA SettledWrite ==
  ASSUME TypeOK, StepsOK, StepsOK', SchemeParts, SettledParts, NEW p \in Procs, WriteBatch(p)
  PROVE  SettledParts'
<1>1. PICK s \in Runs : \E S \in SUBSET Parsed(p) :
           /\ Become(p, s) /\ SameNames(s, run[p]) /\ (Flagged(run[p]) => Flagged(s))
           /\ s.pc = run[p].pc /\ s.pc \in {"parse", "write"}
           /\ s.dels = run[p].dels /\ s.todo = run[p].todo
           /\ \A g \in Files : s.parsed[g] = IF g \in S THEN Unread ELSE run[p].parsed[g]
           /\ \A g \in Files : graph'[g] = IF g \in S THEN run[p].parsed[g] ELSE graph[g]
           /\ graph' \in Trees
  BY WriteFacts
<1>2. PICK S \in SUBSET Parsed(p) :
           /\ Become(p, s) /\ SameNames(s, run[p]) /\ (Flagged(run[p]) => Flagged(s))
           /\ s.pc = run[p].pc /\ s.pc \in {"parse", "write"}
           /\ s.dels = run[p].dels /\ s.todo = run[p].todo
           /\ \A g \in Files : s.parsed[g] = IF g \in S THEN Unread ELSE run[p].parsed[g]
           /\ \A g \in Files : graph'[g] = IF g \in S THEN run[p].parsed[g] ELSE graph[g]
  BY <1>1
<1>3. /\ work' = work /\ index' = index /\ ref' = ref /\ blame' = blame /\ settled' = settled
  BY DEF WriteBatch, KeepHistory, repo
<1>4. ExactOf(run[p]) /\ run'[p] = s
  BY <1>2 DEF SettledParts, Settling, Become, TypeOK
<1>5. \A g \in S : run[p].parsed[g] # Unread
  BY DEF Parsed
<1>6. ExactOf(run[p])'
  BY <1>2, <1>3, <1>4 DEF ExactOf, Visible, SameNames
<1>7. run[p].disturbed = {} => \A g \in Files : graph'[g] = graph[g] \/ graph'[g] = work[g]
  BY <1>2, <1>4, <1>5 DEF ExactOf
<1>8. \A g \in Files : graph'[g] # work[g] /\ Handles(run[p], g) => Handles(s, g)
  BY <1>2 DEF Handles, Reads, SameNames
<1>9. SettlingOf(run[p])' /\ FirstOf(run[p])'
  BY <1>2, <1>3, <1>7, <1>8, GoesOnSettled DEF SchemeParts, SameNames, Working
<1> QED
  BY <1>2, <1>3, <1>6, <1>9, InnerSettled DEF SchemeParts

LEMMA SettledRecord ==
  ASSUME TypeOK, StepsOK, StepsOK', SchemeParts, SettledParts, NEW p \in Procs, Record(p)
  PROVE  SettledParts'
<1>1. PICK s \in Runs : \E recorded \in {FALSE, ~IsDegraded(run[p])} :
           /\ Become(p, s) /\ SameFlags(s, run[p]) /\ SameNames(s, run[p])
           /\ s.pc = "finish" /\ s.dels = run[p].dels /\ s.todo = run[p].todo
           /\ s.parsed = run[p].parsed
           /\ ref' = IF recorded THEN head ELSE ref
           /\ blame' = IF MakesGood(run[p], recorded) THEN run[p].disturbed \cap Causes
                       ELSE blame \cup RunCauses(run[p], recorded)
  BY RecordFacts, Zenon
<1>2. PICK recorded \in {FALSE, ~IsDegraded(run[p])} :
           /\ Become(p, s) /\ SameFlags(s, run[p]) /\ SameNames(s, run[p])
           /\ s.pc = "finish" /\ s.dels = run[p].dels /\ s.todo = run[p].todo
           /\ s.parsed = run[p].parsed
           /\ ref' = IF recorded THEN head ELSE ref
           /\ blame' = IF MakesGood(run[p], recorded) THEN run[p].disturbed \cap Causes
                       ELSE blame \cup RunCauses(run[p], recorded)
  BY <1>1, Zenon
<1>3. PICK r \in Runs : r = run[p]
  BY DEF TypeOK
<1>4. /\ r.todo = {} /\ r.pc \in {"parse", "write"} /\ r.dels = {}
      /\ (r.target = "build" => r.pc = "parse")
      /\ \A f \in Files : r.parsed[f] = Unread
  BY <1>3 DEF Record, At, Parsed, StepsOK, StepOK
<1>5. work' = work /\ index' = index /\ graph' = graph /\ settled' = settled
  BY DEF Record, repo
<1>6. run'[p] = s
  BY <1>2 DEF Become, TypeOK
<1>7. \A f \in Files : work[f] # Unread
  BY GraphIndexAssumption DEF TypeOK, Trees, Values
<1>8. \A f \in Files : ~Handles(r, f)
  BY <1>4, <1>7 DEF Handles, Reads
<1>9. r.target # "build" => blame' = blame \cup RunCauses(r, recorded)
  BY <1>2, <1>3 DEF MakesGood
<1>10. ExactOf(run[p])'
  BY <1>2, <1>3, <1>4, <1>6 DEF ExactOf
<1>11. FirstOf(run[p])'
  <2> SUFFICES ASSUME r.target = "worktree", r.fresh, r.disturbed = {}, ref' # NoRef
               PROVE  blame' # {}
    BY <1>2, <1>3, <1>6 DEF FirstOf, SameNames
  <2>1. CASE recorded
    <3>1. "fresh" \in RunCauses(r, recorded)
      BY <2>1 DEF RunCauses
    <3> QED
      BY <1>9, <3>1
  <2>2. CASE ~recorded
    <3>1. ref # NoRef
      BY <1>2, <2>2
    <3>2. blame # {}
      BY <1>3, <1>4, <3>1 DEF SettledParts, Settling, FirstOf
    <3> QED
      BY <1>9, <3>2
  <2> QED
    BY <2>1, <2>2
<1>12. SettlingOf(run[p])'
  <2> SUFFICES ASSUME s.disturbed = {}, ~Flagged(s), Covers(run[p])'
               PROVE  \A f \in Files : Visible(f) => graph[f] = work[f]
    BY <1>5, <1>6 DEF SettlingOf, Flagged, Visible
  <2>1. Covers(r) /\ ~Flagged(r) /\ r.disturbed = {}
    BY <1>2, <1>3, <1>6, <1>9 DEF Covers, SameNames, SameFlags, Flagged
  <2>2. \A f \in Files : Visible(f) /\ graph[f] # work[f] => Handles(r, f)
    BY <1>3, <1>4, <2>1 DEF SettledParts, Settling, SettlingOf, Working
  <2> QED
    BY <1>8, <2>2
<1> QED
  BY <1>2, <1>3, <1>4, <1>5, <1>10, <1>11, <1>12, InnerSettled DEF SchemeParts

LEMMA SettledEnd ==
  ASSUME TypeOK, StepsOK, StepsOK', SchemeParts, SettledParts, NEW p \in Procs,
         Finish(p) \/ RunFails(p) \/ Crash(p)
  PROVE  SettledParts'
<1>1. Become(p, Idle) /\ run[p].pc # "idle"
  BY DEF Finish, RunFails, Crash, Set, Become, At, Active, Pcs
<1>2. work' = work /\ index' = index /\ graph' = graph /\ ref' = ref
  BY DEF Finish, RunFails, Crash, repo, db
<1>3. \A q \in Procs : run'[q] = IF q = p THEN Idle ELSE run[q]
  BY <1>1 DEF Become, TypeOK
<1>4. ASSUME NEW q \in Procs
      PROVE  ExactOf(run[q])' /\ SettlingOf(run[q])' /\ FirstOf(run[q])'
  <2>1. run'[q].pc = "idle" \/ run'[q].disturbed # {}
    BY <1>1, <1>3, IdleFacts, Alone DEF SchemeParts
  <2>2. StepOK(run'[q])
    BY DEF StepsOK, StepOK
  <2> QED
    BY <2>1, <2>2 DEF StepOK, ExactOf, SettlingOf, FirstOf, Working
<1>5. ~settled
  BY <1>1 DEF SettledParts, Quiet, Active
<1>6. ASSUME settled'
      PROVE  Quiet' /\ \A f \in Files : Visible(f) => graph[f] = work[f]
  <2>1. Finish(p)
    BY <1>5, <1>6 DEF RunFails, Crash
  <2>2. /\ run[p].pc = "finish" /\ FinishState(run[p]) = "built"
        /\ run[p].disturbed = {} /\ ~run[p].skipped
        /\ \/ run[p].target = "build"
           \/ run[p].target = "worktree" /\ blame = {} /\ ref # NoRef
    BY <1>6, <2>1 DEF Finish, Settles, At
  <2>3. ~run[p].blocked /\ ~IsDegraded(run[p])
    BY <2>2 DEF FinishState
  <2>4. ~Flagged(run[p])
    BY <2>2, <2>3 DEF Flagged, IsDegraded
  <2>6. Covers(run[p])
    BY <1>1, <2>2 DEF Covers, SettledParts, Settling, FirstOf
  <2>7. \A f \in Files : ~Handles(run[p], f)
    <3>1. \A f \in Files : work[f] # Unread
      BY GraphIndexAssumption DEF TypeOK, Trees, Values
    <3> QED
      BY <2>2, <3>1 DEF StepsOK, StepOK, Handles, Reads
  <2>8. \A f \in Files : Visible(f) => graph[f] = work[f]
    BY <2>2, <2>4, <2>6, <2>7 DEF SettledParts, Settling, SettlingOf
  <2>9. \A q \in Procs : run'[q].pc = "idle"
    BY <1>1, <1>3, <2>2, IdleFacts DEF SchemeParts, Noted, Active
  <2> QED
    BY <2>8, <2>9 DEF Quiet, Active
<1>7. SettledIsCurrent'
  BY <1>2, <1>6 DEF SettledIsCurrent, Visible
<1> QED
  BY <1>4, <1>6, <1>7 DEF SettledParts, Settling

\* A step that unsettles, and leaves no run undisturbed that is under way.
LEMMA Unsettle ==
  ASSUME StepsOK', settled' = FALSE,
         \A q \in Procs : run'[q].pc \in {"idle", "list"} \/ run'[q].disturbed # {},
         \A q \in Procs : run'[q].pc = "list" => run'[q].fresh = FALSE \/ run'[q].disturbed # {}
  PROVE  SettledParts'
<1>1. ASSUME NEW q \in Procs
      PROVE  ExactOf(run[q])' /\ SettlingOf(run[q])' /\ FirstOf(run[q])'
  <2>1. StepOK(run'[q])
    BY DEF StepsOK, StepOK
  <2>2. ExactOf(run[q])'
    BY <2>1 DEF StepOK, ExactOf
  <2>3. SettlingOf(run[q])'
    BY DEF SettlingOf, Working
  <2>4. FirstOf(run[q])'
    BY DEF FirstOf
  <2> QED
    BY <2>2, <2>3, <2>4
<1> QED
  BY <1>1 DEF SettledParts, Settling, SettledIsCurrent

LEMMA SettledBegin ==
  ASSUME TypeOK, StepsOK', NEW p \in Procs, NEW t \in Targets, Begin(p, t)
  PROVE  SettledParts'
<1>1. PICK c \in {{}, {"overlap"}} : Begun(p, t, c)
  BY BeginStep
<1>2. settled' = FALSE
  BY Zenon DEF Begin
<1>3. run'[p].pc = "list" /\ run'[p].fresh = FALSE
  BY <1>1 DEF Begun
<1>4. ASSUME NEW q \in Procs \ {p}
      PROVE  run'[q].pc = "idle" \/ run'[q].disturbed # {}
  <2>1. /\ run'[q].pc = run[q].pc
        /\ run'[q].disturbed = IF run[q].pc = "idle" THEN run[q].disturbed
                               ELSE run[q].disturbed \cup c
    BY <1>1, <1>4, Zenon DEF Begun, Marked
  <2>2. run[q].pc # "idle" => c = {"overlap"}
    BY <1>1 DEF Begun, Quiet, Active
  <2> QED
    BY <2>1, <2>2
<1> QED
  BY <1>2, <1>3, <1>4, Unsettle

LEMMA SettledUser ==
  ASSUME TypeOK, StepsOK', NEW c \in SUBSET Causes, UserStep(c)
  PROVE  SettledParts'
<1>1. settled' = FALSE /\ \A p \in Procs : Marked(p, c \cup {"edit"})
  BY UserFacts
<1>2. ASSUME NEW q \in Procs
      PROVE  run'[q].pc = "idle" \/ run'[q].disturbed # {}
  <2>1. /\ run'[q].pc = run[q].pc
        /\ run'[q].disturbed = IF run[q].pc = "idle" THEN run[q].disturbed
                               ELSE run[q].disturbed \cup (c \cup {"edit"})
    BY <1>1, <1>2, Zenon DEF Marked
  <2> QED
    BY <2>1
<1> QED
  BY <1>1, <1>2, Unsettle

LEMMA SettledStep ==
  ASSUME SettledInv, [Next]_vars
  PROVE  SettledInv'
<1>1. SchemeInv'
  BY SchemeStep DEF SettledInv
<1>2. TypeOK /\ StepsOK /\ StepsOK' /\ SchemeParts /\ SettledParts
  BY <1>1 DEF SettledInv, SchemeInv, SchemeParts
<1>3. CASE UNCHANGED vars
  <2>1. SettledParts'
    BY <1>2, <1>3 DEF vars, SettledParts, Settling, ExactOf, SettlingOf, FirstOf, SettledIsCurrent,
                Quiet, Active, Visible, Flagged, Covers, Handles, Reads
  <2> QED
    BY <1>1, <2>1 DEF SettledInv
<1>4. CASE Commit \/ \E f \in Files : (\E v \in Values : Edit(f, v)) \/ Stage(f)
  <2>1. \E c \in SUBSET Causes : UserStep(c)
    BY <1>4 DEF Edit, Stage, Commit, PutsBack, Causes
  <2>2. SettledParts'
    BY <1>2, <2>1, SettledUser
  <2> QED
    BY <1>1, <2>2 DEF SettledInv
<1>5. ASSUME NEW p \in Procs,
             \/ \E t \in Targets : Begin(p, t)
             \/ ListSlices(p) \/ DetectChanges(p) \/ ReadStep(p) \/ WriteBatch(p)
             \/ Record(p) \/ Finish(p) \/ RunFails(p) \/ Crash(p)
             \/ \E f \in Files : DeleteSlice(p, f)
      PROVE  SettledInv'
  <2>1. SettledParts'
    BY <1>2, <1>5, SettledBegin, SettledList, SettledDetect, SettledRead, SettledWrite,
       SettledRecord, SettledEnd, SettledDelete
  <2> QED
    BY <1>1, <2>1 DEF SettledInv
<1> QED
  BY <1>3, <1>4, <1>5 DEF Next, ReadStep

LEMMA SettledInit == Init => SettledInv
<1> SUFFICES ASSUME Init
             PROVE  SettledInv
  OBVIOUS
<1>1. SchemeInv
  BY SchemeInit
<1>2. \A p \in Procs : run[p].pc = "idle"
  BY IdleFacts DEF Init
<1>3. Settling
  BY <1>1, <1>2, IdleSettling DEF Settling, SchemeInv
<1>4. ~settled
  BY DEF Init
<1> QED
  BY <1>1, <1>3, <1>4 DEF SettledInv, SettledParts, SettledIsCurrent

\* A run that could read every file, that nothing disturbs and that
\* finish_build_for_repo notes as built leaves a slice that matches for every file git
\* diff can report: a full build whatever earlier runs left, a default update provided
\* that a commit is recorded and nothing is to blame since the last clean build.
THEOREM UndisturbedRunsSettle == Spec => []SettledIsCurrent
<1>1. SettledInv /\ [Next]_vars => SettledInv'
  BY SettledStep
<1>2. SettledInv => SettledIsCurrent
  BY DEF SettledInv, SettledParts
<1> QED
  BY <1>1, <1>2, SettledInit, PTL DEF Spec
=============================================================================
