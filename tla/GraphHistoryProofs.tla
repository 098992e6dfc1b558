------------------------- MODULE GraphHistoryProofs -------------------------
(***************************************************************************)
(* Proofs about GraphHistory, for any repository, processes and bounds.    *)
(***************************************************************************)
EXTENDS GraphHistory, FiniteSetTheorems, TLAPS

USE HistoryAssumption DEF Commits

-----------------------------------------------------------------------------
(* Types.                                                                  *)

\* Where an operation can be: what it has left to do when it works on a commit, and
\* the steps that only some kinds of operations take.
ShapeOf(o) ==
  /\ o.pc \in {"replay", "write"} => o.todo # <<>>
  /\ o.pc = "idle" <=> o.kind = "none"
  /\ o.pc \in {"delete", "orphans", "reclaim"} => o.kind \in {"rebuild", "prune"}
  /\ o.pc \in {"rows", "liferead"} => o.kind = "prune"
  /\ o.pc \in {"clear", "insert"} /\ o.kind # "prune" => o.todo = <<>>

\* The ids in use have an upper bound, so that there is a largest one to count on from.
IdsBounded == \E n \in Nat : \A c \in Commits : snap[c].id <= n
IdsUnique == \A c, d \in Commits : HasSnapshot(c) /\ snap[c].id = snap[d].id => c = d

OpOK == op \in [Procs -> OpType] /\ \A p \in Procs : ShapeOf(op[p])
SnapOK == snap \in [Commits -> SnapshotType] /\ IdsBounded /\ IdsUnique
DbOK ==
  /\ rows \subseteq Commits /\ graphs \subseteq Blobs /\ life \subseteq RowType
  /\ dropped \subseteq Commits /\ exposed \subseteq Commits
RestOK ==
  /\ repo \in Histories /\ registered \in BOOLEAN
  /\ lock \in Procs \cup {NoProc}
  /\ ops \in Nat /\ faults \in Nat /\ clean \in BOOLEAN
TypeInv == OpOK /\ SnapOK /\ DbOK /\ RestOK

LEMMA TypeInvIsTypeOK ==
  ASSUME TypeInv PROVE TypeOK
BY Zenon DEF TypeInv, OpOK, SnapOK, DbOK, RestOK, TypeOK, IdsUnique

-----------------------------------------------------------------------------
(* Numbers.                                                                *)

\* A set of numbers has a least one ...
LEMMA LeastNumber ==
  ASSUME NEW S \in SUBSET Nat, S # {}
  PROVE  Least(S) \in S /\ \A y \in S : Least(S) <= y
<1>1. PICK x \in S : \A y \in S : ~(<<y, x>> \in OpToRel(<, Nat))
  BY WFMin, NatLessThanWellFounded
<1>2. ASSUME NEW y \in S PROVE x <= y
  <2>1. y < x => <<y, x>> \in OpToRel(<, Nat)
    BY DEF OpToRel
  <2>2. ~(y < x)
    BY <1>1, <2>1, Zenon
  <2>. QED
    BY <2>2
<1>3. \E z \in S : \A y \in S : z <= y
  BY <1>2
<1>. QED
  BY <1>3, Zenon DEF Least

\* ... and, when they have a bound, a greatest.
LEMMA GreatestNumber ==
  ASSUME NEW S \in SUBSET Nat, S # {}, NEW n \in Nat, \A y \in S : y <= n
  PROVE  Greatest(S) \in S /\ \A y \in S : Greatest(S) >= y
<1>. DEFINE U == {m \in Nat : \A y \in S : y <= m}
<1>1. U \in SUBSET Nat /\ U # {}
  OBVIOUS
<1>2. PICK u \in U : \A m \in U : u <= m
  BY <1>1, LeastNumber
<1>3. u \in S
  <2>1. SUFFICES ASSUME u \notin S PROVE FALSE
    OBVIOUS
  <2>2. \A y \in S : y < u
    BY <2>1
  <2>3. PICK w \in S : w < u
    BY <2>2
  <2>4. u - 1 \in U
    BY <2>2, <2>3
  <2>. QED
    BY <2>4, <1>2
<1>4. \E z \in S : \A y \in S : z >= y
  BY <1>3
<1>. QED
  BY <1>4, Zenon DEF Greatest

\* The next id is larger than all ids in use.
LEMMA NextIdIsNew ==
  ASSUME SnapOK
  PROVE  NextId \in Nat \ {0} /\ \A c \in Commits : snap[c].id < NextId
<1>. DEFINE S == {snap[c].id : c \in Commits}
<1>0. \A c \in Commits : snap[c].id \in Nat
  BY DEF SnapOK, SnapshotType
<1>1. S \in SUBSET Nat /\ S # {}
  <2>1. \A y \in S : y \in Nat
    BY <1>0, Zenon
  <2>2. 1 \in Commits
    OBVIOUS
  <2>3. snap[1].id \in S
    BY <2>2, Zenon
  <2>. QED
    BY <2>1, <2>3, Zenon
<1>2. PICK n \in Nat : \A c \in Commits : snap[c].id <= n
  BY DEF SnapOK, IdsBounded
<1>3. \A y \in S : y <= n
  BY <1>2
<1>. HIDE DEF S
<1>4. Greatest(S) \in S /\ \A y \in S : Greatest(S) >= y
  BY <1>1, <1>3, GreatestNumber
<1>5. PICK g \in Nat : g = Greatest(S) /\ \A y \in S : g >= y
  BY <1>1, <1>4
<1>6. NextId = 1 + g
  BY <1>5, Zenon DEF S, NextId
<1>7. \A c \in Commits : snap[c].id \in S
  BY Zenon DEF S
<1>8. \A c \in Commits : snap[c].id \in Nat /\ g >= snap[c].id
  BY <1>1, <1>5, <1>7, Zenon
<1>9. 1 + g \in Nat \ {0} /\ \A i \in Nat : g >= i => i < 1 + g
  OBVIOUS
<1>. QED
  BY <1>6, <1>8, <1>9, Zenon

\* The rows of the lifecycle name listed snapshots.
LEMMA LifecycleTyped ==
  ASSUME SnapOK, DbOK
  PROVE  /\ LifecycleRows \subseteq RowType
         /\ \A r \in LifecycleRows : r.first > 0 /\ r.last > 0
<1>. SUFFICES ASSUME NEW h \in Symbols
             PROVE  /\ LifecycleRow(h) \in RowType
                    /\ LifecycleRow(h).first > 0 /\ LifecycleRow(h).last > 0
  BY Zenon DEF LifecycleRows
<1>. DEFINE holds == {c \in Listed : \E q \in Paths : snap[c].files[q] = h}
            after == {c \in Listed : c > Greatest(holds)}
<1>1. h \in Blobs /\ holds # {}
  BY DEF Symbols, DbOK
<1>2. /\ holds \in SUBSET Nat /\ holds \subseteq Listed /\ Listed \subseteq Commits
      /\ \A y \in holds : y <= NCommits
  BY DEF Listed
<1>3. PICK x \in holds : x = Least(holds)
  BY <1>1, <1>2, LeastNumber
<1>4. PICK y \in holds : y = Greatest(holds)
  BY <1>1, <1>2, GreatestNumber
<1>5. after # {} => Least(after) \in Commits
  <2>1. after \subseteq Listed /\ Listed \subseteq Commits
    BY <1>2, Zenon
  <2>2. after \in SUBSET Nat
    <3>1. Commits \subseteq Nat
      OBVIOUS
    <3>. QED
      BY <2>1, <3>1, Zenon
  <2>. QED
    BY <2>1, <2>2, LeastNumber, Zenon
<1>6. PICK z \in 0 .. NCommits : z = IF after = {} THEN 0 ELSE Least(after)
  <2>1. 0 \in 0 .. NCommits /\ Commits \subseteq 0 .. NCommits
    OBVIOUS
  <2>. QED
    BY <1>5, <2>1, Zenon
<1>7. snap[x].id \in Nat /\ snap[x].id > 0 /\ snap[y].id \in Nat /\ snap[y].id > 0
  BY <1>2 DEF SnapOK, SnapshotType, Listed, HasSnapshot
<1>8. LifecycleRow(h) = [sym |-> h, first |-> snap[x].id, last |-> snap[y].id, removed |-> z]
  BY <1>3, <1>4, <1>6, Zenon DEF LifecycleRow
<1>. QED
  BY <1>1, <1>7, <1>8 DEF RowType


-----------------------------------------------------------------------------
(* What the steps do to the operations.                                    *)

LEMMA IdleTyped ==
  /\ Idle \in OpType /\ ShapeOf(Idle) /\ Idle.pc = "idle" /\ Idle.alone
  /\ NoSnapshot \in SnapshotType /\ NoSnapshot.id = 0
<1>1. PICK e \in Tree : e = [q \in Paths |-> NoBlob]
  BY DEF Tree
<1>. QED
  BY <1>1 DEF Idle, OpType, ShapeOf, NoSnapshot, SnapshotType

\* A step that changes the operation of one process.
LEMMA Replaced ==
  ASSUME OpOK, NEW p \in Procs, NEW o \in OpType, ShapeOf(o), op' = [op EXCEPT ![p] = o]
  PROVE  OpOK' /\ op'[p] = o /\ \A q \in Procs : q # p => op'[q] = op[q]
BY Zenon DEF OpOK

\* The operation of a process that goes on with another step.
LEMMA Went ==
  ASSUME OpOK, NEW p \in Procs, NEW pc, GoTo(p, pc),
         pc \in {"rows", "orphans", "commit", "liferead", "insert"},
         pc \in {"rows", "liferead"} => op[p].kind = "prune",
         pc = "orphans" => op[p].kind \in {"rebuild", "prune"},
         pc = "insert" => op[p].pc = "clear",
         Running(p)
  PROVE  /\ OpOK'
         /\ op'[p] = [op[p] EXCEPT !.pc = pc]
         /\ \A q \in Procs : q # p => op'[q] = op[q]
<1>1. PICK b \in OpType : b = op[p] /\ ShapeOf(b)
  BY Zenon DEF OpOK
<1>2. [b EXCEPT !.pc = pc] \in OpType /\ ShapeOf([b EXCEPT !.pc = pc])
  <2>1. b.kind # "none"
    BY <1>1 DEF Running, ShapeOf
  <2>2. pc = "insert" => (b.kind # "prune" => b.todo = <<>>)
    BY <1>1 DEF ShapeOf
  <2>. QED
    BY <1>1, <2>1, <2>2 DEF OpType, ShapeOf
<1>3. op' = [op EXCEPT ![p] = [b EXCEPT !.pc = pc]]
  BY <1>1, Zenon DEF GoTo
<1>. QED
  BY <1>1, <1>2, <1>3, Replaced, Zenon

\* A list of commits: its first one, and what is left.
On(s, c) == \E i \in 1 .. Len(s) : s[i] = c

LEMMA ListSteps ==
  ASSUME NEW S, NEW s \in Seq(S), s # <<>>
  PROVE  /\ Head(s) \in S /\ Tail(s) \in Seq(S)
         /\ \A c : On(s, c) => c = Head(s) \/ On(Tail(s), c)
<1>1. Len(s) \in Nat \ {0} /\ Head(s) = s[1] /\ s[1] \in S /\ Tail(s) \in Seq(S)
      /\ Len(Tail(s)) = Len(s) - 1 /\ \A i \in 1 .. Len(Tail(s)) : Tail(s)[i] = s[i + 1]
  OBVIOUS
<1>2. ASSUME NEW c, NEW i \in 1 .. Len(s), s[i] = c, c # Head(s)
      PROVE  \E j \in 1 .. Len(Tail(s)) : Tail(s)[j] = c
  <2>1. i # 1
    BY <1>1, <1>2
  <2>2. i - 1 \in 1 .. Len(Tail(s)) /\ (i - 1) + 1 = i
    BY <1>1, <2>1
  <2>3. Tail(s)[i - 1] = s[i]
    BY <1>1, <2>2
  <2>. QED
    BY <1>2, <2>2, <2>3
<1>. QED
  BY <1>1, <1>2, Zenon DEF On

LEMMA ListTyped ==
  ASSUME NEW S \in SUBSET Commits, NEW m \in Nat,
         NEW s \in UNION {[1 .. n -> S] : n \in 1 .. m}
  PROVE  /\ s \in Seq(Commits) /\ ToSet(s) \subseteq S
         /\ \A c \in ToSet(s) : On(s, c)
<1>1. PICK n \in 1 .. m : s \in [1 .. n -> S]
  OBVIOUS
<1>2. \A i \in 1 .. n : s[i] \in Commits
  BY <1>1, Zenon
<1>3. s \in [1 .. n -> Commits] /\ n \in Nat
  BY <1>1, <1>2
<1>4. s \in Seq(Commits) /\ DOMAIN s = 1 .. n /\ Len(s) = n
  BY <1>3
<1>. QED
  BY <1>1, <1>4, Zenon DEF ToSet, On

\* What a build's selector resolves to.
LEMMA SelectionTyped ==
  ASSUME NEW s \in Selections
  PROVE  s \in Seq(Commits) /\ ToSet(s) \subseteq Commits /\ \A c \in ToSet(s) : On(s, c)
<1>1. s \in Seq(Commits)
  OBVIOUS
<1>2. DOMAIN s = 1 .. Len(s) /\ \A i \in 1 .. Len(s) : s[i] \in Commits
  BY <1>1
<1>. QED
  BY <1>1, <1>2, Zenon DEF ToSet, On

\* The operation of a process that is done with a commit.
LEMMA Advanced ==
  ASSUME OpOK, NEW p \in Procs, op[p].todo # <<>>, op[p].pc \in {"commit", "replay", "write"},
         NEW hit \in SUBSET Commits
  PROVE  /\ NextCommit(p) \in OpType /\ ShapeOf(NextCommit(p))
         /\ [NextCommit(p) EXCEPT !.hit = hit] \in OpType
         /\ ShapeOf([NextCommit(p) EXCEPT !.hit = hit])
         /\ Tail(op[p].todo) \in Seq(Commits)
         /\ \A o \in {NextCommit(p), [NextCommit(p) EXCEPT !.hit = hit]} :
              /\ o.pc = "commit" /\ o.todo = Tail(op[p].todo) /\ o.kind = op[p].kind
              /\ o.list = op[p].list /\ o.alone = op[p].alone /\ o.pending = op[p].pending
              /\ o.hit \in {op[p].hit, hit}
         /\ NextCommit(p).hit = op[p].hit /\ [NextCommit(p) EXCEPT !.hit = hit].hit = hit
<1>1. PICK b \in OpType : b = op[p] /\ ShapeOf(b)
  BY Zenon DEF OpOK
<1>2. PICK t \in Seq(Commits) : t = Tail(b.todo)
  <2>1. b.todo \in Seq(Commits)
    BY DEF OpType
  <2>. QED
    BY <1>1, <2>1, ListSteps
<1>3. PICK e \in Tree : e = Idle.files
  BY IdleTyped DEF OpType
<1>4. NextCommit(p) = [b EXCEPT !.todo = t, !.pc = "commit", !.base = 0, !.files = e,
                                !.whole = TRUE, !.exact = TRUE]
  BY <1>1, <1>2, <1>3, Zenon DEF NextCommit
<1>5. PICK o \in OpType : /\ o = [b EXCEPT !.todo = t, !.pc = "commit", !.base = 0, !.files = e,
                                           !.whole = TRUE, !.exact = TRUE]
  BY <1>1 DEF OpType
<1>6. /\ o.pc = "commit" /\ o.todo = t /\ o.kind = b.kind /\ o.kind # "none"
      /\ o.list = b.list /\ o.alone = b.alone /\ o.pending = b.pending /\ o.hit = b.hit
  BY <1>1, <1>5 DEF OpType, ShapeOf
<1>7. PICK u \in OpType : u = [o EXCEPT !.hit = hit]
  BY DEF OpType
<1>8. /\ u.pc = "commit" /\ u.todo = t /\ u.kind = b.kind
      /\ u.list = b.list /\ u.alone = b.alone /\ u.pending = b.pending /\ u.hit = hit
  BY <1>6, <1>7 DEF OpType
<1>9. ShapeOf(o) /\ ShapeOf(u)
  BY <1>6, <1>8 DEF ShapeOf
<1>10. NextCommit(p) = o /\ [NextCommit(p) EXCEPT !.hit = hit] = u
  BY <1>4, <1>5, <1>7, Zenon
<1>. QED
  BY <1>1, <1>2, <1>6, <1>8, <1>9, <1>10, Zenon

\* A new operation: the others go on as before, but not alone.
LEMMA Started ==
  ASSUME OpOK, NEW p \in Procs, NEW kind \in Kinds, NEW f \in OpType,
         CanStart(p), Start(p, kind, f),
         \/ f.pc = "commit"
         \/ f.pc = "delete" /\ kind \in {"rebuild", "prune"}
         \/ f.pc = "liferead" /\ kind = "prune"
  PROVE  /\ OpOK'
         /\ op'[p].kind = kind /\ op'[p].pc = f.pc /\ op'[p].todo = f.todo
         /\ op'[p].list = f.list /\ op'[p].hit = f.hit /\ op'[p].doomed = f.doomed
         /\ op'[p].pending = f.pending
         /\ (op'[p].alone <=> \A r \in Procs : ~Running(r))
         /\ \A q \in Procs : q # p =>
              /\ op'[q].kind = op[q].kind /\ op'[q].pc = op[q].pc /\ op'[q].todo = op[q].todo
              /\ op'[q].list = op[q].list /\ op'[q].hit = op[q].hit /\ op'[q].base = op[q].base
              /\ op'[q].files = op[q].files /\ op'[q].whole = op[q].whole
              /\ op'[q].exact = op[q].exact
              /\ op'[q].doomed = op[q].doomed /\ op'[q].orphans = op[q].orphans
              /\ op'[q].pending = op[q].pending
              /\ Running(q) => ~op'[q].alone
<1>. DEFINE a == \A r \in Procs : ~Running(r)
<1>1. PICK x \in BOOLEAN : x = a
  OBVIOUS
<1>2. PICK o \in OpType : o = [f EXCEPT !.kind = kind, !.alone = x]
  BY DEF OpType, Kinds
<1>3. /\ o.kind = kind /\ o.pc = f.pc /\ o.todo = f.todo /\ o.list = f.list /\ o.hit = f.hit
      /\ o.doomed = f.doomed /\ o.pending = f.pending /\ o.alone = x
  BY <1>2 DEF OpType
<1>4. ShapeOf(o)
  BY <1>3 DEF ShapeOf, Kinds
<1>5. op' = [q \in Procs |-> IF q = p THEN o
                             ELSE IF Running(q) THEN [op[q] EXCEPT !.alone = FALSE]
                             ELSE op[q]]
  BY <1>1, <1>2, Zenon DEF Start
<1>6. op'[p] = o
  BY <1>5
<1>7. ASSUME NEW q \in Procs, q # p
      PROVE  /\ op'[q] \in OpType /\ ShapeOf(op'[q])
             /\ op'[q].kind = op[q].kind /\ op'[q].pc = op[q].pc /\ op'[q].todo = op[q].todo
             /\ op'[q].list = op[q].list /\ op'[q].hit = op[q].hit /\ op'[q].base = op[q].base
             /\ op'[q].files = op[q].files /\ op'[q].whole = op[q].whole
             /\ op'[q].exact = op[q].exact
             /\ op'[q].doomed = op[q].doomed /\ op'[q].orphans = op[q].orphans
             /\ op'[q].pending = op[q].pending
             /\ Running(q) => op'[q].alone = FALSE
  <2>1. PICK b \in OpType : b = op[q] /\ ShapeOf(b)
    BY Zenon DEF OpOK
  <2>2. PICK d \in OpType : d = [b EXCEPT !.alone = FALSE]
    BY DEF OpType
  <2>3. /\ d.kind = b.kind /\ d.pc = b.pc /\ d.todo = b.todo /\ d.list = b.list /\ d.hit = b.hit
        /\ d.base = b.base /\ d.files = b.files /\ d.whole = b.whole /\ d.doomed = b.doomed
        /\ d.exact = b.exact
        /\ d.orphans = b.orphans /\ d.pending = b.pending /\ d.alone = FALSE
    BY <2>2 DEF OpType
  <2>4. ShapeOf(d)
    BY <2>1, <2>3, Zenon DEF ShapeOf
  <2>5. op'[q] = IF Running(q) THEN d ELSE b
    BY <1>5, <1>7, <2>1, <2>2, Zenon
  <2>. QED
    BY <2>1, <2>3, <2>4, <2>5, Zenon
<1>8. OpOK'
  <2>1. DOMAIN op' = Procs /\ op' = [q \in Procs |-> op'[q]]
    BY <1>5
  <2>2. \A q \in Procs : op'[q] \in OpType /\ ShapeOf(op'[q])
    BY <1>4, <1>6, <1>7, Zenon
  <2>. QED
    BY <2>1, <2>2, Zenon DEF OpOK
<1>. QED
  BY <1>1, <1>2, <1>3, <1>6, <1>7, <1>8, Zenon

\* Every step leaves the operations well formed.
LEMMA OpTyped ==
  ASSUME TypeInv, NEW p \in Procs,
         \/ StartBuild(p) \/ StartUpdate(p) \/ StartRebuild(p) \/ StartPrune(p)
         \/ DeleteSnapshots(p) \/ DeleteCommits(p) \/ SelectOrphans(p) \/ DeleteOrphans(p)
         \/ SkipIndexed(p) \/ FindParent(p) \/ ListParent(p)
         \/ WriteCommit(p) \/ WriteRollsBack(p) \/ WriteLeaks(p) \/ WriteBlocked(p)
         \/ ReadSnapshots(p) \/ ClearLifecycle(p) \/ InsertRow(p) \/ Finish(p)
         \/ Abort(p) \/ Crash(p)
  PROVE  OpOK'
<1>. OpOK /\ SnapOK /\ DbOK /\ RestOK
  BY Zenon DEF TypeInv
<1>0. PICK b \in OpType : b = op[p] /\ ShapeOf(b)
  BY Zenon DEF OpOK
<1>i. Idle \in OpType /\ ShapeOf(Idle)
  BY IdleTyped, Zenon
<1>e. ASSUME NEW x, Exit(p, x) PROVE OpOK'
  BY <1>e, <1>i, Replaced, Zenon DEF Exit
<1>s. \A c \in Commits : snap[c].id \in Nat
  BY DEF SnapOK, SnapshotType
<1>h. op[p].pc \in {"replay", "write"} => Head(op[p].todo) \in Commits /\ op[p].todo # <<>>
  <2>1. PICK s \in Seq(Commits) : s = op[p].todo
    BY <1>0 DEF OpType
  <2>2. s # <<>> => Head(s) \in Commits
    BY <2>1
  <2>. QED
    BY <1>0, <2>1, <2>2, Zenon DEF ShapeOf
<1>1. CASE StartBuild(p)
  <2>1. PICK list \in Selections :
               Start(p, "build", [Idle EXCEPT !.pc = "commit", !.todo = list,
                                              !.list = ToSet(list)])
    BY <1>1, Zenon DEF StartBuild
  <2>2. list \in Seq(Commits) /\ ToSet(list) \subseteq Commits
    BY SelectionTyped
  <2>3. PICK f \in OpType : f = [Idle EXCEPT !.pc = "commit", !.todo = list, !.list = ToSet(list)]
    BY <1>i, <2>2 DEF OpType
  <2>4. f.pc = "commit"
    BY <1>i, <2>3 DEF OpType
  <2>. QED
    BY <1>1, <2>1, <2>3, <2>4, Started DEF StartBuild, Kinds
<1>2. CASE StartUpdate(p)
  <2>1. PICK missing \in SUBSET Commits :
               \E todo \in OldestFirst(missing) :
                Start(p, "update", [Idle EXCEPT !.pc = "commit", !.list = missing,
                                                !.todo = todo])
    <3>1. PICK h \in Commits, max \in Commits :
                 LET missing == Missing(LogCommits(h, max))
                 IN  \E todo \in OldestFirst(missing) :
                       Start(p, "update", [Idle EXCEPT !.pc = "commit", !.list = missing,
                                                       !.todo = todo])
      BY <1>2, Zenon DEF StartUpdate
    <3>2. Missing(LogCommits(h, max)) \in SUBSET Commits
      BY Zenon DEF LogCommits, Missing
    <3>. QED
      BY <3>1, <3>2, Zenon
  <2>2. PICK todo \in OldestFirst(missing) :
               Start(p, "update", [Idle EXCEPT !.pc = "commit", !.list = missing,
                                               !.todo = todo])
    BY <2>1, Zenon
  <2>3. todo \in Seq(Commits)
    <3>1. todo \in UNION {[1 .. n -> missing] : n \in 1 .. NCommits} /\ NCommits \in Nat
      BY DEF OldestFirst
    <3>. QED
      BY <3>1, ListTyped
  <2>4. PICK f \in OpType : f = [Idle EXCEPT !.pc = "commit", !.list = missing, !.todo = todo]
    BY <1>i, <2>3 DEF OpType
  <2>5. f.pc = "commit"
    BY <1>i, <2>4 DEF OpType
  <2>. QED
    BY <1>2, <2>2, <2>4, <2>5, Started DEF StartUpdate, Kinds
<1>3. CASE StartRebuild(p)
  <2>1. PICK c \in Commits :
               Start(p, "rebuild", [Idle EXCEPT !.pc = "delete", !.todo = <<c>>, !.list = {c},
                                           !.doomed = {[id |-> snap[c].id, commit |-> c]}])
    BY <1>3, Zenon DEF StartRebuild
  <2>2. PICK d \in SUBSET [id : Nat, commit : Commits] : d = {[id |-> snap[c].id, commit |-> c]}
    <3>1. [id |-> snap[c].id, commit |-> c] \in [id : Nat, commit : Commits]
      BY <1>s
    <3>. QED
      BY <3>1, Zenon
  <2>t. PICK t \in Seq(Commits) : t = <<c>>
    <3>1. \A S : \A x \in S : <<x>> \in Seq(S)
      OBVIOUS
    <3>. QED
      BY <3>1
  <2>3. PICK f \in OpType : f = [Idle EXCEPT !.pc = "delete", !.todo = t, !.list = {c},
                                             !.doomed = d]
    BY <1>i, <2>2 DEF OpType
  <2>4. f.pc = "delete"
    BY <1>i, <2>3 DEF OpType
  <2>. QED
    BY <1>3, <2>1, <2>2, <2>t, <2>3, <2>4, Started DEF StartRebuild, Kinds
<1>4. CASE StartPrune(p)
  <2>1. PICK keep \in SUBSET Commits :
               Start(p, "prune", [Idle EXCEPT !.pc = IF Listed = {} \/ keep = Commits
                                                   THEN "liferead" ELSE "delete",
                   !.doomed = {[id |-> snap[c].id, commit |-> c] : c \in Listed \ keep}])
    BY <1>4, Zenon DEF StartPrune
  <2>2. PICK d \in SUBSET [id : Nat, commit : Commits] :
               d = {[id |-> snap[c].id, commit |-> c] : c \in Listed \ keep}
    <3>1. \A c \in Commits : [id |-> snap[c].id, commit |-> c] \in [id : Nat, commit : Commits]
      BY <1>s
    <3>2. Listed \subseteq Commits
      BY Zenon DEF Listed
    <3>. QED
      BY <3>1, <3>2, Zenon
  <2>3. PICK pc \in {"liferead", "delete"} :
               pc = IF Listed = {} \/ keep = Commits THEN "liferead" ELSE "delete"
    BY Zenon
  <2>4. PICK f \in OpType : f = [Idle EXCEPT !.pc = pc, !.doomed = d]
    BY <1>i DEF OpType
  <2>5. f.pc = pc
    BY <1>i, <2>4 DEF OpType
  <2>6. Start(p, "prune", f)
    BY <2>1, <2>2, <2>3, <2>4, Zenon
  <2>. QED
    BY <1>4, <2>3, <2>5, <2>6, Started DEF StartPrune, Kinds
<1>5. CASE DeleteSnapshots(p)
  BY <1>0, <1>5, Went DEF DeleteSnapshots, Running, ShapeOf
<1>6. CASE DeleteCommits(p)
  BY <1>0, <1>6, Went DEF DeleteCommits, Running, ShapeOf
<1>7. CASE SelectOrphans(p)
  <2>1. PICK x \in SUBSET Blobs : x = FindOrphanGraphs(p)
    BY DEF FindOrphanGraphs, DbOK
  <2>2. PICK o \in OpType : o = [b EXCEPT !.orphans = x, !.pc = "reclaim"]
    BY DEF OpType
  <2>3. o.pc = "reclaim" /\ o.kind = b.kind
    BY <2>2 DEF OpType
  <2>4. ShapeOf(o)
    BY <1>0, <1>7, <2>3 DEF ShapeOf, SelectOrphans
  <2>5. op' = [op EXCEPT ![p] = o]
    BY <1>0, <1>7, <2>1, <2>2, Zenon DEF SelectOrphans
  <2>. QED
    BY <2>4, <2>5, Replaced
<1>8. CASE DeleteOrphans(p)
  BY <1>0, <1>8, Went DEF DeleteOrphans, Running, ShapeOf
<1>9. CASE SkipIndexed(p)
  BY <1>9, Advanced, Replaced, Zenon DEF SkipIndexed
<1>10. CASE FindParent(p)
  <2>. DEFINE c == Head(b.todo)
  <2>1. b.todo # <<>> /\ b.pc = "commit"
    BY <1>0, <1>10, Zenon DEF FindParent
  <2>2. c \in Commits
    BY <2>1 DEF OpType
  <2>3. PICK m \in Nat, t \in Tree :
              op' = [op EXCEPT ![p] = IF HasSnapshot(repo.parent[c])
                                         THEN [b EXCEPT !.base = m, !.pc = "replay"]
                                         ELSE [b EXCEPT !.files = t, !.whole = TRUE,
                                                        !.exact = TRUE, !.pc = "write"]]
    <3>1. HasSnapshot(repo.parent[c]) => snap[repo.parent[c]].id \in Nat
      BY DEF HasSnapshot, SnapOK, SnapshotType
    <3>2. FullListing(c) \in Tree
      BY <2>2 DEF FullListing, RestOK
    <3>3. PICK m \in Nat : HasSnapshot(repo.parent[c]) => m = snap[repo.parent[c]].id
      BY <3>1
    <3>. QED
      BY <1>0, <1>10, <3>2, <3>3, Zenon DEF FindParent
  <2>4. PICK o \in OpType : o = [b EXCEPT !.base = m, !.pc = "replay"]
    BY DEF OpType
  <2>5. PICK u \in OpType : u = [b EXCEPT !.files = t, !.whole = TRUE, !.exact = TRUE,
                                          !.pc = "write"]
    BY DEF OpType
  <2>6. ShapeOf(o) /\ ShapeOf(u)
    BY <1>0, <2>1, <2>4, <2>5 DEF OpType, ShapeOf
  <2>. QED
    BY <2>3, <2>4, <2>5, <2>6, Replaced, Zenon
<1>11. CASE ListParent(p)
  <2>. DEFINE c == Head(op[p].todo)
              of == {d \in Commits : snap[d].id = op[p].base}
              parent == IF of = {} THEN NoSnapshot ELSE snap[CHOOSE d \in of : TRUE]
  <2>1. parent \in SnapshotType
    BY IdleTyped, Zenon DEF SnapOK
  <2>2. PICK e \in SnapshotType : e = parent
    BY <2>1
  <2>3. c \in Commits
    BY <1>h, <1>11, Zenon DEF ListParent
  <2>4. PICK t \in Tree : t = Replay(e.files, c)
    <3>1. repo.tree[c] \in Tree /\ e.files \in Tree
      BY <2>3 DEF RestOK, SnapshotType
    <3>. QED
      BY <3>1 DEF Replay, Tree
  <2>5. PICK w \in BOOLEAN : w = e.whole
    BY DEF SnapshotType
  <2>x. PICK x \in BOOLEAN : x = (e.exact /\ of \subseteq {repo.parent[c]})
    BY DEF SnapshotType
  <2>6. op' = [op EXCEPT ![p] = [b EXCEPT !.files = t, !.whole = w, !.exact = x, !.pc = "write"]]
    BY <1>0, <1>11, <2>2, <2>4, <2>5, <2>x, Zenon DEF ListParent
  <2>7. PICK o \in OpType : o = [b EXCEPT !.files = t, !.whole = w, !.exact = x, !.pc = "write"]
    BY DEF OpType
  <2>8. ShapeOf(o)
    BY <1>0, <1>11, <2>7 DEF OpType, ShapeOf, ListParent
  <2>. QED
    BY <2>6, <2>7, <2>8, Replaced
<1>12. CASE WriteCommit(p)
  BY <1>12, <1>h, Advanced, Replaced, Zenon DEF WriteCommit
<1>c. ASSUME NEW hit \in SUBSET Commits, Collect(p, hit), op[p].pc = "write"
      PROVE  OpOK'
  <2>1. PICK x \in SUBSET Commits : x = op[p].hit \cup hit
    BY <1>0 DEF OpType
  <2>. QED
    BY <1>c, <1>e, <1>h, <2>1, Advanced, Replaced, Zenon DEF Collect
<1>13. CASE WriteRollsBack(p)
  BY <1>13, <1>h, <1>c DEF WriteRollsBack
<1>14. CASE WriteLeaks(p)
  <2>1. PICK x \in SUBSET Commits : x = op[p].hit \cup {Head(op[p].todo)}
    BY <1>0, <1>h, <1>14 DEF OpType, WriteLeaks
  <2>. QED
    BY <1>14, <1>e, <1>h, <2>1, Advanced, Replaced, Zenon DEF WriteLeaks
<1>15. CASE WriteBlocked(p)
  BY <1>15, <1>c DEF WriteBlocked
<1>16. CASE ReadSnapshots(p)
  <2>1. PICK x \in SUBSET RowType : x = LifecycleRows
    BY LifecycleTyped
  <2>2. PICK o \in OpType : o = [b EXCEPT !.pending = x, !.pc = "clear"]
    BY DEF OpType
  <2>3. o.pc = "clear" /\ o.kind = b.kind /\ o.todo = b.todo
    BY <2>2 DEF OpType
  <2>4. ShapeOf(o)
    BY <1>0, <1>16, <2>3 DEF ShapeOf, ReadSnapshots
  <2>5. Listed # {} => op' = [op EXCEPT ![p] = o]
    BY <1>0, <1>16, <2>1, <2>2, Zenon DEF ReadSnapshots
  <2>. QED
    BY <1>16, <1>e, <2>4, <2>5, Replaced, Zenon DEF ReadSnapshots
<1>17. CASE ClearLifecycle(p)
  BY <1>0, <1>17, Went DEF ClearLifecycle, Running, ShapeOf
<1>18. CASE InsertRow(p)
  <2>1. PICK r \in op[p].pending :
               op' = [op EXCEPT ![p] = [op[p] EXCEPT !.pending = op[p].pending \ {r}]]
    BY <1>18, Zenon DEF InsertRow
  <2>2. PICK x \in SUBSET RowType : x = b.pending \ {r}
    BY DEF OpType
  <2>3. PICK o \in OpType : o = [b EXCEPT !.pending = x]
    BY DEF OpType
  <2>4. ShapeOf(o)
    BY <1>0, <2>3 DEF ShapeOf, OpType
  <2>5. op' = [op EXCEPT ![p] = o]
    BY <1>0, <2>1, <2>2, <2>3, Zenon
  <2>. QED
    BY <2>4, <2>5, Replaced
<1>19. CASE Finish(p)
  BY <1>19, <1>e, Zenon DEF Finish
<1>20. CASE Abort(p)
  BY <1>20, <1>e, Zenon DEF Abort
<1>21. CASE Crash(p)
  BY <1>21, <1>e, Zenon DEF Crash
<1>. QED
  BY <1>1, <1>2, <1>3, <1>4, <1>5, <1>6, <1>7, <1>8, <1>9, <1>10, <1>11, <1>12, <1>13, <1>14,
     <1>15, <1>16, <1>17, <1>18, <1>19, <1>20, <1>21, Zenon

-----------------------------------------------------------------------------
(* What the steps do to the store.                                         *)

\* An operation writes snapshots, rows, graphs and lifecycle in steps of their own.
LEMMA StoreEffect ==
  ASSUME TypeInv, NEW p \in Procs,
         \/ StartBuild(p) \/ StartUpdate(p) \/ StartRebuild(p) \/ StartPrune(p)
         \/ SelectOrphans(p)
         \/ SkipIndexed(p) \/ FindParent(p) \/ ListParent(p)
         \/ WriteRollsBack(p) \/ WriteLeaks(p) \/ WriteBlocked(p)
         \/ ReadSnapshots(p) \/ Finish(p) \/ Abort(p) \/ Crash(p)
  PROVE  UNCHANGED <<repo, snap, rows, graphs, life, dropped, exposed>>
BY Zenon DEF db, StartBuild, StartUpdate, StartRebuild, StartPrune, SelectOrphans, SkipIndexed,
   FindParent, ListParent, WriteRollsBack, WriteLeaks, WriteBlocked, ReadSnapshots, Finish,
   Abort, Crash

\* An update with nothing missing changes nothing but the count of operations, and
\* neither does a stuttering step.
inert == <<repo, registered, db, lock, op, faults, clean>>
LEMMA NothingMissing ==
  ASSUME UNCHANGED vars \/ \E p \in Procs : UpdateNothing(p)
  PROVE  UNCHANGED inert
BY Zenon DEF vars, db, inert, UpdateNothing

\* The write of a commit's snapshot.
LEMMA Written ==
  ASSUME TypeInv, NEW p \in Procs, WriteCommit(p)
  PROVE  \E c \in Commits, s \in SnapshotType, bad \in SUBSET Indexable(op[p].files),
            torn \in SUBSET Indexable(op[p].files) :
           /\ torn \subseteq bad
           /\ c = Head(op[p].todo) /\ op[p].todo # <<>> /\ op[p].files \in Tree
           /\ snap' = [snap EXCEPT ![c] = s]
           /\ snap'[c] = s /\ \A d \in Commits : d # c => snap'[d] = snap[d]
           /\ s.id = NextId /\ s.id \in Nat \ {0} /\ \A d \in Commits : snap[d].id < s.id
           /\ s.files = [q \in Paths |->
                           IF q \in Indexable(op[p].files) \ bad THEN op[p].files[q] ELSE NoBlob]
           /\ s.whole = (op[p].whole /\ bad = {}) /\ s.exact = op[p].exact
           /\ graphs' = graphs \cup
                {op[p].files[q] : q \in ({r \in Indexable(op[p].files) :
                                            op[p].files[r] \notin graphs} \ bad) \cup torn}
           /\ graphs' \subseteq Blobs
           /\ faults' \in Nat
<1>. OpOK /\ SnapOK /\ DbOK /\ RestOK
  BY Zenon DEF TypeInv
<1>1. PICK b \in OpType : b = op[p] /\ ShapeOf(b)
  BY Zenon DEF OpOK
<1>2. /\ b.todo \in Seq(Commits) /\ b.todo # <<>> /\ b.files \in Tree
      /\ b.whole \in BOOLEAN /\ b.exact \in BOOLEAN
  BY <1>1 DEF OpType, ShapeOf, WriteCommit
<1>3. PICK c \in Commits : c = Head(op[p].todo)
  BY <1>1, <1>2, ListSteps
<1>4. PICK n \in Nat : n = NextId /\ n # 0 /\ \A d \in Commits : snap[d].id < n
  BY NextIdIsNew
<1>. DEFINE files == op[p].files
            fresh == {q \in Indexable(files) : files[q] \notin graphs}
<1>5. PICK bad \in SUBSET fresh, torn \in SUBSET fresh :
       /\ torn \subseteq bad
       /\ faults' = IF bad = {} THEN faults ELSE faults + 1
       /\ graphs' = graphs \cup {files[q] : q \in (fresh \ bad) \cup torn}
       /\ snap' = [snap EXCEPT ![c] =
            [id |-> NextId, errors |-> Cardinality(bad),
             files |-> [q \in Paths |->
                          IF q \in Indexable(files) \ bad THEN files[q] ELSE NoBlob],
             whole |-> op[p].whole /\ bad = {}, exact |-> op[p].exact]]
  <2>1. \E bad \in SUBSET fresh : \E torn \in SUBSET bad :
       /\ faults' = IF bad = {} THEN faults ELSE faults + 1
       /\ graphs' = graphs \cup {files[q] : q \in (fresh \ bad) \cup torn}
       /\ snap' = [snap EXCEPT ![c] =
            [id |-> NextId, errors |-> Cardinality(bad),
             files |-> [q \in Paths |->
                          IF q \in Indexable(files) \ bad THEN files[q] ELSE NoBlob],
             whole |-> op[p].whole /\ bad = {}, exact |-> op[p].exact]]
    BY <1>3, Zenon DEF WriteCommit
  <2>. QED
    BY <2>1, Zenon
<1>6. bad \in SUBSET Indexable(files) /\ torn \in SUBSET Indexable(files) /\ bad \in SUBSET Paths /\ fresh \subseteq Paths
  BY DEF Indexable
<1>7. PICK k \in Nat : k = Cardinality(bad)
  BY <1>6, FS_Subset, FS_CardinalityType
<1>8. PICK t \in Tree : t = [q \in Paths |->
                          IF q \in Indexable(files) \ bad THEN files[q] ELSE NoBlob]
  <2>1. \A q \in Paths : files[q] \in Blobs \cup {NoBlob}
    BY <1>1, <1>2 DEF Tree
  <2>. QED
    BY <2>1 DEF Tree
<1>9. PICK w \in BOOLEAN : w = (op[p].whole /\ bad = {})
  BY <1>1, <1>2
<1>x. PICK x \in BOOLEAN : x = op[p].exact
  BY <1>1, <1>2
<1>10. PICK s \in SnapshotType : s = [id |-> n, files |-> t, errors |-> k, whole |-> w,
                                      exact |-> x]
  BY DEF SnapshotType
<1>11. s.id = n /\ s.files = t /\ s.whole = w /\ s.exact = x
  BY <1>10
<1>12. snap' = [snap EXCEPT ![c] = s]
  <2>1. s = [id |-> n, errors |-> k, files |-> t, whole |-> w, exact |-> x]
    BY <1>10
  <2>. QED
    BY <1>4, <1>5, <1>7, <1>8, <1>9, <1>x, <2>1, Zenon
<1>13. snap'[c] = s /\ \A d \in Commits : d # c => snap'[d] = snap[d]
  BY <1>12 DEF SnapOK
<1>14. graphs' \subseteq Blobs
  <2>1. \A q \in Indexable(files) : files[q] \in Blobs
    BY <1>1, <1>2 DEF Indexable, Tree
  <2>2. (fresh \ bad) \cup torn \subseteq Indexable(files)
    BY <1>6, Zenon
  <2>. QED
    BY <1>5, <2>1, <2>2, Zenon DEF DbOK
<1>15. faults' \in Nat
  BY <1>5 DEF RestOK
<1>16. n \in Nat \ {0}
  BY <1>4
<1>17. bad \in SUBSET Indexable(op[p].files) /\ torn \in SUBSET Indexable(op[p].files)
  BY <1>6
<1>18. op[p].todo # <<>> /\ op[p].files \in Tree
  BY <1>1, <1>2
<1>19. /\ s.files = [q \in Paths |->
                       IF q \in Indexable(op[p].files) \ bad THEN op[p].files[q] ELSE NoBlob]
       /\ s.whole = (op[p].whole /\ bad = {}) /\ s.exact = op[p].exact
  BY <1>8, <1>9, <1>x, <1>11
<1>20. graphs' = graphs \cup
                {op[p].files[q] : q \in ({r \in Indexable(op[p].files) :
                                            op[p].files[r] \notin graphs} \ bad) \cup torn}
  BY <1>5
<1>21. s.id = NextId /\ s.id \in Nat \ {0} /\ \A d \in Commits : snap[d].id < s.id
  BY <1>4, <1>11, <1>16
<1>. WITNESS c \in Commits, s \in SnapshotType, bad \in SUBSET Indexable(op[p].files),
             torn \in SUBSET Indexable(op[p].files)
<1>. QED
  BY <1>3, <1>5, <1>12, <1>13, <1>14, <1>15, <1>18, <1>19, <1>20, <1>21, Zenon

-----------------------------------------------------------------------------
(* Type correctness.                                                       *)

LEMMA TypeInit == ASSUME Init PROVE TypeInv
<1>1. \A p \in Procs : op[p] = Idle
  BY DEF Init
<1>2. OpOK
  BY <1>1, IdleTyped, Zenon DEF OpOK, Init
<1>3. \A c \in Commits : snap[c] = NoSnapshot
  BY DEF Init
<1>4. SnapOK
  <2>1. snap \in [Commits -> SnapshotType]
    BY IdleTyped, Zenon DEF Init
  <2>2. \A c \in Commits : snap[c].id = 0
    BY <1>3, IdleTyped
  <2>3. IdsBounded /\ IdsUnique
    <3>1. 0 \in Nat /\ 0 <= 0 /\ ~(0 > 0)
      OBVIOUS
    <3>. QED
      BY <2>2, <3>1, Zenon DEF IdsBounded, IdsUnique, HasSnapshot
  <2>. QED
    BY <2>1, <2>3, Zenon DEF SnapOK
<1>5. DbOK /\ RestOK
  BY DEF Init, DbOK, RestOK
<1>. QED
  BY <1>2, <1>4, <1>5, Zenon DEF TypeInv

\* New snapshots get an id of their own, and no step gives a second one to an old.
LEMMA SnapTyped ==
  ASSUME TypeInv, NEW p \in Procs, WriteCommit(p) \/ DeleteSnapshots(p) PROVE SnapOK'
<1>. SnapOK
  BY Zenon DEF TypeInv
<1>0. \A c \in Commits : snap[c].id \in Nat
  BY DEF SnapOK, SnapshotType
<1>1. CASE WriteCommit(p)
  <2>1. PICK c \in Commits, s \in SnapshotType :
               /\ snap' = [snap EXCEPT ![c] = s]
               /\ snap'[c] = s /\ \A d \in Commits : d # c => snap'[d] = snap[d]
               /\ s.id \in Nat \ {0} /\ \A d \in Commits : snap[d].id < s.id
    BY <1>1, Written, Zenon
  <2>2. snap' \in [Commits -> SnapshotType]
    BY <2>1, Zenon DEF SnapOK
  <2>3. IdsBounded'
    <3>1. \A d \in Commits : snap'[d].id <= s.id
      BY <1>0, <2>1
    <3>. QED
      BY <2>1, <3>1 DEF IdsBounded
  <2>4. IdsUnique'
    <3>. SUFFICES ASSUME NEW d \in Commits, NEW e \in Commits, snap'[d].id > 0,
                         snap'[d].id = snap'[e].id, d # e
                  PROVE  FALSE
      BY Zenon DEF IdsUnique, HasSnapshot
    <3>1. snap[d].id < s.id /\ snap[e].id < s.id /\ snap[d].id \in Nat /\ snap[e].id \in Nat
      BY <1>0, <2>1
    <3>2. CASE d = c
      BY <2>1, <3>1, <3>2
    <3>3. CASE e = c
      BY <2>1, <3>1, <3>3
    <3>4. CASE d # c /\ e # c
      <4>1. snap[d].id > 0 /\ snap[d].id = snap[e].id
        BY <2>1, <3>4
      <4>. QED
        BY <4>1, Zenon DEF SnapOK, IdsUnique, HasSnapshot
    <3>. QED
      BY <3>2, <3>3, <3>4
  <2>. QED
    BY <2>2, <2>3, <2>4, Zenon DEF SnapOK
<1>2. CASE DeleteSnapshots(p)
  <2>1. PICK ids : snap' = Without(ids)
    BY <1>2, Zenon DEF DeleteSnapshots
  <2>2. snap' = [c \in Commits |-> IF snap[c].id \in ids THEN NoSnapshot ELSE snap[c]]
    BY <2>1, Zenon DEF Without
  <2>3. snap' \in [Commits -> SnapshotType]
    BY <2>2, IdleTyped DEF SnapOK
  <2>4. \A c \in Commits : snap'[c].id = 0 \/ snap'[c] = snap[c]
    BY <2>2, IdleTyped
  <2>5. IdsBounded'
    <3>1. PICK n \in Nat : \A c \in Commits : snap[c].id <= n
      BY DEF SnapOK, IdsBounded
    <3>2. \A c \in Commits : snap'[c].id <= n
      BY <2>4, <3>1
    <3>. QED
      BY <3>1, <3>2 DEF IdsBounded
  <2>6. IdsUnique'
    <3>1. \A c, d \in Commits : snap'[c].id > 0 /\ snap'[c].id = snap'[d].id =>
             snap[c].id > 0 /\ snap[c].id = snap[d].id
      BY <2>4
    <3>. QED
      BY <3>1, Zenon DEF IdsUnique, HasSnapshot, SnapOK
  <2>. QED
    BY <2>3, <2>5, <2>6, Zenon DEF SnapOK
<1>. QED
  BY <1>1, <1>2

LEMMA TypeStep == ASSUME TypeInv, [Next]_vars PROVE TypeInv'
<1>. OpOK /\ SnapOK /\ DbOK /\ RestOK
  BY Zenon DEF TypeInv
<1>1. ASSUME NEW p \in Procs,
         \/ StartBuild(p) \/ StartUpdate(p) \/ StartRebuild(p) \/ StartPrune(p)
         \/ DeleteSnapshots(p) \/ DeleteCommits(p) \/ SelectOrphans(p) \/ DeleteOrphans(p)
         \/ SkipIndexed(p) \/ FindParent(p) \/ ListParent(p)
         \/ WriteCommit(p) \/ WriteRollsBack(p) \/ WriteLeaks(p) \/ WriteBlocked(p)
         \/ ReadSnapshots(p) \/ ClearLifecycle(p) \/ InsertRow(p) \/ Finish(p)
         \/ Abort(p) \/ Crash(p)
      PROVE  SnapOK' /\ DbOK' /\ RestOK'
  <2>1. CASE WriteCommit(p)
    <3>1. SnapOK'
      BY <2>1, SnapTyped
    <3>2. PICK c \in Commits : c = Head(op[p].todo) /\ graphs' \subseteq Blobs /\ faults' \in Nat
      BY <2>1, Written, Zenon
    <3>3. rows' \subseteq Commits /\ life' \subseteq RowType
      BY <2>1, <3>2, Zenon DEF DbOK, WriteCommit, Cascade
    <3>5. dropped' \subseteq Commits /\ exposed' \subseteq Commits
      <4>1. /\ dropped' = IF HasSnapshot(c) THEN dropped \cup {c} ELSE dropped
            /\ exposed' = IF ComesUnder(c, op[p].files) THEN exposed \cup {c} ELSE exposed \ {c}
        BY <2>1, <3>2, Zenon DEF WriteCommit
      <4>. QED
        BY <4>1, Zenon DEF DbOK
    <3>4. RestOK'
      BY <2>1, <3>2, Zenon DEF RestOK, WriteCommit
    <3>. QED
      BY <3>1, <3>2, <3>3, <3>4, <3>5, Zenon DEF DbOK
  <2>2. CASE DeleteSnapshots(p)
    <3>1. DbOK' /\ RestOK'
      BY <2>2, Zenon DEF DbOK, RestOK, DeleteSnapshots, Cascade
    <3>. QED
      BY <2>2, <3>1, SnapTyped, Zenon
  <2>3. CASE DeleteCommits(p) \/ DeleteOrphans(p) \/ ClearLifecycle(p)
    <3>1. DbOK' /\ RestOK' /\ snap' = snap
      BY <2>3, Zenon DEF DbOK, RestOK, DeleteCommits, DeleteOrphans, ClearLifecycle
    <3>. QED
      BY <3>1, Zenon DEF SnapOK, IdsBounded, IdsUnique, HasSnapshot
  <2>4. CASE InsertRow(p)
    <3>1. op[p].pending \subseteq RowType
      BY DEF OpOK, OpType
    <3>2. DbOK' /\ RestOK' /\ snap' = snap
      BY <2>4, <3>1, Zenon DEF DbOK, RestOK, InsertRow
    <3>. QED
      BY <3>2, Zenon DEF SnapOK, IdsBounded, IdsUnique, HasSnapshot
  <2>5. CASE \/ StartBuild(p) \/ StartUpdate(p) \/ StartRebuild(p) \/ StartPrune(p)
             \/ SelectOrphans(p)
             \/ SkipIndexed(p) \/ FindParent(p) \/ ListParent(p)
             \/ WriteRollsBack(p) \/ WriteLeaks(p) \/ WriteBlocked(p)
             \/ ReadSnapshots(p) \/ Finish(p) \/ Abort(p) \/ Crash(p)
    <3>1. UNCHANGED <<repo, snap, rows, graphs, life, dropped, exposed>>
      BY <2>5, StoreEffect
    <3>2. SnapOK' /\ DbOK'
      BY <3>1, Zenon DEF SnapOK, IdsBounded, IdsUnique, HasSnapshot, DbOK
    <3>3. RestOK'
      <4>1. op[p].alone \in BOOLEAN
        BY DEF OpOK, OpType
      <4>2. lock' \in Procs \cup {NoProc} /\ clean' \in BOOLEAN /\ registered' \in BOOLEAN
        BY <2>5, <4>1, Zenon DEF RestOK, StartBuild, StartUpdate, StartRebuild, StartPrune,
           SelectOrphans, SkipIndexed, FindParent, ListParent, WriteRollsBack, WriteLeaks,
           WriteBlocked, ReadSnapshots, Finish, Abort, Crash, Collect, Exit
      <4>3. ops' \in Nat /\ faults' \in Nat
        <5>1. ops' \in {ops, ops + 1} /\ faults' \in {faults, faults + 1}
          BY <2>5, Zenon DEF StartBuild, StartUpdate, StartRebuild, StartPrune, Start,
             SelectOrphans, SkipIndexed, FindParent, ListParent, WriteRollsBack, WriteLeaks,
             WriteBlocked, ReadSnapshots, Finish, Abort, Crash
        <5>. QED
          BY <5>1 DEF RestOK
      <4>. QED
        BY <3>1, <4>2, <4>3, Zenon DEF RestOK
    <3>. QED
      BY <3>2, <3>3
  <2>. QED
    BY <1>1, <2>1, <2>2, <2>3, <2>4, <2>5, Zenon
<1>n. ASSUME NEW p \in Procs, UpdateNothing(p) PROVE TypeInv'
  <2>1. UNCHANGED inert
    BY <1>n, NothingMissing
  <2>2. ops' \in Nat
    BY <1>n DEF UpdateNothing, RestOK
  <2>. QED
    BY <2>1, <2>2, Zenon DEF inert, db, TypeInv, OpOK, SnapOK, DbOK, RestOK, IdsBounded, IdsUnique,
       HasSnapshot
<1>2. CASE Next
  BY <1>1, <1>2, <1>n, OpTyped, Zenon DEF Next, TypeInv
<1>3. CASE UNCHANGED vars
  BY <1>3, Zenon DEF vars, TypeInv, OpOK, SnapOK, DbOK, RestOK, IdsBounded, IdsUnique, HasSnapshot
<1>. QED
  BY <1>2, <1>3

\* Every step keeps the types, and no two snapshots ever have the same id, which
\* snapshot_files and node_history refer to, though ids are reused after a deletion.
THEOREM TypeCorrect == Spec => []TypeOK
<1>1. Init => TypeInv
  BY TypeInit
<1>2. TypeInv /\ [Next]_vars => TypeInv'
  BY TypeStep
<1>3. TypeInv => TypeOK
  BY TypeInvIsTypeOK
<1>. QED
  BY <1>1, <1>2, <1>3, PTL DEF Spec

-----------------------------------------------------------------------------
(* The fields of an operation before and after a step.                     *)

\* A step of one process, after which its operation goes on ...
Goes(p) ==
  /\ \A q \in Procs : q # p => op'[q] = op[q]
  /\ op'[p].kind = op[p].kind /\ op'[p].alone = op[p].alone /\ op'[p].list = op[p].list
  /\ op'[p].pc # "idle" /\ op[p].pc # "idle"

\* ... or has ended.
Ends(p) ==
  /\ \A q \in Procs : q # p => op'[q] = op[q]
  /\ op[p].pc # "idle"
  /\ op'[p] = Idle /\ op'[p].pc = "idle"
  /\ lock' = IF lock = p THEN NoProc ELSE lock

LEMMA Ended ==
  ASSUME OpOK, NEW p \in Procs, NEW x, Exit(p, x), op[p].pc # "idle"
  PROVE  Ends(p) /\ clean' = x
<1>1. op'[p] = Idle /\ \A q \in Procs : q # p => op'[q] = op[q]
  BY Zenon DEF Exit, OpOK
<1>. QED
  BY <1>1, IdleTyped, Zenon DEF Exit, Ends

\* Deletions, and the start of the lifecycle's inserts.
LEMMA DeletionSteps ==
  ASSUME TypeInv, NEW p \in Procs,
         \/ DeleteSnapshots(p) \/ DeleteCommits(p) \/ DeleteOrphans(p) \/ ClearLifecycle(p)
  PROVE  /\ Goes(p) /\ lock' = lock /\ clean' = clean
         /\ op'[p].todo = op[p].todo /\ op'[p].hit = op[p].hit
         /\ op'[p].doomed = op[p].doomed /\ op'[p].pending = op[p].pending
         /\ DeleteSnapshots(p) => /\ op'[p].pc \in {"rows", "orphans"}
                                  /\ op[p].kind \in {"rebuild", "prune"}
         /\ DeleteCommits(p) => op'[p].pc = "orphans" /\ op[p].kind = "prune"
         /\ DeleteOrphans(p) => /\ op'[p].pc \in {"liferead", "commit"}
                                /\ op[p].kind \in {"rebuild", "prune"}
         /\ ClearLifecycle(p) => op'[p].pc = "insert"
<1>. OpOK
  BY Zenon DEF TypeInv
<1>1. PICK b \in OpType : b = op[p] /\ ShapeOf(b)
  BY Zenon DEF OpOK
<1>2. /\ DeleteSnapshots(p) => op[p].kind \in {"rebuild", "prune"} /\ op[p].pc = "delete"
      /\ DeleteCommits(p) => op[p].kind = "prune" /\ op[p].pc = "rows"
      /\ DeleteOrphans(p) => op[p].kind \in {"rebuild", "prune"} /\ op[p].pc = "reclaim"
      /\ ClearLifecycle(p) => op[p].pc = "clear"
  BY <1>1 DEF ShapeOf, DeleteSnapshots, DeleteCommits, DeleteOrphans, ClearLifecycle
<1>3. PICK pc \in {"rows", "orphans", "commit", "liferead", "insert"} :
             /\ GoTo(p, pc)
             /\ DeleteSnapshots(p) => pc = IF op[p].kind = "prune" THEN "rows" ELSE "orphans"
             /\ DeleteCommits(p) => pc = "orphans"
             /\ DeleteOrphans(p) => pc = IF op[p].kind = "prune" THEN "liferead" ELSE "commit"
             /\ ClearLifecycle(p) => pc = "insert"
  <2>1. CASE DeleteSnapshots(p)
    BY <1>2, <2>1 DEF DeleteSnapshots, DeleteCommits, DeleteOrphans, ClearLifecycle
  <2>2. CASE DeleteCommits(p)
    BY <1>2, <2>2 DEF DeleteSnapshots, DeleteCommits, DeleteOrphans, ClearLifecycle
  <2>3. CASE DeleteOrphans(p)
    BY <1>2, <2>3 DEF DeleteSnapshots, DeleteCommits, DeleteOrphans, ClearLifecycle
  <2>4. CASE ClearLifecycle(p)
    BY <1>2, <2>4 DEF DeleteSnapshots, DeleteCommits, DeleteOrphans, ClearLifecycle
  <2>. QED
    BY <2>1, <2>2, <2>3, <2>4
<1>4. op'[p] = [b EXCEPT !.pc = pc] /\ \A q \in Procs : q # p => op'[q] = op[q]
  BY <1>1, <1>3, Zenon DEF GoTo, OpOK
<1>5. PICK o \in OpType : o = [b EXCEPT !.pc = pc]
  BY DEF OpType
<1>6. /\ o.pc = pc /\ o.kind = b.kind /\ o.alone = b.alone /\ o.list = b.list /\ o.todo = b.todo
      /\ o.hit = b.hit /\ o.doomed = b.doomed /\ o.pending = b.pending
  BY <1>5 DEF OpType
<1>7. lock' = lock /\ clean' = clean
  BY Zenon DEF DeleteSnapshots, DeleteCommits, DeleteOrphans, ClearLifecycle
<1>8. op[p].pc # "idle"
  BY <1>2
<1>9. op'[p] = o /\ pc # "idle"
  BY <1>4, <1>5
<1>10. Goes(p)
  BY <1>1, <1>4, <1>6, <1>8, <1>9, Zenon DEF Goes
<1>11. /\ op'[p].pc = pc /\ op'[p].todo = op[p].todo /\ op'[p].hit = op[p].hit
       /\ op'[p].doomed = op[p].doomed /\ op'[p].pending = op[p].pending
  BY <1>1, <1>6, <1>9, Zenon
<1>12. /\ DeleteSnapshots(p) => pc \in {"rows", "orphans"}
       /\ DeleteOrphans(p) => pc \in {"liferead", "commit"}
  BY <1>3
<1>. QED
  BY <1>2, <1>3, <1>7, <1>10, <1>11, <1>12, Zenon

\* The select of the orphaned graphs.
LEMMA SelectionSteps ==
  ASSUME TypeInv, NEW p \in Procs, SelectOrphans(p)
  PROVE  /\ Goes(p) /\ lock' = lock /\ clean' = clean
         /\ op'[p].pc = "reclaim" /\ op'[p].orphans = FindOrphanGraphs(p)
         /\ op'[p].pending = op[p].pending /\ op'[p].todo = op[p].todo
         /\ op'[p].hit = op[p].hit /\ op[p].kind \in {"rebuild", "prune"}
<1>. OpOK
  BY Zenon DEF TypeInv
<1>1. PICK b \in OpType : b = op[p] /\ ShapeOf(b)
  BY Zenon DEF OpOK
<1>2. PICK x \in SUBSET Blobs : x = FindOrphanGraphs(p)
  BY DEF FindOrphanGraphs, TypeInv, DbOK
<1>3. op'[p] = [b EXCEPT !.orphans = x, !.pc = "reclaim"]
  BY <1>1, <1>2, Zenon DEF OpOK, SelectOrphans
<1>4. \A q \in Procs : q # p => op'[q] = op[q]
  BY Zenon DEF OpOK, SelectOrphans
<1>5. PICK o \in OpType : o = [b EXCEPT !.orphans = x, !.pc = "reclaim"]
  BY DEF OpType
<1>6. /\ o.pc = "reclaim" /\ o.kind = b.kind /\ o.alone = b.alone /\ o.list = b.list
      /\ o.todo = b.todo /\ o.hit = b.hit /\ o.orphans = x /\ o.pending = b.pending
  BY <1>5 DEF OpType
<1>7. b.pc = "orphans" /\ b.kind \in {"rebuild", "prune"}
  BY <1>1 DEF SelectOrphans, ShapeOf
<1>8. lock' = lock /\ clean' = clean
  BY Zenon DEF SelectOrphans
<1>. QED
  BY <1>1, <1>2, <1>3, <1>4, <1>5, <1>6, <1>7, <1>8 DEF Goes

\* The loop over the commits: done with one, or not with its write.
LEMMA LoopSteps ==
  ASSUME TypeInv, NEW p \in Procs,
         \/ SkipIndexed(p) \/ WriteCommit(p)
         \/ WriteRollsBack(p) \/ WriteLeaks(p) \/ WriteBlocked(p)
  PROVE  /\ op[p].todo \in Seq(Commits) /\ op[p].todo # <<>> /\ Head(op[p].todo) \in Commits
         /\ op[p].pc \in {"commit", "write"}
         /\ \/ /\ Goes(p)
               /\ op'[p].pc = "commit" /\ op'[p].todo = Tail(op[p].todo)
               /\ op'[p].pending = op[p].pending
               /\ SkipIndexed(p) \/ WriteCommit(p) \/ WriteBlocked(p) => op'[p].hit = op[p].hit
               /\ WriteRollsBack(p) \/ WriteLeaks(p) =>
                    op'[p].hit = op[p].hit \cup {Head(op[p].todo)}
               /\ clean' = clean
               /\ IF WriteLeaks(p) THEN lock = NoProc /\ lock' = p ELSE lock' = lock
            \/ /\ Ends(p) /\ clean' = FALSE /\ op[p].kind = "rebuild"
               /\ WriteRollsBack(p) \/ WriteLeaks(p) \/ WriteBlocked(p)
<1>. OpOK
  BY Zenon DEF TypeInv
<1>1. PICK b \in OpType : b = op[p] /\ ShapeOf(b)
  BY Zenon DEF OpOK
<1>2. b.todo \in Seq(Commits) /\ b.hit \subseteq Commits
  BY DEF OpType
<1>3. b.todo # <<>> /\ b.pc \in {"commit", "write"}
  BY <1>1 DEF ShapeOf, SkipIndexed, WriteCommit, WriteRollsBack, WriteLeaks, WriteBlocked
<1>4. Head(b.todo) \in Commits
  BY <1>2, <1>3, ListSteps
<1>n. \A hit \in SUBSET Commits :
         /\ NextCommit(p) \in OpType
         /\ [NextCommit(p) EXCEPT !.hit = hit] \in OpType
         /\ \A o \in {NextCommit(p), [NextCommit(p) EXCEPT !.hit = hit]} :
              /\ o.pc = "commit" /\ o.todo = Tail(op[p].todo) /\ o.kind = op[p].kind
              /\ o.list = op[p].list /\ o.alone = op[p].alone /\ o.pending = op[p].pending
         /\ NextCommit(p).hit = op[p].hit /\ [NextCommit(p) EXCEPT !.hit = hit].hit = hit
  <2>1. op[p].pc \in {"commit", "replay", "write"} /\ op[p].todo # <<>>
    BY <1>1, <1>3
  <2>. TAKE hit \in SUBSET Commits
  <2>2. /\ NextCommit(p) \in OpType /\ [NextCommit(p) EXCEPT !.hit = hit] \in OpType
        /\ NextCommit(p).hit = op[p].hit /\ [NextCommit(p) EXCEPT !.hit = hit].hit = hit
    BY <2>1, Advanced
  <2>3. \A o \in {NextCommit(p), [NextCommit(p) EXCEPT !.hit = hit]} :
              /\ o.pc = "commit" /\ o.todo = Tail(op[p].todo) /\ o.kind = op[p].kind
              /\ o.list = op[p].list /\ o.alone = op[p].alone /\ o.pending = op[p].pending
              /\ o.hit \in {op[p].hit, hit}
    BY <2>1, Advanced
  <2>. QED
    BY <2>2, <2>3, Zenon
<1>g. ASSUME NEW hit \in SUBSET Commits,
             op' = [op EXCEPT ![p] = [NextCommit(p) EXCEPT !.hit = hit]]
      PROVE  /\ Goes(p) /\ op'[p].pc = "commit" /\ op'[p].todo = Tail(op[p].todo)
             /\ op'[p].pending = op[p].pending /\ op'[p].hit = hit
  <2>1. PICK o \in OpType : o = [NextCommit(p) EXCEPT !.hit = hit]
    BY <1>n, Zenon
  <2>2. /\ o.pc = "commit" /\ o.todo = Tail(op[p].todo) /\ o.kind = op[p].kind
        /\ o.list = op[p].list /\ o.alone = op[p].alone /\ o.pending = op[p].pending
        /\ o.hit = hit
    BY <1>n, <2>1, Zenon
  <2>3. op'[p] = o /\ \A q \in Procs : q # p => op'[q] = op[q]
    BY <1>g, <2>1, Zenon DEF OpOK
  <2>4. op[p].pc # "idle" /\ o.pc # "idle"
    BY <1>1, <1>3, <2>2
  <2>. QED
    BY <2>2, <2>3, <2>4, Zenon DEF Goes
<1>x. PICK h1 \in SUBSET Commits : h1 = op[p].hit \cup {Head(op[p].todo)}
  BY <1>1, <1>2, <1>4
<1>y. PICK h0 \in SUBSET Commits : h0 = op[p].hit
  BY <1>1, <1>2
<1>i. op[p].pc # "idle"
  BY <1>1, <1>3
<1>d. /\ SkipIndexed(p) => op[p].pc = "commit" /\ lock' = lock
      /\ WriteCommit(p) => op[p].pc = "write" /\ lock = NoProc /\ lock' = lock
      /\ WriteBlocked(p) => lock # NoProc
  BY Zenon DEF SkipIndexed, WriteCommit, WriteBlocked
<1>w. ~(WriteCommit(p) /\ snap' = snap)
  <2>. SUFFICES ASSUME WriteCommit(p), snap' = snap PROVE FALSE
    OBVIOUS
  <2>1. PICK c \in Commits, s \in SnapshotType : snap'[c] = s /\ snap[c].id < s.id
    BY Written, Zenon
  <2>2. snap[c].id \in Nat
    BY DEF TypeInv, SnapOK, SnapshotType
  <2>. QED
    BY <2>1, <2>2
<1>5. CASE SkipIndexed(p) \/ WriteCommit(p)
  <2>1. op' = [op EXCEPT ![p] = NextCommit(p)] /\ clean' = clean /\ lock' = lock
    BY <1>5, Zenon DEF SkipIndexed, WriteCommit
  <2>2. PICK o \in OpType : o = NextCommit(p)
    BY <1>n, <1>y, Zenon
  <2>3. /\ o.pc = "commit" /\ o.todo = Tail(op[p].todo) /\ o.kind = op[p].kind
        /\ o.list = op[p].list /\ o.alone = op[p].alone /\ o.pending = op[p].pending
        /\ o.hit = op[p].hit
    BY <1>n, <1>y, <2>2, Zenon
  <2>4. op'[p] = o /\ \A q \in Procs : q # p => op'[q] = op[q]
    BY <2>1, <2>2, Zenon DEF OpOK
  <2>5. o.pc # "idle"
    BY <2>3
  <2>6. Goes(p)
    BY <1>i, <2>3, <2>4, <2>5, Zenon DEF Goes
  <2>7. ~WriteLeaks(p) /\ ~WriteRollsBack(p)
    <3>1. WriteLeaks(p) \/ WriteRollsBack(p) => op[p].pc = "write" /\ faults' \in {faults, faults + 1}
      BY Zenon DEF WriteLeaks, WriteRollsBack
    <3>2. WriteLeaks(p) \/ WriteRollsBack(p) => snap' = snap
      BY Zenon DEF WriteLeaks, WriteRollsBack, db
    <3>3. CASE SkipIndexed(p)
      BY <1>d, <3>1, <3>3
    <3>4. CASE WriteCommit(p)
      BY <1>w, <3>2, <3>4, Zenon
    <3>. QED
      BY <1>5, <3>3, <3>4
  <2>. QED
    BY <1>1, <1>2, <1>3, <1>4, <2>1, <2>3, <2>4, <2>6, <2>7, Zenon
<1>6. CASE WriteRollsBack(p) /\ ~WriteLeaks(p)
  <2>1. Collect(p, {Head(op[p].todo)}) /\ op[p].pc = "write" /\ lock = NoProc
    BY <1>6, Zenon DEF WriteRollsBack
  <2>2. CASE op[p].kind = "rebuild"
    <3>1. Ends(p) /\ clean' = FALSE
      BY <2>1, <2>2, <1>i, Ended, Zenon DEF Collect
    <3>. QED
      BY <1>1, <1>2, <1>3, <1>4, <1>6, <2>2, <3>1, Zenon
  <2>3. CASE op[p].kind # "rebuild"
    <3>1. op' = [op EXCEPT ![p] = [NextCommit(p) EXCEPT !.hit = h1]] /\ lock' = lock /\ clean' = clean
      BY <2>1, <2>3, <1>x, Zenon DEF Collect
    <3>2. ~SkipIndexed(p) /\ ~WriteCommit(p) /\ ~WriteBlocked(p)
      <4>1. snap' = snap
        BY <1>6, Zenon DEF WriteRollsBack, db
      <4>2. "commit" # "write"
        OBVIOUS
      <4>. QED
        BY <1>d, <1>w, <2>1, <4>1, <4>2, Zenon
    <3>. QED
      BY <1>1, <1>2, <1>3, <1>4, <1>6, <1>g, <1>x, <3>1, <3>2, Zenon
  <2>. QED
    BY <2>2, <2>3
<1>7. CASE WriteLeaks(p)
  <2>1. op[p].pc = "write" /\ lock = NoProc
    BY <1>7, Zenon DEF WriteLeaks
  <2>2. CASE op[p].kind = "rebuild"
    <3>1. Ends(p) /\ clean' = FALSE
      BY <1>7, <2>2, <1>i, Ended, Zenon DEF WriteLeaks
    <3>. QED
      BY <1>1, <1>2, <1>3, <1>4, <1>7, <2>2, <3>1, Zenon
  <2>3. CASE op[p].kind # "rebuild"
    <3>1. op' = [op EXCEPT ![p] = [NextCommit(p) EXCEPT !.hit = h1]] /\ lock' = p /\ clean' = clean
      BY <1>7, <2>3, <1>x, Zenon DEF WriteLeaks
    <3>2. ~SkipIndexed(p) /\ ~WriteCommit(p) /\ ~WriteBlocked(p)
      BY <1>d, <2>1, <3>1
    <3>. QED
      BY <1>1, <1>2, <1>3, <1>4, <1>7, <1>g, <1>x, <2>1, <3>1, <3>2, Zenon
  <2>. QED
    BY <2>2, <2>3
<1>8. CASE WriteBlocked(p)
  <2>1. Collect(p, {}) /\ op[p].pc = "write" /\ lock # NoProc
    BY <1>8, Zenon DEF WriteBlocked
  <2>2. CASE op[p].kind = "rebuild"
    <3>1. Ends(p) /\ clean' = FALSE
      BY <2>1, <2>2, <1>i, Ended, Zenon DEF Collect
    <3>. QED
      BY <1>1, <1>2, <1>3, <1>4, <1>8, <2>2, <3>1, Zenon
  <2>3. CASE op[p].kind # "rebuild"
    <3>0. op[p].hit \cup {} = h0
      BY <1>y
    <3>1. op' = [op EXCEPT ![p] = [NextCommit(p) EXCEPT !.hit = h0]] /\ lock' = lock /\ clean' = clean
      BY <2>1, <2>3, <3>0, Zenon DEF Collect
    <3>2. ~WriteRollsBack(p) /\ ~WriteLeaks(p)
      BY <2>1, Zenon DEF WriteRollsBack, WriteLeaks
    <3>. QED
      BY <1>1, <1>2, <1>3, <1>4, <1>8, <1>g, <1>y, <3>1, <3>2, Zenon
  <2>. QED
    BY <2>2, <2>3
<1>. QED
  BY <1>5, <1>6, <1>7, <1>8, Zenon

\* The two reads before a commit's write.
LEMMA ReadSteps ==
  ASSUME TypeInv, NEW p \in Procs, FindParent(p) \/ ListParent(p)
  PROVE  /\ Goes(p) /\ lock' = lock /\ clean' = clean
         /\ op[p].pc \in {"commit", "replay"} /\ op'[p].pc \in {"replay", "write"}
         /\ op[p].todo \in Seq(Commits) /\ op[p].todo # <<>> /\ Head(op[p].todo) \in Commits
         /\ op'[p].todo = op[p].todo /\ op'[p].hit = op[p].hit
         /\ op'[p].pending = op[p].pending
         /\ FindParent(p) /\ op'[p].pc = "replay" =>
              LET d == repo.parent[Head(op[p].todo)]
              IN  HasSnapshot(d) /\ op'[p].base = snap[d].id
         /\ FindParent(p) /\ op'[p].pc = "write" =>
              op'[p].files = repo.tree[Head(op[p].todo)] /\ op'[p].exact = TRUE
         /\ ListParent(p) =>
              \E s \in SnapshotType :
                /\ s = NoSnapshot \/ \E d \in Commits : snap[d] = s /\ s.id = op[p].base
                /\ op'[p].files = Replay(s.files, Head(op[p].todo))
                /\ op'[p].whole = s.whole /\ op'[p].pc = "write" /\ op[p].pc = "replay"
                /\ op'[p].exact \in BOOLEAN
                /\ op'[p].exact <=>
                     /\ s.exact
                     /\ \A d \in Commits : snap[d].id = op[p].base =>
                          d = repo.parent[Head(op[p].todo)]
<1>. OpOK /\ SnapOK /\ RestOK
  BY Zenon DEF TypeInv
<1>0. PICK b \in OpType : b = op[p] /\ ShapeOf(b)
  BY Zenon DEF OpOK
<1>1. b.todo \in Seq(Commits) /\ b.todo # <<>> /\ b.pc \in {"commit", "replay"}
  BY <1>0 DEF OpType, ShapeOf, FindParent, ListParent
<1>2. PICK c \in Commits : c = Head(b.todo)
  BY <1>1, ListSteps
<1>3. ASSUME NEW o \in OpType, op' = [op EXCEPT ![p] = o], o.pc \in {"replay", "write"},
             o.kind = b.kind, o.alone = b.alone, o.list = b.list
      PROVE  Goes(p) /\ op'[p] = o
  <2>1. op'[p] = o /\ \A q \in Procs : q # p => op'[q] = op[q]
    BY <1>3, Zenon DEF OpOK
  <2>2. o.pc # "idle" /\ op[p].pc # "idle"
    BY <1>0, <1>1, <1>3
  <2>. QED
    BY <1>0, <1>3, <2>1, <2>2, Zenon DEF Goes
<1>u. lock' = lock /\ clean' = clean
  BY Zenon DEF FindParent, ListParent
<1>4. CASE FindParent(p)
  <2>p. b.pc = "commit"
    BY <1>0, <1>4 DEF FindParent
  <2>n. ~ListParent(p)
    BY <1>0, <2>p DEF ListParent
  <2>1. CASE HasSnapshot(repo.parent[c])
    <3>1. PICK m \in Nat : m = snap[repo.parent[c]].id
      BY <2>1 DEF HasSnapshot, SnapOK, SnapshotType
    <3>2. op' = [op EXCEPT ![p] = [b EXCEPT !.base = m, !.pc = "replay"]]
      BY <1>0, <1>2, <1>4, <2>1, <3>1, Zenon DEF FindParent
    <3>3. PICK o \in OpType : o = [b EXCEPT !.base = m, !.pc = "replay"]
      BY DEF OpType
    <3>4. /\ o.pc = "replay" /\ o.kind = b.kind /\ o.alone = b.alone /\ o.list = b.list
          /\ o.todo = b.todo /\ o.hit = b.hit /\ o.pending = b.pending /\ o.base = m
      BY <3>3 DEF OpType
    <3>5. Goes(p) /\ op'[p] = o
      BY <1>3, <3>2, <3>3, <3>4
    <3>6. "replay" # "write"
      OBVIOUS
    <3>. QED
      BY <1>0, <1>1, <1>2, <1>u, <2>1, <2>n, <2>p, <3>1, <3>4, <3>5, <3>6, Zenon
  <2>2. CASE ~HasSnapshot(repo.parent[c])
    <3>1. PICK t \in Tree : t = repo.tree[c]
      BY DEF RestOK
    <3>2. op' = [op EXCEPT ![p] = [b EXCEPT !.files = t, !.whole = TRUE, !.exact = TRUE,
                                            !.pc = "write"]]
      BY <1>0, <1>2, <1>4, <2>2, <3>1, Zenon DEF FindParent, FullListing
    <3>3. PICK o \in OpType : o = [b EXCEPT !.files = t, !.whole = TRUE, !.exact = TRUE,
                                            !.pc = "write"]
      BY DEF OpType
    <3>4. /\ o.pc = "write" /\ o.kind = b.kind /\ o.alone = b.alone /\ o.list = b.list
          /\ o.todo = b.todo /\ o.hit = b.hit /\ o.pending = b.pending /\ o.files = t
          /\ o.exact = TRUE
      BY <3>3 DEF OpType
    <3>5. Goes(p) /\ op'[p] = o
      BY <1>3, <3>2, <3>3, <3>4
    <3>6. "replay" # "write"
      OBVIOUS
    <3>. QED
      BY <1>0, <1>1, <1>2, <1>u, <2>n, <2>p, <3>1, <3>4, <3>5, <3>6, Zenon
  <2>. QED
    BY <2>1, <2>2
<1>5. CASE ListParent(p)
  <2>. DEFINE of == {d \in Commits : snap[d].id = op[p].base}
              parent == IF of = {} THEN NoSnapshot ELSE snap[CHOOSE d \in of : TRUE]
  <2>p. b.pc = "replay"
    BY <1>0, <1>5 DEF ListParent
  <2>n. ~FindParent(p)
    BY <1>0, <2>p DEF FindParent
  <2>1. parent \in SnapshotType
    BY IdleTyped, Zenon DEF SnapOK
  <2>2. PICK s \in SnapshotType : s = parent
    BY <2>1
  <2>3. s = NoSnapshot \/ \E d \in Commits : snap[d] = s /\ s.id = op[p].base
    BY <2>2, Zenon
  <2>4. PICK t \in Tree : t = Replay(s.files, c)
    <3>1. repo.tree[c] \in Tree /\ s.files \in Tree
      BY DEF RestOK, SnapshotType
    <3>. QED
      BY <3>1 DEF Replay, Tree
  <2>5. PICK w \in BOOLEAN : w = s.whole
    BY DEF SnapshotType
  <2>x. PICK x \in BOOLEAN : x = (s.exact /\ of \subseteq {repo.parent[c]})
    BY DEF SnapshotType
  <2>6. op' = [op EXCEPT ![p] = [b EXCEPT !.files = t, !.whole = w, !.exact = x, !.pc = "write"]]
    BY <1>0, <1>2, <1>5, <2>2, <2>4, <2>5, <2>x, Zenon DEF ListParent
  <2>7. PICK o \in OpType : o = [b EXCEPT !.files = t, !.whole = w, !.exact = x, !.pc = "write"]
    BY DEF OpType
  <2>8. /\ o.pc = "write" /\ o.kind = b.kind /\ o.alone = b.alone /\ o.list = b.list
        /\ o.todo = b.todo /\ o.hit = b.hit /\ o.pending = b.pending /\ o.files = t /\ o.whole = w
        /\ o.exact = x
    BY <2>7 DEF OpType
  <2>9. Goes(p) /\ op'[p] = o
    BY <1>3, <2>6, <2>7, <2>8
  <2>10. /\ op'[p].files = Replay(s.files, Head(op[p].todo))
         /\ op'[p].whole = s.whole /\ op'[p].pc = "write" /\ op[p].pc = "replay"
    BY <1>0, <1>2, <2>p, <2>4, <2>5, <2>8, <2>9, Zenon
  <2>11. /\ op'[p].exact \in BOOLEAN
         /\ op'[p].exact <=>
              /\ s.exact
              /\ \A d \in Commits : snap[d].id = op[p].base => d = repo.parent[Head(op[p].todo)]
    <3>1. op'[p].exact = x
      BY <2>8, <2>9, Zenon
    <3>2. of \subseteq {repo.parent[c]} <=>
            \A d \in Commits : snap[d].id = op[p].base => d = repo.parent[c]
      BY Zenon
    <3>. QED
      BY <1>0, <1>2, <2>x, <3>1, <3>2, Zenon
  <2>. QED
    BY <1>0, <1>1, <1>2, <1>u, <2>n, <2>3, <2>8, <2>9, <2>10, <2>11, Zenon
<1>. QED
  BY <1>4, <1>5

\* The recomputation of the lifecycle, and the ways out.
LEMMA LifecycleSteps ==
  ASSUME TypeInv, NEW p \in Procs,
         ReadSnapshots(p) \/ InsertRow(p) \/ Finish(p) \/ Abort(p) \/ Crash(p)
  PROVE  \/ /\ Goes(p) /\ lock' = lock /\ clean' = clean
            /\ op'[p].todo = op[p].todo /\ op'[p].hit = op[p].hit
            /\ \/ /\ ReadSnapshots(p) /\ op'[p].pc = "clear" /\ op'[p].pending = LifecycleRows
                  /\ op[p].pc \in {"liferead", "commit"} /\ Listed # {}
                  /\ op[p].pc = "commit" => op[p].todo = <<>>
                  /\ op[p].pc = "liferead" => op[p].kind = "prune"
               \/ \E r \in op[p].pending :
                    /\ InsertRow(p) /\ op'[p].pc = "insert" /\ op[p].pc = "insert"
                    /\ Insertable(r) /\ life' = life \cup {r}
                    /\ op'[p].pending = op[p].pending \ {r}
         \/ /\ Ends(p) /\ ~InsertRow(p)
            /\ \/ clean' = FALSE
               \/ ReadSnapshots(p) /\ Listed = {} /\ clean' = op[p].alone
               \/ Finish(p) /\ op[p].pc = "insert" /\ op[p].pending = {} /\ clean' = op[p].alone
<1>. OpOK
  BY Zenon DEF TypeInv
<1>0. PICK b \in OpType : b = op[p] /\ ShapeOf(b)
  BY Zenon DEF OpOK
<1>1. op[p].pc # "idle"
  BY DEF ReadSnapshots, InsertRow, Finish, Abort, Crash, Running
<1>2. CASE ReadSnapshots(p) /\ Listed # {}
  <2>1. PICK x \in SUBSET RowType : x = LifecycleRows
    BY LifecycleTyped DEF TypeInv
  <2>2. PICK o \in OpType : o = [b EXCEPT !.pending = x, !.pc = "clear"]
    BY DEF OpType
  <2>3. /\ o.pc = "clear" /\ o.kind = b.kind /\ o.alone = b.alone /\ o.list = b.list
        /\ o.todo = b.todo /\ o.hit = b.hit /\ o.pending = x
    BY <2>2 DEF OpType
  <2>4. op' = [op EXCEPT ![p] = o] /\ lock' = lock /\ clean' = clean
    BY <1>0, <1>2, <2>1, <2>2, Zenon DEF ReadSnapshots
  <2>5. op'[p] = o /\ \A q \in Procs : q # p => op'[q] = op[q]
    BY <2>4, Zenon DEF OpOK
  <2>6. o.pc # "idle"
    BY <2>3
  <2>7. Goes(p)
    BY <1>0, <1>1, <2>3, <2>5, <2>6, Zenon DEF Goes
  <2>8. /\ op[p].pc \in {"liferead", "commit"} /\ (op[p].pc = "commit" => op[p].todo = <<>>)
        /\ op[p].pc = "liferead" => op[p].kind = "prune"
    BY <1>0, <1>2 DEF ReadSnapshots, ShapeOf
  <2>. QED
    BY <1>0, <1>2, <2>1, <2>3, <2>4, <2>5, <2>7, <2>8, Zenon
<1>3. CASE InsertRow(p)
  <2>1. PICK r \in op[p].pending :
               /\ Insertable(r) /\ life' = life \cup {r}
               /\ op' = [op EXCEPT ![p] = [op[p] EXCEPT !.pending = op[p].pending \ {r}]]
    BY <1>3, Zenon DEF InsertRow
  <2>2. PICK x \in SUBSET RowType : x = b.pending \ {r}
    BY DEF OpType
  <2>3. PICK o \in OpType : o = [b EXCEPT !.pending = x]
    BY DEF OpType
  <2>4. /\ o.pc = b.pc /\ o.kind = b.kind /\ o.alone = b.alone /\ o.list = b.list
        /\ o.todo = b.todo /\ o.hit = b.hit /\ o.pending = x
    BY <2>3 DEF OpType
  <2>5. op' = [op EXCEPT ![p] = o]
    BY <1>0, <2>1, <2>2, <2>3, Zenon
  <2>6. op'[p] = o /\ \A q \in Procs : q # p => op'[q] = op[q]
    BY <2>5, Zenon DEF OpOK
  <2>7. Goes(p)
    BY <1>0, <1>1, <2>4, <2>6, Zenon DEF Goes
  <2>8. op[p].pc = "insert" /\ lock' = lock /\ clean' = clean
    BY <1>3, Zenon DEF InsertRow
  <2>. QED
    BY <1>0, <1>3, <2>1, <2>2, <2>4, <2>6, <2>7, <2>8, Zenon
<1>4. CASE /\ ~InsertRow(p) /\ ~(ReadSnapshots(p) /\ Listed # {})
  <2>1. \/ Exit(p, FALSE)
        \/ Exit(p, op[p].alone) /\ ReadSnapshots(p) /\ Listed = {}
        \/ Exit(p, op[p].alone) /\ Finish(p) /\ op[p].pc = "insert" /\ op[p].pending = {}
    BY <1>4, Zenon DEF ReadSnapshots, Finish, Abort, Crash
  <2>. QED
    BY <1>1, <1>4, <2>1, Ended, Zenon
<1>. QED
  BY <1>2, <1>3, <1>4, Zenon

\* Starting an operation.
Starts(p) ==
  /\ ~Running(p) /\ op'[p].kind \in Kinds
  /\ op'[p].pc \in {"commit", "delete", "liferead"}
  /\ op'[p].pending = {}
  /\ op'[p].alone <=> \A r \in Procs : ~Running(r)
  /\ op'[p].kind \in {"build", "update"} => \A c \in op'[p].list : On(op'[p].todo, c)
  /\ \A d \in op'[p].doomed : d.commit \in Commits /\ d.id = snap[d.commit].id
  /\ \A q \in Procs : q # p =>
       /\ op'[q].kind = op[q].kind /\ op'[q].pc = op[q].pc /\ op'[q].todo = op[q].todo
       /\ op'[q].list = op[q].list /\ op'[q].hit = op[q].hit /\ op'[q].base = op[q].base
       /\ op'[q].files = op[q].files /\ op'[q].whole = op[q].whole
       /\ op'[q].exact = op[q].exact
       /\ op'[q].doomed = op[q].doomed /\ op'[q].orphans = op[q].orphans
       /\ op'[q].pending = op[q].pending
       /\ Running(q) => ~op'[q].alone

LEMMA StartSteps ==
  ASSUME TypeInv, NEW p \in Procs,
         StartBuild(p) \/ StartUpdate(p) \/ StartRebuild(p) \/ StartPrune(p)
  PROVE  Starts(p) /\ lock' = lock /\ clean' = clean
<1>. OpOK /\ SnapOK /\ RestOK
  BY Zenon DEF TypeInv
<1>i. Idle \in OpType /\ Idle.pending = {} /\ Idle.todo = <<>> /\ Idle.list = {} /\ Idle.doomed = {}
  BY IdleTyped DEF Idle
<1>s. \A c \in Commits : snap[c].id \in Nat
  BY DEF SnapOK, SnapshotType
<1>0. lock' = lock /\ clean' = clean
  BY Zenon DEF StartBuild, StartUpdate, StartRebuild, StartPrune
<1>1. ASSUME NEW kind \in Kinds, NEW f \in OpType, CanStart(p), Start(p, kind, f),
         f.pending = {},
         \/ f.pc = "commit"
         \/ f.pc = "delete" /\ kind \in {"rebuild", "prune"}
         \/ f.pc = "liferead" /\ kind = "prune",
         kind \in {"build", "update"} => \A c \in f.list : On(f.todo, c),
         \A d \in f.doomed : d.commit \in Commits /\ d.id = snap[d.commit].id
      PROVE  Starts(p)
  <2>1. /\ op'[p].kind = kind /\ op'[p].pc = f.pc /\ op'[p].todo = f.todo
        /\ op'[p].list = f.list /\ op'[p].doomed = f.doomed /\ op'[p].pending = f.pending
    <3>1. op'[p].kind = kind /\ op'[p].pc = f.pc
      BY <1>1, Started
    <3>2. op'[p].todo = f.todo /\ op'[p].list = f.list
      BY <1>1, Started
    <3>3. op'[p].doomed = f.doomed /\ op'[p].pending = f.pending
      BY <1>1, Started
    <3>. QED
      BY <3>1, <3>2, <3>3
  <2>a. op'[p].alone <=> \A r \in Procs : ~Running(r)
    BY <1>1, Started, Zenon
  <2>2. \A q \in Procs : q # p =>
              /\ op'[q].kind = op[q].kind /\ op'[q].pc = op[q].pc /\ op'[q].todo = op[q].todo
              /\ op'[q].list = op[q].list /\ op'[q].hit = op[q].hit /\ op'[q].base = op[q].base
              /\ op'[q].files = op[q].files /\ op'[q].whole = op[q].whole
              /\ op'[q].exact = op[q].exact
              /\ op'[q].doomed = op[q].doomed /\ op'[q].orphans = op[q].orphans
              /\ op'[q].pending = op[q].pending
              /\ Running(q) => ~op'[q].alone
    BY <1>1, Started
  <2>3. op'[p].pc \in {"commit", "delete", "liferead"}
    BY <1>1, <2>1
  <2>4. ~Running(p)
    BY <1>1, Zenon DEF CanStart
  <2>. QED
    BY <1>1, <2>1, <2>a, <2>2, <2>3, <2>4, Zenon DEF Starts
<1>2. CASE StartBuild(p)
  <2>1. PICK list \in Selections :
               Start(p, "build", [Idle EXCEPT !.pc = "commit", !.todo = list,
                                              !.list = ToSet(list)])
    BY <1>2, Zenon DEF StartBuild
  <2>2. /\ list \in Seq(Commits) /\ ToSet(list) \subseteq Commits
        /\ \A c \in ToSet(list) : On(list, c)
    BY SelectionTyped
  <2>3. PICK l \in SUBSET Commits : l = ToSet(list)
    BY <2>2
  <2>4. PICK f \in OpType : f = [Idle EXCEPT !.pc = "commit", !.todo = list, !.list = l]
    BY <1>i, <2>2 DEF OpType
  <2>5. f.pc = "commit" /\ f.todo = list /\ f.list = l /\ f.pending = {} /\ f.doomed = {}
    BY <1>i, <2>4 DEF OpType
  <2>6. Start(p, "build", f) /\ CanStart(p)
    BY <1>2, <2>1, <2>3, <2>4, Zenon DEF StartBuild
  <2>7. \A c \in f.list : On(f.todo, c)
    BY <2>2, <2>3, <2>5, Zenon
  <2>8. "build" \in Kinds /\ \A d \in f.doomed : FALSE
    BY <2>5 DEF Kinds
  <2>. QED
    BY <1>0, <1>1, <2>5, <2>6, <2>7, <2>8, Zenon
<1>3. CASE StartUpdate(p)
  <2>1. PICK missing \in SUBSET Commits :
               \E todo \in OldestFirst(missing) :
                Start(p, "update", [Idle EXCEPT !.pc = "commit", !.list = missing,
                                                !.todo = todo])
    <3>1. PICK h \in Commits, max \in Commits :
                 LET missing == Missing(LogCommits(h, max))
                 IN  \E todo \in OldestFirst(missing) :
                       Start(p, "update", [Idle EXCEPT !.pc = "commit", !.list = missing,
                                                       !.todo = todo])
      BY <1>3, Zenon DEF StartUpdate
    <3>2. Missing(LogCommits(h, max)) \in SUBSET Commits
      BY Zenon DEF LogCommits, Missing
    <3>. QED
      BY <3>1, <3>2, Zenon
  <2>2. PICK todo \in OldestFirst(missing) :
               Start(p, "update", [Idle EXCEPT !.pc = "commit", !.list = missing,
                                               !.todo = todo])
    BY <2>1, Zenon
  <2>3. /\ todo \in Seq(Commits) /\ ToSet(todo) = missing
        /\ \A c \in ToSet(todo) : On(todo, c)
    <3>1. todo \in UNION {[1 .. n -> missing] : n \in 1 .. NCommits} /\ NCommits \in Nat
      BY DEF OldestFirst
    <3>2. ToSet(todo) = missing
      BY Zenon DEF OldestFirst
    <3>. QED
      BY <3>1, <3>2, ListTyped
  <2>4. PICK f \in OpType : f = [Idle EXCEPT !.pc = "commit", !.list = missing, !.todo = todo]
    BY <1>i, <2>3 DEF OpType
  <2>5. f.pc = "commit" /\ f.todo = todo /\ f.list = missing /\ f.pending = {} /\ f.doomed = {}
    BY <1>i, <2>4 DEF OpType
  <2>6. Start(p, "update", f) /\ CanStart(p)
    BY <1>3, <2>2, <2>4, Zenon DEF StartUpdate
  <2>7. \A c \in f.list : On(f.todo, c)
    BY <2>3, <2>5, Zenon
  <2>8. "update" \in Kinds /\ \A d \in f.doomed : FALSE
    BY <2>5 DEF Kinds
  <2>. QED
    BY <1>0, <1>1, <2>5, <2>6, <2>7, <2>8, Zenon
<1>4. CASE StartRebuild(p)
  <2>1. PICK c \in Commits :
               Start(p, "rebuild", [Idle EXCEPT !.pc = "delete", !.todo = <<c>>, !.list = {c},
                                           !.doomed = {[id |-> snap[c].id, commit |-> c]}])
    BY <1>4, Zenon DEF StartRebuild
  <2>2. PICK d \in SUBSET [id : Nat, commit : Commits] : d = {[id |-> snap[c].id, commit |-> c]}
    <3>1. [id |-> snap[c].id, commit |-> c] \in [id : Nat, commit : Commits]
      BY <1>s
    <3>. QED
      BY <3>1, Zenon
  <2>t. PICK t \in Seq(Commits) : t = <<c>>
    <3>1. \A S : \A x \in S : <<x>> \in Seq(S)
      OBVIOUS
    <3>. QED
      BY <3>1
  <2>3. PICK f \in OpType : f = [Idle EXCEPT !.pc = "delete", !.todo = t, !.list = {c},
                                             !.doomed = d]
    BY <1>i, <2>2 DEF OpType
  <2>4. f.pc = "delete" /\ f.pending = {} /\ f.doomed = d
    BY <1>i, <2>3 DEF OpType
  <2>5. \A e \in f.doomed : e.commit \in Commits /\ e.id = snap[e.commit].id
    BY <2>2, <2>4
  <2>6. Start(p, "rebuild", f) /\ CanStart(p)
    BY <1>4, <2>1, <2>2, <2>t, <2>3, Zenon DEF StartRebuild
  <2>7. "rebuild" \in Kinds /\ "rebuild" \notin {"build", "update"} /\ "rebuild" \in {"rebuild", "prune"}
    BY DEF Kinds
  <2>. QED
    BY <1>0, <1>1, <2>4, <2>5, <2>6, <2>7, Zenon
<1>5. CASE StartPrune(p)
  <2>1. PICK keep \in SUBSET Commits :
               Start(p, "prune", [Idle EXCEPT !.pc = IF Listed = {} \/ keep = Commits
                                                   THEN "liferead" ELSE "delete",
                   !.doomed = {[id |-> snap[c].id, commit |-> c] : c \in Listed \ keep}])
    BY <1>5, Zenon DEF StartPrune
  <2>2. PICK d \in SUBSET [id : Nat, commit : Commits] :
               d = {[id |-> snap[c].id, commit |-> c] : c \in Listed \ keep}
    <3>1. \A c \in Commits : [id |-> snap[c].id, commit |-> c] \in [id : Nat, commit : Commits]
      BY <1>s
    <3>2. Listed \subseteq Commits
      BY Zenon DEF Listed
    <3>. QED
      BY <3>1, <3>2, Zenon
  <2>3. PICK pc \in {"liferead", "delete"} :
               pc = IF Listed = {} \/ keep = Commits THEN "liferead" ELSE "delete"
    BY Zenon
  <2>4. PICK f \in OpType : f = [Idle EXCEPT !.pc = pc, !.doomed = d]
    BY <1>i DEF OpType
  <2>5. f.pc = pc /\ f.pending = {} /\ f.doomed = d
    BY <1>i, <2>4 DEF OpType
  <2>6. \A e \in f.doomed : e.commit \in Commits /\ e.id = snap[e.commit].id
    BY <2>2, <2>5 DEF Listed
  <2>7. Start(p, "prune", f) /\ CanStart(p)
    BY <1>5, <2>1, <2>2, <2>3, <2>4, Zenon DEF StartPrune
  <2>8. /\ "prune" \in Kinds /\ "prune" \notin {"build", "update"} /\ "prune" \in {"rebuild", "prune"}
        /\ pc = "liferead" \/ pc = "delete"
    BY DEF Kinds
  <2>. QED
    BY <1>0, <1>1, <2>5, <2>6, <2>7, <2>8, Zenon
<1>. QED
  BY <1>2, <1>3, <1>4, <1>5

-----------------------------------------------------------------------------
(* A run continues after a failed commit.                                  *)

\* An operation that has met no other is the only one, and who holds the write lock
\* is at work.
AloneInv ==
  /\ \A p \in Procs : Running(p) /\ op[p].alone => \A q \in Procs : Running(q) => q = p
  /\ lock # NoProc => Running(lock)

\* A commit of the list is indexed, has failed, or is still to be done, unless the process
\* has left its transaction open.
Covered(p) ==
  /\ op[p].kind \in {"build", "update"} /\ op[p].alone /\ lock # p
  /\ op[p].pc \in {"commit", "replay", "write", "clear"}
  => \A c \in op[p].list : c \in op[p].hit \/ HasSnapshot(c) \/ On(op[p].todo, c)

RunInv == AloneInv /\ \A p \in Procs : Covered(p)

\* Each step is a start, or one process goes on or ends; only a leak takes the lock.
LEMMA Moves ==
  ASSUME TypeInv, NEW p \in Procs,
         \/ StartBuild(p) \/ StartUpdate(p) \/ StartRebuild(p) \/ StartPrune(p)
         \/ DeleteSnapshots(p) \/ DeleteCommits(p) \/ SelectOrphans(p) \/ DeleteOrphans(p)
         \/ SkipIndexed(p) \/ FindParent(p) \/ ListParent(p)
         \/ WriteCommit(p) \/ WriteRollsBack(p) \/ WriteLeaks(p) \/ WriteBlocked(p)
         \/ ReadSnapshots(p) \/ ClearLifecycle(p) \/ InsertRow(p) \/ Finish(p)
         \/ Abort(p) \/ Crash(p)
  PROVE  \/ Starts(p) /\ lock' = lock /\ clean' = clean
         \/ Goes(p) /\ clean' = clean /\ (lock' = lock \/ (lock = NoProc /\ lock' = p))
         \/ Ends(p)
<1>1. CASE StartBuild(p) \/ StartUpdate(p) \/ StartRebuild(p) \/ StartPrune(p)
  BY <1>1, StartSteps
<1>2. CASE DeleteSnapshots(p) \/ DeleteCommits(p) \/ DeleteOrphans(p) \/ ClearLifecycle(p)
  BY <1>2, DeletionSteps, Zenon
<1>3. CASE SelectOrphans(p)
  BY <1>3, SelectionSteps, Zenon
<1>4. CASE \/ SkipIndexed(p) \/ WriteCommit(p)
           \/ WriteRollsBack(p) \/ WriteLeaks(p) \/ WriteBlocked(p)
  <2>1. \/ /\ Goes(p) /\ clean' = clean
           /\ IF WriteLeaks(p) THEN lock = NoProc /\ lock' = p ELSE lock' = lock
        \/ Ends(p)
    BY <1>4, LoopSteps, Zenon
  <2>. QED
    BY <2>1, Zenon
<1>5. CASE FindParent(p) \/ ListParent(p)
  BY <1>5, ReadSteps, Zenon
<1>6. CASE ReadSnapshots(p) \/ InsertRow(p) \/ Finish(p) \/ Abort(p) \/ Crash(p)
  BY <1>6, LifecycleSteps, Zenon
<1>. QED
  BY <1>1, <1>2, <1>3, <1>4, <1>5, <1>6, Zenon

LEMMA AloneStep ==
  ASSUME TypeInv, AloneInv, NEW p \in Procs,
         \/ Starts(p) /\ lock' = lock /\ clean' = clean
         \/ Goes(p) /\ clean' = clean /\ (lock' = lock \/ (lock = NoProc /\ lock' = p))
         \/ Ends(p)
  PROVE  AloneInv'
<1>. lock \in Procs \cup {NoProc} /\ NoProc \notin Procs
  BY Zenon DEF TypeInv, RestOK
<1>1. CASE Starts(p) /\ lock' = lock /\ clean' = clean
  <2>1. op'[p].pc # "idle"
    BY <1>1 DEF Starts
  <2>2. \A q \in Procs : Running(q)' <=> (q = p \/ Running(q))
    BY <1>1, <2>1, Zenon DEF Starts, Running
  <2>3. \A q \in Procs : Running(q)' /\ op'[q].alone => q = p
    BY <1>1, <2>2, Zenon DEF Starts
  <2>4. op'[p].alone => \A q \in Procs : Running(q)' => q = p
    BY <1>1, <2>2, Zenon DEF Starts
  <2>5. lock' # NoProc => Running(lock)'
    BY <1>1, <2>2, Zenon DEF AloneInv, Running
  <2>. QED
    BY <2>3, <2>4, <2>5, Zenon DEF AloneInv
<1>2. CASE Goes(p) /\ (lock' = lock \/ (lock = NoProc /\ lock' = p))
  <2>1. \A q \in Procs : /\ Running(q)' <=> Running(q)
                         /\ op'[q].alone = op[q].alone
    BY <1>2, Zenon DEF Goes, Running
  <2>2. Running(p)'
    BY <1>2, Zenon DEF Goes, Running
  <2>3. lock' # NoProc => Running(lock)'
    BY <1>2, <2>1, <2>2, Zenon DEF AloneInv, Running
  <2>. QED
    BY <2>1, <2>3, Zenon DEF AloneInv
<1>3. CASE Ends(p)
  <2>1. \A q \in Procs : q # p => (Running(q)' <=> Running(q)) /\ op'[q].alone = op[q].alone
    BY <1>3, Zenon DEF Ends, Running
  <2>2. ~Running(p)'
    BY <1>3, Zenon DEF Ends, Running
  <2>3. lock' # NoProc => Running(lock)'
    BY <1>3, <2>1, Zenon DEF Ends, AloneInv, Running
  <2>. QED
    BY <2>1, <2>2, <2>3, Zenon DEF AloneInv
<1>. QED
  BY <1>1, <1>2, <1>3, Zenon

\* Only a deletion takes a snapshot away, and the others of a running process are then not
\* alone.
LEMMA SnapshotsStay ==
  ASSUME TypeInv, NEW p \in Procs,
         \/ StartBuild(p) \/ StartUpdate(p) \/ StartRebuild(p) \/ StartPrune(p)
         \/ DeleteCommits(p) \/ SelectOrphans(p) \/ DeleteOrphans(p)
         \/ SkipIndexed(p) \/ FindParent(p) \/ ListParent(p)
         \/ WriteCommit(p) \/ WriteRollsBack(p) \/ WriteLeaks(p) \/ WriteBlocked(p)
         \/ ReadSnapshots(p) \/ ClearLifecycle(p) \/ InsertRow(p) \/ Finish(p)
         \/ Abort(p) \/ Crash(p)
  PROVE  /\ \A c : HasSnapshot(c) => HasSnapshot(c)'
         /\ \A c : WriteCommit(p) /\ c = Head(op[p].todo) => HasSnapshot(c)'
<1>1. CASE WriteCommit(p)
  <2>1. PICK c \in Commits, s \in SnapshotType :
               /\ c = Head(op[p].todo)
               /\ snap'[c] = s /\ \A d \in Commits : d # c => snap'[d] = snap[d]
               /\ s.id \in Nat \ {0}
    BY <1>1, Written, Zenon
  <2>2. s.id > 0
    BY <2>1
  <2>3. \A d \in Commits : snap[d].id > 0 => snap'[d].id > 0
    BY <2>1, <2>2
  <2>4. snap'[Head(op[p].todo)].id > 0 /\ Head(op[p].todo) \in Commits
    BY <2>1, <2>2, Zenon
  <2>. QED
    BY <2>3, <2>4, Zenon DEF HasSnapshot
<1>2. CASE ~WriteCommit(p)
  <2>1. CASE DeleteCommits(p) \/ DeleteOrphans(p) \/ ClearLifecycle(p) \/ InsertRow(p)
    <3>1. snap' = snap
      BY <2>1, Zenon DEF DeleteCommits, DeleteOrphans, ClearLifecycle, InsertRow
    <3>. QED
      BY <1>2, <3>1, Zenon DEF HasSnapshot
  <2>2. CASE \/ StartBuild(p) \/ StartUpdate(p) \/ StartRebuild(p) \/ StartPrune(p)
         \/ SelectOrphans(p)
         \/ SkipIndexed(p) \/ FindParent(p) \/ ListParent(p)
         \/ WriteRollsBack(p) \/ WriteLeaks(p) \/ WriteBlocked(p)
         \/ ReadSnapshots(p) \/ Finish(p) \/ Abort(p) \/ Crash(p)
    <3>1. snap' = snap
      BY <2>2, StoreEffect
    <3>. QED
      BY <1>2, <3>1, Zenon DEF HasSnapshot
  <2>. QED
    BY <1>2, <2>1, <2>2, Zenon
<1>. QED
  BY <1>1, <1>2

LEMMA RunStep ==
  ASSUME TypeInv, RunInv, NEW p \in Procs,
         \/ StartBuild(p) \/ StartUpdate(p) \/ StartRebuild(p) \/ StartPrune(p)
         \/ DeleteSnapshots(p) \/ DeleteCommits(p) \/ SelectOrphans(p) \/ DeleteOrphans(p)
         \/ SkipIndexed(p) \/ FindParent(p) \/ ListParent(p)
         \/ WriteCommit(p) \/ WriteRollsBack(p) \/ WriteLeaks(p) \/ WriteBlocked(p)
         \/ ReadSnapshots(p) \/ ClearLifecycle(p) \/ InsertRow(p) \/ Finish(p)
         \/ Abort(p) \/ Crash(p)
  PROVE  RunInv'
<1>. OpOK /\ AloneInv /\ lock \in Procs \cup {NoProc}
  BY Zenon DEF TypeInv, RestOK, RunInv
<1>m. \/ Starts(p) /\ lock' = lock /\ clean' = clean
      \/ Goes(p) /\ clean' = clean /\ (lock' = lock \/ (lock = NoProc /\ lock' = p))
      \/ Ends(p)
  BY Moves
<1>a. AloneInv'
  BY <1>m, AloneStep
<1>k. "build" \notin {"rebuild", "prune"} /\ "update" \notin {"rebuild", "prune"}
  OBVIOUS
<1>1. \A c : HasSnapshot(c) /\ ~DeleteSnapshots(p) => HasSnapshot(c)'
  BY SnapshotsStay
<1>2. ASSUME NEW q \in Procs, q # p PROVE Covered(q)'
  <2>. SUFFICES ASSUME op'[q].kind \in {"build", "update"}, op'[q].alone, lock' # q,
                       op'[q].pc \in {"commit", "replay", "write", "clear"},
                       NEW c \in op'[q].list
                PROVE  c \in op'[q].hit \/ HasSnapshot(c)' \/ On(op'[q].todo, c)
    BY Zenon DEF Covered
  <2>1. op'[q].pc # "idle"
    OBVIOUS
  <2>2. CASE Starts(p)
    BY <1>2, <2>1, <2>2, Zenon DEF Starts, Running
  <2>3. CASE Goes(p) \/ Ends(p)
    <3>1. op'[q] = op[q]
      BY <1>2, <2>3, Zenon DEF Goes, Ends
    <3>2. Running(q) /\ Running(p)
      BY <2>1, <2>3, <3>1, Zenon DEF Goes, Ends, Running
    <3>3. FALSE
      BY <1>2, <3>1, <3>2, Zenon DEF AloneInv
    <3>. QED
      BY <3>3
  <2>. QED
    BY <1>m, <2>2, <2>3
<1>3. Covered(p)'
  <2>. SUFFICES ASSUME op'[p].kind \in {"build", "update"}, op'[p].alone, lock' # p,
                       op'[p].pc \in {"commit", "replay", "write", "clear"},
                       NEW c \in op'[p].list
                PROVE  c \in op'[p].hit \/ HasSnapshot(c)' \/ On(op'[p].todo, c)
    BY Zenon DEF Covered
  <2>i. op'[p].pc # "idle"
    OBVIOUS
  <2>e. ~Ends(p)
    BY <2>i, Zenon DEF Ends
  <2>1. CASE StartBuild(p) \/ StartUpdate(p) \/ StartRebuild(p) \/ StartPrune(p)
    BY <2>1, StartSteps, Zenon DEF Starts
  <2>g. ASSUME Goes(p), op[p].pc \in {"commit", "replay", "write", "clear"}
        PROVE  c \in op[p].hit \/ HasSnapshot(c) \/ On(op[p].todo, c)
    <3>1. op[p].kind \in {"build", "update"} /\ op[p].alone /\ c \in op[p].list /\ Running(p)
      BY <2>g, Zenon DEF Goes, Running
    <3>2. lock # p
      BY <1>m, <2>e, <2>g, Zenon DEF Starts, Goes, Running
    <3>. QED
      BY <2>g, <3>1, <3>2, Zenon DEF RunInv, Covered
  <2>2. CASE DeleteSnapshots(p) \/ DeleteCommits(p) \/ DeleteOrphans(p) \/ ClearLifecycle(p)
    <3>1. CASE DeleteSnapshots(p) \/ DeleteCommits(p) \/ DeleteOrphans(p)
      <4>1. op[p].kind \in {"rebuild", "prune"} /\ op'[p].kind = op[p].kind
        BY <3>1, DeletionSteps DEF Goes
      <4>. QED
        BY <1>k, <4>1
    <3>2. CASE ClearLifecycle(p)
      BY <3>2, DeletionSteps
    <3>. QED
      BY <2>2, <3>1, <3>2
  <2>3. CASE SelectOrphans(p)
    <3>1. op'[p].pc = "reclaim"
      BY <2>3, SelectionSteps
    <3>. QED
      BY <3>1
  <2>4. CASE \/ SkipIndexed(p) \/ WriteCommit(p)
             \/ WriteRollsBack(p) \/ WriteLeaks(p) \/ WriteBlocked(p)
    <3>1. /\ op[p].todo \in Seq(Commits) /\ op[p].todo # <<>>
          /\ op[p].pc \in {"commit", "write"}
          /\ Goes(p)
          /\ op'[p].todo = Tail(op[p].todo)
          /\ SkipIndexed(p) \/ WriteCommit(p) \/ WriteBlocked(p) => op'[p].hit = op[p].hit
          /\ WriteRollsBack(p) \/ WriteLeaks(p) => op'[p].hit = op[p].hit \cup {Head(op[p].todo)}
          /\ IF WriteLeaks(p) THEN lock = NoProc /\ lock' = p ELSE lock' = lock
      BY <2>4, <2>e, LoopSteps, Zenon
    <3>2. op[p].pc \in {"commit", "replay", "write", "clear"}
      BY <3>1
    <3>3. c \in op[p].hit \/ HasSnapshot(c) \/ On(op[p].todo, c)
      BY <2>g, <3>1, <3>2
    <3>4. c \in op[p].hit => c \in op'[p].hit
      BY <2>4, <3>1, Zenon
    <3>5. HasSnapshot(c) => HasSnapshot(c)'
      <4>1. ~DeleteSnapshots(p)
        <5>1. op[p].pc # "delete"
          BY <3>1
        <5>. QED
          BY <5>1, Zenon DEF DeleteSnapshots
      <4>. QED
        BY <1>1, <4>1, Zenon
    <3>6. On(op[p].todo, c) => c = Head(op[p].todo) \/ On(Tail(op[p].todo), c)
      BY <3>1, ListSteps
    <3>7. c = Head(op[p].todo) => c \in op'[p].hit \/ HasSnapshot(c)'
      <4>1. CASE SkipIndexed(p)
        BY <3>5, <4>1, Zenon DEF SkipIndexed
      <4>2. CASE WriteCommit(p)
        BY <4>2, SnapshotsStay, Zenon
      <4>3. CASE WriteRollsBack(p) \/ WriteLeaks(p)
        BY <3>1, <4>3, Zenon
      <4>4. CASE WriteBlocked(p)
        <5>1. lock # NoProc /\ lock # p
          <6>1. lock # NoProc
            BY <4>4, Zenon DEF WriteBlocked
          <6>. QED
            BY <1>m, <2>e, <6>1, <3>1, Zenon DEF Starts, Goes, Running
        <5>2. Running(lock) /\ Running(p) /\ op[p].alone
          BY <5>1, <3>1, Zenon DEF AloneInv, Running, Goes
        <5>3. FALSE
          BY <5>1, <5>2, Zenon DEF AloneInv
        <5>. QED
          BY <5>3
      <4>. QED
        BY <2>4, <4>1, <4>2, <4>3, <4>4
    <3>. QED
      BY <3>1, <3>3, <3>4, <3>5, <3>6, <3>7, Zenon
  <2>5. CASE FindParent(p) \/ ListParent(p)
    <3>1. /\ Goes(p) /\ op[p].pc \in {"commit", "replay"}
          /\ op'[p].todo = op[p].todo /\ op'[p].hit = op[p].hit
      BY <2>5, ReadSteps, Zenon
    <3>2. op[p].pc \in {"commit", "replay", "write", "clear"} /\ op[p].pc # "delete"
      BY <3>1
    <3>3. ~DeleteSnapshots(p)
      BY <3>2, Zenon DEF DeleteSnapshots
    <3>. QED
      BY <1>1, <2>g, <3>1, <3>2, <3>3, Zenon
  <2>6. CASE ReadSnapshots(p) \/ InsertRow(p) \/ Finish(p) \/ Abort(p) \/ Crash(p)
    <3>1. /\ Goes(p) /\ op'[p].todo = op[p].todo /\ op'[p].hit = op[p].hit
          /\ \/ /\ op[p].pc \in {"liferead", "commit"}
                /\ op[p].pc = "liferead" => op[p].kind = "prune"
             \/ op'[p].pc = "insert"
      BY <2>6, <2>e, LifecycleSteps, Zenon
    <3>2. op'[p].kind = op[p].kind
      BY <3>1, Zenon DEF Goes
    <3>3. op[p].pc = "commit"
      BY <3>1, <3>2
    <3>4. op[p].pc \in {"commit", "replay", "write", "clear"} /\ op[p].pc # "delete"
      BY <3>3
    <3>5. ~DeleteSnapshots(p)
      BY <3>4, Zenon DEF DeleteSnapshots
    <3>. QED
      BY <1>1, <2>g, <3>1, <3>4, <3>5, Zenon
  <2>. QED
    BY <2>1, <2>2, <2>3, <2>4, <2>5, <2>6, Zenon
<1>. QED
  BY <1>a, <1>2, <1>3, Zenon DEF RunInv

LEMMA RunInit == ASSUME Init PROVE RunInv
<1>1. \A p \in Procs : op[p] = Idle
  BY DEF Init
<1>2. \A p \in Procs : ~Running(p) /\ op[p].pc \notin {"commit", "replay", "write", "clear"}
  BY <1>1, IdleTyped DEF Running
<1>3. lock = NoProc
  BY DEF Init
<1>. QED
  BY <1>2, <1>3, Zenon DEF RunInv, AloneInv, Covered

LEMMA RunNext == ASSUME TypeInv, RunInv, [Next]_vars PROVE RunInv'
<1>1. CASE UNCHANGED inert
  BY <1>1, Zenon DEF inert, db, RunInv, AloneInv, Covered, Running, HasSnapshot
<1>. QED
  BY <1>1, NothingMissing, RunStep, Zenon DEF Next

\* However commits fail, the others of a build or update that ran alone are indexed, unless
\* phase 1 of process_commit has left the transaction open.
THEOREM FailedCommitsAreSkipped == Spec => []RunContinues
<1>1. Init => TypeInv /\ RunInv
  BY TypeInit, RunInit
<1>2. TypeInv /\ RunInv /\ [Next]_vars => (TypeInv /\ RunInv)'
  BY TypeStep, RunNext
<1>3. TypeInv /\ RunInv => RunContinues
  <2>. SUFFICES ASSUME TypeInv, RunInv, NEW p \in Procs,
                       op[p].kind \in {"build", "update"}, op[p].pc = "clear", op[p].alone,
                       lock # p, NEW c \in op[p].list \ op[p].hit
                PROVE  HasSnapshot(c)
    BY Zenon DEF RunContinues
  <2>1. op[p].pc \in {"commit", "replay", "write", "clear"}
    OBVIOUS
  <2>2. HasSnapshot(c) \/ On(op[p].todo, c)
    BY <2>1, Zenon DEF RunInv, Covered
  <2>3. op[p].todo = <<>>
    <3>1. ShapeOf(op[p])
      BY Zenon DEF TypeInv, OpOK
    <3>. QED
      BY <3>1 DEF ShapeOf
  <2>4. ~On(<<>>, c)
    BY DEF On
  <2>. QED
    BY <2>2, <2>3, <2>4, Zenon
<1>. QED
  BY <1>1, <1>2, <1>3, PTL DEF Spec

-----------------------------------------------------------------------------
(* What a snapshot needs is there.                                         *)

\* What is to be deleted.  A prune's commits have the snapshots it listed, or none, then
\* none; orphans are graphs no snapshot uses: but for the exposed snapshots, those written
\* after the plan was made.
Doomed(p) ==
  /\ op[p].pc = "delete" /\ op[p].kind = "prune" =>
       \A d \in op[p].doomed :
         snap[d.commit].id = d.id \/ ~HasSnapshot(d.commit) \/ d.commit \in exposed
  /\ op[p].pc = "rows" =>
       \A d \in op[p].doomed : ~HasSnapshot(d.commit) \/ d.commit \in exposed
  /\ op[p].pc = "reclaim" =>
       \A h \in op[p].orphans : \A c \in Commits \ exposed : \A q \in Paths : snap[c].files[q] # h

UsableInv == SnapshotIsUsable /\ \A p \in Procs : Doomed(p)

\* A process whose plan a step of another leaves as it is ...
SamePlan(p) ==
  /\ op'[p].pc = op[p].pc /\ op'[p].kind = op[p].kind
  /\ op'[p].doomed = op[p].doomed /\ op'[p].orphans = op[p].orphans

\* ... and one that has none.
LEMMA NoPlan ==
  ASSUME NEW p \in Procs, op'[p].pc # "delete", op'[p].pc # "rows", op'[p].pc # "reclaim"
  PROVE  Doomed(p)'
BY Zenon DEF Doomed

\* Deleting snapshots takes from the plans of others.
LEMMA DeletionKeepsPlans ==
  ASSUME TypeInv, NEW r \in Procs, Doomed(r), SamePlan(r), NEW ids, snap' = Without(ids),
         exposed' = exposed
  PROVE  Doomed(r)'
<1>0. NoSnapshot.files = [q \in Paths |-> NoBlob]
  BY DEF NoSnapshot
<1>1. \A c \in Commits : snap'[c] = NoSnapshot \/ snap'[c] = snap[c]
  BY DEF Without
<1>2. ~(NoSnapshot.id > 0)
  BY IdleTyped
<1>3. \A c : HasSnapshot(c)' => HasSnapshot(c) /\ snap'[c] = snap[c]
  BY <1>1, <1>2, Zenon DEF HasSnapshot
<1>4. op[r].orphans \subseteq Blobs /\ \A d \in op[r].doomed : d.commit \in Commits
  BY DEF TypeInv, OpOK, OpType
<1>5. ASSUME NEW h \in op[r].orphans, NEW c \in Commits, NEW q \in Paths,
             snap[c].files[q] # h
      PROVE  snap'[c].files[q] # h
  <2>1. h # NoBlob
    BY <1>4, <1>5
  <2>2. NoSnapshot.files[q] = NoBlob
    BY <1>0
  <2>. QED
    BY <1>1, <1>5, <2>1, <2>2, Zenon
<1>6. \A d \in op[r].doomed : \/ snap[d.commit].id = d.id
                              \/ ~HasSnapshot(d.commit) \/ d.commit \in exposed
        => \/ snap'[d.commit].id = d.id
           \/ ~HasSnapshot(d.commit)' \/ d.commit \in exposed
  BY <1>3, <1>4, Zenon
<1>7. \A d \in op[r].doomed : ~HasSnapshot(d.commit) \/ d.commit \in exposed
        => ~HasSnapshot(d.commit)' \/ d.commit \in exposed
  BY <1>3, Zenon
<1>. QED
  BY <1>5, <1>6, <1>7, Zenon DEF Doomed, SamePlan

\* A snapshot written under a plan is exposed.
LEMMA WriteKeepsPlans ==
  ASSUME TypeInv, NEW p \in Procs, WriteCommit(p), NEW r \in Procs, Doomed(r), SamePlan(r)
  PROVE  Doomed(r)'
<1>1. PICK c \in Commits, s \in SnapshotType, bad \in SUBSET Indexable(op[p].files),
            torn \in SUBSET Indexable(op[p].files) :
           /\ torn \subseteq bad
           /\ c = Head(op[p].todo) /\ op[p].todo # <<>> /\ op[p].files \in Tree
           /\ snap' = [snap EXCEPT ![c] = s]
           /\ snap'[c] = s /\ \A d \in Commits : d # c => snap'[d] = snap[d]
           /\ s.id = NextId /\ s.id \in Nat \ {0} /\ \A d \in Commits : snap[d].id < s.id
           /\ s.files = [q \in Paths |->
                           IF q \in Indexable(op[p].files) \ bad THEN op[p].files[q] ELSE NoBlob]
           /\ s.whole = (op[p].whole /\ bad = {}) /\ s.exact = op[p].exact
           /\ graphs' = graphs \cup
                {op[p].files[q] : q \in ({u \in Indexable(op[p].files) :
                                            op[p].files[u] \notin graphs} \ bad) \cup torn}
           /\ graphs' \subseteq Blobs
           /\ faults' \in Nat
  BY Written, Zenon
<1>2. exposed' = IF ComesUnder(c, op[p].files) THEN exposed \cup {c} ELSE exposed \ {c}
  BY <1>1, Zenon DEF WriteCommit
<1>3. op[r].orphans \subseteq Blobs /\ \A d \in op[r].doomed : d.commit \in Commits
  BY DEF TypeInv, OpOK, OpType
<1>4. op[r].pc = "rows" => op[r].kind = "prune"
  <2>1. ShapeOf(op[r])
    BY Zenon DEF TypeInv, OpOK
  <2>. QED
    BY <2>1 DEF ShapeOf
<1>5. \A d \in Commits : d # c => /\ HasSnapshot(d)' <=> HasSnapshot(d)
                                  /\ d \in exposed' <=> d \in exposed
  <2>1. \A d \in Commits : d # c => (HasSnapshot(d)' <=> HasSnapshot(d))
    BY <1>1, Zenon DEF HasSnapshot
  <2>2. \A d \in Commits : d # c => (d \in exposed' <=> d \in exposed)
    BY <1>2
  <2>. QED
    BY <2>1, <2>2, Zenon
<1>6. CASE ComesUnder(c, op[p].files)
  <2>1. c \in exposed'
    BY <1>2, <1>6
  <2>2. \A d \in Commits : d \notin exposed' => d # c /\ d \notin exposed /\ snap'[d] = snap[d]
    BY <1>1, <1>5, <2>1, Zenon
  <2>3. \A d \in op[r].doomed : \/ snap[d.commit].id = d.id
                              \/ ~HasSnapshot(d.commit) \/ d.commit \in exposed
        => \/ snap'[d.commit].id = d.id
           \/ ~HasSnapshot(d.commit)' \/ d.commit \in exposed'
    BY <1>1, <1>3, <1>5, <2>1, Zenon
  <2>4. \A d \in op[r].doomed : ~HasSnapshot(d.commit) \/ d.commit \in exposed
        => ~HasSnapshot(d.commit)' \/ d.commit \in exposed'
    BY <1>3, <1>5, <2>1, Zenon
  <2>. QED
    BY <2>2, <2>3, <2>4, Zenon DEF Doomed, SamePlan
<1>7. CASE ~ComesUnder(c, op[p].files)
  <2>1. op[r].pc \in {"delete", "rows"} /\ op[r].kind = "prune" =>
          \A d \in op[r].doomed : d.commit # c
    BY <1>7, Zenon DEF ComesUnder
  <2>2. op[r].pc = "reclaim" => \A q \in Paths : op[p].files[q] \notin op[r].orphans
    BY <1>7, Zenon DEF ComesUnder
  <2>3. op[r].pc = "reclaim" => \A h \in op[r].orphans : \A q \in Paths : snap'[c].files[q] # h
    <3>. SUFFICES ASSUME op[r].pc = "reclaim", NEW h \in op[r].orphans, NEW q \in Paths
                  PROVE  snap'[c].files[q] # h
      BY Zenon
    <3>1. snap'[c].files[q] = op[p].files[q] \/ snap'[c].files[q] = NoBlob
      BY <1>1
    <3>2. h # NoBlob
      BY <1>3
    <3>. QED
      BY <2>2, <3>1, <3>2, Zenon
  <2>4. /\ op[r].pc = "delete" => op[r].pc \in {"delete", "rows"}
        /\ op[r].pc = "rows" => op[r].pc \in {"delete", "rows"}
    OBVIOUS
  <2>5. (op[r].pc = "delete" /\ op[r].kind = "prune" =>
         \A d \in op[r].doomed :
           snap[d.commit].id = d.id \/ ~HasSnapshot(d.commit) \/ d.commit \in exposed)
        => (op[r].pc = "delete" /\ op[r].kind = "prune" =>
         \A d \in op[r].doomed :
           snap'[d.commit].id = d.id \/ ~HasSnapshot(d.commit)' \/ d.commit \in exposed')
    BY <1>1, <1>3, <1>5, <2>1, <2>4, Zenon
  <2>6. (op[r].pc = "rows" =>
         \A d \in op[r].doomed : ~HasSnapshot(d.commit) \/ d.commit \in exposed)
        => (op[r].pc = "rows" =>
         \A d \in op[r].doomed : ~HasSnapshot(d.commit)' \/ d.commit \in exposed')
    BY <1>3, <1>4, <1>5, <2>1, <2>4, Zenon
  <2>7. \A d \in Commits \ exposed' : d = c \/ (d \in Commits \ exposed /\ snap'[d] = snap[d])
    BY <1>1, <1>5, Zenon
  <2>. QED
    BY <2>3, <2>5, <2>6, <2>7, Zenon DEF Doomed, SamePlan
<1>. QED
  BY <1>6, <1>7

LEMMA UsableStep ==
  ASSUME TypeInv, UsableInv, NEW p \in Procs,
         \/ StartBuild(p) \/ StartUpdate(p) \/ StartRebuild(p) \/ StartPrune(p)
         \/ DeleteSnapshots(p) \/ DeleteCommits(p) \/ SelectOrphans(p) \/ DeleteOrphans(p)
         \/ SkipIndexed(p) \/ FindParent(p) \/ ListParent(p)
         \/ WriteCommit(p) \/ WriteRollsBack(p) \/ WriteLeaks(p) \/ WriteBlocked(p)
         \/ ReadSnapshots(p) \/ ClearLifecycle(p) \/ InsertRow(p) \/ Finish(p)
         \/ Abort(p) \/ Crash(p)
  PROVE  UsableInv'
<1>. OpOK /\ SnapOK /\ SnapshotIsUsable /\ Doomed(p)
  BY Zenon DEF TypeInv, UsableInv
<1>m. \A q \in Procs : q # p => SamePlan(q) /\ Doomed(q)
  <2>1. \/ Starts(p) /\ lock' = lock /\ clean' = clean
        \/ Goes(p) /\ clean' = clean /\ (lock' = lock \/ (lock = NoProc /\ lock' = p))
        \/ Ends(p)
    BY Moves
  <2>. QED
    BY <2>1, Zenon DEF Starts, Goes, Ends, SamePlan, UsableInv
<1>1. ASSUME snap' = snap, exposed' = exposed
      PROVE  \A q \in Procs : q # p => Doomed(q)'
  BY <1>m, <1>1, Zenon DEF Doomed, SamePlan, HasSnapshot
<1>2. CASE StartBuild(p) \/ StartUpdate(p) \/ StartRebuild(p) \/ StartPrune(p)
  <2>1. Starts(p) /\ snap' = snap /\ rows' = rows /\ graphs' = graphs /\ exposed' = exposed
    BY <1>2, StartSteps, StoreEffect
  <2>2. op'[p].pc # "rows" /\ op'[p].pc # "reclaim"
    BY <2>1 DEF Starts
  <2>3. Doomed(p)'
    BY <2>1, <2>2, Zenon DEF Doomed, Starts
  <2>4. SnapshotIsUsable'
    BY <2>1, Zenon DEF SnapshotIsUsable, HasSnapshot
  <2>. QED
    BY <1>1, <2>1, <2>3, <2>4, Zenon DEF UsableInv
<1>3. CASE DeleteSnapshots(p)
  <2>1. PICK ids : ids = {d.id : d \in op[p].doomed}
    OBVIOUS
  <2>w. snap' = Without(ids) /\ exposed' = exposed
    BY <1>3, <2>1, Zenon DEF DeleteSnapshots
  <2>2. snap' = [c \in Commits |-> IF snap[c].id \in ids THEN NoSnapshot ELSE snap[c]]
    BY <2>w, Zenon DEF Without
  <2>3. rows' = rows /\ graphs' = graphs /\ op[p].pc = "delete"
    BY <1>3, Zenon DEF DeleteSnapshots
  <2>4. op'[p].pc \in {"rows", "orphans"} /\ op'[p].doomed = op[p].doomed
        /\ op'[p].kind = op[p].kind
    BY <1>3, DeletionSteps DEF Goes
  <2>5. \A c \in Commits : \/ snap[c].id \in ids /\ ~(snap'[c].id > 0)
                           \/ snap[c].id \notin ids /\ snap'[c] = snap[c]
    <3>1. ~(NoSnapshot.id > 0)
      BY IdleTyped
    <3>. QED
      BY <2>2, <3>1
  <2>6. SnapshotIsUsable'
    BY <2>3, <2>5, <2>w, Zenon DEF SnapshotIsUsable, HasSnapshot
  <2>7. op'[p].pc = "rows" =>
          \A d \in op'[p].doomed : ~HasSnapshot(d.commit)' \/ d.commit \in exposed'
    <3>. SUFFICES ASSUME op'[p].pc = "rows", NEW d \in op[p].doomed, HasSnapshot(d.commit)'
                  PROVE  d.commit \in exposed
      BY <2>4, <2>w, Zenon
    <3>1. PICK c \in Commits : c = d.commit
      BY Zenon DEF HasSnapshot
    <3>2. op[p].kind = "prune"
      <4>1. ShapeOf(op[p])'
        BY TypeStep, OpTyped, Zenon DEF OpOK
      <4>. QED
        BY <2>4, <4>1 DEF ShapeOf
    <3>3. snap[c].id = d.id \/ ~HasSnapshot(c) \/ c \in exposed
      BY <2>3, <3>1, <3>2, Zenon DEF Doomed
    <3>4. d.id \in ids
      BY <2>1, Zenon
    <3>5. snap'[c].id > 0
      BY <3>1, Zenon DEF HasSnapshot
    <3>6. snap[c].id \notin ids /\ snap'[c] = snap[c]
      BY <2>5, <3>5, Zenon
    <3>7. HasSnapshot(c)
      BY <3>5, <3>6, Zenon DEF HasSnapshot
    <3>. QED
      BY <3>1, <3>3, <3>4, <3>6, <3>7, Zenon
  <2>8. op'[p].pc # "delete" /\ op'[p].pc # "reclaim"
    BY <2>4
  <2>9. Doomed(p)'
    BY <2>7, <2>8, Zenon DEF Doomed
  <2>10. \A q \in Procs : q # p => Doomed(q)'
    BY <1>m, <2>w, DeletionKeepsPlans, Zenon
  <2>. QED
    BY <2>6, <2>9, <2>10, Zenon DEF UsableInv
<1>4. CASE DeleteCommits(p)
  <2>1. /\ snap' = snap /\ graphs' = graphs /\ op[p].pc = "rows" /\ exposed' = exposed
        /\ rows' = rows \ {d.commit : d \in op[p].doomed}
    BY <1>4, Zenon DEF DeleteCommits
  <2>2. op'[p].pc = "orphans"
    BY <1>4, DeletionSteps
  <2>3. \A c \in {d.commit : d \in op[p].doomed} : ~HasSnapshot(c) \/ c \in exposed
    BY <2>1, Zenon DEF Doomed
  <2>4. SnapshotIsUsable'
    BY <2>1, <2>3, Zenon DEF SnapshotIsUsable, HasSnapshot
  <2>5. op'[p].pc # "delete" /\ op'[p].pc # "rows" /\ op'[p].pc # "reclaim"
    BY <2>2
  <2>. QED
    BY <1>1, <2>1, <2>4, <2>5, NoPlan, Zenon DEF UsableInv
<1>5. CASE SelectOrphans(p)
  <2>1. op'[p].pc = "reclaim" /\ op'[p].orphans = FindOrphanGraphs(p)
    BY <1>5, SelectionSteps
  <2>2. snap' = snap /\ rows' = rows /\ graphs' = graphs /\ exposed' = exposed
    BY <1>5, StoreEffect
  <2>3. op'[p].pc # "delete" /\ op'[p].pc # "rows"
    BY <2>1
  <2>4. \A h \in op'[p].orphans : \A c \in Commits : \A q \in Paths : snap'[c].files[q] # h
    BY <2>1, <2>2, Zenon DEF FindOrphanGraphs
  <2>5. SnapshotIsUsable'
    BY <2>2, Zenon DEF SnapshotIsUsable, HasSnapshot
  <2>6. Doomed(p)'
    BY <2>3, <2>4, Zenon DEF Doomed
  <2>. QED
    BY <1>1, <2>2, <2>5, <2>6, Zenon DEF UsableInv
<1>6. CASE DeleteOrphans(p)
  <2>1. /\ snap' = snap /\ rows' = rows /\ op[p].pc = "reclaim" /\ exposed' = exposed
        /\ graphs' = graphs \ op[p].orphans
    BY <1>6, Zenon DEF DeleteOrphans
  <2>2. op'[p].pc \in {"liferead", "commit"}
    BY <1>6, DeletionSteps
  <2>3. \A c \in Commits \ exposed : \A q \in Paths : snap[c].files[q] \notin op[p].orphans
    BY <2>1, Zenon DEF Doomed
  <2>4. SnapshotIsUsable'
    BY <2>1, <2>3, Zenon DEF SnapshotIsUsable, HasSnapshot
  <2>5. op'[p].pc # "delete" /\ op'[p].pc # "rows" /\ op'[p].pc # "reclaim"
    BY <2>2
  <2>. QED
    BY <1>1, <2>1, <2>4, <2>5, NoPlan, Zenon DEF UsableInv
<1>7. CASE WriteCommit(p)
  <2>1. PICK c \in Commits, s \in SnapshotType, bad \in SUBSET Indexable(op[p].files),
            torn \in SUBSET Indexable(op[p].files) :
           /\ torn \subseteq bad
           /\ c = Head(op[p].todo) /\ op[p].todo # <<>> /\ op[p].files \in Tree
           /\ snap' = [snap EXCEPT ![c] = s]
           /\ snap'[c] = s /\ \A d \in Commits : d # c => snap'[d] = snap[d]
           /\ s.id = NextId /\ s.id \in Nat \ {0} /\ \A d \in Commits : snap[d].id < s.id
           /\ s.files = [q \in Paths |->
                           IF q \in Indexable(op[p].files) \ bad THEN op[p].files[q] ELSE NoBlob]
           /\ s.whole = (op[p].whole /\ bad = {}) /\ s.exact = op[p].exact
           /\ graphs' = graphs \cup
                {op[p].files[q] : q \in ({r \in Indexable(op[p].files) :
                                            op[p].files[r] \notin graphs} \ bad) \cup torn}
           /\ graphs' \subseteq Blobs
           /\ faults' \in Nat
    BY <1>7, Written, Zenon
  <2>2. /\ rows' = rows \cup {c}
        /\ exposed' = IF ComesUnder(c, op[p].files) THEN exposed \cup {c} ELSE exposed \ {c}
    BY <1>7, <2>1, Zenon DEF WriteCommit
  <2>3. \A q \in Paths : s.files[q] \in graphs' \cup {NoBlob}
    <3>. TAKE q \in Paths
    <3>1. s.files[q] = IF q \in Indexable(op[p].files) \ bad THEN op[p].files[q] ELSE NoBlob
      BY <2>1, Zenon
    <3>2. q \in Indexable(op[p].files) \ bad => op[p].files[q] \in graphs'
      BY <2>1, Zenon
    <3>. QED
      BY <3>1, <3>2, Zenon
  <2>4. graphs \subseteq graphs'
    BY <2>1, Zenon
  <2>5. SnapshotIsUsable'
    <3>. SUFFICES ASSUME NEW d \in Commits, HasSnapshot(d)', d \notin exposed'
                  PROVE  d \in rows' /\ \A q \in Paths : snap'[d].files[q] \in graphs' \cup {NoBlob}
      BY Zenon DEF SnapshotIsUsable
    <3>1. CASE d = c
      BY <2>1, <2>2, <2>3, <3>1, Zenon
    <3>2. CASE d # c
      <4>1. HasSnapshot(d) /\ snap'[d] = snap[d]
        BY <2>1, <3>2, Zenon DEF HasSnapshot
      <4>e. d \notin exposed
        BY <2>2, <3>2
      <4>2. d \in rows /\ \A q \in Paths : snap[d].files[q] \in graphs \cup {NoBlob}
        BY <4>1, <4>e, Zenon DEF SnapshotIsUsable
      <4>. QED
        BY <2>2, <2>4, <4>1, <4>2, Zenon
    <3>. QED
      BY <3>1, <3>2
  <2>6. op'[p].pc = "commit"
    <3>1. ~Ends(p)
      <4>2. op' = [op EXCEPT ![p] = NextCommit(p)] /\ op[p].pc = "write"
        BY <1>7, Zenon DEF WriteCommit
      <4>3. op[p].todo # <<>> /\ op[p].pc \in {"commit", "replay", "write"} /\ {} \in SUBSET Commits
        BY <2>1, <4>2, <1>7, LoopSteps
      <4>4. NextCommit(p).pc = "commit"
        BY <4>3, Advanced
      <4>5. op'[p] = NextCommit(p)
        BY <4>2, Zenon DEF OpOK
      <4>. QED
        BY <4>4, <4>5 DEF Ends
    <3>. QED
      BY <1>7, <3>1, LoopSteps, Zenon
  <2>7. op'[p].pc # "delete" /\ op'[p].pc # "rows" /\ op'[p].pc # "reclaim"
    BY <2>6
  <2>8. \A q \in Procs : q # p => Doomed(q)'
    BY <1>m, <1>7, WriteKeepsPlans, Zenon
  <2>. QED
    BY <2>5, <2>7, <2>8, NoPlan, Zenon DEF UsableInv
<1>8. CASE \/ SkipIndexed(p) \/ FindParent(p) \/ ListParent(p)
           \/ WriteRollsBack(p) \/ WriteLeaks(p) \/ WriteBlocked(p)
           \/ ReadSnapshots(p) \/ ClearLifecycle(p) \/ InsertRow(p) \/ Finish(p)
           \/ Abort(p) \/ Crash(p)
  <2>1. snap' = snap /\ rows' = rows /\ graphs' = graphs /\ exposed' = exposed
    <3>1. CASE ClearLifecycle(p) \/ InsertRow(p)
      BY <3>1, Zenon DEF ClearLifecycle, InsertRow
    <3>2. CASE ~(ClearLifecycle(p) \/ InsertRow(p))
      BY <1>8, <3>2, StoreEffect
    <3>. QED
      BY <3>1, <3>2
  <2>2. op'[p].pc \in {"commit", "replay", "write", "clear", "insert", "idle"}
    <3>1. CASE SkipIndexed(p) \/ WriteRollsBack(p) \/ WriteLeaks(p) \/ WriteBlocked(p)
      <4>1. op'[p].pc = "commit" \/ op'[p].pc = "idle"
        BY <3>1, LoopSteps, Zenon DEF Ends
      <4>. QED
        BY <4>1
    <3>2. CASE FindParent(p) \/ ListParent(p)
      <4>1. op'[p].pc \in {"replay", "write"}
        BY <3>2, ReadSteps, Zenon
      <4>. QED
        BY <4>1
    <3>3. CASE ReadSnapshots(p) \/ InsertRow(p) \/ Finish(p) \/ Abort(p) \/ Crash(p)
      <4>1. op'[p].pc = "clear" \/ op'[p].pc = "insert" \/ op'[p].pc = "idle"
        BY <3>3, LifecycleSteps, Zenon DEF Ends
      <4>. QED
        BY <4>1
    <3>4. CASE ClearLifecycle(p)
      BY <3>4, DeletionSteps
    <3>. QED
      BY <1>8, <3>1, <3>2, <3>3, <3>4, Zenon
  <2>3. op'[p].pc # "delete" /\ op'[p].pc # "rows" /\ op'[p].pc # "reclaim"
    BY <2>2
  <2>4. SnapshotIsUsable'
    BY <2>1, Zenon DEF SnapshotIsUsable, HasSnapshot
  <2>. QED
    BY <1>1, <2>1, <2>3, <2>4, NoPlan, Zenon DEF UsableInv
<1>. QED
  BY <1>2, <1>3, <1>4, <1>5, <1>6, <1>7, <1>8, Zenon

LEMMA UsableInit == ASSUME Init PROVE UsableInv
<1>1. \A p \in Procs : op[p] = Idle
  BY DEF Init
<1>2. \A p \in Procs : op[p].pc # "delete" /\ op[p].pc # "rows" /\ op[p].pc # "reclaim"
  BY <1>1, IdleTyped
<1>3. \A c \in Commits : snap[c] = NoSnapshot
  BY DEF Init
<1>4. \A c \in Commits : ~(snap[c].id > 0)
  BY <1>3, IdleTyped
<1>. QED
  BY <1>2, <1>4, Zenon DEF UsableInv, SnapshotIsUsable, Doomed, HasSnapshot

LEMMA UsableNext == ASSUME TypeInv, UsableInv, [Next]_vars PROVE UsableInv'
<1>1. CASE UNCHANGED inert
  BY <1>1, Zenon DEF inert, db, UsableInv, SnapshotIsUsable, Doomed, HasSnapshot
<1>. QED
  BY <1>1, NothingMissing, UsableStep, Zenon DEF Next

\* At every moment, with prunes and rebuilds running beside builds and updates and any of
\* them stopped anywhere, a snapshot has its commits row and the stored graph of each of its
\* files, unless it was written while a prune that had chosen its commit, or a clean-up that
\* had chosen a graph it uses, was still to delete them.
THEOREM SnapshotsAreUsable == Spec => []SnapshotIsUsable
<1>1. Init => TypeInv /\ UsableInv
  BY TypeInit, UsableInit
<1>2. TypeInv /\ UsableInv /\ [Next]_vars => (TypeInv /\ UsableInv)'
  BY TypeStep, UsableNext
<1>3. UsableInv => SnapshotIsUsable
  BY DEF UsableInv
<1>. QED
  BY <1>1, <1>2, <1>3, PTL DEF Spec

-----------------------------------------------------------------------------
(* The lifecycle rows.                                                     *)

\* The rows in the store name snapshots that are there, as the foreign keys demand; the
\* rows in hand name some snapshot.
Names(r) == r.first > 0 /\ r.last > 0
Exists(i) == \E c \in Commits : snap[c].id = i
RowsOwned == \A r \in life : Names(r) /\ Exists(r.first) /\ Exists(r.last)
PendingNamed == \A p \in Procs : \A r \in op[p].pending : Names(r)

\* Between them, the store and the hands of an operation that is alone have all rows.
Recomputed(p) ==
  op[p].alone =>
    /\ op[p].pc = "clear" => op[p].pending = LifecycleRows
    /\ op[p].pc = "insert" => life \cup op[p].pending = LifecycleRows

LifeInv ==
  /\ RowsOwned /\ PendingNamed /\ LifecycleIsCurrent
  /\ \A p \in Procs : Recomputed(p)

LEMMA SameRows ==
  ASSUME snap' = snap, rows' = rows, graphs' = graphs PROVE LifecycleRows' = LifecycleRows
<1>1. Listed' = Listed
  BY Zenon DEF Listed, HasSnapshot
<1>2. Symbols' = Symbols
  BY <1>1, Zenon DEF Symbols
<1>3. \A h : LifecycleRow(h)' = LifecycleRow(h)
  BY <1>1, Zenon DEF LifecycleRow
<1>. QED
  BY <1>2, <1>3, Zenon DEF LifecycleRows

\* A lifecycle row goes with its snapshots.
LEMMA RowsOwnedStep ==
  ASSUME TypeInv, LifeInv, NEW p \in Procs,
         \/ StartBuild(p) \/ StartUpdate(p) \/ StartRebuild(p) \/ StartPrune(p)
         \/ DeleteSnapshots(p) \/ DeleteCommits(p) \/ SelectOrphans(p) \/ DeleteOrphans(p)
         \/ SkipIndexed(p) \/ FindParent(p) \/ ListParent(p)
         \/ WriteCommit(p) \/ WriteRollsBack(p) \/ WriteLeaks(p) \/ WriteBlocked(p)
         \/ ReadSnapshots(p) \/ ClearLifecycle(p) \/ InsertRow(p) \/ Finish(p)
         \/ Abort(p) \/ Crash(p)
  PROVE  RowsOwned'
<1>. SnapOK /\ RowsOwned /\ PendingNamed
  BY Zenon DEF TypeInv, LifeInv
<1>0. \A c \in Commits : snap[c].id \in Nat
  BY DEF SnapOK, SnapshotType
<1>1. CASE WriteCommit(p)
  <2>1. PICK c \in Commits, s \in SnapshotType :
               /\ c = Head(op[p].todo)
               /\ snap'[c] = s /\ \A d \in Commits : d # c => snap'[d] = snap[d]
               /\ s.id \in Nat \ {0}
    BY <1>1, Written, Zenon
  <2>2. life' = IF HasSnapshot(c) THEN Cascade({snap[c].id}) ELSE life
    BY <1>1, <2>1, Zenon DEF WriteCommit
  <2>3. \A i : Exists(i) /\ i # snap[c].id => Exists(i)'
    BY <2>1, Zenon DEF Exists
  <2>4. ASSUME NEW r \in life' PROVE Names(r) /\ Exists(r.first)' /\ Exists(r.last)'
    <3>1. r \in life
      BY <2>2, <2>4, Zenon DEF Cascade
    <3>2. Names(r) /\ Exists(r.first) /\ Exists(r.last)
      BY <3>1, Zenon DEF RowsOwned
    <3>3. CASE HasSnapshot(c)
      <4>1. r.first # snap[c].id /\ r.last # snap[c].id
        BY <2>2, <2>4, <3>3, Zenon DEF Cascade
      <4>. QED
        BY <2>3, <3>2, <4>1, Zenon
    <3>4. CASE ~HasSnapshot(c)
      <4>1. ~(snap[c].id > 0)
        BY <3>4, Zenon DEF HasSnapshot
      <4>2. r.first # snap[c].id /\ r.last # snap[c].id
        BY <3>2, <4>1, Zenon DEF Names
      <4>. QED
        BY <2>3, <3>2, <4>2, Zenon
    <3>. QED
      BY <3>3, <3>4
  <2>. QED
    BY <2>4, Zenon DEF RowsOwned, Exists, Names
<1>2. CASE DeleteSnapshots(p)
  <2>1. PICK ids : snap' = Without(ids) /\ life' = Cascade(ids)
    BY <1>2, Zenon DEF DeleteSnapshots
  <2>2. \A c \in Commits : snap[c].id \notin ids => snap'[c] = snap[c]
    BY <2>1 DEF Without
  <2>3. \A i : Exists(i) /\ i \notin ids => Exists(i)'
    BY <2>2, Zenon DEF Exists
  <2>4. \A r \in life' : r \in life /\ r.first \notin ids /\ r.last \notin ids
    BY <2>1, Zenon DEF Cascade
  <2>. QED
    BY <2>3, <2>4, Zenon DEF RowsOwned, Exists
<1>3. CASE ClearLifecycle(p)
  <2>1. life' = {}
    BY <1>3, Zenon DEF ClearLifecycle
  <2>. QED
    BY <2>1, Zenon DEF RowsOwned
<1>4. CASE InsertRow(p)
  <2>1. PICK r \in op[p].pending : Insertable(r) /\ life' = life \cup {r} /\ snap' = snap
    BY <1>4, Zenon DEF InsertRow
  <2>2. Names(r)
    BY <2>1, Zenon DEF PendingNamed
  <2>3. Exists(r.first) /\ Exists(r.last)
    BY <2>1, Zenon DEF Insertable, Exists
  <2>. QED
    BY <2>1, <2>2, <2>3, Zenon DEF RowsOwned, Exists
<1>5. CASE DeleteCommits(p) \/ DeleteOrphans(p)
  <2>1. life' = life /\ snap' = snap
    BY <1>5, Zenon DEF DeleteCommits, DeleteOrphans
  <2>. QED
    BY <2>1, Zenon DEF RowsOwned, Exists
<1>6. CASE \/ StartBuild(p) \/ StartUpdate(p) \/ StartRebuild(p) \/ StartPrune(p)
         \/ SelectOrphans(p)
         \/ SkipIndexed(p) \/ FindParent(p) \/ ListParent(p)
         \/ WriteRollsBack(p) \/ WriteLeaks(p) \/ WriteBlocked(p)
         \/ ReadSnapshots(p) \/ Finish(p) \/ Abort(p) \/ Crash(p)
  <2>1. life' = life /\ snap' = snap
    BY <1>6, StoreEffect
  <2>. QED
    BY <2>1, Zenon DEF RowsOwned, Exists
<1>. QED
  BY <1>1, <1>2, <1>3, <1>4, <1>5, <1>6, Zenon

\* What an operation has in hand, step by step.
LEMMA InHand ==
  ASSUME TypeInv, LifeInv, NEW p \in Procs,
         \/ StartBuild(p) \/ StartUpdate(p) \/ StartRebuild(p) \/ StartPrune(p)
         \/ DeleteSnapshots(p) \/ DeleteCommits(p) \/ SelectOrphans(p) \/ DeleteOrphans(p)
         \/ SkipIndexed(p) \/ FindParent(p) \/ ListParent(p)
         \/ WriteCommit(p) \/ WriteRollsBack(p) \/ WriteLeaks(p) \/ WriteBlocked(p)
         \/ ReadSnapshots(p) \/ ClearLifecycle(p) \/ InsertRow(p) \/ Finish(p)
         \/ Abort(p) \/ Crash(p)
  PROVE  /\ \A r \in op'[p].pending : Names(r)
         /\ ~Ends(p) => Recomputed(p)'
         /\ Ends(p) => \/ clean' = FALSE
                       \/ ReadSnapshots(p) /\ Listed = {} /\ clean' = op[p].alone
                       \/ /\ Finish(p) /\ op[p].pc = "insert" /\ op[p].pending = {}
                          /\ clean' = op[p].alone
<1>. OpOK /\ SnapOK
  BY Zenon DEF TypeInv
<1>p. \A r \in op[p].pending : Names(r)
  BY Zenon DEF LifeInv, PendingNamed
<1>d. DbOK
  BY Zenon DEF TypeInv
<1>r. Recomputed(p)
  BY Zenon DEF LifeInv
<1>i. \A r \in Idle.pending : Names(r)
  BY DEF Idle
<1>v. op'[p].pc \notin {"clear", "insert"} => Recomputed(p)'
  BY DEF Recomputed
<1>1. CASE StartBuild(p) \/ StartUpdate(p) \/ StartRebuild(p) \/ StartPrune(p)
  <2>1. op'[p].pending = {} /\ op'[p].pc \in {"commit", "delete", "liferead"}
    BY <1>1, StartSteps, Zenon DEF Starts
  <2>2. op'[p].pc \notin {"clear", "insert"} /\ ~Ends(p)
    BY <2>1 DEF Ends
  <2>. QED
    BY <1>v, <2>1, <2>2, Zenon
<1>2. CASE DeleteSnapshots(p) \/ DeleteCommits(p) \/ DeleteOrphans(p) \/ ClearLifecycle(p)
  <2>1. Goes(p) /\ op'[p].pending = op[p].pending
    BY <1>2, DeletionSteps, Zenon
  <2>2. ~Ends(p)
    BY <2>1, Zenon DEF Goes, Ends
  <2>3. Recomputed(p)'
    <3>1. CASE DeleteSnapshots(p) \/ DeleteCommits(p) \/ DeleteOrphans(p)
      <4>1. \/ op'[p].pc \in {"rows", "orphans"} \/ op'[p].pc = "orphans"
            \/ op'[p].pc \in {"liferead", "commit"}
        BY <3>1, DeletionSteps, Zenon
      <4>2. op'[p].pc \notin {"clear", "insert"}
        BY <4>1
      <4>. QED
        BY <1>v, <4>2
    <3>2. CASE ClearLifecycle(p)
      <4>1. /\ life' = {} /\ snap' = snap /\ rows' = rows /\ graphs' = graphs /\ op[p].pc = "clear"
        BY <3>2, Zenon DEF ClearLifecycle
      <4>2. LifecycleRows' = LifecycleRows
        BY <4>1, SameRows
      <4>3. op'[p].pc = "insert" /\ op'[p].alone = op[p].alone
        BY <2>1, <3>2, DeletionSteps, Zenon DEF Goes
      <4>4. op[p].alone => op[p].pending = LifecycleRows
        BY <1>r, <4>1, Zenon DEF Recomputed
      <4>5. op'[p].alone => life' \cup op'[p].pending = LifecycleRows'
        BY <2>1, <4>1, <4>2, <4>3, <4>4, Zenon
      <4>6. op'[p].pc # "clear"
        BY <4>3
      <4>. QED
        BY <4>5, <4>6, Zenon DEF Recomputed
    <3>. QED
      BY <1>2, <3>1, <3>2
  <2>. QED
    BY <1>p, <2>1, <2>2, <2>3, Zenon
<1>3. CASE SelectOrphans(p)
  <2>1. Goes(p) /\ op'[p].pending = op[p].pending /\ op'[p].pc = "reclaim"
    BY <1>3, SelectionSteps, Zenon
  <2>2. ~Ends(p) /\ op'[p].pc \notin {"clear", "insert"}
    BY <2>1 DEF Goes, Ends
  <2>. QED
    BY <1>p, <1>v, <2>1, <2>2, Zenon
<1>4. CASE \/ SkipIndexed(p) \/ WriteCommit(p)
           \/ WriteRollsBack(p) \/ WriteLeaks(p) \/ WriteBlocked(p)
  <2>1. \/ Goes(p) /\ op'[p].pc = "commit" /\ op'[p].pending = op[p].pending
        \/ Ends(p) /\ clean' = FALSE
    BY <1>4, LoopSteps, Zenon
  <2>2. "commit" \notin {"clear", "insert"}
    OBVIOUS
  <2>3. CASE Goes(p) /\ op'[p].pc = "commit" /\ op'[p].pending = op[p].pending
    <3>1. ~Ends(p)
      BY <2>3, Zenon DEF Goes, Ends
    <3>. QED
      BY <1>p, <1>v, <2>2, <2>3, <3>1, Zenon
  <2>4. CASE Ends(p) /\ clean' = FALSE
    <3>1. op'[p].pending = Idle.pending
      BY <2>4, Zenon DEF Ends
    <3>. QED
      BY <1>i, <2>4, <3>1, Zenon
  <2>. QED
    BY <2>1, <2>3, <2>4
<1>5. CASE FindParent(p) \/ ListParent(p)
  <2>1. Goes(p) /\ op'[p].pending = op[p].pending /\ op'[p].pc \in {"replay", "write"}
    BY <1>5, ReadSteps, Zenon
  <2>2. ~Ends(p) /\ op'[p].pc \notin {"clear", "insert"}
    BY <2>1 DEF Goes, Ends
  <2>. QED
    BY <1>p, <1>v, <2>1, <2>2, Zenon
<1>6. CASE ReadSnapshots(p) \/ InsertRow(p) \/ Finish(p) \/ Abort(p) \/ Crash(p)
  <2>1. CASE ~Ends(p)
    <3>1. /\ Goes(p)
          /\ \/ ReadSnapshots(p) /\ op'[p].pc = "clear" /\ op'[p].pending = LifecycleRows
             \/ \E r \in op[p].pending :
                    /\ InsertRow(p) /\ op'[p].pc = "insert" /\ op[p].pc = "insert"
                    /\ life' = life \cup {r}
                    /\ op'[p].pending = op[p].pending \ {r}
      BY <1>6, <2>1, LifecycleSteps, Zenon
    <3>2. CASE ReadSnapshots(p) /\ op'[p].pc = "clear" /\ op'[p].pending = LifecycleRows
      <4>1. LifecycleRows' = LifecycleRows
        BY <3>2, StoreEffect, SameRows, Zenon
      <4>2. op'[p].pc # "insert"
        BY <3>2
      <4>3. \A r \in LifecycleRows : Names(r)
        BY <1>d, LifecycleTyped, Zenon DEF Names
      <4>. QED
        BY <2>1, <3>2, <4>1, <4>2, <4>3, Zenon DEF Recomputed
    <3>3. ASSUME NEW r \in op[p].pending,
                 InsertRow(p), op'[p].pc = "insert", op[p].pc = "insert",
                 life' = life \cup {r}, op'[p].pending = op[p].pending \ {r}
          PROVE  (\A s \in op'[p].pending : Names(s)) /\ Recomputed(p)'
      <4>1. snap' = snap /\ rows' = rows /\ graphs' = graphs
        BY <3>3, Zenon DEF InsertRow
      <4>2. LifecycleRows' = LifecycleRows
        BY <4>1, SameRows
      <4>3. op'[p].pc # "clear"
        BY <3>3
      <4>4. op[p].alone => life \cup op[p].pending = LifecycleRows
        BY <1>r, <3>3, Zenon DEF Recomputed
      <4>5. op'[p].alone = op[p].alone
        BY <3>1, Zenon DEF Goes
      <4>6. life' \cup op'[p].pending = life \cup op[p].pending
        BY <3>3
      <4>7. op'[p].alone => life' \cup op'[p].pending = LifecycleRows'
        BY <4>2, <4>4, <4>5, <4>6, Zenon
      <4>. QED
        BY <1>p, <3>3, <4>3, <4>7, Zenon DEF Recomputed
    <3>. QED
      BY <2>1, <3>1, <3>2, <3>3, Zenon
  <2>2. CASE Ends(p)
    <3>1. op'[p].pending = Idle.pending /\ ~Goes(p)
      BY <2>2, Zenon DEF Ends, Goes
    <3>2. \/ clean' = FALSE
          \/ ReadSnapshots(p) /\ Listed = {} /\ clean' = op[p].alone
          \/ Finish(p) /\ op[p].pc = "insert" /\ op[p].pending = {} /\ clean' = op[p].alone
      BY <1>6, <3>1, LifecycleSteps, Zenon
    <3>. QED
      BY <1>i, <2>2, <3>1, <3>2, Zenon
  <2>. QED
    BY <2>1, <2>2
<1>. QED
  BY <1>1, <1>2, <1>3, <1>4, <1>5, <1>6, Zenon

LEMMA LifeStep ==
  ASSUME TypeInv, AloneInv, LifeInv, NEW p \in Procs,
         \/ StartBuild(p) \/ StartUpdate(p) \/ StartRebuild(p) \/ StartPrune(p)
         \/ DeleteSnapshots(p) \/ DeleteCommits(p) \/ SelectOrphans(p) \/ DeleteOrphans(p)
         \/ SkipIndexed(p) \/ FindParent(p) \/ ListParent(p)
         \/ WriteCommit(p) \/ WriteRollsBack(p) \/ WriteLeaks(p) \/ WriteBlocked(p)
         \/ ReadSnapshots(p) \/ ClearLifecycle(p) \/ InsertRow(p) \/ Finish(p)
         \/ Abort(p) \/ Crash(p)
  PROVE  LifeInv'
<1>. OpOK /\ SnapOK
  BY Zenon DEF TypeInv
<1>m. \/ Starts(p) /\ lock' = lock /\ clean' = clean
      \/ Goes(p) /\ clean' = clean /\ (lock' = lock \/ (lock = NoProc /\ lock' = p))
      \/ Ends(p)
  BY Moves
<1>h. /\ \A r \in op'[p].pending : Names(r)
      /\ ~Ends(p) => Recomputed(p)'
      /\ Ends(p) => \/ clean' = FALSE
                    \/ ReadSnapshots(p) /\ Listed = {} /\ clean' = op[p].alone
                    \/ /\ Finish(p) /\ op[p].pc = "insert" /\ op[p].pending = {}
                       /\ clean' = op[p].alone
  BY InHand
<1>1. RowsOwned'
  BY RowsOwnedStep
<1>2. PendingNamed'
  <2>1. \A q \in Procs : q # p => op'[q].pending = op[q].pending
    BY <1>m, Zenon DEF Starts, Goes, Ends
  <2>. QED
    BY <1>h, <2>1, Zenon DEF PendingNamed, LifeInv, Names
<1>3. ASSUME NEW q \in Procs, q # p PROVE Recomputed(q)'
  <2>. SUFFICES ASSUME op'[q].alone, op'[q].pc \in {"clear", "insert"} PROVE FALSE
    BY DEF Recomputed
  <2>1. op'[q].pc = op[q].pc /\ op[q].pc # "idle"
    <3>1. op'[q].pc = op[q].pc
      BY <1>m, <1>3, Zenon DEF Starts, Goes, Ends
    <3>. QED
      BY <3>1
  <2>2. Running(q)
    BY <2>1, Zenon DEF Running
  <2>3. CASE Starts(p)
    BY <1>3, <2>2, <2>3, Zenon DEF Starts
  <2>4. CASE Goes(p) \/ Ends(p)
    <3>1. op'[q] = op[q] /\ Running(p)
      BY <1>3, <2>4, Zenon DEF Goes, Ends, Running
    <3>. QED
      BY <1>3, <2>2, <3>1, Zenon DEF AloneInv
  <2>. QED
    BY <1>m, <2>3, <2>4
<1>4. Recomputed(p)'
  <2>1. Ends(p) => Recomputed(p)'
    <3>1. Ends(p) => op'[p].pc = "idle"
      BY Zenon DEF Ends
    <3>2. op'[p].pc = "idle" => op'[p].pc # "clear" /\ op'[p].pc # "insert"
      OBVIOUS
    <3>. QED
      BY <3>1, <3>2, Zenon DEF Recomputed
  <2>. QED
    BY <1>h, <2>1
<1>5. LifecycleIsCurrent'
  <2>1. CASE Starts(p) \/ Goes(p)
    <3>1. op'[p].pc # "idle"
      BY <2>1 DEF Starts, Goes
    <3>. QED
      BY <3>1, Zenon DEF LifecycleIsCurrent, Running
  <2>2. CASE Ends(p) /\ clean' = FALSE
    BY <2>2, Zenon DEF LifecycleIsCurrent
  <2>3. CASE ReadSnapshots(p) /\ Listed = {}
    <3>1. snap' = snap /\ rows' = rows /\ graphs' = graphs /\ life' = life
      BY <2>3, StoreEffect
    <3>2. LifecycleRows = {}
      <4>1. Symbols = {}
        BY <2>3 DEF Symbols
      <4>. QED
        BY <4>1 DEF LifecycleRows
    <3>3. (\A c \in Commits : ~HasSnapshot(c)) => life = {}
      <4>. SUFFICES ASSUME NEW r \in life PROVE \E c \in Commits : HasSnapshot(c)
        BY Zenon
      <4>1. PICK c \in Commits : snap[c].id = r.first /\ r.first > 0
        BY Zenon DEF LifeInv, RowsOwned, Exists, Names
      <4>. QED
        BY <4>1, Zenon DEF HasSnapshot
    <3>4. LifecycleRows' = LifecycleRows
      BY <3>1, SameRows
    <3>5. /\ Listed' = {}
          /\ \A c \in Commits : HasSnapshot(c)' <=> HasSnapshot(c)
      BY <2>3, <3>1, Zenon DEF Listed, HasSnapshot
    <3>. QED
      BY <3>1, <3>2, <3>3, <3>4, <3>5, Zenon DEF LifecycleIsCurrent
  <2>4. CASE Finish(p) /\ op[p].pc = "insert" /\ op[p].pending = {} /\ clean' = op[p].alone
    <3>1. snap' = snap /\ rows' = rows /\ graphs' = graphs /\ life' = life
      BY <2>4, StoreEffect
    <3>2. LifecycleRows' = LifecycleRows
      BY <3>1, SameRows
    <3>3. op[p].alone => life \cup {} = LifecycleRows
      BY <2>4, Zenon DEF LifeInv, Recomputed
    <3>4. life \cup {} = life
      OBVIOUS
    <3>. QED
      BY <2>4, <3>1, <3>2, <3>3, <3>4, Zenon DEF LifecycleIsCurrent
  <2>. QED
    BY <1>m, <1>h, <2>1, <2>2, <2>3, <2>4, Zenon
<1>6. \A q \in Procs : Recomputed(q)'
  BY <1>3, <1>4, Zenon
<1>. QED
  BY <1>1, <1>2, <1>5, <1>6, Zenon DEF LifeInv

LEMMA LifeInit == ASSUME Init PROVE LifeInv
<1>1. \A p \in Procs : op[p].pending = {} /\ op[p].pc = "idle"
  BY DEF Init, Idle
<1>2. \A p \in Procs : op[p].pc # "clear" /\ op[p].pc # "insert"
  BY <1>1
<1>3. life = {}
  BY DEF Init
<1>4. LifecycleRows = {}
  <2>1. \A c \in Commits : snap[c] = NoSnapshot
    BY DEF Init
  <2>2. \A c \in Commits : ~(snap[c].id > 0)
    BY <2>1, IdleTyped
  <2>3. Listed = {}
    BY <2>2, Zenon DEF Listed, HasSnapshot
  <2>4. Symbols = {}
    BY <2>3 DEF Symbols
  <2>. QED
    BY <2>4 DEF LifecycleRows
<1>. QED
  BY <1>1, <1>2, <1>3, <1>4, Zenon DEF LifeInv, RowsOwned, PendingNamed, LifecycleIsCurrent, Recomputed

LEMMA LifeNext ==
  ASSUME TypeInv, AloneInv, LifeInv, [Next]_vars PROVE LifeInv'
<1>1. CASE UNCHANGED inert
  <2>1. /\ snap' = snap /\ life' = life /\ op' = op /\ clean' = clean
        /\ rows' = rows /\ graphs' = graphs
    BY <1>1, Zenon DEF inert, db
  <2>2. LifecycleRows' = LifecycleRows
    BY <2>1, SameRows
  <2>3. Listed' = Listed /\ \A c \in Commits : HasSnapshot(c)' <=> HasSnapshot(c)
    BY <2>1, Zenon DEF Listed, HasSnapshot
  <2>4. LifecycleIsCurrent'
    BY <2>1, <2>2, <2>3, Zenon DEF LifeInv, LifecycleIsCurrent, Running
  <2>. QED
    BY <2>1, <2>2, <2>4, Zenon DEF LifeInv, RowsOwned, PendingNamed, Recomputed, Exists
<1>. QED
  BY <1>1, NothingMissing, LifeStep, Zenon DEF Next

\* A build, update, rebuild or prune with work to do that ran alone to its end leaves the
\* lifecycle rows of the listed snapshots, whatever was cut short or raced before it.
THEOREM LifecycleIsRecomputed == Spec => []LifecycleIsCurrent
<1>. DEFINE Inv == TypeInv /\ RunInv /\ LifeInv
<1>1. Init => Inv
  BY TypeInit, RunInit, LifeInit
<1>2. Inv /\ [Next]_vars => Inv'
  <2>1. Inv => AloneInv
    BY DEF RunInv
  <2>. QED
    BY <2>1, TypeStep, RunNext, LifeNext
<1>3. Inv => LifecycleIsCurrent
  BY DEF LifeInv
<1>. QED
  BY <1>1, <1>2, <1>3, PTL DEF Spec

-----------------------------------------------------------------------------
(* The store implements the catalog of snapshots.                          *)

\* A listing with files of the commit's own tree, and with all of them if it is whole.
IsListing(c, s) ==
  /\ \A q \in Paths : s.files[q] # NoBlob =>
       s.files[q] = repo.tree[c][q] /\ q \in Indexable(repo.tree[c])
  /\ s.whole => \A q \in Indexable(repo.tree[c]) : s.files[q] # NoBlob

SnapListed == \A c \in Commits : HasSnapshot(c) /\ snap[c].exact => IsListing(c, snap[c])

\* Between the two reads of the parent's snapshot its id is still the parent's, or that
\* snapshot was deleted or replaced.
Parent(p) == repo.parent[Head(op[p].todo)]
BaseOK(p) ==
  op[p].pc = "replay" =>
    /\ op[p].base > 0
    /\ Parent(p) \in dropped \/ (Parent(p) \in Commits /\ snap[Parent(p)].id = op[p].base)

\* The parent's snapshot is not what was read, or is no listing of the parent's tree.
InDoubt(d) == d \in dropped \/ (HasSnapshot(d) /\ ~snap[d].exact)

\* What is about to be written is what the commit's tree has, or was read in doubt.
FilesOK(p) ==
  op[p].pc = "write" =>
    /\ ~op[p].exact => InDoubt(Parent(p))
    /\ op[p].exact =>
         /\ \A q \in Paths : op[p].files[q] \in {repo.tree[Head(op[p].todo)][q], NoBlob}
         /\ op[p].whole => \A q \in Indexable(repo.tree[Head(op[p].todo)]) :
                             op[p].files[q] = repo.tree[Head(op[p].todo)][q]

CatalogInv == SnapListed /\ \A p \in Procs : BaseOK(p) /\ FilesOK(p)

\* The repository is never written, and a snapshot stays as it is or is noted as dropped.
LEMMA RepoStays ==
  ASSUME TypeInv, NEW p \in Procs,
         \/ StartBuild(p) \/ StartUpdate(p) \/ StartRebuild(p) \/ StartPrune(p)
         \/ DeleteSnapshots(p) \/ DeleteCommits(p) \/ SelectOrphans(p) \/ DeleteOrphans(p)
         \/ SkipIndexed(p) \/ FindParent(p) \/ ListParent(p)
         \/ WriteCommit(p) \/ WriteRollsBack(p) \/ WriteLeaks(p) \/ WriteBlocked(p)
         \/ ReadSnapshots(p) \/ ClearLifecycle(p) \/ InsertRow(p) \/ Finish(p)
         \/ Abort(p) \/ Crash(p)
  PROVE  /\ repo' = repo
         /\ ~WriteCommit(p) /\ ~DeleteSnapshots(p) => snap' = snap /\ dropped' = dropped
         /\ dropped \subseteq dropped'
         /\ \A c : HasSnapshot(c) => snap'[c] = snap[c] \/ c \in dropped'
<1>1. CASE WriteCommit(p)
  <2>1. PICK c \in Commits : /\ c = Head(op[p].todo)
                             /\ \A d \in Commits : d # c => snap'[d] = snap[d]
    BY <1>1, Written, Zenon
  <2>2. repo' = repo /\ dropped' = IF HasSnapshot(c) THEN dropped \cup {c} ELSE dropped
    BY <1>1, <2>1, Zenon DEF WriteCommit
  <2>. QED
    BY <1>1, <2>1, <2>2, Zenon DEF HasSnapshot
<1>2. CASE DeleteSnapshots(p)
  <2>1. PICK ids : /\ snap' = Without(ids) /\ repo' = repo
                   /\ dropped' = dropped \cup {c \in Commits : snap[c].id \in ids}
    BY <1>2, Zenon DEF DeleteSnapshots
  <2>2. \A c \in Commits : snap[c].id \notin ids => snap'[c] = snap[c]
    BY <2>1 DEF Without
  <2>. QED
    BY <1>2, <2>1, <2>2, Zenon DEF HasSnapshot
<1>3. CASE DeleteCommits(p) \/ DeleteOrphans(p) \/ ClearLifecycle(p) \/ InsertRow(p)
  BY <1>3, Zenon DEF DeleteCommits, DeleteOrphans, ClearLifecycle, InsertRow
<1>4. CASE \/ StartBuild(p) \/ StartUpdate(p) \/ StartRebuild(p) \/ StartPrune(p)
         \/ SelectOrphans(p)
         \/ SkipIndexed(p) \/ FindParent(p) \/ ListParent(p)
         \/ WriteRollsBack(p) \/ WriteLeaks(p) \/ WriteBlocked(p)
         \/ ReadSnapshots(p) \/ Finish(p) \/ Abort(p) \/ Crash(p)
  BY <1>4, StoreEffect, Zenon
<1>. QED
  BY <1>1, <1>2, <1>3, <1>4, Zenon

\* A tree's files are indexable or not one by one.
LEMMA IndexableEach ==
  ASSUME NEW f, NEW g, NEW q \in Paths, f[q] = g[q]
  PROVE  q \in Indexable(f) <=> q \in Indexable(g)
BY Zenon DEF Indexable

\* The diff of two trees, replayed over a listing of the first, gives a listing of the second.
LEMMA ReplayLists ==
  ASSUME NEW c \in Commits, NEW s \in SnapshotType,
         s = NoSnapshot \/ IsListing(repo.parent[c], s)
  PROVE  /\ \A q \in Paths : Replay(s.files, c)[q] \in {repo.tree[c][q], NoBlob}
         /\ s.whole => \A q \in Indexable(repo.tree[c]) : Replay(s.files, c)[q] = repo.tree[c][q]
<1>. DEFINE d == repo.parent[c]
            new == repo.tree[c]
            old == repo.tree[d]
            R == Replay(s.files, c)
<1>1. \A q \in Paths : R[q] = IF new[q] # old[q] THEN new[q] ELSE s.files[q]
  BY DEF Replay
<1>2. CASE s = NoSnapshot
  <2>1. s.whole = FALSE /\ \A q \in Paths : s.files[q] = NoBlob
    BY <1>2 DEF NoSnapshot
  <2>. QED
    BY <1>1, <2>1, Zenon
<1>3. CASE IsListing(d, s)
  <2>1. \A q \in Paths : s.files[q] \in {old[q], NoBlob}
    BY <1>3, Zenon DEF IsListing
  <2>2. \A q \in Paths : R[q] \in {new[q], NoBlob}
    BY <1>1, <2>1, Zenon
  <2>3. ASSUME s.whole, NEW q \in Indexable(new) PROVE R[q] = new[q]
    <3>0. q \in Paths
      BY Zenon DEF Indexable
    <3>1. CASE new[q] # old[q]
      BY <1>1, <3>0, <3>1, Zenon
    <3>2. CASE new[q] = old[q]
      <4>1. q \in Indexable(old)
        BY <2>3, <3>0, <3>2, IndexableEach, Zenon
      <4>2. s.files[q] # NoBlob
        BY <1>3, <2>3, <4>1, Zenon DEF IsListing
      <4>. QED
        BY <1>1, <2>1, <3>0, <3>2, <4>2, Zenon
    <3>. QED
      BY <3>1, <3>2
  <2>. QED
    BY <2>2, <2>3, Zenon
<1>. QED
  BY <1>2, <1>3, Zenon

\* The snapshot of the write transaction lists its commit's tree.
LEMMA WrittenLists ==
  ASSUME TypeInv, CatalogInv, NEW p \in Procs, WriteCommit(p),
         NEW c \in Commits, c = Head(op[p].todo)
  PROVE  /\ snap'[c] \in SnapshotType /\ snap'[c].id > 0
         /\ snap'[c].exact => IsListing(c, snap'[c])
         /\ ~snap'[c].exact => InDoubt(repo.parent[c])
         /\ \A d \in Commits : d # c => snap'[d] = snap[d]
<1>1. PICK e \in Commits, s \in SnapshotType, bad \in SUBSET Indexable(op[p].files),
            torn \in SUBSET Indexable(op[p].files) :
           /\ torn \subseteq bad
           /\ e = Head(op[p].todo) /\ op[p].todo # <<>> /\ op[p].files \in Tree
           /\ snap' = [snap EXCEPT ![e] = s]
           /\ snap'[e] = s /\ \A d \in Commits : d # e => snap'[d] = snap[d]
           /\ s.id = NextId /\ s.id \in Nat \ {0} /\ \A d \in Commits : snap[d].id < s.id
           /\ s.files = [q \in Paths |->
                           IF q \in Indexable(op[p].files) \ bad THEN op[p].files[q] ELSE NoBlob]
           /\ s.whole = (op[p].whole /\ bad = {}) /\ s.exact = op[p].exact
           /\ graphs' = graphs \cup
                {op[p].files[q] : q \in ({r \in Indexable(op[p].files) :
                                            op[p].files[r] \notin graphs} \ bad) \cup torn}
           /\ graphs' \subseteq Blobs
           /\ faults' \in Nat
  BY Written, Zenon
<1>2. snap'[c] = s /\ \A d \in Commits : d # c => snap'[d] = snap[d]
  BY <1>1, Zenon
<1>. DEFINE files == op[p].files
            tree == repo.tree[c]
<1>f. op[p].pc = "write" /\ FilesOK(p)
  BY Zenon DEF CatalogInv, WriteCommit
<1>d. ~s.exact => InDoubt(repo.parent[c])
  BY <1>1, <1>f, Zenon DEF FilesOK, Parent
<1>e. ASSUME s.exact PROVE IsListing(c, s)
  <2>3. /\ \A q \in Paths : files[q] \in {tree[q], NoBlob}
        /\ op[p].whole => \A q \in Indexable(tree) : files[q] = tree[q]
    BY <1>1, <1>e, <1>f, Zenon DEF FilesOK
  <2>4. \A q \in Paths : s.files[q] = IF q \in Indexable(files) \ bad THEN files[q] ELSE NoBlob
    BY <1>1, Zenon
  <2>5. ASSUME NEW q \in Paths, s.files[q] # NoBlob
        PROVE  s.files[q] = tree[q] /\ q \in Indexable(tree)
    <3>1. q \in Indexable(files) /\ s.files[q] = files[q]
      BY <2>4, <2>5, Zenon
    <3>2. files[q] = tree[q]
      BY <2>3, <2>5, <3>1, Zenon
    <3>. QED
      BY <3>1, <3>2, IndexableEach, Zenon
  <2>6. ASSUME s.whole, NEW q \in Indexable(tree) PROVE s.files[q] # NoBlob
    <3>0. q \in Paths /\ tree[q] # NoBlob
      BY Zenon DEF Indexable
    <3>1. op[p].whole /\ bad = {}
      BY <1>1, <2>6, Zenon
    <3>2. files[q] = tree[q]
      BY <2>3, <3>1, Zenon
    <3>3. q \in Indexable(files)
      BY <3>0, <3>2, IndexableEach, Zenon
    <3>4. q \in Indexable(files) \ bad
      BY <3>1, <3>3, Zenon
    <3>. QED
      BY <2>4, <3>0, <3>2, <3>4, Zenon
  <2>. QED
    BY <2>5, <2>6, Zenon DEF IsListing
<1>8. s.id > 0
  BY <1>1
<1>. QED
  BY <1>2, <1>8, <1>d, <1>e, Zenon

LEMMA CatalogStep ==
  ASSUME TypeInv, CatalogInv, NEW p \in Procs,
         \/ StartBuild(p) \/ StartUpdate(p) \/ StartRebuild(p) \/ StartPrune(p)
         \/ DeleteSnapshots(p) \/ DeleteCommits(p) \/ SelectOrphans(p) \/ DeleteOrphans(p)
         \/ SkipIndexed(p) \/ FindParent(p) \/ ListParent(p)
         \/ WriteCommit(p) \/ WriteRollsBack(p) \/ WriteLeaks(p) \/ WriteBlocked(p)
         \/ ReadSnapshots(p) \/ ClearLifecycle(p) \/ InsertRow(p) \/ Finish(p)
         \/ Abort(p) \/ Crash(p)
  PROVE  CatalogInv'
<1>. OpOK /\ SnapOK /\ SnapListed
  BY Zenon DEF TypeInv, CatalogInv
<1>m. \/ Starts(p) /\ lock' = lock /\ clean' = clean
      \/ Goes(p) /\ clean' = clean /\ (lock' = lock \/ (lock = NoProc /\ lock' = p))
      \/ Ends(p)
  BY Moves
<1>0. \A c \in Commits : snap[c].id \in Nat
  BY DEF SnapOK, SnapshotType
<1>r. /\ repo' = repo
      /\ ~WriteCommit(p) /\ ~DeleteSnapshots(p) => snap' = snap /\ dropped' = dropped
      /\ dropped \subseteq dropped'
      /\ \A c : HasSnapshot(c) => snap'[c] = snap[c] \/ c \in dropped'
  BY RepoStays
<1>k. \A d : InDoubt(d) => InDoubt(d)'
  BY <1>r, Zenon DEF InDoubt, HasSnapshot
<1>w. WriteCommit(p) => op[p].todo # <<>> /\ Head(op[p].todo) \in Commits
  BY LoopSteps, Zenon
<1>d. ASSUME DeleteSnapshots(p)
      PROVE  \A c \in Commits : HasSnapshot(c)' => HasSnapshot(c) /\ snap'[c] = snap[c]
  <2>1. PICK ids : snap' = Without(ids)
    BY <1>d, Zenon DEF DeleteSnapshots
  <2>2. ~(NoSnapshot.id > 0)
    BY IdleTyped
  <2>3. \A c \in Commits : snap'[c].id > 0 => snap'[c] = snap[c]
    BY <2>1, <2>2 DEF Without
  <2>. QED
    BY <2>3, Zenon DEF HasSnapshot
<1>1. SnapListed'
  <2>. SUFFICES ASSUME NEW d \in Commits, HasSnapshot(d)', snap'[d].exact
                PROVE  IsListing(d, snap[d])'
    BY Zenon DEF SnapListed
  <2>1. CASE WriteCommit(p)
    <3>1. PICK c \in Commits : c = Head(op[p].todo)
      BY <1>w, <2>1, Zenon
    <3>2. /\ snap'[c].exact => IsListing(c, snap'[c])
          /\ \A e \in Commits : e # c => snap'[e] = snap[e]
      BY <2>1, <3>1, WrittenLists, Zenon
    <3>3. CASE d = c
      BY <1>r, <3>2, <3>3, Zenon DEF IsListing
    <3>4. CASE d # c
      <4>1. snap'[d] = snap[d] /\ HasSnapshot(d)
        BY <3>2, <3>4, Zenon DEF HasSnapshot
      <4>2. IsListing(d, snap[d])
        BY <4>1, Zenon DEF SnapListed
      <4>. QED
        BY <1>r, <4>1, <4>2, Zenon DEF IsListing
    <3>. QED
      BY <3>3, <3>4
  <2>2. CASE DeleteSnapshots(p)
    <3>1. HasSnapshot(d) /\ snap'[d] = snap[d]
      BY <1>d, <2>2, Zenon
    <3>2. IsListing(d, snap[d])
      BY <3>1, Zenon DEF SnapListed
    <3>. QED
      BY <1>r, <3>1, <3>2, Zenon DEF IsListing
  <2>3. CASE ~WriteCommit(p) /\ ~DeleteSnapshots(p)
    <3>1. HasSnapshot(d) /\ snap'[d] = snap[d]
      BY <1>r, <2>3, Zenon DEF HasSnapshot
    <3>2. IsListing(d, snap[d])
      BY <3>1, Zenon DEF SnapListed
    <3>. QED
      BY <1>r, <3>1, <3>2, Zenon DEF IsListing
  <2>. QED
    BY <2>1, <2>2, <2>3
<1>2. ASSUME NEW q \in Procs, q # p PROVE BaseOK(q)' /\ FilesOK(q)'
  <2>1. /\ op'[q].pc = op[q].pc /\ op'[q].todo = op[q].todo /\ op'[q].base = op[q].base
        /\ op'[q].files = op[q].files /\ op'[q].whole = op[q].whole
        /\ op'[q].exact = op[q].exact
    BY <1>m, <1>2, Zenon DEF Starts, Goes, Ends
  <2>2. BaseOK(q) /\ FilesOK(q)
    BY Zenon DEF CatalogInv
  <2>3. Parent(q)' = Parent(q)
    BY <1>r, <2>1, Zenon DEF Parent
  <2>4. FilesOK(q)'
    BY <1>k, <1>r, <2>1, <2>2, <2>3, Zenon DEF FilesOK
  <2>5. BaseOK(q)'
    <3>1. op[q].pc = "replay" /\ snap[Parent(q)].id = op[q].base /\ Parent(q) \in Commits
            => HasSnapshot(Parent(q))
      BY <2>2, Zenon DEF BaseOK, HasSnapshot
    <3>. QED
      BY <1>r, <2>1, <2>2, <2>3, <3>1, Zenon DEF BaseOK
  <2>. QED
    BY <2>4, <2>5
<1>3. BaseOK(p)' /\ FilesOK(p)'
  <2>1. CASE FindParent(p)
    <3>1. /\ op'[p].pc \in {"replay", "write"} /\ op'[p].todo = op[p].todo
          /\ Head(op[p].todo) \in Commits
          /\ op'[p].pc = "replay" =>
              LET d == repo.parent[Head(op[p].todo)]
              IN  HasSnapshot(d) /\ op'[p].base = snap[d].id
          /\ op'[p].pc = "write" =>
               op'[p].files = repo.tree[Head(op[p].todo)] /\ op'[p].exact = TRUE
      BY <2>1, ReadSteps, Zenon
    <3>s. snap' = snap
      BY <2>1, StoreEffect
    <3>2. CASE op'[p].pc = "replay"
      <4>1. PICK d : d = repo.parent[Head(op[p].todo)]
        OBVIOUS
      <4>2. d \in Commits /\ snap[d].id > 0 /\ op'[p].base = snap[d].id
        BY <3>1, <3>2, <4>1, Zenon DEF HasSnapshot
      <4>5. op'[p].pc # "write"
        BY <3>2
      <4>6. d = Parent(p)'
        BY <1>r, <3>1, <4>1, Zenon DEF Parent
      <4>. QED
        BY <3>s, <4>2, <4>5, <4>6, Zenon DEF BaseOK, FilesOK
    <3>3. CASE op'[p].pc = "write"
      <4>1. op'[p].files = repo'.tree[Head(op'[p].todo)] /\ op'[p].exact
        BY <1>r, <3>1, <3>3, Zenon
      <4>2. op'[p].pc # "replay"
        BY <3>3
      <4>3. \A q \in Indexable(repo'.tree[Head(op'[p].todo)]) :
               op'[p].files[q] = repo'.tree[Head(op'[p].todo)][q]
        BY <4>1, Zenon
      <4>. QED
        BY <4>1, <4>2, <4>3, Zenon DEF BaseOK, FilesOK
    <3>. QED
      BY <3>1, <3>2, <3>3
  <2>2. CASE ListParent(p)
    <3>1. /\ op'[p].todo = op[p].todo /\ Head(op[p].todo) \in Commits
          /\ \E s \in SnapshotType :
                /\ s = NoSnapshot \/ \E d \in Commits : snap[d] = s /\ s.id = op[p].base
                /\ op'[p].files = Replay(s.files, Head(op[p].todo))
                /\ op'[p].whole = s.whole /\ op'[p].pc = "write" /\ op[p].pc = "replay"
                /\ op'[p].exact \in BOOLEAN
                /\ op'[p].exact <=>
                     /\ s.exact
                     /\ \A d \in Commits : snap[d].id = op[p].base =>
                          d = repo.parent[Head(op[p].todo)]
      BY <2>2, ReadSteps, Zenon
    <3>2. PICK c \in Commits : c = Head(op[p].todo)
      BY <3>1
    <3>3. PICK s \in SnapshotType :
                /\ s = NoSnapshot \/ \E d \in Commits : snap[d] = s /\ s.id = op[p].base
                /\ op'[p].files = Replay(s.files, c)
                /\ op'[p].whole = s.whole /\ op'[p].pc = "write" /\ op[p].pc = "replay"
                /\ op'[p].exact \in BOOLEAN
                /\ op'[p].exact <=>
                     /\ s.exact
                     /\ \A d \in Commits : snap[d].id = op[p].base => d = repo.parent[c]
      BY <3>1, <3>2, Zenon
    <3>b. /\ op[p].base > 0
          /\ \/ repo.parent[c] \in dropped
             \/ repo.parent[c] \in Commits /\ snap[repo.parent[c]].id = op[p].base
      BY <3>2, <3>3, Zenon DEF CatalogInv, BaseOK, Parent
    <3>n. NoSnapshot.exact
      BY DEF NoSnapshot
    <3>4. op'[p].exact => s = NoSnapshot \/ IsListing(repo.parent[c], s)
      <4>2. ASSUME op'[p].exact, NEW d \in Commits, snap[d] = s, s.id = op[p].base
            PROVE  IsListing(repo.parent[c], s)
        <5>1. snap[d].id > 0 /\ d = repo.parent[c] /\ snap[d].exact
          BY <3>3, <3>b, <4>2, Zenon
        <5>. QED
          BY <4>2, <5>1, Zenon DEF SnapListed, HasSnapshot
      <4>. QED
        BY <3>3, <4>2, Zenon
    <3>d. ~op'[p].exact => InDoubt(repo.parent[c])
      <4>1. ASSUME NEW d \in Commits, snap[d].id = op[p].base, d # repo.parent[c]
            PROVE  repo.parent[c] \in dropped
        <5>1. repo.parent[c] \in Commits => snap[repo.parent[c]].id # op[p].base
          BY <3>b, <4>1, Zenon DEF SnapOK, IdsUnique, HasSnapshot
        <5>. QED
          BY <3>b, <5>1, Zenon
      <4>2. ASSUME ~s.exact PROVE InDoubt(repo.parent[c])
        <5>1. PICK d \in Commits : snap[d] = s /\ s.id = op[p].base
          BY <3>3, <3>n, <4>2, Zenon
        <5>2. CASE d = repo.parent[c]
          BY <3>b, <4>2, <5>1, <5>2, Zenon DEF InDoubt, HasSnapshot
        <5>3. CASE d # repo.parent[c]
          BY <4>1, <5>1, <5>3, Zenon DEF InDoubt
        <5>. QED
          BY <5>2, <5>3
      <4>. QED
        BY <3>3, <4>1, <4>2, Zenon DEF InDoubt
    <3>5. op'[p].exact =>
            /\ \A q \in Paths : Replay(s.files, c)[q] \in {repo.tree[c][q], NoBlob}
            /\ s.whole => \A q \in Indexable(repo.tree[c]) : Replay(s.files, c)[q] = repo.tree[c][q]
      BY <3>4, ReplayLists
    <3>6. op'[p].exact =>
            /\ \A q \in Paths : op'[p].files[q] \in {repo.tree[c][q], NoBlob}
            /\ op'[p].whole => \A q \in Indexable(repo.tree[c]) : op'[p].files[q] = repo.tree[c][q]
      BY <3>3, <3>5, Zenon
    <3>7. repo'.tree[Head(op'[p].todo)] = repo.tree[c] /\ Parent(p)' = repo.parent[c]
      BY <1>r, <3>1, <3>2, Zenon DEF Parent
    <3>8. FilesOK(p)'
      BY <1>k, <3>6, <3>7, <3>d, Zenon DEF FilesOK
    <3>9. op'[p].pc # "replay"
      BY <3>3
    <3>. QED
      BY <3>8, <3>9, Zenon DEF BaseOK
  <2>3. CASE ~FindParent(p) /\ ~ListParent(p)
    <3>1. op'[p].pc \notin {"replay", "write"}
      <4>1. CASE StartBuild(p) \/ StartUpdate(p) \/ StartRebuild(p) \/ StartPrune(p)
        <5>1. op'[p].pc \in {"commit", "delete", "liferead"}
          BY <4>1, StartSteps, Zenon DEF Starts
        <5>. QED
          BY <5>1
      <4>2. CASE DeleteSnapshots(p) \/ DeleteCommits(p) \/ DeleteOrphans(p) \/ ClearLifecycle(p)
        <5>1. \/ op'[p].pc \in {"rows", "orphans"} \/ op'[p].pc = "orphans"
              \/ op'[p].pc \in {"liferead", "commit"} \/ op'[p].pc = "insert"
          BY <4>2, DeletionSteps, Zenon
        <5>. QED
          BY <5>1
      <4>3. CASE SelectOrphans(p)
        BY <4>3, SelectionSteps
      <4>4. CASE \/ SkipIndexed(p) \/ WriteCommit(p)
                 \/ WriteRollsBack(p) \/ WriteLeaks(p) \/ WriteBlocked(p)
        <5>1. op'[p].pc = "commit" \/ op'[p].pc = "idle"
          BY <4>4, LoopSteps, Zenon DEF Ends
        <5>. QED
          BY <5>1
      <4>5. CASE ReadSnapshots(p) \/ InsertRow(p) \/ Finish(p) \/ Abort(p) \/ Crash(p)
        <5>1. op'[p].pc = "clear" \/ op'[p].pc = "insert" \/ op'[p].pc = "idle"
          BY <4>5, LifecycleSteps, Zenon DEF Ends
        <5>. QED
          BY <5>1
      <4>. QED
        BY <2>3, <4>1, <4>2, <4>3, <4>4, <4>5, Zenon
    <3>2. op'[p].pc # "replay" /\ op'[p].pc # "write"
      BY <3>1
    <3>. QED
      BY <3>2, Zenon DEF BaseOK, FilesOK
  <2>. QED
    BY <2>1, <2>2, <2>3
<1>. QED
  BY <1>1, <1>2, <1>3, Zenon DEF CatalogInv

LEMMA CatalogInit == ASSUME Init PROVE CatalogInv
<1>1. \A p \in Procs : op[p].pc = "idle"
  BY DEF Init, Idle
<1>2. \A p \in Procs : op[p].pc # "replay" /\ op[p].pc # "write"
  BY <1>1
<1>3. \A c \in Commits : snap[c] = NoSnapshot
  BY DEF Init
<1>4. \A c \in Commits : ~(snap[c].id > 0)
  BY <1>3, IdleTyped
<1>. QED
  BY <1>2, <1>4, Zenon DEF CatalogInv, SnapListed, BaseOK, FilesOK, HasSnapshot

LEMMA CatalogNext ==
  ASSUME TypeInv, CatalogInv, [Next]_vars PROVE CatalogInv'
<1>1. CASE UNCHANGED inert
  <2>1. repo' = repo /\ snap' = snap /\ op' = op /\ dropped' = dropped
    BY <1>1, Zenon DEF inert, db
  <2>2. SnapListed'
    BY <2>1, Zenon DEF CatalogInv, SnapListed, HasSnapshot, IsListing
  <2>3. \A p \in Procs : BaseOK(p)'
    BY <2>1, Zenon DEF CatalogInv, BaseOK, Parent
  <2>4. \A p \in Procs : FilesOK(p)'
    BY <2>1, Zenon DEF CatalogInv, FilesOK, Parent, InDoubt, HasSnapshot
  <2>. QED
    BY <2>2, <2>3, <2>4, Zenon DEF CatalogInv
<1>. QED
  BY <1>1, NothingMissing, CatalogStep, Zenon DEF Next

\* Each step of the store is a step of the catalog, or leaves it as it is.
LEMMA CatalogMoves ==
  ASSUME TypeInv, CatalogInv, NEW p \in Procs,
         \/ StartBuild(p) \/ StartUpdate(p) \/ StartRebuild(p) \/ StartPrune(p)
         \/ DeleteSnapshots(p) \/ DeleteCommits(p) \/ SelectOrphans(p) \/ DeleteOrphans(p)
         \/ SkipIndexed(p) \/ FindParent(p) \/ ListParent(p)
         \/ WriteCommit(p) \/ WriteRollsBack(p) \/ WriteLeaks(p) \/ WriteBlocked(p)
         \/ ReadSnapshots(p) \/ ClearLifecycle(p) \/ InsertRow(p) \/ Finish(p)
         \/ Abort(p) \/ Crash(p)
  PROVE  Catalog!Next \/ (repo' = repo /\ snap' = snap /\ dropped' = dropped)
<1>. SnapOK /\ RestOK
  BY Zenon DEF TypeInv
<1>r. /\ repo' = repo
      /\ ~WriteCommit(p) /\ ~DeleteSnapshots(p) => snap' = snap /\ dropped' = dropped
  BY RepoStays
<1>. DEFINE Entry(c) == IF HasSnapshot(c)
                          THEN [files |-> snap[c].files, whole |-> snap[c].whole,
                                exact |-> snap[c].exact]
                          ELSE Absent
            Cat == [c \in Commits |-> Entry(c)]
<1>1. CASE WriteCommit(p)
  <2>1. PICK c \in Commits : c = Head(op[p].todo)
    BY <1>1, LoopSteps, Zenon
  <2>2. /\ snap'[c] \in SnapshotType /\ snap'[c].id > 0
        /\ snap'[c].exact => IsListing(c, snap'[c])
        /\ ~snap'[c].exact => InDoubt(repo.parent[c])
        /\ \A d \in Commits : d # c => snap'[d] = snap[d]
    BY <1>1, <2>1, WrittenLists, Zenon
  <2>3. Cat'[c] = [files |-> snap'[c].files, whole |-> snap'[c].whole, exact |-> snap'[c].exact]
    BY <2>2 DEF HasSnapshot
  <2>a. \A d \in Commits : (Cat[d] = Absent <=> ~HasSnapshot(d))
    <3>1. \A x, y, z : [files |-> x, whole |-> y, exact |-> z] # [none |-> TRUE]
      OBVIOUS
    <3>. QED
      BY <3>1, Zenon DEF Absent
  <2>4. Cat' = [Cat EXCEPT ![c] = Cat'[c]]
    <3>1. \A d \in Commits : d # c => Entry(d)' = Entry(d)
      BY <2>2, Zenon DEF HasSnapshot, Absent
    <3>. QED
      BY <3>1
  <2>5. Cat[c] = Absent \/ Catalog!Holds(Cat[c]) = {}
    <3>1. Replaceable(c)
      BY <1>1, <2>1, Zenon DEF WriteCommit
    <3>2. \A q \in Paths : snap[c].files[q] = NoBlob
      BY <3>1 DEF Replaceable, NoSnapshot
    <3>3. HasSnapshot(c) => \A q \in Paths : Cat[c].files[q] = NoBlob
      BY <3>2
    <3>4. ~HasSnapshot(c) => Cat[c] = Absent
      OBVIOUS
    <3>. QED
      BY <3>3, <3>4, Zenon DEF Catalog!Holds
  <2>6. Cat'[c] \in Catalog!Entries
    BY <2>2, <2>3 DEF Catalog!Entries, SnapshotType, Tree
  <2>x. Cat'[c].exact = snap'[c].exact
    BY <2>3
  <2>7. ASSUME Cat'[c].exact PROVE Catalog!Listing(c, Cat'[c])
    <3>1. PICK e : e = Cat'[c]
      OBVIOUS
    <3>2. e.files = snap'[c].files /\ e.whole = snap'[c].whole /\ snap'[c].exact
      BY <2>3, <2>7, <2>x, <3>1
    <3>3. \A q \in Catalog!Holds(e) : e.files[q] = repo.tree[c][q] /\ q \in Indexable(repo.tree[c])
      BY <2>2, <3>2, Zenon DEF Catalog!Holds, IsListing
    <3>4. e.whole => Indexable(repo.tree[c]) \subseteq Catalog!Holds(e)
      BY <2>2, <3>2, Zenon DEF Catalog!Holds, IsListing, Indexable
    <3>. QED
      BY <3>1, <3>3, <3>4, Zenon DEF Catalog!Listing
  <2>8. ASSUME ~Cat'[c].exact PROVE Catalog!Doubtful(c)
    <3>1. PICK d : d = repo.parent[c]
      OBVIOUS
    <3>2. InDoubt(d)
      BY <2>2, <2>8, <2>x, <3>1, Zenon
    <3>3. HasSnapshot(d) => d \in Commits /\ Cat[d].exact = snap[d].exact
      BY DEF HasSnapshot
    <3>4. d \in dropped \/ (d \in Commits /\ Cat[d] # Absent /\ ~Cat[d].exact)
      BY <2>a, <3>2, <3>3, Zenon DEF InDoubt
    <3>. QED
      BY <3>1, <3>4, Zenon DEF Catalog!Doubtful
  <2>9. dropped' = IF Cat[c] = Absent THEN dropped ELSE dropped \cup {c}
    <3>1. dropped' = IF HasSnapshot(c) THEN dropped \cup {c} ELSE dropped
      BY <1>1, <2>1, Zenon DEF WriteCommit
    <3>. QED
      BY <2>a, <3>1, Zenon
  <2>10. IF Cat'[c].exact THEN Catalog!Listing(c, Cat'[c]) ELSE Catalog!Doubtful(c)
    BY <2>7, <2>8, Zenon
  <2>. QED
    BY <1>r, <2>4, <2>5, <2>6, <2>9, <2>10, Zenon DEF Catalog!Next, Catalog!Index
<1>2. CASE DeleteSnapshots(p)
  <2>1. PICK ids : /\ snap' = Without(ids)
                   /\ dropped' = dropped \cup {c \in Commits : snap[c].id \in ids}
    BY <1>2, Zenon DEF DeleteSnapshots
  <2>2. ~(NoSnapshot.id > 0)
    BY IdleTyped
  <2>3. PICK S \in SUBSET Commits : S = {c \in Commits : snap[c].id \in ids}
    BY Zenon
  <2>4. \A c \in Commits : Entry(c)' = IF c \in S THEN Absent ELSE Entry(c)
    <3>. TAKE c \in Commits
    <3>1. CASE c \in S
      <4>1. snap'[c] = NoSnapshot
        BY <2>1, <2>3, <3>1 DEF Without
      <4>2. ~HasSnapshot(c)'
        BY <2>2, <4>1, Zenon DEF HasSnapshot
      <4>. QED
        BY <3>1, <4>2, Zenon DEF Absent
    <3>2. CASE c \notin S
      <4>1. snap'[c] = snap[c]
        BY <2>1, <2>3, <3>2 DEF Without
      <4>. QED
        BY <3>2, <4>1, Zenon DEF HasSnapshot, Absent
    <3>. QED
      BY <3>1, <3>2
  <2>5. Cat' = [c \in Commits |-> IF c \in S THEN Absent ELSE Cat[c]]
    BY <2>4, Zenon
  <2>. QED
    BY <1>r, <2>1, <2>3, <2>5, Zenon DEF Catalog!Next, Catalog!Drop
<1>. QED
  BY <1>r, <1>1, <1>2, Zenon

\* Builds, updates, rebuilds and prunes of any number of processes implement the catalog: a
\* snapshot appears in one step and lists files of its commit's own tree, unless the parent's
\* snapshot, which its listing is replayed from, was deleted or replaced at some time, or is
\* itself such a mixed one.
THEOREM StoreImplementsCatalog == Spec => ImplementsCatalog
<1>. DEFINE Inv == TypeInv /\ CatalogInv
<1>1. Init => Inv /\ Catalog!Init
  <2>. SUFFICES ASSUME Init PROVE Inv /\ Catalog!Init
    OBVIOUS
  <2>1. \A c \in Commits : snap[c] = NoSnapshot
    BY DEF Init
  <2>2. \A c \in Commits : ~HasSnapshot(c)
    BY <2>1, IdleTyped DEF HasSnapshot
  <2>3. Catalog!Init
    BY <2>2, Zenon DEF Catalog!Init, Init
  <2>. QED
    BY <2>3, TypeInit, CatalogInit
<1>2. Inv /\ [Next]_vars => Inv'
  BY TypeStep, CatalogNext
<1>3. Inv /\ [Next]_vars => [Catalog!Next]_Catalog!vars
  <2>. SUFFICES ASSUME Inv, [Next]_vars PROVE [Catalog!Next]_Catalog!vars
    OBVIOUS
  <2>1. ASSUME repo' = repo, snap' = snap, dropped' = dropped PROVE UNCHANGED Catalog!vars
    BY <2>1, Zenon DEF Catalog!vars, HasSnapshot, Absent
  <2>2. CASE UNCHANGED inert
    BY <2>1, <2>2, Zenon DEF inert, db
  <2>. QED
    BY <2>1, <2>2, NothingMissing, CatalogMoves, Zenon DEF Next
<1>. QED
  BY <1>1, <1>2, <1>3, PTL DEF Spec, ImplementsCatalog, Catalog!Spec
=============================================================================
