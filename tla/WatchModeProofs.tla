-------------------------- MODULE WatchModeProofs --------------------------
(***************************************************************************)
(* Proofs about WatchMode: its type invariant, and that the slices are     *)
(* those of the files when everything reported has been applied.           *)
(***************************************************************************)
EXTENDS WatchMode, FiniteSetTheorems, SequenceTheorems, TLAPS

USE WatchAssumption

-----------------------------------------------------------------------------
(* Shapes.                                                                 *)

\* The shapes of raw events, events and changes.
RawShape(ev) ==
  /\ ev.kind \in {"create", "modify", "remove"} => ev.path \in Paths /\ ev.to = NoPath
  /\ ev.kind = "both" => ev.path \in Paths /\ ev.to \in Paths /\ ev.path # ev.to
  /\ ev.kind \in {"ignored"} \cup Silent => ev.path = NoPath /\ ev.to = NoPath
EventShape(e) ==
  /\ e.kind = "none" => e.path = NoPath /\ e.old = NoPath
  /\ e.kind \in {"created", "modified", "deleted"} => e.path \in Paths /\ e.old = NoPath
  /\ e.kind = "renamed" => e.path \in Paths /\ e.old \in Paths
ChangeShape(c) ==
  IF c.type = "renamed" THEN c.old \in Paths ELSE c.old = NoPath

\* Types and shapes, and what is left of a batch where the loop is.
ShapeInv ==
  /\ TypeOK
  /\ \A i \in DOMAIN wire : RawShape(wire[i])
  /\ \A i \in DOMAIN queue : RawShape(queue[i])
  /\ \A k \in DOMAIN events : EventShape(events[k])
  /\ \A p \in Paths : ChangeShape(plan.changes[p])
  /\ pc \notin {"debounce", "plan"} => events = <<>>
  /\ pc # "apply" => plan = NoPlan
  /\ pc # "update" => moves = {} /\ stale = {}
  /\ pc \notin {"update", "write"} => parse = {}

-----------------------------------------------------------------------------
(* Types and shapes.                                                       *)

\* A set of numbers has a least one ...
LEMMA LeastNumber ==
  ASSUME NEW S \in SUBSET Nat, S # {}
  PROVE  \E x \in S : \A y \in S : x <= y
<1>1. PICK x \in S : \A y \in S : ~(<<y, x>> \in OpToRel(<, Nat))
  BY WFMin, NatLessThanWellFounded
<1>2. ASSUME NEW y \in S PROVE x <= y
  <2>1. y < x => <<y, x>> \in OpToRel(<, Nat)
    BY DEF OpToRel
  <2>2. ~(y < x)
    BY <1>1, <2>1, Zenon
  <2>. QED
    BY <2>2
<1>. QED
  BY <1>2

\* ... and, when they have a bound, a greatest.
LEMMA GreatestNumber ==
  ASSUME NEW S \in SUBSET Nat, S # {}, NEW n \in Nat, \A y \in S : y <= n
  PROVE  \E x \in S : \A y \in S : x >= y
<1>. DEFINE U == {m \in Nat : \A y \in S : y <= m}
<1>1. U \in SUBSET Nat /\ U # {}
  OBVIOUS
<1>2. PICK u \in U : \A m \in U : u <= m
  BY <1>1, LeastNumber
<1>3. u \in S
  <2>1. SUFFICES ASSUME u \notin S PROVE FALSE
    OBVIOUS
  <2>2. \A y \in S : y < u
    BY <2>1
  <2>3. PICK w \in S : w < u
    BY <2>2
  <2>4. u - 1 \in U
    BY <2>2, <2>3
  <2>. QED
    BY <2>4, <1>2
<1>. QED
  BY <1>3

\* An event of a sequence, of its shape.
LEMMA EventAtTyped ==
  ASSUME NEW s \in Seq(RawEvents), \A i \in DOMAIN s : RawShape(s[i]), NEW j \in DOMAIN s
  PROVE  EventAt(s, j) \in WatchEvents /\ EventShape(EventAt(s, j))
<1>0. s[j] \in RawEvents /\ \A i \in DOMAIN s : s[i] \in RawEvents
  BY ElementOfSeq, LenProperties
<1>1. RawShape(s[j])
  OBVIOUS
<1>2. CASE s[j].kind = "create"
  <2>1. s[j].path \in Paths
    BY <1>1, <1>2 DEF RawShape
  <2>2. CASE \E i \in DOMAIN s : Paired(s, i, j)
    <3>1. PICK i \in DOMAIN s : i = (CHOOSE k \in DOMAIN s : Paired(s, k, j)) /\ Paired(s, i, j)
      BY <2>2, Zenon
    <3>2. s[i].path \in Paths
      BY <3>1 DEF Paired, RawShape
    <3>3. EventAt(s, j) = Event("renamed", s[j].path, s[i].path)
      BY <1>2, <2>2, <3>1 DEF EventAt
    <3>. QED
      BY <2>1, <3>2, <3>3 DEF Event, WatchEvents, EventShape
  <2>3. CASE ~\E i \in DOMAIN s : Paired(s, i, j)
    <3>1. EventAt(s, j) = Event("created", s[j].path, NoPath)
      BY <1>2, <2>3 DEF EventAt
    <3>. QED
      BY <2>1, <3>1 DEF Event, WatchEvents, EventShape
  <2>. QED
    BY <2>2, <2>3
<1>3. CASE s[j].kind = "both"
  <2>1. EventAt(s, j) = Event("renamed", s[j].to, s[j].path)
    BY <1>3 DEF EventAt
  <2>. QED
    BY <2>1, <1>1, <1>3 DEF Event, WatchEvents, EventShape, RawShape
<1>4. CASE s[j].kind = "modify"
  <2>1. EventAt(s, j) = Event("modified", s[j].path, NoPath)
    BY <1>4 DEF EventAt
  <2>. QED
    BY <2>1, <1>1, <1>4 DEF Event, WatchEvents, EventShape, RawShape
<1>5. CASE s[j].kind = "remove"
  <2>1. EventAt(s, j) = NoEvent \/ EventAt(s, j) = Event("deleted", s[j].path, NoPath)
    BY <1>5 DEF EventAt
  <2>. QED
    BY <2>1, <1>1, <1>5 DEF Event, NoEvent, WatchEvents, EventShape, RawShape
<1>6. CASE s[j].kind \notin {"create", "both", "modify", "remove"}
  <2>1. EventAt(s, j) = NoEvent
    BY <1>6 DEF EventAt
  <2>. QED
    BY <2>1 DEF Event, NoEvent, WatchEvents, EventShape
<1>. QED
  BY <1>2, <1>3, <1>4, <1>5, <1>6

LEMMA NormalizeTyped ==
  ASSUME NEW s \in Seq(RawEvents), \A i \in DOMAIN s : RawShape(s[i])
  PROVE  /\ Normalize(s) \in Seq(WatchEvents) /\ Len(Normalize(s)) = Len(s)
         /\ DOMAIN Normalize(s) = DOMAIN s
         /\ \A j \in DOMAIN s : EventShape(Normalize(s)[j])
<1>0. Len(s) \in Nat /\ DOMAIN s = 1 .. Len(s)
  BY LenProperties
<1>1. NoEvent \in WatchEvents /\ EventShape(NoEvent)
  BY DEF NoEvent, Event, WatchEvents, EventShape
<1>2. \A j \in DOMAIN s : EventAt(s, j) \in WatchEvents /\ EventShape(EventAt(s, j))
  BY EventAtTyped
<1>3. \A j \in DOMAIN s : Normalize(s)[j] \in {NoEvent, EventAt(s, j)}
  BY Zenon DEF Normalize
<1>4. DOMAIN Normalize(s) = 1 .. Len(s)
  BY <1>0 DEF Normalize
<1>5. Normalize(s) = [j \in 1 .. Len(s) |-> Normalize(s)[j]]
  BY <1>0, Zenon DEF Normalize
<1>6. Normalize(s) \in [1 .. Len(s) -> WatchEvents]
  BY <1>0, <1>1, <1>2, <1>3, <1>5, Zenon
<1>7. Normalize(s) \in Seq(WatchEvents)
  BY <1>0, <1>6
<1>8. Len(Normalize(s)) \in Nat /\ DOMAIN Normalize(s) = 1 .. Len(Normalize(s))
  BY <1>7, LenProperties
<1>9. Len(Normalize(s)) = Len(s)
  BY <1>0, <1>4, <1>8
<1>. QED
  BY <1>0, <1>1, <1>2, <1>3, <1>4, <1>7, <1>9, Zenon

LEMMA ChangesTyped ==
  ASSUME NEW evs \in Seq(WatchEvents), \A k \in DOMAIN evs : EventShape(evs[k])
  PROVE  /\ EventsToChanges(evs) \in PlannedChanges
         /\ \A p \in Paths : ChangeShape(EventsToChanges(evs)[p])
<1>. DEFINE C == [type : {"none", "modified", "deleted", "renamed"}, old : Paths \cup {NoPath}]
<1>1. ASSUME NEW p \in Paths
      PROVE  EventsToChanges(evs)[p] \in C /\ ChangeShape(EventsToChanges(evs)[p])
  <2>1. CASE \E k \in DOMAIN evs : LastTouch(evs, p, k) /\ evs[k].path = p
    <3>1. PICK k \in DOMAIN evs : /\ k = (CHOOSE l \in DOMAIN evs : LastTouch(evs, p, l))
                                  /\ LastTouch(evs, p, k)
      BY <2>1, Zenon
    <3>2. EventsToChanges(evs)[p] = ChangeOf(evs[k])
      BY <2>1, <3>1, Zenon DEF EventsToChanges
    <3>3. evs[k] \in WatchEvents /\ EventShape(evs[k])
      BY ElementOfSeq, LenProperties
    <3>. QED
      BY <3>2, <3>3 DEF ChangeOf, WatchEvents, EventShape, ChangeShape
  <2>2. CASE ~\E k \in DOMAIN evs : LastTouch(evs, p, k) /\ evs[k].path = p
    <3>1. EventsToChanges(evs)[p] = NoChange
      BY <2>2, Zenon DEF EventsToChanges
    <3>. QED
      BY <3>1 DEF NoChange, ChangeShape
  <2>. QED
    BY <2>1, <2>2
<1>2. EventsToChanges(evs) = [p \in Paths |-> EventsToChanges(evs)[p]]
  BY DEF EventsToChanges
<1>. HIDE DEF C
<1>3. EventsToChanges(evs) \in [Paths -> C]
  BY <1>1, <1>2, Zenon
<1>. QED
  BY <1>1, <1>3, Zenon DEF C, PlannedChanges

LEMMA NoPlanTyped ==
  /\ NoPlan \in [rescan : BOOLEAN, changes : PlannedChanges]
  /\ NoChanges \in PlannedChanges /\ NoPlan.rescan = FALSE
  /\ \A p \in Paths : ChangeShape(NoChanges[p]) /\ ChangeShape(NoPlan.changes[p])
                      /\ NoChanges[p] = NoChange /\ NoPlan.changes[p] = NoChange
BY DEF NoPlan, NoChanges, NoChange, PlannedChanges, ChangeShape

LEMMA ShapeInit == Init => ShapeInv
<1>. SUFFICES ASSUME Init PROVE ShapeInv
  OBVIOUS
<1>1. <<>> \in Seq(RawEvents) /\ <<>> \in Seq(WatchEvents) /\ Len(<<>>) = 0
  BY EmptySeq
<1>2. node \in [Paths -> [at : Paths \cup {NoPath}, of : Values]]
  BY DEF Init, NoNode, Values
<1>3. TypeOK
  BY <1>1, <1>2, NoPlanTyped DEF Init, TypeOK
<1>4. DOMAIN wire = {} /\ DOMAIN queue = {} /\ DOMAIN events = {}
  BY DEF Init
<1>. QED
  BY <1>3, <1>4, NoPlanTyped DEF Init, ShapeInv

\* The user's steps.
LEMMA PastIsSubset ==
  ASSUME NEW S \in SUBSET Paths
  PROVE  Past(S) \in SUBSET Paths
BY DEF Past

LEMMA TornTyped ==
  ASSUME NEW ls \in SUBSET (Paths \X Paths), NEW S
  PROVE  /\ Torn(ls, S) \subseteq Paths
         /\ \A x, y \in Paths : <<x, y>> \in ls /\ (x \in S \/ y \in S) =>
              x \in Torn(ls, S) /\ y \in Torn(ls, S)
<1>1. Torn(ls, S) \subseteq Paths
  BY DEF Torn
<1>2. ASSUME NEW x \in Paths, NEW y \in Paths, <<x, y>> \in ls, x \in S \/ y \in S
      PROVE  x \in Torn(ls, S) /\ y \in Torn(ls, S)
  <2>1. PICK l \in ls : l = <<x, y>>
    BY <1>2
  <2>2. l[1] = x /\ l[2] = y
    BY <2>1
  <2>3. l \in {k \in ls : {k[1], k[2]} \cap S # {}}
    BY <1>2, <2>2
  <2>4. {l[1], l[2]} \subseteq Torn(ls, S)
    BY <2>3, Zenon DEF Torn
  <2>. QED
    BY <2>2, <2>4
<1>. QED
  BY <1>1, <1>2

LEMMA UserShape ==
  ASSUME ShapeInv,
         NEW raw \in Seq(RawEvents), \A i \in DOMAIN raw : RawShape(raw[i]),
         NEW S, NEW torn \in SUBSET (Paths \X Paths), NEW new \in SUBSET (Paths \X Paths),
         NEW deleted \in Paths \cup {NoPath}, NEW lost \in SUBSET Paths,
         UserStep(raw, S, torn, new, deleted, lost), disk' \in [Paths -> Values]
  PROVE  ShapeInv'
<1>0. wire \in Seq(RawEvents)
  BY DEF ShapeInv, TypeOK
<1>1. wire' \in Seq(RawEvents) /\ \A i \in DOMAIN wire' : RawShape(wire'[i])
  <2>1. wire' = wire \o raw
    BY DEF UserStep
  <2>2. /\ wire \o raw \in Seq(RawEvents)
        /\ Len(wire \o raw) = Len(wire) + Len(raw)
        /\ \A i \in 1 .. Len(wire) + Len(raw) : (wire \o raw)[i] =
             IF i <= Len(wire) THEN wire[i] ELSE raw[i - Len(wire)]
    BY <1>0, ConcatProperties
  <2>3. /\ Len(wire) \in Nat /\ DOMAIN wire = 1 .. Len(wire)
        /\ Len(raw) \in Nat /\ DOMAIN raw = 1 .. Len(raw)
        /\ DOMAIN (wire \o raw) = 1 .. Len(wire \o raw)
    BY <1>0, <2>2, LenProperties
  <2>4. ASSUME NEW i \in 1 .. Len(wire) + Len(raw) PROVE RawShape((wire \o raw)[i])
    <3>1. CASE i <= Len(wire)
      <4>1. i \in DOMAIN wire /\ (wire \o raw)[i] = wire[i]
        BY <2>2, <2>3, <3>1
      <4>. QED
        BY <4>1 DEF ShapeInv
    <3>2. CASE ~(i <= Len(wire))
      <4>1. i - Len(wire) \in DOMAIN raw /\ (wire \o raw)[i] = raw[i - Len(wire)]
        BY <2>2, <2>3, <3>2
      <4>. QED
        BY <4>1
    <3>. QED
      BY <3>1, <3>2
  <2>. QED
    BY <2>1, <2>2, <2>3, <2>4
<1>2. /\ tangled' \subseteq Paths /\ missed' \subseteq Paths /\ mixed' \subseteq Paths
      /\ links' \subseteq Paths \X Paths
  <2>1. Spinning(queue \o wire \o raw) \subseteq Paths
    BY DEF Spinning
  <2>2. Torn(torn, S) \subseteq Paths
    BY TornTyped
  <2>3. Past(tangled) \in SUBSET Paths /\ Past(missed) \in SUBSET Paths
        /\ Past(mixed) \in SUBSET Paths
    BY PastIsSubset DEF ShapeInv, TypeOK
  <2>4. PastLinks \subseteq Paths \X Paths
    BY DEF PastLinks, ShapeInv, TypeOK
  <2>. QED
    BY <2>1, <2>2, <2>3, <2>4 DEF UserStep
<1>3. ops' \in 0 .. MaxOps /\ gone' \in Paths \cup {NoPath}
  BY DEF UserStep, ShapeInv, TypeOK
<1>4. UNCHANGED <<os, base, hash, node, queue, dropped, pc, events, plan, moves, stale, parse>>
  BY DEF UserStep, graph, work
<1>5. TypeOK'
  BY <1>1, <1>2, <1>3, <1>4 DEF TypeOK, ShapeInv
<1>. QED
  BY <1>1, <1>4, <1>5 DEF ShapeInv

\* The raw events of a step.
LEMMA RawTyped ==
  ASSUME NEW p \in Paths
  PROVE  /\ \A kind \in {"create", "modify", "remove"} :
              /\ Raw(kind, p, NoPath) \in RawEvents /\ RawShape(Raw(kind, p, NoPath))
              /\ Raw(kind, p, NoPath).kind = kind /\ Raw(kind, p, NoPath).path = p
              /\ Raw(kind, p, NoPath).to = NoPath
         /\ \A q \in Paths :
              /\ Raw("both", p, q) \in RawEvents
              /\ p # q => RawShape(Raw("both", p, q))
              /\ Raw("both", p, q).kind = "both" /\ Raw("both", p, q).path = p
              /\ Raw("both", p, q).to = q
BY DEF Raw, RawEvents, RawShape, Silent

LEMMA OneTwoThree ==
  ASSUME NEW S, NEW a \in S, NEW b \in S, NEW c \in S
  PROVE  /\ <<a>> \in Seq(S) /\ Len(<<a>>) = 1 /\ DOMAIN <<a>> = 1 .. 1 /\ <<a>>[1] = a
         /\ <<a, b>> \in Seq(S) /\ Len(<<a, b>>) = 2 /\ DOMAIN <<a, b>> = 1 .. 2
         /\ <<a, b>>[1] = a /\ <<a, b>>[2] = b
         /\ <<a, b, c>> \in Seq(S) /\ Len(<<a, b, c>>) = 3 /\ DOMAIN <<a, b, c>> = 1 .. 3
         /\ <<a, b, c>>[1] = a /\ <<a, b, c>>[2] = b /\ <<a, b, c>>[3] = c
OBVIOUS

LEMMA OneRaw ==
  ASSUME NEW a \in RawEvents
  PROVE  \E raw \in Seq(RawEvents) :
           raw = <<a>> /\ Len(raw) = 1 /\ DOMAIN raw = 1 .. 1 /\ raw[1] = a
<1>1. <<a>> \in Seq(RawEvents) /\ Len(<<a>>) = 1 /\ DOMAIN <<a>> = 1 .. 1 /\ <<a>>[1] = a
  BY OneTwoThree
<1>. QED
  BY <1>1, Zenon

LEMMA OneShape ==
  ASSUME NEW a \in RawEvents, RawShape(a)
  PROVE  <<a>> \in Seq(RawEvents) /\ \A i \in DOMAIN <<a>> : RawShape(<<a>>[i])
<1>1. <<a>> \in Seq(RawEvents) /\ DOMAIN <<a>> = 1 .. 1 /\ <<a>>[1] = a
  BY OneTwoThree
<1>2. \A i \in 1 .. 1 : i = 1
  OBVIOUS
<1>. QED
  BY <1>1, <1>2

LEMMA TwoShape ==
  ASSUME NEW a \in RawEvents, NEW b \in RawEvents, RawShape(a), RawShape(b)
  PROVE  <<a, b>> \in Seq(RawEvents) /\ \A i \in DOMAIN <<a, b>> : RawShape(<<a, b>>[i])
<1>1. <<a, b>> \in Seq(RawEvents) /\ DOMAIN <<a, b>> = 1 .. 2
      /\ <<a, b>>[1] = a /\ <<a, b>>[2] = b
  BY OneTwoThree
<1>2. \A i \in 1 .. 2 : i = 1 \/ i = 2
  OBVIOUS
<1>. QED
  BY <1>1, <1>2

LEMMA ThreeShape ==
  ASSUME NEW a \in RawEvents, NEW b \in RawEvents, NEW c \in RawEvents,
         RawShape(a), RawShape(b), RawShape(c)
  PROVE  <<a, b, c>> \in Seq(RawEvents) /\ \A i \in DOMAIN <<a, b, c>> : RawShape(<<a, b, c>>[i])
<1>1. <<a, b, c>> \in Seq(RawEvents) /\ DOMAIN <<a, b, c>> = 1 .. 3
      /\ <<a, b, c>>[1] = a /\ <<a, b, c>>[2] = b /\ <<a, b, c>>[3] = c
  BY OneTwoThree
<1>2. \A i \in 1 .. 3 : i = 1 \/ i = 2 \/ i = 3
  OBVIOUS
<1>. QED
  BY <1>1, <1>2

LEMMA WriteShape ==
  ASSUME ShapeInv, NEW p \in Paths, NEW v \in Contents, Write(p, v)
  PROVE  ShapeInv'
<1>1. disk' \in [Paths -> Values]
  BY DEF Write, ShapeInv, TypeOK, Values
<1>2. PastLinks \in SUBSET (Paths \X Paths) /\ {} \in SUBSET Paths
  BY DEF PastLinks, ShapeInv, TypeOK
<1>3. UserStep(<<Raw("modify", p, NoPath)>>, {p}, PastLinks, {}, NoPath, {})
  BY DEF Write
<1>4. /\ <<Raw("modify", p, NoPath)>> \in Seq(RawEvents)
      /\ \A i \in DOMAIN <<Raw("modify", p, NoPath)>> : RawShape(<<Raw("modify", p, NoPath)>>[i])
  BY RawTyped, OneShape, Zenon
<1>. QED
  BY <1>1, <1>2, <1>3, <1>4, UserShape

LEMMA MoveOutShape ==
  ASSUME ShapeInv, NEW p \in Paths, MoveOut(p)
  PROVE  ShapeInv'
<1>1. disk' \in [Paths -> Values]
  BY DEF MoveOut, ShapeInv, TypeOK, Values
<1>2. PastLinks \in SUBSET (Paths \X Paths) /\ {p} \in SUBSET Paths
  BY DEF PastLinks, ShapeInv, TypeOK
<1>3. UserStep(<<Raw("modify", p, NoPath)>>, {p}, PastLinks, {}, NoPath, {p})
  BY DEF MoveOut
<1>4. /\ <<Raw("modify", p, NoPath)>> \in Seq(RawEvents)
      /\ \A i \in DOMAIN <<Raw("modify", p, NoPath)>> : RawShape(<<Raw("modify", p, NoPath)>>[i])
  BY RawTyped, OneShape, Zenon
<1>. QED
  BY <1>1, <1>2, <1>3, <1>4, UserShape

LEMMA DeleteShape ==
  ASSUME ShapeInv, NEW p \in Paths, Delete(p)
  PROVE  ShapeInv'
<1>1. disk' \in [Paths -> Values]
  BY DEF Delete, ShapeInv, TypeOK, Values
<1>2. PastLinks \in SUBSET (Paths \X Paths) /\ {} \in SUBSET Paths
  BY DEF PastLinks, ShapeInv, TypeOK
<1>3. UserStep(<<Raw("remove", p, NoPath)>>, {p}, PastLinks, {}, p, {})
  BY DEF Delete
<1>4. /\ <<Raw("remove", p, NoPath)>> \in Seq(RawEvents)
      /\ \A i \in DOMAIN <<Raw("remove", p, NoPath)>> : RawShape(<<Raw("remove", p, NoPath)>>[i])
  BY RawTyped, OneShape, Zenon
<1>. QED
  BY <1>1, <1>2, <1>3, <1>4, UserShape

LEMMA CreateShape ==
  ASSUME ShapeInv, NEW p \in Paths, NEW v \in Contents, Create(p, v)
  PROVE  ShapeInv'
<1>. DEFINE pair == IF AtRest \/ gone \in {NoPath, p} THEN {} ELSE {<<gone, p>>}
<1>1. disk' \in [Paths -> Values]
  BY DEF Create, ShapeInv, TypeOK, Values
<1>2. PastLinks \in SUBSET (Paths \X Paths) /\ {} \in SUBSET Paths
  BY DEF PastLinks, ShapeInv, TypeOK
<1>3. pair \in SUBSET (Paths \X Paths)
  BY DEF ShapeInv, TypeOK
<1>4. \/ UserStep(<<Raw("create", p, NoPath), Raw("modify", p, NoPath)>>, {p},
                  PastLinks \cup pair, pair, NoPath, {})
      \/ UserStep(<<Raw("create", p, NoPath)>>, {p}, PastLinks, pair, NoPath, {})
  BY Zenon DEF Create
<1>5. /\ <<Raw("create", p, NoPath)>> \in Seq(RawEvents)
      /\ \A i \in DOMAIN <<Raw("create", p, NoPath)>> : RawShape(<<Raw("create", p, NoPath)>>[i])
  BY RawTyped, OneShape, Zenon
<1>6. /\ <<Raw("create", p, NoPath), Raw("modify", p, NoPath)>> \in Seq(RawEvents)
      /\ \A i \in DOMAIN <<Raw("create", p, NoPath), Raw("modify", p, NoPath)>> :
           RawShape(<<Raw("create", p, NoPath), Raw("modify", p, NoPath)>>[i])
  BY RawTyped, TwoShape, Zenon
<1>. HIDE DEF pair
<1>7. PastLinks \cup pair \in SUBSET (Paths \X Paths)
  BY <1>2, <1>3
<1>8. CASE UserStep(<<Raw("create", p, NoPath), Raw("modify", p, NoPath)>>, {p},
                  PastLinks \cup pair, pair, NoPath, {})
  BY <1>1, <1>2, <1>3, <1>6, <1>7, <1>8, UserShape
<1>9. CASE UserStep(<<Raw("create", p, NoPath)>>, {p}, PastLinks, pair, NoPath, {})
  BY <1>1, <1>2, <1>3, <1>5, <1>9, UserShape
<1>. QED
  BY <1>4, <1>8, <1>9

LEMMA RenameShape ==
  ASSUME ShapeInv, NEW p \in Paths, NEW q \in Paths, Rename(p, q)
  PROVE  ShapeInv'
<1>. DEFINE raw == IF os = "inotify"
         THEN <<Raw("modify", p, NoPath), Raw("modify", q, NoPath), Raw("both", p, q)>>
         ELSE <<Raw("remove", p, NoPath), Raw("create", q, NoPath)>>
<1>1. disk' \in [Paths -> Values]
  BY DEF Rename, ShapeInv, TypeOK, Values
<1>2. PastLinks \in SUBSET (Paths \X Paths) /\ {<<p, q>>} \in SUBSET (Paths \X Paths)
  BY DEF PastLinks, ShapeInv, TypeOK
<1>3. UserStep(raw, {p, q}, PastLinks, {<<p, q>>}, NoPath, {}) /\ p # q
  BY Zenon DEF Rename
<1>4. /\ Raw("modify", p, NoPath) \in RawEvents /\ RawShape(Raw("modify", p, NoPath))
      /\ Raw("modify", q, NoPath) \in RawEvents /\ RawShape(Raw("modify", q, NoPath))
      /\ Raw("both", p, q) \in RawEvents /\ RawShape(Raw("both", p, q))
      /\ Raw("remove", p, NoPath) \in RawEvents /\ RawShape(Raw("remove", p, NoPath))
      /\ Raw("create", q, NoPath) \in RawEvents /\ RawShape(Raw("create", q, NoPath))
  BY <1>3, RawTyped, Zenon
<1>5. raw \in Seq(RawEvents) /\ \A i \in DOMAIN raw : RawShape(raw[i])
  <2>1. CASE os = "inotify"
    BY <1>4, <2>1, ThreeShape, Zenon
  <2>2. CASE os # "inotify"
    BY <1>4, <2>2, TwoShape, Zenon
  <2>. QED
    BY <2>1, <2>2
<1>. HIDE DEF raw
<1>. QED
  BY <1>1, <1>2, <1>3, <1>5, UserShape

\* A series of raw events keeps its shape when events go or come at its ends.
LEMMA AppendShape ==
  ASSUME NEW s \in Seq(RawEvents), \A i \in DOMAIN s : RawShape(s[i]),
         NEW e \in RawEvents, RawShape(e)
  PROVE  Append(s, e) \in Seq(RawEvents) /\ \A i \in DOMAIN Append(s, e) : RawShape(Append(s, e)[i])
<1>1. /\ Append(s, e) \in Seq(RawEvents) /\ Len(Append(s, e)) = Len(s) + 1
      /\ \A i \in 1 .. Len(s) : Append(s, e)[i] = s[i]
      /\ Append(s, e)[Len(s) + 1] = e
  BY AppendProperties
<1>2. Len(s) \in Nat /\ DOMAIN s = 1 .. Len(s) /\ DOMAIN Append(s, e) = 1 .. Len(Append(s, e))
  BY <1>1, LenProperties
<1>. QED
  BY <1>1, <1>2

LEMMA TailShape ==
  ASSUME NEW s \in Seq(RawEvents), s # <<>>, \A i \in DOMAIN s : RawShape(s[i])
  PROVE  /\ Tail(s) \in Seq(RawEvents) /\ \A i \in DOMAIN Tail(s) : RawShape(Tail(s)[i])
         /\ Head(s) \in RawEvents /\ RawShape(Head(s)) /\ Head(s) = s[1]
         /\ Len(Tail(s)) = Len(s) - 1
<1>1. /\ Head(s) \in RawEvents /\ Tail(s) \in Seq(RawEvents) /\ Len(Tail(s)) = Len(s) - 1
      /\ \A i \in 1 .. Len(Tail(s)) : Tail(s)[i] = s[i + 1]
  BY HeadTailProperties
<1>2. Len(s) \in Nat \ {0} /\ DOMAIN s = 1 .. Len(s) /\ DOMAIN Tail(s) = 1 .. Len(Tail(s))
  BY <1>1, LenProperties, EmptySeq
<1>3. Head(s) = s[1] /\ 1 \in DOMAIN s
  BY <1>2
<1>4. \A i \in 1 .. Len(Tail(s)) : i + 1 \in DOMAIN s
  BY <1>1, <1>2
<1>. QED
  BY <1>1, <1>2, <1>3, <1>4

LEMMA NoiseShape ==
  ASSUME ShapeInv, NEW kind \in {"ignored"} \cup Silent, Noise(kind)
  PROVE  ShapeInv'
<1>1. Raw(kind, NoPath, NoPath) \in RawEvents /\ RawShape(Raw(kind, NoPath, NoPath))
  BY DEF Raw, RawEvents, RawShape, Silent
<1>2. wire \in Seq(RawEvents) /\ \A i \in DOMAIN wire : RawShape(wire[i])
  BY DEF ShapeInv, TypeOK
<1>3. wire' = Append(wire, Raw(kind, NoPath, NoPath))
  BY DEF Noise
<1>4. wire' \in Seq(RawEvents) /\ \A i \in DOMAIN wire' : RawShape(wire'[i])
  BY <1>1, <1>2, <1>3, AppendShape
<1>5. ops' \in 0 .. MaxOps /\ gone' \in Paths \cup {NoPath}
  BY DEF Noise, ShapeInv, TypeOK
<1>6. UNCHANGED <<os, disk, base, hash, node, queue, dropped, pc, events, plan, moves, stale,
                  parse, links, tangled, missed, mixed>>
  BY DEF Noise, graph, work
<1>7. TypeOK'
  BY <1>4, <1>5, <1>6 DEF TypeOK, ShapeInv
<1>. QED
  BY <1>4, <1>6, <1>7 DEF ShapeInv

LEMMA DeliverShape ==
  ASSUME ShapeInv, Deliver
  PROVE  ShapeInv'
<1>1. /\ wire \in Seq(RawEvents) /\ \A i \in DOMAIN wire : RawShape(wire[i])
      /\ queue \in Seq(RawEvents) /\ \A i \in DOMAIN queue : RawShape(queue[i])
      /\ wire # <<>> /\ wire' = Tail(wire)
  BY DEF ShapeInv, TypeOK, Deliver
<1>2. /\ wire' \in Seq(RawEvents) /\ \A i \in DOMAIN wire' : RawShape(wire'[i])
      /\ Head(wire) \in RawEvents /\ RawShape(Head(wire))
  BY <1>1, TailShape
<1>3. /\ queue' \in Seq(RawEvents) /\ \A i \in DOMAIN queue' : RawShape(queue'[i])
      /\ Len(queue') <= Capacity /\ dropped' \in Nat
  <2>1. CASE HasRoom
    <3>1. queue' = Append(queue, Head(wire)) /\ dropped' = dropped
      BY <2>1 DEF Deliver
    <3>2. Len(Append(queue, Head(wire))) = Len(queue) + 1 /\ Len(queue) \in Nat
      BY <1>1, <1>2, AppendProperties, LenProperties
    <3>3. Len(queue') <= Capacity
      BY <3>1, <3>2, <2>1 DEF HasRoom
    <3>. QED
      BY <1>1, <1>2, <3>1, <3>3, AppendShape DEF ShapeInv, TypeOK
  <2>2. CASE ~HasRoom
    BY <1>1, <2>2 DEF Deliver, ShapeInv, TypeOK
  <2>. QED
    BY <2>1, <2>2
<1>4. UNCHANGED <<os, disk, base, hash, node, pc, events, plan, moves, stale,
                  parse, gone, links, tangled, missed, mixed, ops>>
  BY DEF Deliver, graph, work, ghosts
<1>5. TypeOK'
  BY <1>2, <1>3, <1>4 DEF TypeOK, ShapeInv
<1>. QED
  BY <1>2, <1>3, <1>4, <1>5 DEF ShapeInv

\* The watcher's steps.
LEMMA DrainShape ==
  ASSUME ShapeInv, Drain
  PROVE  ShapeInv'
<1>1. /\ queue \in Seq(RawEvents) /\ \A i \in DOMAIN queue : RawShape(queue[i])
      /\ queue # <<>> /\ Len(queue) <= Capacity /\ pc = "idle"
  BY DEF ShapeInv, TypeOK, Drain
<1>2. UNCHANGED <<os, disk, base, hash, node, wire, dropped, plan, moves, stale,
                  parse, gone, links, tangled, missed, mixed, ops>>
  BY DEF Drain, graph, work, ghosts
<1>3. /\ queue' \in Seq(RawEvents) /\ \A i \in DOMAIN queue' : RawShape(queue'[i])
      /\ Len(queue') <= Capacity
  <2>1. CASE Head(queue).kind = "error"
    <3>1. queue' = Tail(queue)
      BY <2>1 DEF Drain
    <3>2. /\ Tail(queue) \in Seq(RawEvents) /\ \A i \in DOMAIN Tail(queue) : RawShape(Tail(queue)[i])
          /\ Len(Tail(queue)) = Len(queue) - 1
      BY <1>1, TailShape
    <3>3. Len(queue) \in Nat
      BY <1>1, LenProperties
    <3>. QED
      BY <1>1, <3>1, <3>2, <3>3
  <2>2. CASE Head(queue).kind # "error"
    <3>1. queue' = <<>>
      BY <2>2 DEF Drain
    <3>2. <<>> \in Seq(RawEvents) /\ Len(<<>>) = 0 /\ DOMAIN <<>> = {}
      BY EmptySeq
    <3>. QED
      BY <3>1, <3>2
  <2>. QED
    BY <2>1, <2>2
<1>4. \/ pc' = "idle" /\ events' = events
      \/ pc' = "debounce" /\ events' = Normalize(queue)
  BY <1>1 DEF Drain
<1>5. events' \in Seq(WatchEvents) /\ \A k \in DOMAIN events' : EventShape(events'[k])
  <2>1. CASE events' = events
    BY <2>1 DEF ShapeInv, TypeOK
  <2>2. CASE events' = Normalize(queue)
    BY <1>1, <2>2, NormalizeTyped
  <2>. QED
    BY <1>4, <2>1, <2>2
<1>6. TypeOK'
  BY <1>2, <1>3, <1>4, <1>5 DEF TypeOK, ShapeInv
<1>. QED
  BY <1>1, <1>2, <1>3, <1>4, <1>5, <1>6 DEF ShapeInv

LEMMA ConcatEvents ==
  ASSUME NEW s \in Seq(WatchEvents), NEW t \in Seq(WatchEvents)
  PROVE  /\ s \o t \in Seq(WatchEvents)
         /\ DOMAIN (s \o t) = 1 .. (Len(s) + Len(t)) /\ Len(s) \in Nat /\ Len(t) \in Nat
         /\ DOMAIN s = 1 .. Len(s) /\ DOMAIN t = 1 .. Len(t)
         /\ \A i \in DOMAIN s : i \in DOMAIN (s \o t) /\ (s \o t)[i] = s[i]
         /\ \A i \in DOMAIN t : Len(s) + i \in DOMAIN (s \o t) /\ (s \o t)[Len(s) + i] = t[i]
         /\ \A k \in DOMAIN (s \o t) : k \in DOMAIN s \/ \E i \in DOMAIN t : k = Len(s) + i
<1>1. /\ s \o t \in Seq(WatchEvents)
      /\ Len(s \o t) = Len(s) + Len(t)
      /\ \A i \in 1 .. Len(s) + Len(t) : (s \o t)[i] = IF i <= Len(s) THEN s[i] ELSE t[i - Len(s)]
  BY ConcatProperties
<1>2. /\ Len(s) \in Nat /\ DOMAIN s = 1 .. Len(s) /\ Len(t) \in Nat /\ DOMAIN t = 1 .. Len(t)
      /\ DOMAIN (s \o t) = 1 .. Len(s \o t)
  BY <1>1, LenProperties
<1>3. ASSUME NEW k \in DOMAIN (s \o t), k \notin DOMAIN s PROVE \E i \in DOMAIN t : k = Len(s) + i
  <2>1. k - Len(s) \in DOMAIN t /\ k = Len(s) + (k - Len(s))
    BY <1>1, <1>2, <1>3
  <2>. QED
    BY <2>1
<1>. QED
  BY <1>1, <1>2, <1>3

LEMMA DrainBufferedShape ==
  ASSUME ShapeInv, DrainBuffered
  PROVE  ShapeInv'
<1>1. /\ queue \in Seq(RawEvents) /\ \A i \in DOMAIN queue : RawShape(queue[i])
      /\ events \in Seq(WatchEvents) /\ \A k \in DOMAIN events : EventShape(events[k])
      /\ pc = "debounce" /\ pc' = "plan" /\ queue' = <<>> /\ events' = events \o Normalize(queue)
  BY DEF ShapeInv, TypeOK, DrainBuffered
<1>2. UNCHANGED <<os, disk, base, hash, node, wire, dropped, plan, moves, stale,
                  parse, gone, links, tangled, missed, mixed, ops>>
  BY DEF DrainBuffered, graph, work, ghosts
<1>3. /\ queue' \in Seq(RawEvents) /\ \A i \in DOMAIN queue' : RawShape(queue'[i])
      /\ Len(queue') <= Capacity
  BY <1>1, EmptySeq
<1>4. PICK t \in Seq(WatchEvents) : t = Normalize(queue) /\ \A j \in DOMAIN t : EventShape(t[j])
  BY <1>1, NormalizeTyped
<1>5. events' \in Seq(WatchEvents) /\ \A k \in DOMAIN events' : EventShape(events'[k])
  <2>1. events' = events \o t
    BY <1>1, <1>4
  <2>. QED
    BY <1>1, <1>4, <2>1, ConcatEvents
<1>6. TypeOK'
  BY <1>1, <1>2, <1>3, <1>5 DEF TypeOK, ShapeInv
<1>. QED
  BY <1>1, <1>2, <1>3, <1>5, <1>6 DEF ShapeInv

LEMMA PlanBatchShape ==
  ASSUME ShapeInv, PlanBatch
  PROVE  ShapeInv'
<1>1. /\ events \in Seq(WatchEvents) /\ \A k \in DOMAIN events : EventShape(events[k])
      /\ pc = "plan" /\ pc' = "apply" /\ events' = <<>> /\ dropped' = 0
      /\ plan' = Plan(events, dropped)
  BY DEF ShapeInv, TypeOK, PlanBatch
<1>2. UNCHANGED <<os, disk, base, hash, node, wire, queue, moves, stale,
                  parse, gone, links, tangled, mixed, ops>>
  BY DEF PlanBatch, graph, work
<1>3. missed' \subseteq Paths
  BY DEF PlanBatch, ShapeInv, TypeOK
<1>4. events' \in Seq(WatchEvents) /\ DOMAIN events' = {}
  BY <1>1, EmptySeq
<1>5. PICK c \in PlannedChanges : c = EventsToChanges(events) /\ \A p \in Paths : ChangeShape(c[p])
  BY <1>1, ChangesTyped
<1>6. PICK d \in PlannedChanges : d = NoChanges /\ \A p \in Paths : ChangeShape(d[p])
  BY NoPlanTyped
<1>7. /\ plan' \in [rescan : BOOLEAN, changes : PlannedChanges]
      /\ \A p \in Paths : ChangeShape(plan'.changes[p])
  <2>1. plan' = [rescan |-> dropped > 0, changes |-> IF dropped > 0 THEN d ELSE c]
    BY <1>1, <1>5, <1>6, Zenon DEF Plan
  <2>2. (dropped > 0) \in BOOLEAN
    BY DEF ShapeInv, TypeOK
  <2>3. CASE dropped > 0
    BY <1>6, <2>1, <2>3
  <2>4. CASE ~(dropped > 0)
    BY <1>5, <2>1, <2>4
  <2>. QED
    BY <2>3, <2>4
<1>8. TypeOK'
  BY <1>1, <1>2, <1>3, <1>4, <1>7 DEF TypeOK, ShapeInv
<1>. QED
  BY <1>1, <1>2, <1>4, <1>7, <1>8 DEF ShapeInv

\* The changes an update works on.
WorkChanges == IF plan.rescan THEN WorkingTreeChanges ELSE plan.changes

LEMMA WorkChangesTyped ==
  ASSUME ShapeInv
  PROVE  /\ WorkChanges \in PlannedChanges /\ \A p \in Paths : ChangeShape(WorkChanges[p])
         /\ \A p \in Paths : WorkChanges[p].type = "renamed" => WorkChanges[p].old \in Paths
<1>1. WorkingTreeChanges \in PlannedChanges /\ \A p \in Paths : ChangeShape(WorkingTreeChanges[p])
  BY DEF WorkingTreeChanges, PlannedChanges, ChangeShape, NoChange
<1>2. plan.changes \in PlannedChanges /\ \A p \in Paths : ChangeShape(plan.changes[p])
  BY DEF ShapeInv, TypeOK
<1>3. WorkChanges \in PlannedChanges /\ \A p \in Paths : ChangeShape(WorkChanges[p])
  BY <1>1, <1>2, Zenon DEF WorkChanges
<1>. QED
  BY <1>3, Zenon DEF ChangeShape

LEMMA ClassifyFacts ==
  ASSUME Classify
  PROVE  /\ pc = "apply" /\ pc' = "update" /\ plan' = NoPlan
         /\ moves' = {<<WorkChanges[p].old, p>> : p \in StableRenames(WorkChanges)}
         /\ stale' = ToDelete(WorkChanges) /\ parse' = ToParse(WorkChanges)
         /\ missed' = IF plan.rescan THEN missed \cup {p \in Paths : ~Reported(p)} ELSE missed
         /\ UNCHANGED <<os, disk, base, hash, node, wire, queue, dropped, events, gone, links,
                        tangled, mixed, ops>>
BY Zenon DEF Classify, WorkChanges, graph

LEMMA ClassifyShape ==
  ASSUME ShapeInv, Classify
  PROVE  ShapeInv'
<1>0. PICK c \in PlannedChanges :
        /\ c = WorkChanges
        /\ \A p \in Paths : c[p].type = "renamed" => c[p].old \in Paths
  BY WorkChangesTyped
<1>1. /\ pc = "apply" /\ pc' = "update" /\ plan' = NoPlan
      /\ moves' = {<<c[p].old, p>> : p \in StableRenames(c)}
      /\ stale' = ToDelete(c) /\ parse' = ToParse(c)
      /\ missed' = IF plan.rescan THEN missed \cup {p \in Paths : ~Reported(p)} ELSE missed
      /\ UNCHANGED <<os, disk, base, hash, node, wire, queue, dropped, events, gone, links,
                     tangled, mixed, ops>>
  BY <1>0, ClassifyFacts, Zenon
<1>2. moves' \subseteq Paths \X Paths
  BY <1>0, <1>1 DEF StableRenames
<1>3. stale' \subseteq Paths /\ parse' \subseteq Paths
  BY <1>0, <1>1 DEF ToDelete, ToParse
<1>4. missed' \subseteq Paths
  BY <1>1 DEF ShapeInv, TypeOK
<1>5. /\ plan' \in [rescan : BOOLEAN, changes : PlannedChanges]
      /\ \A p \in Paths : ChangeShape(plan'.changes[p])
  BY <1>1, NoPlanTyped
<1>6. TypeOK'
  BY <1>1, <1>2, <1>3, <1>4, <1>5 DEF TypeOK, ShapeInv
<1>. QED
  BY <1>1, <1>5, <1>6 DEF ShapeInv

LEMMA GraphTyped ==
  ASSUME ShapeInv
  PROVE  /\ \A old, new \in Paths : RenameFileGraph(old, new) =>
              hash' \in [Paths -> Values] /\ node' \in [Paths -> [at : Paths \cup {NoPath}, of : Values]]
         /\ \A S \in SUBSET Paths : DeleteFileGraphs(S) =>
              hash' \in [Paths -> Values] /\ node' \in [Paths -> [at : Paths \cup {NoPath}, of : Values]]
         /\ \A S \in SUBSET Paths : ReplaceFiles(S) =>
              /\ hash' \in [Paths -> Values] /\ node' \in [Paths -> [at : Paths \cup {NoPath}, of : Values]]
              /\ mixed' \subseteq Paths
<1>0. /\ hash \in [Paths -> Values] /\ node \in [Paths -> [at : Paths \cup {NoPath}, of : Values]]
      /\ disk \in [Paths -> Values] /\ mixed \subseteq Paths
  BY DEF ShapeInv, TypeOK
<1>1. ASSUME NEW old \in Paths, NEW new \in Paths, RenameFileGraph(old, new)
      PROVE  hash' \in [Paths -> Values] /\ node' \in [Paths -> [at : Paths \cup {NoPath}, of : Values]]
  BY <1>0, <1>1 DEF RenameFileGraph, Values
<1>2. ASSUME NEW S \in SUBSET Paths, DeleteFileGraphs(S)
      PROVE  hash' \in [Paths -> Values] /\ node' \in [Paths -> [at : Paths \cup {NoPath}, of : Values]]
  BY <1>0, <1>2 DEF DeleteFileGraphs, Values, NoNode
<1>3. ASSUME NEW S \in SUBSET Paths, ReplaceFiles(S)
      PROVE  /\ hash' \in [Paths -> Values] /\ node' \in [Paths -> [at : Paths \cup {NoPath}, of : Values]]
             /\ mixed' \subseteq Paths
  BY <1>0, <1>3 DEF ReplaceFiles, Values, NoNode
<1>. QED
  BY <1>1, <1>2, <1>3

LEMMA RenameStableShape ==
  ASSUME ShapeInv, RenameStable
  PROVE  ShapeInv'
<1>1. /\ pc = "update"
      /\ UNCHANGED <<os, disk, base, wire, queue, dropped, pc, events, plan, stale, parse,
                     gone, links, tangled, missed, ops>>
  BY DEF RenameStable
<1>2. PICK m \in moves : /\ moves' = moves \ {m}
       /\ IF m[1] = m[2] THEN UNCHANGED <<graph, mixed>>
          ELSE /\ RenameFileGraph(m[1], m[2])
               /\ mixed' = IF NodesAt(m[2]) # {} \/ m[1] \in tangled \cup missed \cup mixed
                             THEN mixed \cup {m[2]} ELSE mixed
  BY DEF RenameStable
<1>3. m[1] \in Paths /\ m[2] \in Paths /\ moves' \subseteq Paths \X Paths
  BY <1>2 DEF ShapeInv, TypeOK
<1>4. /\ hash' \in [Paths -> Values] /\ node' \in [Paths -> [at : Paths \cup {NoPath}, of : Values]]
      /\ mixed' \subseteq Paths
  <2>1. CASE m[1] = m[2]
    BY <1>2, <2>1 DEF ShapeInv, TypeOK, graph
  <2>2. CASE m[1] # m[2]
    <3>1. RenameFileGraph(m[1], m[2]) /\ mixed' \in {mixed, mixed \cup {m[2]}}
      BY <1>2, <2>2
    <3>2. hash' \in [Paths -> Values] /\ node' \in [Paths -> [at : Paths \cup {NoPath}, of : Values]]
      BY <1>3, <3>1, GraphTyped
    <3>. QED
      BY <1>3, <3>1, <3>2 DEF ShapeInv, TypeOK
  <2>. QED
    BY <2>1, <2>2
<1>5. TypeOK'
  BY <1>1, <1>3, <1>4 DEF TypeOK, ShapeInv
<1>. QED
  BY <1>1, <1>5 DEF ShapeInv

LEMMA DeleteStaleShape ==
  ASSUME ShapeInv, DeleteStale
  PROVE  ShapeInv'
<1>1. /\ pc = "update" /\ pc' = "write" /\ moves = {} /\ stale' = {} /\ DeleteFileGraphs(stale)
      /\ UNCHANGED <<os, disk, base, wire, queue, dropped, events, plan, moves, parse,
                     gone, links, tangled, missed, mixed, ops>>
  BY DEF DeleteStale, ghosts
<1>2. hash' \in [Paths -> Values] /\ node' \in [Paths -> [at : Paths \cup {NoPath}, of : Values]]
  <2>1. stale \in SUBSET Paths
    BY DEF ShapeInv, TypeOK
  <2>. QED
    BY <1>1, <2>1, GraphTyped
<1>3. TypeOK'
  BY <1>1, <1>2 DEF TypeOK, ShapeInv
<1>. QED
  BY <1>1, <1>3 DEF ShapeInv

LEMMA ReplaceShape ==
  ASSUME ShapeInv, Replace
  PROVE  ShapeInv'
<1>1. /\ pc = "write" /\ pc' = "idle" /\ parse' = {} /\ ReplaceFiles(parse)
      /\ UNCHANGED <<os, disk, base, wire, queue, dropped, events, plan, moves, stale,
                     gone, links, tangled, missed, ops>>
  BY DEF Replace
<1>2. /\ hash' \in [Paths -> Values] /\ node' \in [Paths -> [at : Paths \cup {NoPath}, of : Values]]
      /\ mixed' \subseteq Paths
  <2>1. parse \in SUBSET Paths
    BY DEF ShapeInv, TypeOK
  <2>. QED
    BY <1>1, <2>1, GraphTyped
<1>3. TypeOK'
  BY <1>1, <1>2 DEF TypeOK, ShapeInv
<1>. QED
  BY <1>1, <1>3 DEF ShapeInv

LEMMA UpdateFailsShape ==
  ASSUME ShapeInv, UpdateFails
  PROVE  ShapeInv'
<1>1. /\ pc \in {"apply", "update", "write"} /\ pc' = "idle"
      /\ moves' = {} /\ stale' = {} /\ parse' = {} /\ plan' = NoPlan
      /\ UNCHANGED <<os, disk, base, wire, queue, dropped, events, gone, links, tangled>>
  BY DEF UpdateFails
<1>2. ops' \in 0 .. MaxOps /\ missed' \subseteq Paths
  BY DEF UpdateFails, ShapeInv, TypeOK
<1>3. /\ hash' \in [Paths -> Values] /\ node' \in [Paths -> [at : Paths \cup {NoPath}, of : Values]]
      /\ mixed' \subseteq Paths
  <2>1. CASE UNCHANGED <<graph, mixed>>
    BY <2>1 DEF graph, ShapeInv, TypeOK
  <2>2. CASE UNCHANGED mixed /\ \E S \in SUBSET stale : DeleteFileGraphs(S)
    <3>1. PICK S \in SUBSET Paths : DeleteFileGraphs(S)
      BY <2>2 DEF ShapeInv, TypeOK
    <3>. QED
      BY <2>2, <3>1, GraphTyped DEF ShapeInv, TypeOK
  <2>3. CASE \E S \in SUBSET parse : ReplaceFiles(S)
    <3>1. PICK S \in SUBSET Paths : ReplaceFiles(S)
      BY <2>3 DEF ShapeInv, TypeOK
    <3>. QED
      BY <3>1, GraphTyped
  <2>. QED
    BY <2>1, <2>2, <2>3 DEF UpdateFails
<1>4. /\ plan' \in [rescan : BOOLEAN, changes : PlannedChanges]
      /\ \A p \in Paths : ChangeShape(plan'.changes[p])
  BY <1>1, NoPlanTyped
<1>5. TypeOK'
  BY <1>1, <1>2, <1>3, <1>4 DEF TypeOK, ShapeInv
<1>. QED
  BY <1>1, <1>4, <1>5 DEF ShapeInv

LEMMA ShapeNext ==
  ASSUME ShapeInv, [Next]_vars
  PROVE  ShapeInv'
<1>1. CASE User
  <2>1. CASE \E p \in Paths : Delete(p) \/ MoveOut(p) \/ \E v \in Contents : Write(p, v) \/ Create(p, v)
    BY <2>1, DeleteShape, MoveOutShape, WriteShape, CreateShape
  <2>2. CASE \E p, q \in Paths : Rename(p, q)
    BY <2>2, RenameShape
  <2>3. CASE \E kind \in {"ignored"} \cup Silent : Noise(kind)
    BY <2>3, NoiseShape
  <2>. QED
    BY <1>1, <2>1, <2>2, <2>3 DEF User
<1>2. CASE Deliver
  BY <1>2, DeliverShape
<1>3. CASE Watcher
  BY <1>3, DrainShape, DrainBufferedShape, PlanBatchShape, ClassifyShape, RenameStableShape,
     DeleteStaleShape, ReplaceShape, UpdateFailsShape DEF Watcher, Update
<1>4. CASE UNCHANGED vars
  BY <1>4 DEF vars, ShapeInv, TypeOK
<1>. QED
  BY <1>1, <1>2, <1>3, <1>4 DEF Next

LEMMA Shapes == Spec => []ShapeInv
BY ShapeInit, ShapeNext, PTL DEF Spec

\* Every variable has its type in every state of the watcher, whatever the edits,
\* and the bounded channel of watch.rs never holds more than its capacity.
THEOREM TypeCorrect == Spec => []TypeOK
<1>1. ShapeInv => TypeOK
  BY DEF ShapeInv
<1>. QED
  BY <1>1, Shapes, PTL

-----------------------------------------------------------------------------
(* The inductive invariant.  Its parts about a series of raw events take   *)
(* the series s, the clean paths cl, the files d, the links ls and the     *)
(* last deletion g as parameters.                                          *)

\* The paths no exception is known of.
CleanPaths == Paths \ (tangled \cup missed \cup mixed)

\* The raw events still to be drained that nothing dropped is missing among.
InFlight == IF dropped = 0 THEN queue \o wire ELSE wire

Plus(ev, p) == ev.kind = "create" \/ (ev.kind = "both" /\ ev.to = p)
LastMention(s, p, j) ==
  Mentions(s[j], p) /\ \A k \in DOMAIN s : k > j => ~Mentions(s[k], p)
LastTurn(s, p, j) ==
  Turn(s[j], p) /\ \A k \in DOMAIN s : k > j => ~Turn(s[k], p)
\* The raw event at j tells, with the Remove before it, of a move from old to new.
Moved(s, old, new, j) ==
  \/ s[j].kind = "both" /\ s[j].path = old /\ s[j].to = new
  \/ \E i \in DOMAIN s : Paired(s, i, j) /\ s[i].path = old /\ s[j].path = new

\* What was reported of a path last is how it is.
RawModify(s, p, d) ==
  \A j \in DOMAIN s : LastMention(s, p, j) /\ s[j].kind = "modify" => d[p] # Absent
RawTurn(s, p, d) ==
  \A j \in DOMAIN s : LastTurn(s, p, j) => (Plus(s[j], p) <=> d[p] # Absent)
\* It did not go twice, nor come and go three times.
RawRemoves(s, p) ==
  \A i, j \in DOMAIN s :
    i < j => ~(/\ s[i].kind = "remove" /\ s[i].path = p
               /\ s[j].kind = "remove" /\ s[j].path = p)
RawClean(s, p, d) ==
  /\ RawModify(s, p, d) /\ RawTurn(s, p, d) /\ RawRemoves(s, p)
  /\ p \notin Spinning(s)
\* A move is a link, and after it nothing is reported of its paths.
RawLinks(s, cl, ls) ==
  \A old \in cl : \A new \in Paths : \A j \in DOMAIN s :
    Moved(s, old, new, j) /\ old # new =>
      /\ <<old, new>> \in ls
      /\ \A k \in DOMAIN s : k > j => ~Mentions(s[k], old) /\ ~Mentions(s[k], new)
\* A Remove that the next Create will take is the deletion made last.
RawGone(s, cl, g) ==
  \A i \in DOMAIN s :
    /\ s[i].kind = "remove" /\ s[i].path \in cl
    /\ \A k \in DOMAIN s : k > i => s[k].kind \in Silent
    => g = s[i].path

RawOK(s, cl, d, ls, g) ==
  /\ \A p \in cl : RawClean(s, p, d)
  /\ RawLinks(s, cl, ls)
  /\ RawGone(s, cl, g)
RawInv == RawOK(InFlight, CleanPaths, disk, links, gone)

\* Nothing more is to be heard of the path.
Silence(s, p) == \A j \in DOMAIN s : ~Mentions(s[j], p)
Quiet(p) == Silence(InFlight, p)
Settled == {p \in CleanPaths : dropped = 0 /\ Quiet(p)}

\* The last event that touches a settled path tells how it is.
EventClean(p) ==
  \A k \in DOMAIN events :
    LastTouch(events, p, k) =>
      (disk[p] # Absent <=> events[k].path = p /\ events[k].kind # "deleted")
EventLinks ==
  \A k \in DOMAIN events :
    events[k].kind = "renamed" /\ events[k].old # events[k].path /\ events[k].old \in CleanPaths =>
      /\ <<events[k].old, events[k].path>> \in links
      /\ Quiet(events[k].old) /\ Quiet(events[k].path)
      /\ \A l \in DOMAIN events :
           l > k => ~Touches(events[l], events[k].old) /\ ~Touches(events[l], events[k].path)
EventInv ==
  /\ \A p \in Settled : EventClean(p)
  /\ dropped = 0 => EventLinks
  /\ pc \in {"idle", "debounce", "plan"} =>
       \A p \in Settled : (\A k \in DOMAIN events : ~Touches(events[k], p)) => hash[p] = disk[p]

PlanLinks(c) ==
  \A p \in CleanPaths, q \in Paths :
    c[q].type = "renamed" /\ c[q].old = p /\ p # q =>
      /\ <<p, q>> \in links /\ Quiet(p) /\ Quiet(q)
      /\ c[p] = NoChange /\ disk[p] = Absent
      /\ \A r \in Paths : c[r].type = "renamed" /\ c[r].old = p => r = q
PlanClean(c, p) ==
  /\ c[p].type \in {"modified", "renamed"} => disk[p] # Absent
  /\ c[p].type = "deleted" => disk[p] = Absent
  /\ c[p].type = "none" =>
       hash[p] = disk[p] \/ \E q \in Paths : c[q].type = "renamed" /\ c[q].old = p
PlanInv ==
  pc = "apply" /\ ~plan.rescan =>
    /\ dropped = 0 => PlanLinks(plan.changes)
    /\ \A p \in Settled : PlanClean(plan.changes, p)

\* What the update has still to do for a settled path.
WorkClean(p) ==
  /\ p \in parse => disk[p] # Absent
  /\ p \in stale /\ p \notin parse => disk[p] = Absent
  /\ \A g \in Paths : <<g, p>> \in moves =>
       p \notin parse /\ p \notin stale /\ disk[p] # Absent /\ (g \in CleanPaths => hash[g] = disk[p])
  /\ \/ p \in parse \/ p \in stale
     \/ \E q \in Paths : <<p, q>> \in moves \/ <<q, p>> \in moves
     \/ hash[p] = disk[p]
WorkLinks ==
  \A p \in CleanPaths, q \in Paths :
    <<p, q>> \in moves /\ p # q =>
      /\ <<p, q>> \in links /\ Quiet(p) /\ Quiet(q)
      /\ disk[p] = Absent /\ p \notin parse
      /\ \A r \in Paths : <<r, p>> \notin moves /\ (<<p, r>> \in moves => r = q)
WorkInv ==
  /\ \A p, q, r \in Paths : <<p, r>> \in moves /\ <<q, r>> \in moves => p = q
  /\ dropped = 0 => WorkLinks
  /\ pc \in {"update", "write"} => \A p \in Settled : WorkClean(p)

\* The nodes of a clean path are always those of its files row.
SliceInv == \A p \in CleanPaths : Consistent(p)

WatchInv == RawInv /\ EventInv /\ PlanInv /\ WorkInv /\ SliceInv

-----------------------------------------------------------------------------
(* Series of raw events.                                                   *)

\* t is what is left of s without its first n events.
SuffixOf(t, s, n) ==
  /\ n \in Nat /\ Len(s) = Len(t) + n
  /\ \A i \in DOMAIN t : t[i] = s[i + n]

LEMMA RawSubset ==
  ASSUME NEW s, NEW cl, NEW d, NEW ls, NEW g, RawOK(s, cl, d, ls, g),
         NEW c2 \in SUBSET cl
  PROVE  RawOK(s, c2, d, ls, g)
BY DEF RawOK, RawLinks, RawGone

\* How the indices of a series and of its suffix correspond.
LEMMA SuffixIndices ==
  ASSUME NEW s \in Seq(RawEvents), NEW t \in Seq(RawEvents), NEW n, SuffixOf(t, s, n)
  PROVE  /\ \A i \in DOMAIN t : i \in Nat /\ i + n \in DOMAIN s /\ s[i + n] = t[i]
         /\ \A k \in DOMAIN s : k \in Nat /\ (k > n => k - n \in DOMAIN t /\ t[k - n] = s[k])
<1>1. /\ Len(s) \in Nat /\ DOMAIN s = 1 .. Len(s) /\ Len(t) \in Nat /\ DOMAIN t = 1 .. Len(t)
      /\ n \in Nat /\ Len(s) = Len(t) + n
  BY LenProperties DEF SuffixOf
<1>2. \A i \in DOMAIN t : i \in Nat /\ i + n \in DOMAIN s /\ s[i + n] = t[i]
  BY <1>1 DEF SuffixOf
<1>3. ASSUME NEW k \in DOMAIN s, k > n PROVE k - n \in DOMAIN t /\ t[k - n] = s[k]
  <2>1. k - n \in DOMAIN t /\ (k - n) + n = k
    BY <1>1, <1>3
  <2>. QED
    BY <2>1, <1>2
<1>. QED
  BY <1>1, <1>2, <1>3

LEMMA SuffixPaired ==
  ASSUME NEW s \in Seq(RawEvents), NEW t \in Seq(RawEvents), NEW n, SuffixOf(t, s, n),
         NEW i \in DOMAIN t, NEW j \in DOMAIN t
  PROVE  Paired(t, i, j) <=> Paired(s, i + n, j + n)
<1>0. /\ \A k \in DOMAIN t : k \in Nat /\ k + n \in DOMAIN s /\ s[k + n] = t[k]
      /\ n \in Nat /\ DOMAIN t = 1 .. Len(t) /\ Len(t) \in Nat
  BY SuffixIndices, LenProperties DEF SuffixOf
<1>1. ASSUME NEW k \in (i + 1) .. (j - 1) PROVE k \in DOMAIN t /\ k + n \in (i + n + 1) .. (j + n - 1)
  BY <1>0, SMTT(30)
<1>2. ASSUME NEW k \in (i + n + 1) .. (j + n - 1)
      PROVE k - n \in (i + 1) .. (j - 1) /\ (k - n) + n = k /\ k - n \in DOMAIN t
  BY <1>0, SMTT(30)
<1>3. (\A k \in (i + 1) .. (j - 1) : t[k].kind \in Silent) <=>
      (\A k \in (i + n + 1) .. (j + n - 1) : s[k].kind \in Silent)
  <2>1. ASSUME \A k \in (i + 1) .. (j - 1) : t[k].kind \in Silent,
               NEW k \in (i + n + 1) .. (j + n - 1)
        PROVE  s[k].kind \in Silent
    <3>1. t[k - n].kind \in Silent /\ s[(k - n) + n] = t[k - n]
      BY <1>0, <1>2, <2>1
    <3>. QED
      BY <3>1, <1>2
  <2>2. ASSUME \A k \in (i + n + 1) .. (j + n - 1) : s[k].kind \in Silent,
               NEW k \in (i + 1) .. (j - 1)
        PROVE  t[k].kind \in Silent
    BY <1>0, <1>1, <2>2
  <2>. QED
    BY <2>1, <2>2
<1>4. (i + n) + 1 = i + n + 1 /\ (j + n) - 1 = j + n - 1 /\ (i < j <=> i + n < j + n)
  BY <1>0
<1>. QED
  BY <1>0, <1>3, <1>4 DEF Paired

\* What holds of a series holds of its suffixes.
LEMMA RawSuffix ==
  ASSUME NEW s \in Seq(RawEvents), NEW t \in Seq(RawEvents), NEW n, SuffixOf(t, s, n),
         NEW cl, NEW d, NEW ls, NEW g, RawOK(s, cl, d, ls, g)
  PROVE  RawOK(t, cl, d, ls, g)
<1>0. /\ \A k \in DOMAIN t : k \in Nat /\ k + n \in DOMAIN s /\ s[k + n] = t[k]
      /\ \A k \in DOMAIN s : k \in Nat /\ (k > n => k - n \in DOMAIN t /\ t[k - n] = s[k])
      /\ n \in Nat
  BY SuffixIndices DEF SuffixOf
<1>a. ASSUME NEW j \in DOMAIN t, NEW k \in DOMAIN s, k > j + n
      PROVE  k - n \in DOMAIN t /\ t[k - n] = s[k] /\ k - n > j
  BY <1>0, <1>a
<1>b. \A j, k \in DOMAIN t : k > j <=> k + n > j + n
  BY <1>0
<1>1. ASSUME NEW p \in cl PROVE RawClean(t, p, d)
  <2>0. RawClean(s, p, d)
    BY DEF RawOK
  <2>1. RawModify(t, p, d)
    <3>1. SUFFICES ASSUME NEW j \in DOMAIN t, LastMention(t, p, j), t[j].kind = "modify"
                   PROVE  d[p] # Absent
      BY DEF RawModify
    <3>2. LastMention(s, p, j + n)
      BY <1>0, <1>a, <3>1 DEF LastMention
    <3>. QED
      BY <1>0, <2>0, <3>1, <3>2 DEF RawClean, RawModify
  <2>2. RawTurn(t, p, d)
    <3>1. SUFFICES ASSUME NEW j \in DOMAIN t, LastTurn(t, p, j)
                   PROVE  Plus(t[j], p) <=> d[p] # Absent
      BY DEF RawTurn
    <3>2. LastTurn(s, p, j + n)
      BY <1>0, <1>a, <3>1 DEF LastTurn
    <3>. QED
      BY <1>0, <2>0, <3>1, <3>2 DEF RawClean, RawTurn
  <2>3. RawRemoves(t, p)
    BY <1>0, <1>b, <2>0 DEF RawClean, RawRemoves
  <2>4. p \notin Spinning(t)
    <3>1. SUFFICES ASSUME p \in Spinning(t) PROVE p \in Spinning(s)
      BY <2>0 DEF RawClean
    <3>2. PICK i \in DOMAIN t : \E j \in DOMAIN t : \E k \in DOMAIN t :
            i < j /\ j < k /\ Turn(t[i], p) /\ Turn(t[j], p) /\ Turn(t[k], p)
      BY <3>1 DEF Spinning
    <3>3. PICK j \in DOMAIN t : \E k \in DOMAIN t :
            i < j /\ j < k /\ Turn(t[i], p) /\ Turn(t[j], p) /\ Turn(t[k], p)
      BY <3>2
    <3>4. PICK k \in DOMAIN t :
            i < j /\ j < k /\ Turn(t[i], p) /\ Turn(t[j], p) /\ Turn(t[k], p)
      BY <3>3
    <3>5. /\ i + n \in DOMAIN s /\ j + n \in DOMAIN s /\ k + n \in DOMAIN s
          /\ i + n < j + n /\ j + n < k + n
          /\ Turn(s[i + n], p) /\ Turn(s[j + n], p) /\ Turn(s[k + n], p)
      BY <1>0, <3>4, SMTT(30)
    <3>. QED
      BY <3>1, <3>5, Zenon DEF Spinning
  <2>. QED
    BY <2>1, <2>2, <2>3, <2>4 DEF RawClean
<1>2. RawLinks(t, cl, ls)
  <2>1. SUFFICES ASSUME NEW old \in cl, NEW new \in Paths, NEW j \in DOMAIN t,
                        Moved(t, old, new, j), old # new
                 PROVE  /\ <<old, new>> \in ls
                        /\ \A k \in DOMAIN t : k > j => ~Mentions(t[k], old) /\ ~Mentions(t[k], new)
    BY DEF RawLinks
  <2>2. Moved(s, old, new, j + n)
    <3>1. CASE t[j].kind = "both" /\ t[j].path = old /\ t[j].to = new
      BY <1>0, <3>1 DEF Moved
    <3>2. CASE \E i \in DOMAIN t : Paired(t, i, j) /\ t[i].path = old /\ t[j].path = new
      <4>1. PICK i \in DOMAIN t : Paired(t, i, j) /\ t[i].path = old /\ t[j].path = new
        BY <3>2
      <4>2. Paired(s, i + n, j + n)
        BY <4>1, SuffixPaired
      <4>3. i + n \in DOMAIN s /\ s[i + n].path = old /\ s[j + n].path = new
        BY <1>0, <4>1
      <4>. QED
        BY <4>2, <4>3 DEF Moved
    <3>. QED
      BY <2>1, <3>1, <3>2 DEF Moved
  <2>3. /\ <<old, new>> \in ls
        /\ \A k \in DOMAIN s : k > j + n => ~Mentions(s[k], old) /\ ~Mentions(s[k], new)
    BY <1>0, <2>1, <2>2 DEF RawOK, RawLinks
  <2>. QED
    BY <1>0, <1>b, <2>3
<1>3. RawGone(t, cl, g)
  <2>1. SUFFICES ASSUME NEW i \in DOMAIN t, t[i].kind = "remove", t[i].path \in cl,
                        \A k \in DOMAIN t : k > i => t[k].kind \in Silent
                 PROVE  g = t[i].path
    BY DEF RawGone
  <2>2. \A k \in DOMAIN s : k > i + n => s[k].kind \in Silent
    BY <1>a, <2>1
  <2>. QED
    BY <1>0, <2>1, <2>2 DEF RawOK, RawGone
<1>. QED
  BY <1>1, <1>2, <1>3 DEF RawOK

\* Events before a series that tell nothing of clean paths do no harm.
LEMMA RawPrefix ==
  ASSUME NEW s \in Seq(RawEvents), NEW t \in Seq(RawEvents), NEW n, SuffixOf(t, s, n),
         NEW cl \in SUBSET Paths, NEW d, NEW ls, NEW g, RawOK(t, cl, d, ls, g),
         \A i \in DOMAIN s : i <= n => \A p \in cl : ~Mentions(s[i], p)
  PROVE  RawOK(s, cl, d, ls, g)
<1>0. /\ \A k \in DOMAIN t : k \in Nat /\ k + n \in DOMAIN s /\ s[k + n] = t[k]
      /\ \A k \in DOMAIN s : k \in Nat /\ (k > n => k - n \in DOMAIN t /\ t[k - n] = s[k])
      /\ n \in Nat
  BY SuffixIndices, SMTT(30) DEF SuffixOf
<1>a. ASSUME NEW j \in DOMAIN s, NEW p \in cl, Mentions(s[j], p)
      PROVE  j - n \in DOMAIN t /\ t[j - n] = s[j] /\ j > n
  BY <1>0, <1>a
<1>b. ASSUME NEW j \in DOMAIN s, j > n, NEW k \in DOMAIN t, k > j - n
      PROVE  k + n \in DOMAIN s /\ s[k + n] = t[k] /\ k + n > j
  BY <1>0, <1>b
<1>c. ASSUME NEW j \in DOMAIN s, j > n, NEW k \in DOMAIN s, k > j
      PROVE  k - n \in DOMAIN t /\ t[k - n] = s[k] /\ k - n > j - n
  BY <1>0, <1>c
<1>1. ASSUME NEW p \in cl PROVE RawClean(s, p, d)
  <2>0. RawClean(t, p, d)
    BY DEF RawOK
  <2>1. RawModify(s, p, d)
    <3>1. SUFFICES ASSUME NEW j \in DOMAIN s, LastMention(s, p, j), s[j].kind = "modify"
                   PROVE  d[p] # Absent
      BY DEF RawModify
    <3>2. j - n \in DOMAIN t /\ t[j - n] = s[j] /\ j > n
      BY <1>a, <3>1 DEF LastMention
    <3>3. LastMention(t, p, j - n)
      BY <1>b, <3>1, <3>2 DEF LastMention
    <3>. QED
      BY <2>0, <3>1, <3>2, <3>3 DEF RawClean, RawModify
  <2>2. RawTurn(s, p, d)
    <3>1. SUFFICES ASSUME NEW j \in DOMAIN s, LastTurn(s, p, j)
                   PROVE  Plus(s[j], p) <=> d[p] # Absent
      BY DEF RawTurn
    <3>2. j - n \in DOMAIN t /\ t[j - n] = s[j] /\ j > n
      BY <1>a, <3>1 DEF LastTurn, Turn
    <3>3. LastTurn(t, p, j - n)
      BY <1>b, <3>1, <3>2 DEF LastTurn
    <3>. QED
      BY <2>0, <3>1, <3>2, <3>3 DEF RawClean, RawTurn
  <2>3. RawRemoves(s, p)
    <3>1. SUFFICES ASSUME NEW i \in DOMAIN s, NEW j \in DOMAIN s, i < j,
                          s[i].kind = "remove", s[i].path = p, s[j].kind = "remove", s[j].path = p
                   PROVE  FALSE
      BY DEF RawRemoves
    <3>2. Mentions(s[i], p) /\ Mentions(s[j], p)
      BY <3>1 DEF Mentions
    <3>3. i - n \in DOMAIN t /\ t[i - n] = s[i] /\ j - n \in DOMAIN t /\ t[j - n] = s[j]
          /\ i - n < j - n
      BY <1>0, <1>a, <3>1, <3>2
    <3>. QED
      BY <2>0, <3>1, <3>3 DEF RawClean, RawRemoves
  <2>4. p \notin Spinning(s)
    <3>1. SUFFICES ASSUME p \in Spinning(s) PROVE p \in Spinning(t)
      BY <2>0 DEF RawClean
    <3>2. PICK i \in DOMAIN s : \E j \in DOMAIN s : \E k \in DOMAIN s :
            i < j /\ j < k /\ Turn(s[i], p) /\ Turn(s[j], p) /\ Turn(s[k], p)
      BY <3>1 DEF Spinning
    <3>3. PICK j \in DOMAIN s : \E k \in DOMAIN s :
            i < j /\ j < k /\ Turn(s[i], p) /\ Turn(s[j], p) /\ Turn(s[k], p)
      BY <3>2
    <3>4. PICK k \in DOMAIN s :
            i < j /\ j < k /\ Turn(s[i], p) /\ Turn(s[j], p) /\ Turn(s[k], p)
      BY <3>3
    <3>5. /\ i - n \in DOMAIN t /\ j - n \in DOMAIN t /\ k - n \in DOMAIN t
          /\ t[i - n] = s[i] /\ t[j - n] = s[j] /\ t[k - n] = s[k]
      BY <1>a, <3>4 DEF Turn
    <3>6. i - n < j - n /\ j - n < k - n
      BY <1>0, <3>4
    <3>7. p \in Paths
      OBVIOUS
    <3>8. Turn(t[i - n], p) /\ Turn(t[j - n], p) /\ Turn(t[k - n], p)
      BY <3>4, <3>5
    <3>. QED
      BY <3>5, <3>6, <3>7, <3>8, Zenon DEF Spinning
  <2>. QED
    BY <2>1, <2>2, <2>3, <2>4 DEF RawClean
<1>2. RawLinks(s, cl, ls)
  <2>1. SUFFICES ASSUME NEW old \in cl, NEW new \in Paths, NEW j \in DOMAIN s,
                        Moved(s, old, new, j), old # new
                 PROVE  /\ <<old, new>> \in ls
                        /\ \A k \in DOMAIN s : k > j => ~Mentions(s[k], old) /\ ~Mentions(s[k], new)
    BY DEF RawLinks
  <2>2. j - n \in DOMAIN t /\ t[j - n] = s[j] /\ j > n /\ Moved(t, old, new, j - n)
    <3>1. CASE s[j].kind = "both" /\ s[j].path = old /\ s[j].to = new
      BY <1>a, <3>1 DEF Moved, Mentions
    <3>2. CASE \E i \in DOMAIN s : Paired(s, i, j) /\ s[i].path = old /\ s[j].path = new
      <4>1. PICK i \in DOMAIN s : Paired(s, i, j) /\ s[i].path = old /\ s[j].path = new
        BY <3>2
      <4>2. i - n \in DOMAIN t /\ t[i - n] = s[i] /\ i > n
        BY <1>a, <4>1 DEF Mentions
      <4>3. j > n /\ j - n \in DOMAIN t /\ t[j - n] = s[j]
        BY <1>0, <4>1, <4>2 DEF Paired
      <4>4. (i - n) + n = i /\ (j - n) + n = j
        BY <1>0
      <4>5. Paired(t, i - n, j - n)
        BY <4>1, <4>2, <4>3, <4>4, SuffixPaired
      <4>. QED
        BY <4>1, <4>2, <4>3, <4>5 DEF Moved
    <3>. QED
      BY <2>1, <3>1, <3>2 DEF Moved
  <2>3. /\ <<old, new>> \in ls
        /\ \A k \in DOMAIN t : k > j - n => ~Mentions(t[k], old) /\ ~Mentions(t[k], new)
    BY <2>1, <2>2 DEF RawOK, RawLinks
  <2>. QED
    BY <1>c, <2>2, <2>3
<1>3. RawGone(s, cl, g)
  <2>1. SUFFICES ASSUME NEW i \in DOMAIN s, s[i].kind = "remove", s[i].path \in cl,
                        \A k \in DOMAIN s : k > i => s[k].kind \in Silent
                 PROVE  g = s[i].path
    BY DEF RawGone
  <2>2. i - n \in DOMAIN t /\ t[i - n] = s[i] /\ i > n
    BY <1>a, <2>1 DEF Mentions
  <2>3. \A k \in DOMAIN t : k > i - n => t[k].kind \in Silent
    BY <1>b, <2>1, <2>2
  <2>. QED
    BY <2>1, <2>2, <2>3 DEF RawOK, RawGone
<1>. QED
  BY <1>1, <1>2, <1>3 DEF RawOK

\* The indices of a series and of the events appended to it.
LEMMA AppendIndices ==
  ASSUME NEW s \in Seq(RawEvents), NEW r \in Seq(RawEvents), NEW n, n = Len(s)
  PROVE  /\ s \o r \in Seq(RawEvents) /\ n \in Nat /\ Len(s \o r) = n + Len(r)
         /\ \A i \in DOMAIN s : i \in Nat /\ i <= n /\ i \in DOMAIN (s \o r) /\ (s \o r)[i] = s[i]
         /\ \A i \in DOMAIN r : /\ i \in Nat /\ i > 0 /\ i + n \in DOMAIN (s \o r)
                                /\ (s \o r)[i + n] = r[i]
         /\ \A k \in DOMAIN (s \o r) :
              /\ k \in Nat
              /\ k <= n => k \in DOMAIN s /\ (s \o r)[k] = s[k]
              /\ k > n => k - n \in DOMAIN r /\ (s \o r)[k] = r[k - n] /\ (k - n) + n = k
         /\ SuffixOf(r, s \o r, n)
<1>1. /\ s \o r \in Seq(RawEvents) /\ Len(s \o r) = Len(s) + Len(r)
      /\ \A i \in 1 .. Len(s) + Len(r) : (s \o r)[i] = IF i <= Len(s) THEN s[i] ELSE r[i - Len(s)]
  BY ConcatProperties
<1>2. /\ Len(s) \in Nat /\ DOMAIN s = 1 .. Len(s) /\ Len(r) \in Nat /\ DOMAIN r = 1 .. Len(r)
      /\ DOMAIN (s \o r) = 1 .. Len(s \o r)
  BY <1>1, LenProperties
<1>3. \A i \in DOMAIN s : i \in Nat /\ i <= n /\ i \in DOMAIN (s \o r) /\ (s \o r)[i] = s[i]
  BY <1>1, <1>2
<1>4. \A i \in DOMAIN r : i \in Nat /\ i > 0 /\ i + n \in DOMAIN (s \o r) /\ (s \o r)[i + n] = r[i]
  BY <1>1, <1>2
<1>5. ASSUME NEW k \in DOMAIN (s \o r)
      PROVE  /\ k \in Nat
             /\ k <= n => k \in DOMAIN s /\ (s \o r)[k] = s[k]
             /\ k > n => k - n \in DOMAIN r /\ (s \o r)[k] = r[k - n] /\ (k - n) + n = k
  BY <1>1, <1>2
<1>. QED
  BY <1>1, <1>2, <1>3, <1>4, <1>5 DEF SuffixOf

\* A path has a last turn in a series, if any.
LEMMA LastTurnExists ==
  ASSUME NEW s \in Seq(RawEvents), NEW p, NEW i \in DOMAIN s, Turn(s[i], p)
  PROVE  \E k \in DOMAIN s : LastTurn(s, p, k) /\ i <= k
<1>. DEFINE T == {k \in DOMAIN s : Turn(s[k], p)}
<1>1. Len(s) \in Nat /\ DOMAIN s = 1 .. Len(s)
  BY LenProperties
<1>2. T \in SUBSET Nat /\ T # {} /\ \A y \in T : y <= Len(s)
  BY <1>1
<1>3. PICK k \in T : \A y \in T : k >= y
  <2>. HIDE DEF T
  <2>. QED
    BY <1>1, <1>2, GreatestNumber
<1>4. \A l \in DOMAIN s : l > k => ~Turn(s[l], p)
  BY <1>1, <1>3
<1>5. i <= k
  BY <1>1, <1>3
<1>. QED
  BY <1>3, <1>4, <1>5 DEF LastTurn

\* What the user does next, reported as r, fits a series: it touches the paths of
\* S only, the paths of the links it touches are no longer clean, and a path that
\* comes first can be paired with the last deletion.
Fits(s, r, cl, d, ls, g, c2, d2, l2, g2, S) ==
  /\ RawOK(s, cl, d, ls, g) /\ c2 \in SUBSET cl /\ ls \subseteq l2
  /\ \A p \in c2 : p \notin S => d2[p] = d[p]
  /\ \A i \in DOMAIN r : \A x \in Paths : Mentions(r[i], x) => x \in S
  /\ \A p \in c2 : p \in S =>
       /\ RawModify(r, p, d2) /\ RawTurn(r, p, d2) /\ RawRemoves(r, p)
       /\ \E i \in DOMAIN r : Mentions(r[i], p)
       /\ (\E i \in DOMAIN r : Turn(r[i], p)) \/ (d2[p] = Absent <=> d[p] = Absent)
  /\ \A p \in c2 : \A i \in DOMAIN r : r[i].kind = "remove" /\ r[i].path = p => d[p] # Absent
  /\ \A x, y \in Paths : <<x, y>> \in ls /\ (x \in S \/ y \in S) => x \notin c2
  /\ \A p \in c2 : p \notin Spinning(s \o r)
  /\ RawLinks(r, c2, l2) /\ RawGone(r, c2, g2)
  /\ (\E i \in DOMAIN r : r[i].kind \notin Silent) \/ g2 = g
  /\ \A i \in DOMAIN r :
       r[i].kind = "create" /\ (\A k \in DOMAIN r : k < i => r[k].kind \in Silent)
         /\ g # r[i].path /\ g \in c2 =>
           /\ <<g, r[i].path>> \in l2
           /\ \A k \in DOMAIN r : k > i => ~Mentions(r[k], r[i].path) /\ ~Mentions(r[k], g)

\* Then it keeps the invariant of the series.
LEMMA RawAppend ==
  ASSUME NEW s \in Seq(RawEvents), NEW r \in Seq(RawEvents),
         NEW cl \in SUBSET Paths, NEW d, NEW ls, NEW g,
         NEW c2, NEW d2, NEW l2, NEW g2, NEW S, Fits(s, r, cl, d, ls, g, c2, d2, l2, g2, S)
  PROVE  RawOK(s \o r, c2, d2, l2, g2)
<1>. USE DEF Fits
<1>. DEFINE w == s \o r
            n == Len(s)
<1>0. /\ w \in Seq(RawEvents) /\ n \in Nat
      /\ \A i \in DOMAIN s : i \in Nat /\ i <= n /\ i \in DOMAIN w /\ w[i] = s[i]
      /\ \A i \in DOMAIN r : i \in Nat /\ i > 0 /\ i + n \in DOMAIN w /\ w[i + n] = r[i]
      /\ \A k \in DOMAIN w :
           /\ k \in Nat
           /\ k <= n => k \in DOMAIN s /\ w[k] = s[k]
           /\ k > n => k - n \in DOMAIN r /\ w[k] = r[k - n] /\ (k - n) + n = k
      /\ SuffixOf(r, w, n)
  BY AppendIndices, SMTT(30)
<1>. HIDE DEF w, n
<1>a. \A p \in c2 : p \notin S => \A i \in DOMAIN r : ~Mentions(r[i], p)
  OBVIOUS
<1>b. \A p \in c2 : RawClean(s, p, d)
  BY DEF RawOK
<1>c. \A j \in DOMAIN r : \A k \in DOMAIN r : k > j => k + n > j + n
  BY <1>0
<1>1. ASSUME NEW p \in c2 PROVE RawModify(w, p, d2)
  <2>1. SUFFICES ASSUME NEW j \in DOMAIN w, LastMention(w, p, j), w[j].kind = "modify"
                 PROVE  d2[p] # Absent
    BY DEF RawModify
  <2>2. CASE j <= n
    <3>1. j \in DOMAIN s /\ w[j] = s[j]
      BY <1>0, <2>2
    <3>2. \A i \in DOMAIN r : ~Mentions(r[i], p)
      <4>1. ASSUME NEW i \in DOMAIN r PROVE i + n > j
        BY <1>0, <2>2
      <4>. QED
        BY <1>0, <2>1, <4>1 DEF LastMention
    <3>3. p \notin S
      BY <3>2
    <3>4. LastMention(s, p, j)
      BY <1>0, <2>1, <3>1 DEF LastMention
    <3>. QED
      BY <1>b, <2>1, <3>1, <3>3, <3>4 DEF RawClean, RawModify
  <2>3. CASE j > n
    <3>1. j - n \in DOMAIN r /\ w[j] = r[j - n]
      BY <1>0, <2>3
    <3>2. p \in S
      BY <1>a, <2>1, <3>1 DEF LastMention
    <3>3. ASSUME NEW k \in DOMAIN r, k > j - n PROVE ~Mentions(r[k], p)
      <4>1. k + n > j
        BY <1>0, <3>3
      <4>. QED
        BY <1>0, <2>1, <4>1 DEF LastMention
    <3>4. LastMention(r, p, j - n)
      BY <2>1, <3>1, <3>3 DEF LastMention
    <3>. QED
      BY <2>1, <3>1, <3>2, <3>4 DEF RawModify
  <2>. QED
    BY <1>0, <2>2, <2>3
<1>2. ASSUME NEW p \in c2 PROVE RawTurn(w, p, d2)
  <2>1. SUFFICES ASSUME NEW j \in DOMAIN w, LastTurn(w, p, j)
                 PROVE  Plus(w[j], p) <=> d2[p] # Absent
    BY DEF RawTurn
  <2>2. CASE j <= n
    <3>1. j \in DOMAIN s /\ w[j] = s[j]
      BY <1>0, <2>2
    <3>2. \A i \in DOMAIN r : ~Turn(r[i], p)
      <4>1. ASSUME NEW i \in DOMAIN r PROVE i + n > j
        BY <1>0, <2>2
      <4>. QED
        BY <1>0, <2>1, <4>1 DEF LastTurn
    <3>3. d2[p] = Absent <=> d[p] = Absent
      BY <3>2
    <3>4. LastTurn(s, p, j)
      BY <1>0, <2>1, <3>1 DEF LastTurn
    <3>. QED
      BY <1>b, <3>1, <3>3, <3>4 DEF RawClean, RawTurn
  <2>3. CASE j > n
    <3>1. j - n \in DOMAIN r /\ w[j] = r[j - n]
      BY <1>0, <2>3
    <3>2. p \in S
      BY <1>a, <2>1, <3>1 DEF LastTurn, Turn
    <3>3. ASSUME NEW k \in DOMAIN r, k > j - n PROVE ~Turn(r[k], p)
      <4>1. k + n > j
        BY <1>0, <3>3
      <4>. QED
        BY <1>0, <2>1, <4>1 DEF LastTurn
    <3>4. LastTurn(r, p, j - n)
      BY <2>1, <3>1, <3>3 DEF LastTurn
    <3>. QED
      BY <3>1, <3>2, <3>4 DEF RawTurn
  <2>. QED
    BY <1>0, <2>2, <2>3
<1>3. ASSUME NEW p \in c2 PROVE RawRemoves(w, p)
  <2>1. SUFFICES ASSUME NEW i \in DOMAIN w, NEW j \in DOMAIN w, i < j,
                        w[i].kind = "remove", w[i].path = p, w[j].kind = "remove", w[j].path = p
                 PROVE  FALSE
    BY DEF RawRemoves
  <2>2. CASE j <= n
    <3>1. i \in DOMAIN s /\ j \in DOMAIN s /\ w[i] = s[i] /\ w[j] = s[j]
      BY <1>0, <2>1, <2>2
    <3>. QED
      BY <1>b, <2>1, <3>1 DEF RawClean, RawRemoves
  <2>3. CASE i > n
    <3>1. i - n \in DOMAIN r /\ j - n \in DOMAIN r /\ w[i] = r[i - n] /\ w[j] = r[j - n]
          /\ i - n < j - n
      BY <1>0, <2>1, <2>3
    <3>2. p \in S
      BY <1>a, <2>1, <3>1 DEF Mentions
    <3>. QED
      BY <2>1, <3>1, <3>2 DEF RawRemoves
  <2>4. CASE i <= n /\ j > n
    <3>1. i \in DOMAIN s /\ w[i] = s[i] /\ j - n \in DOMAIN r /\ w[j] = r[j - n]
      BY <1>0, <2>4
    <3>2. d[p] # Absent
      BY <2>1, <3>1
    <3>3. Turn(s[i], p) /\ Turn(w[j], p) /\ Turn(w[i], p)
      BY <2>1, <3>1 DEF Turn, Mentions
    <3>4. PICK k \in DOMAIN s : LastTurn(s, p, k) /\ i <= k
      BY <3>1, <3>3, LastTurnExists
    <3>5. Plus(s[k], p)
      BY <1>b, <3>2, <3>4 DEF RawClean, RawTurn
    <3>6. k # i
      BY <2>1, <3>1, <3>5 DEF Plus
    <3>7. i < k /\ k < j /\ k \in DOMAIN w /\ Turn(w[k], p)
      BY <1>0, <2>4, <3>1, <3>4, <3>6, SMTT(30) DEF LastTurn
    <3>8. p \in Spinning(w)
      <4>1. p \in Paths
        OBVIOUS
      <4>. QED
        BY <3>3, <3>7, <4>1, Zenon DEF Spinning
    <3>. QED
      BY <3>8 DEF w
  <2>. QED
    BY <1>0, <2>2, <2>3, <2>4
<1>4. RawLinks(w, c2, l2)
  <2>1. SUFFICES ASSUME NEW old \in c2, NEW new \in Paths, NEW j \in DOMAIN w,
                        Moved(w, old, new, j), old # new
                 PROVE  /\ <<old, new>> \in l2
                        /\ \A k \in DOMAIN w : k > j => ~Mentions(w[k], old) /\ ~Mentions(w[k], new)
    BY DEF RawLinks
  <2>2. CASE j <= n
    <3>1. j \in DOMAIN s /\ w[j] = s[j]
      BY <1>0, <2>2
    <3>2. Moved(s, old, new, j)
      <4>1. CASE w[j].kind = "both" /\ w[j].path = old /\ w[j].to = new
        BY <3>1, <4>1 DEF Moved
      <4>2. CASE \E i \in DOMAIN w : Paired(w, i, j) /\ w[i].path = old /\ w[j].path = new
        <5>1. PICK i \in DOMAIN w : Paired(w, i, j) /\ w[i].path = old /\ w[j].path = new
          BY <4>2
        <5>2. i < j /\ i \in DOMAIN s /\ w[i] = s[i]
          BY <1>0, <2>2, <5>1 DEF Paired
        <5>3. \A k \in (i + 1) .. (j - 1) : s[k].kind \in Silent
          <6>1. ASSUME NEW k \in (i + 1) .. (j - 1) PROVE k \in DOMAIN s
            <7>1. DOMAIN s = 1 .. Len(s) /\ Len(s) \in Nat
              BY LenProperties
            <7>. QED
              BY <1>0, <3>1, <5>2, <7>1
          <6>2. \A k \in (i + 1) .. (j - 1) : w[k] = s[k]
            BY <1>0, <6>1
          <6>. QED
            BY <5>1, <6>2 DEF Paired
        <5>4. Paired(s, i, j)
          BY <3>1, <5>1, <5>2, <5>3 DEF Paired
        <5>. QED
          BY <3>1, <5>1, <5>2, <5>4 DEF Moved
      <4>. QED
        BY <2>1, <4>1, <4>2 DEF Moved
    <3>3. /\ <<old, new>> \in ls
          /\ \A k \in DOMAIN s : k > j => ~Mentions(s[k], old) /\ ~Mentions(s[k], new)
      BY <2>1, <3>1, <3>2 DEF RawOK, RawLinks
    <3>4. old \notin S /\ new \notin S
      BY <3>3
    <3>5. ASSUME NEW k \in DOMAIN w, k > j PROVE ~Mentions(w[k], old) /\ ~Mentions(w[k], new)
      <4>1. CASE k <= n
        BY <1>0, <3>3, <3>5, <4>1
      <4>2. CASE k > n
        BY <1>0, <3>4, <4>2
      <4>. QED
        BY <1>0, <4>1, <4>2
    <3>. QED
      BY <3>3, <3>5
  <2>3. CASE j > n
    <3>1. j - n \in DOMAIN r /\ w[j] = r[j - n] /\ (j - n) + n = j
      BY <1>0, <2>3
    <3>2. ASSUME NEW k \in DOMAIN w, k > j PROVE k - n \in DOMAIN r /\ w[k] = r[k - n] /\ k - n > j - n
      BY <1>0, <2>3, <3>2
    <3>3. CASE Moved(r, old, new, j - n)
      <4>1. /\ <<old, new>> \in l2
            /\ \A k \in DOMAIN r : k > j - n => ~Mentions(r[k], old) /\ ~Mentions(r[k], new)
        BY <2>1, <3>1, <3>3 DEF RawLinks
      <4>. QED
        BY <3>2, <4>1
    <3>4. CASE ~Moved(r, old, new, j - n)
      <4>1. PICK i \in DOMAIN w : Paired(w, i, j) /\ w[i].path = old /\ w[j].path = new
        BY <2>1, <3>1, <3>4 DEF Moved
      <4>2. i <= n
        <5>1. SUFFICES ASSUME i > n PROVE FALSE
          BY <1>0
        <5>2. i - n \in DOMAIN r /\ w[i] = r[i - n] /\ (i - n) + n = i
          BY <1>0, <5>1
        <5>3. PICK x \in DOMAIN r : x = i - n
          BY <5>2
        <5>4. PICK y \in DOMAIN r : y = j - n
          BY <3>1
        <5>5. SuffixOf(r, w, n) /\ w \in Seq(RawEvents)
          BY <1>0
        <5>6. x + n = i /\ y + n = j
          BY <3>1, <5>2, <5>3, <5>4
        <5>7. Paired(r, x, y) <=> Paired(w, x + n, y + n)
          BY <5>5, SuffixPaired
        <5>8. Paired(r, x, y)
          BY <4>1, <5>6, <5>7
        <5>. QED
          BY <3>1, <3>4, <4>1, <5>2, <5>3, <5>4, <5>8 DEF Moved
      <4>3. i \in DOMAIN s /\ w[i] = s[i] /\ s[i].kind = "remove" /\ s[i].path = old
            /\ r[j - n].kind = "create" /\ r[j - n].path = new
        BY <1>0, <3>1, <4>1, <4>2 DEF Paired
      <4>4. ASSUME NEW k \in DOMAIN s, k > i PROVE s[k].kind \in Silent
        <5>1. k \in (i + 1) .. (j - 1) /\ w[k] = s[k]
          BY <1>0, <2>3, <4>4, SMTT(30)
        <5>. QED
          BY <4>1, <5>1 DEF Paired
      <4>5. g = old
        BY <4>3, <4>4 DEF RawOK, RawGone
      <4>6. ASSUME NEW k \in DOMAIN r, k < j - n PROVE r[k].kind \in Silent
        <5>1. k + n \in (i + 1) .. (j - 1) /\ w[k + n] = r[k]
          BY <1>0, <2>3, <4>2, <4>6, SMTT(30)
        <5>. QED
          BY <4>1, <5>1 DEF Paired
      <4>7. /\ <<old, new>> \in l2
            /\ \A k \in DOMAIN r : k > j - n => ~Mentions(r[k], new) /\ ~Mentions(r[k], old)
        BY <2>1, <3>1, <4>3, <4>5, <4>6
      <4>. QED
        BY <3>2, <4>7
    <3>. QED
      BY <3>3, <3>4
  <2>. QED
    BY <1>0, <2>2, <2>3
<1>5. RawGone(w, c2, g2)
  <2>1. SUFFICES ASSUME NEW i \in DOMAIN w, w[i].kind = "remove", w[i].path \in c2,
                        \A k \in DOMAIN w : k > i => w[k].kind \in Silent
                 PROVE  g2 = w[i].path
    BY DEF RawGone
  <2>2. CASE i <= n
    <3>1. i \in DOMAIN s /\ w[i] = s[i]
      BY <1>0, <2>2
    <3>2. ASSUME NEW k \in DOMAIN r PROVE r[k].kind \in Silent
      <4>1. k + n > i
        BY <1>0, <2>2
      <4>. QED
        BY <1>0, <2>1, <4>1
    <3>3. g2 = g
      BY <3>2
    <3>4. \A k \in DOMAIN s : k > i => s[k].kind \in Silent
      BY <1>0, <2>1
    <3>. QED
      BY <2>1, <3>1, <3>3, <3>4 DEF RawOK, RawGone
  <2>3. CASE i > n
    <3>1. i - n \in DOMAIN r /\ w[i] = r[i - n]
      BY <1>0, <2>3
    <3>2. ASSUME NEW k \in DOMAIN r, k > i - n PROVE r[k].kind \in Silent
      <4>1. k + n > i
        BY <1>0, <3>2
      <4>. QED
        BY <1>0, <2>1, <4>1
    <3>. QED
      BY <2>1, <3>1, <3>2 DEF RawGone
  <2>. QED
    BY <1>0, <2>2, <2>3
<1>. QED
  BY <1>1, <1>2, <1>3, <1>4, <1>5 DEF RawOK, RawClean, w

-----------------------------------------------------------------------------
(* The user's steps.                                                       *)

LEMMA InFlightTyped ==
  ASSUME ShapeInv
  PROVE  /\ InFlight \in Seq(RawEvents)
         /\ queue \in Seq(RawEvents) /\ wire \in Seq(RawEvents) /\ queue \o wire \in Seq(RawEvents)
BY ConcatProperties DEF InFlight, ShapeInv, TypeOK

LEMMA SpinningSuffix ==
  ASSUME NEW s \in Seq(RawEvents), NEW t \in Seq(RawEvents), NEW n, SuffixOf(t, s, n)
  PROVE  Spinning(t) \subseteq Spinning(s)
<1>0. /\ \A k \in DOMAIN t : k \in Nat /\ k + n \in DOMAIN s /\ s[k + n] = t[k]
      /\ n \in Nat
  BY SuffixIndices DEF SuffixOf
<1>1. SUFFICES ASSUME NEW p \in Spinning(t) PROVE p \in Spinning(s)
  OBVIOUS
<1>2. PICK i \in DOMAIN t : \E j \in DOMAIN t : \E k \in DOMAIN t :
        i < j /\ j < k /\ Turn(t[i], p) /\ Turn(t[j], p) /\ Turn(t[k], p)
  BY <1>1 DEF Spinning
<1>3. PICK j \in DOMAIN t : \E k \in DOMAIN t :
        i < j /\ j < k /\ Turn(t[i], p) /\ Turn(t[j], p) /\ Turn(t[k], p)
  BY <1>2
<1>4. PICK k \in DOMAIN t :
        i < j /\ j < k /\ Turn(t[i], p) /\ Turn(t[j], p) /\ Turn(t[k], p)
  BY <1>3
<1>5. /\ i + n \in DOMAIN s /\ j + n \in DOMAIN s /\ k + n \in DOMAIN s
      /\ i + n < j + n /\ j + n < k + n
      /\ Turn(s[i + n], p) /\ Turn(s[j + n], p) /\ Turn(s[k + n], p)
  BY <1>0, <1>4
<1>6. p \in Paths
  BY <1>1 DEF Spinning
<1>. QED
  BY <1>5, <1>6, Zenon DEF Spinning

LEMMA UserInFlight ==
  ASSUME ShapeInv, NEW raw \in Seq(RawEvents), wire' = wire \o raw, UNCHANGED <<queue, dropped>>
  PROVE  /\ InFlight' = InFlight \o raw
         /\ Spinning(InFlight \o raw) \subseteq Spinning(queue \o wire \o raw)
<1>1. queue \in Seq(RawEvents) /\ wire \in Seq(RawEvents) /\ InFlight \in Seq(RawEvents)
  BY InFlightTyped
<1>2. (queue \o wire) \o raw = queue \o (wire \o raw) /\ wire \o raw \in Seq(RawEvents)
  <2>1. (queue \o wire) \o raw = queue \o (wire \o raw)
    BY <1>1, ConcatAssociative, SMTT(30)
  <2>2. wire \o raw \in Seq(RawEvents)
    BY <1>1, ConcatProperties
  <2>. QED
    BY <2>1, <2>2
<1>3. InFlight' = InFlight \o raw
  BY <1>2 DEF InFlight
<1>4. Spinning(InFlight \o raw) \subseteq Spinning(queue \o wire \o raw)
  <2>1. CASE dropped = 0
    BY <2>1 DEF InFlight
  <2>2. CASE dropped # 0
    <3>1. SuffixOf(wire \o raw, queue \o (wire \o raw), Len(queue))
          /\ queue \o (wire \o raw) \in Seq(RawEvents)
      BY <1>1, <1>2, AppendIndices
    <3>2. Spinning(wire \o raw) \subseteq Spinning(queue \o (wire \o raw))
      BY <1>2, <3>1, SpinningSuffix
    <3>. QED
      BY <1>2, <2>2, <3>2 DEF InFlight
  <2>. QED
    BY <2>1, <2>2
<1>. QED
  BY <1>3, <1>4

LEMMA SilenceConcat ==
  ASSUME NEW s \in Seq(RawEvents), NEW r \in Seq(RawEvents), NEW p
  PROVE  Silence(s \o r, p) <=> Silence(s, p) /\ Silence(r, p)
<1>. DEFINE w == s \o r
            n == Len(s)
<1>0. /\ \A i \in DOMAIN s : i \in DOMAIN w /\ w[i] = s[i]
      /\ \A i \in DOMAIN r : i + n \in DOMAIN w /\ w[i + n] = r[i]
      /\ \A k \in DOMAIN w :
           /\ k <= n => k \in DOMAIN s /\ w[k] = s[k]
           /\ k > n => k - n \in DOMAIN r /\ w[k] = r[k - n]
      /\ \A k \in DOMAIN w : k <= n \/ k > n
  BY AppendIndices
<1>. HIDE DEF w, n
<1>1. Silence(w, p) <=> Silence(s, p) /\ Silence(r, p)
  BY <1>0 DEF Silence
<1>. QED
  BY <1>1 DEF w

\* What is known of the series before the user acts: at rest there is none.
OldClean == IF AtRest THEN Paths ELSE CleanPaths

LEMMA OldRaw ==
  ASSUME ShapeInv, RawInv
  PROVE  RawOK(InFlight, OldClean, disk, PastLinks, gone) /\ OldClean \in SUBSET Paths
<1>1. CASE AtRest
  <2>1. InFlight = <<>>
    <3>1. <<>> \o <<>> = <<>>
      BY EmptySeq, ConcatEmptySeq
    <3>. QED
      BY <1>1, <3>1 DEF AtRest, InFlight
  <2>2. DOMAIN InFlight = {}
    BY <2>1
  <2>3. \A p \in Paths : RawClean(InFlight, p, disk)
    BY <2>2 DEF RawClean, RawModify, RawTurn, RawRemoves, Spinning
  <2>4. RawLinks(InFlight, Paths, PastLinks) /\ RawGone(InFlight, Paths, gone)
    BY <2>2 DEF RawLinks, RawGone
  <2>. QED
    BY <1>1, <2>3, <2>4 DEF RawOK, OldClean
<1>2. CASE ~AtRest
  BY <1>2 DEF RawInv, OldClean, PastLinks, CleanPaths
<1>. QED
  BY <1>1, <1>2

\* The paths that are clean after a step of the user: before it they were clean
\* or, at rest, current.
LEMMA UserClean ==
  ASSUME ShapeInv, WatchInv, NEW raw \in Seq(RawEvents),
         NEW S, NEW torn, NEW new, NEW deleted, NEW lost,
         UserStep(raw, S, torn, new, deleted, lost)
  PROVE  /\ CleanPaths' \in SUBSET OldClean /\ CleanPaths' \in SUBSET Paths
         /\ AtRest => \A p \in CleanPaths' : Current(p)
         /\ ~AtRest => CleanPaths' \subseteq CleanPaths
         /\ \A p \in CleanPaths' : Consistent(p)
         /\ \A p \in CleanPaths' : p \notin Torn(torn, S) /\ p \notin Spinning(InFlight \o raw)
         /\ InFlight' = InFlight \o raw
<1>0. InFlight' = InFlight \o raw /\ Spinning(InFlight \o raw) \subseteq Spinning(queue \o wire \o raw)
  BY UserInFlight DEF UserStep
<1>1. /\ tangled' = Past(tangled) \cup Torn(torn, S) \cup Spinning(queue \o wire \o raw)
      /\ missed' = Past(missed) \cup lost /\ mixed' = Past(mixed)
  BY DEF UserStep
<1>2. CleanPaths' = Paths \ (tangled' \cup missed' \cup mixed')
  BY DEF CleanPaths
<1>3. ASSUME AtRest, NEW p \in CleanPaths' PROVE Current(p)
  <2>1. CASE p \in tangled \cup missed \cup mixed
    <3>1. p \notin Past(tangled) /\ p \notin Past(missed) /\ p \notin Past(mixed)
      BY <1>1, <1>2
    <3>. QED
      BY <1>3, <2>1, <3>1 DEF Past
  <2>2. CASE p \notin tangled \cup missed \cup mixed
    <3>1. p \in CleanPaths /\ dropped = 0 /\ pc = "idle"
      BY <1>2, <1>3, <2>2 DEF CleanPaths, AtRest
    <3>2. DOMAIN InFlight = {}
      <4>1. <<>> \o <<>> = <<>>
        BY EmptySeq, ConcatEmptySeq
      <4>. QED
        BY <1>3, <4>1 DEF AtRest, InFlight
    <3>3. p \in Settled
      BY <3>1, <3>2 DEF Settled, Quiet, Silence
    <3>4. DOMAIN events = {}
      BY <3>1 DEF ShapeInv
    <3>5. hash[p] = disk[p]
      BY <3>1, <3>3, <3>4 DEF WatchInv, EventInv
    <3>6. Consistent(p)
      BY <3>1 DEF WatchInv, SliceInv
    <3>. QED
      BY <3>5, <3>6 DEF Current
  <2>. QED
    BY <2>1, <2>2
<1>4. ASSUME ~AtRest PROVE CleanPaths' \subseteq CleanPaths
  BY <1>1, <1>2, <1>4 DEF Past, CleanPaths
<1>5. ASSUME NEW p \in CleanPaths' PROVE Consistent(p)
  <2>1. CASE AtRest
    BY <1>3, <2>1 DEF Current
  <2>2. CASE ~AtRest
    BY <1>4, <2>2 DEF WatchInv, SliceInv
  <2>. QED
    BY <2>1, <2>2
<1>6. CleanPaths' \in SUBSET OldClean /\ CleanPaths' \in SUBSET Paths
  BY <1>2, <1>4 DEF OldClean
<1>. QED
  BY <1>0, <1>1, <1>2, <1>3, <1>4, <1>5, <1>6

\* A step of the user that keeps the invariant of the raw events keeps the rest.
LEMMA UserKeeps ==
  ASSUME ShapeInv, WatchInv, NEW raw \in Seq(RawEvents),
         NEW S \in SUBSET Paths, NEW torn \in SUBSET (Paths \X Paths),
         NEW new \in SUBSET (Paths \X Paths), NEW deleted, NEW lost,
         UserStep(raw, S, torn, new, deleted, lost), PastLinks \subseteq torn,
         \A p \in Paths : p \notin S => disk'[p] = disk[p],
         \A p \in Paths : p \in S <=> ~Silence(raw, p),
         RawInv'
  PROVE  WatchInv'
<1>0. /\ CleanPaths' \in SUBSET Paths
      /\ AtRest => \A p \in CleanPaths' : Current(p)
      /\ ~AtRest => CleanPaths' \subseteq CleanPaths
      /\ \A p \in CleanPaths' : Consistent(p)
      /\ \A p \in CleanPaths' : p \notin Torn(torn, S)
      /\ InFlight' = InFlight \o raw
  BY UserClean
<1>1. UNCHANGED <<hash, node, queue, dropped, pc, events, plan, moves, stale, parse>>
  BY DEF UserStep, graph, work
<1>2. InFlight \in Seq(RawEvents)
  BY InFlightTyped
<1>a. \A p \in Paths : Silence(InFlight', p) <=> Quiet(p) /\ p \notin S
  <2>1. \A p \in Paths : Silence(InFlight \o raw, p) <=> Silence(InFlight, p) /\ Silence(raw, p)
    BY <1>2, SilenceConcat
  <2>. QED
    BY <1>0, <2>1 DEF Quiet
<1>3. \A p \in Paths : Quiet(p)' <=> Quiet(p) /\ p \notin S
  <2>1. \A p \in Paths : Quiet(p)' <=> Silence(InFlight', p)
    BY DEF Quiet, Silence
  <2>. QED
    BY <1>a, <2>1
<1>4. \A p \in Settled' : p \in Paths /\ p \in CleanPaths' /\ disk'[p] = disk[p] /\ (~AtRest => p \in Settled)
  BY <1>0, <1>1, <1>3 DEF Settled
<1>5. ~AtRest => links \subseteq links' /\ PastLinks = links
  BY DEF UserStep, PastLinks
<1>6. ASSUME ~AtRest, NEW x \in CleanPaths', NEW y \in Paths, <<x, y>> \in links
      PROVE  x \notin S /\ y \notin S
  <2>1. <<x, y>> \in torn /\ x \in Paths
    BY <1>0, <1>5, <1>6
  <2>. QED
    BY <1>0, <2>1, TornTyped
<1>7. EventInv'
  <2>1. \A p \in Settled' : EventClean(p)'
    <3>1. CASE AtRest
      <4>1. DOMAIN events = {}
        BY <3>1 DEF AtRest, ShapeInv
      <4>. QED
        BY <1>1, <4>1 DEF EventClean
    <3>2. CASE ~AtRest
      BY <1>1, <1>4, <3>2 DEF EventClean, WatchInv, EventInv, LastTouch
    <3>. QED
      BY <3>1, <3>2
  <2>2. dropped' = 0 => EventLinks'
    <3>1. CASE AtRest
      <4>1. DOMAIN events = {}
        BY <3>1 DEF AtRest, ShapeInv
      <4>. QED
        BY <1>1, <4>1 DEF EventLinks
    <3>2. CASE ~AtRest
      <4>1. SUFFICES ASSUME dropped = 0, NEW k \in DOMAIN events,
                            events[k].kind = "renamed", events[k].old # events[k].path,
                            events[k].old \in CleanPaths'
                     PROVE  /\ <<events[k].old, events[k].path>> \in links'
                            /\ Silence(InFlight', events[k].old) /\ Silence(InFlight', events[k].path)
                            /\ \A l \in DOMAIN events :
                                 l > k => ~Touches(events[l], events[k].old)
                                          /\ ~Touches(events[l], events[k].path)
        BY <1>1 DEF EventLinks, Quiet
      <4>2. /\ <<events[k].old, events[k].path>> \in links
            /\ Quiet(events[k].old) /\ Quiet(events[k].path)
            /\ \A l \in DOMAIN events :
                 l > k => ~Touches(events[l], events[k].old) /\ ~Touches(events[l], events[k].path)
        BY <1>0, <3>2, <4>1 DEF WatchInv, EventInv, EventLinks
      <4>3. events[k].old \in Paths /\ events[k].path \in Paths
        BY <4>1 DEF ShapeInv, EventShape
      <4>4. events[k].old \notin S /\ events[k].path \notin S
        BY <1>6, <3>2, <4>1, <4>2, <4>3
      <4>. QED
        BY <1>a, <1>5, <3>2, <4>2, <4>3, <4>4
    <3>. QED
      BY <3>1, <3>2
  <2>3. pc' \in {"idle", "debounce", "plan"} =>
          \A p \in Settled' : (\A k \in DOMAIN events' : ~Touches(events'[k], p)) => hash'[p] = disk'[p]
    <3>1. CASE AtRest
      BY <1>0, <1>1, <1>4, <3>1 DEF Current
    <3>2. CASE ~AtRest
      BY <1>1, <1>4, <3>2 DEF WatchInv, EventInv
    <3>. QED
      BY <3>1, <3>2
  <2>. QED
    BY <2>1, <2>2, <2>3 DEF EventInv
<1>8. PlanInv'
  <2>1. SUFFICES ASSUME pc = "apply", ~plan.rescan
                 PROVE  /\ dropped = 0 => PlanLinks(plan.changes)'
                        /\ \A p \in Settled' : PlanClean(plan.changes, p)'
    BY <1>1 DEF PlanInv
  <2>2. ~AtRest
    BY <2>1 DEF AtRest
  <2>3. ASSUME dropped = 0 PROVE PlanLinks(plan.changes)'
    <3>1. SUFFICES ASSUME NEW p \in CleanPaths', NEW q \in Paths,
                          plan.changes[q].type = "renamed", plan.changes[q].old = p, p # q
                   PROVE  /\ <<p, q>> \in links' /\ Quiet(p)' /\ Quiet(q)'
                          /\ plan.changes[p] = NoChange /\ disk'[p] = Absent
                          /\ \A r \in Paths :
                               plan.changes[r].type = "renamed" /\ plan.changes[r].old = p => r = q
      BY <1>1 DEF PlanLinks
    <3>2. /\ <<p, q>> \in links /\ Quiet(p) /\ Quiet(q)
          /\ plan.changes[p] = NoChange /\ disk[p] = Absent
          /\ \A r \in Paths :
               plan.changes[r].type = "renamed" /\ plan.changes[r].old = p => r = q
      BY <1>0, <2>1, <2>2, <2>3, <3>1 DEF WatchInv, PlanInv, PlanLinks
    <3>3. p \notin S /\ q \notin S /\ p \in Paths
      BY <1>0, <1>6, <2>2, <3>2
    <3>. QED
      BY <1>3, <1>5, <2>2, <3>2, <3>3
  <2>4. \A p \in Settled' : PlanClean(plan.changes, p)'
    BY <1>1, <1>4, <2>1, <2>2 DEF WatchInv, PlanInv, PlanClean
  <2>. QED
    BY <2>3, <2>4
<1>9. WorkInv'
  <2>1. \A p, q, r \in Paths : <<p, r>> \in moves' /\ <<q, r>> \in moves' => p = q
    BY <1>1 DEF WatchInv, WorkInv
  <2>2. ASSUME dropped' = 0 PROVE WorkLinks'
    <3>1. SUFFICES ASSUME NEW p \in CleanPaths', NEW q \in Paths, <<p, q>> \in moves, p # q
                   PROVE  /\ <<p, q>> \in links' /\ Quiet(p)' /\ Quiet(q)'
                          /\ disk'[p] = Absent /\ p \notin parse
                          /\ \A r \in Paths : <<r, p>> \notin moves /\ (<<p, r>> \in moves => r = q)
      BY <1>1 DEF WorkLinks
    <3>2. ~AtRest
      BY <3>1 DEF AtRest, ShapeInv
    <3>3. /\ <<p, q>> \in links /\ Quiet(p) /\ Quiet(q)
          /\ disk[p] = Absent /\ p \notin parse
          /\ \A r \in Paths : <<r, p>> \notin moves /\ (<<p, r>> \in moves => r = q)
      BY <1>0, <1>1, <2>2, <3>1, <3>2 DEF WatchInv, WorkInv, WorkLinks
    <3>4. p \notin S /\ q \notin S /\ p \in Paths
      BY <1>0, <1>6, <3>2, <3>3
    <3>. QED
      BY <1>3, <1>5, <3>2, <3>3, <3>4
  <2>3. ASSUME pc' \in {"update", "write"}, NEW p \in Settled' PROVE WorkClean(p)'
    <3>1. ~AtRest
      BY <1>1, <2>3 DEF AtRest
    <3>2. WorkClean(p) /\ disk'[p] = disk[p]
      BY <1>1, <1>4, <2>3, <3>1 DEF WatchInv, WorkInv
    <3>. QED
      BY <1>0, <1>1, <3>1, <3>2 DEF WorkClean
  <2>. QED
    BY <2>1, <2>2, <2>3 DEF WorkInv
<1>10. SliceInv'
  <2>1. \A p \in Paths : NodesAt(p)' = NodesAt(p)
    BY <1>1 DEF NodesAt
  <2>2. ASSUME NEW p \in CleanPaths' PROVE Consistent(p)'
    <3>1. Consistent(p) /\ NodesAt(p)' = NodesAt(p)
      BY <1>0, <2>1
    <3>2. {node[o].of : o \in NodesAt(p)}' = {node[o].of : o \in NodesAt(p)} /\ hash'[p] = hash[p]
      BY <1>1, <3>1
    <3>. QED
      BY <3>1, <3>2, Zenon DEF Consistent
  <2>. QED
    BY <2>2 DEF SliceInv
<1>. QED
  BY <1>7, <1>8, <1>9, <1>10 DEF WatchInv

\* What the user does is reported: the raw events tell of the paths of S, as they
\* are then.
Told(raw, S, deleted) ==
  /\ \A p \in Paths : p \notin S => disk'[p] = disk[p]
  /\ \A p \in Paths : p \in S <=> ~Silence(raw, p)
  /\ \A p \in CleanPaths' : p \in S =>
       /\ RawModify(raw, p, disk') /\ RawTurn(raw, p, disk') /\ RawRemoves(raw, p)
       /\ (\E i \in DOMAIN raw : Turn(raw[i], p)) \/ (disk'[p] = Absent <=> disk[p] = Absent)
  /\ \A p \in Paths : \A i \in DOMAIN raw :
       raw[i].kind = "remove" /\ raw[i].path = p => disk[p] # Absent
  /\ RawLinks(raw, CleanPaths', links') /\ RawGone(raw, CleanPaths', deleted)
  /\ \E i \in DOMAIN raw : raw[i].kind \notin Silent
  /\ \A i \in DOMAIN raw :
       /\ raw[i].kind = "create" /\ (\A k \in DOMAIN raw : k < i => raw[k].kind \in Silent)
       /\ ~AtRest /\ gone # raw[i].path /\ gone \in CleanPaths'
       => /\ <<gone, raw[i].path>> \in links'
          /\ \A k \in DOMAIN raw :
               k > i => ~Mentions(raw[k], raw[i].path) /\ ~Mentions(raw[k], gone)

\* Such a step keeps the invariant.
LEMMA UserInv ==
  ASSUME ShapeInv, WatchInv, NEW raw \in Seq(RawEvents),
         NEW S \in SUBSET Paths, NEW torn \in SUBSET (Paths \X Paths),
         NEW new \in SUBSET (Paths \X Paths), NEW deleted, NEW lost,
         UserStep(raw, S, torn, new, deleted, lost), PastLinks \subseteq torn,
         Told(raw, S, deleted)
  PROVE  WatchInv'
<1>. USE DEF Told
<1>0. /\ CleanPaths' \in SUBSET OldClean /\ CleanPaths' \in SUBSET Paths
      /\ \A p \in CleanPaths' : p \notin Torn(torn, S) /\ p \notin Spinning(InFlight \o raw)
      /\ InFlight' = InFlight \o raw
  BY UserClean
<1>1. InFlight \in Seq(RawEvents)
  BY InFlightTyped
<1>2. RawOK(InFlight, OldClean, disk, PastLinks, gone) /\ OldClean \in SUBSET Paths
  BY OldRaw DEF WatchInv
<1>3. PICK g : g = IF AtRest THEN NoPath ELSE gone
  OBVIOUS
<1>4. RawOK(InFlight, OldClean, disk, PastLinks, g)
  <2>1. CASE AtRest
    <3>1. InFlight = <<>>
      <4>1. <<>> \o <<>> = <<>>
        BY EmptySeq, ConcatEmptySeq
      <4>. QED
        BY <2>1, <4>1 DEF AtRest, InFlight
    <3>2. RawGone(InFlight, OldClean, g)
      BY <3>1 DEF RawGone
    <3>. QED
      BY <1>2, <3>2 DEF RawOK
  <2>2. CASE ~AtRest
    BY <1>2, <1>3, <2>2
  <2>. QED
    BY <2>1, <2>2
<1>5. links' = PastLinks \cup new /\ gone' = deleted
  BY DEF UserStep
<1>6. \A x, y \in Paths : <<x, y>> \in PastLinks /\ (x \in S \/ y \in S) => x \notin CleanPaths'
  <2>1. \A x, y \in Paths : <<x, y>> \in torn /\ (x \in S \/ y \in S) => x \in Torn(torn, S)
    BY TornTyped
  <2>. QED
    BY <1>0, <2>1
<1>7. \A p \in CleanPaths' : p \in S => \E i \in DOMAIN raw : Mentions(raw[i], p)
  BY <1>0 DEF Silence
<1>8. \A i \in DOMAIN raw : \A x \in Paths : Mentions(raw[i], x) => x \in S
  BY DEF Silence
<1>9. \A i \in DOMAIN raw :
        raw[i].kind = "create" /\ (\A k \in DOMAIN raw : k < i => raw[k].kind \in Silent)
          /\ g # raw[i].path /\ g \in CleanPaths' =>
            /\ <<g, raw[i].path>> \in links'
            /\ \A k \in DOMAIN raw : k > i => ~Mentions(raw[k], raw[i].path) /\ ~Mentions(raw[k], g)
  <2>1. CASE AtRest
    <3>1. g \notin CleanPaths'
      BY <1>0, <1>3, <2>1
    <3>. QED
      BY <3>1
  <2>2. CASE ~AtRest
    <3>1. g = gone
      BY <1>3, <2>2
    <3>. QED
      BY <2>2, <3>1, Zenon
  <2>. QED
    BY <2>1, <2>2
<1>10. PastLinks \subseteq links'
  BY <1>5
<1>11. RawOK(InFlight \o raw, CleanPaths', disk', links', gone')
  <2>1. PICK c2 : c2 = CleanPaths'
    OBVIOUS
  <2>2. PICK d2 : d2 = disk'
    OBVIOUS
  <2>3. PICK l2 : l2 = links'
    OBVIOUS
  <2>a. c2 \in SUBSET OldClean /\ PastLinks \subseteq l2 /\ (\A p \in c2 : p \notin S => d2[p] = disk[p])
    BY <1>0, <1>10, <2>1, <2>2, <2>3
  <2>b. \A p \in c2 : p \in S =>
           /\ RawModify(raw, p, d2) /\ RawTurn(raw, p, d2) /\ RawRemoves(raw, p)
           /\ \E i \in DOMAIN raw : Mentions(raw[i], p)
           /\ (\E i \in DOMAIN raw : Turn(raw[i], p)) \/ (d2[p] = Absent <=> disk[p] = Absent)
    BY <1>7, <2>1, <2>2, Zenon
  <2>c. \A p \in c2 : \A i \in DOMAIN raw : raw[i].kind = "remove" /\ raw[i].path = p => disk[p] # Absent
    BY <1>0, <2>1
  <2>d. \A x, y \in Paths : <<x, y>> \in PastLinks /\ (x \in S \/ y \in S) => x \notin c2
    BY <1>6, <2>1, Zenon
  <2>e. \A p \in c2 : p \notin Spinning(InFlight \o raw)
    BY <1>0, <2>1, Zenon
  <2>f. RawLinks(raw, c2, l2) /\ RawGone(raw, c2, deleted)
    BY <2>1, <2>3, Zenon
  <2>g. \A i \in DOMAIN raw :
        raw[i].kind = "create" /\ (\A k \in DOMAIN raw : k < i => raw[k].kind \in Silent)
          /\ g # raw[i].path /\ g \in c2 =>
            /\ <<g, raw[i].path>> \in l2
            /\ \A k \in DOMAIN raw : k > i => ~Mentions(raw[k], raw[i].path) /\ ~Mentions(raw[k], g)
    BY <1>9, <2>1, <2>3, Zenon
  <2>h. RawOK(InFlight \o raw, c2, d2, l2, deleted)
    <3>1. (\E i \in DOMAIN raw : raw[i].kind \notin Silent) \/ deleted = g
      OBVIOUS
    <3>2. Fits(InFlight, raw, OldClean, disk, PastLinks, g, c2, d2, l2, deleted, S)
      BY <1>4, <1>8, <2>a, <2>b, <2>c, <2>d, <2>e, <2>f, <2>g, <3>1, Zenon DEF Fits
    <3>. QED
      BY <1>1, <1>2, <3>2, RawAppend
  <2>. QED
    BY <1>5, <2>1, <2>2, <2>3, <2>h
<1>12. RawInv'
  BY <1>0, <1>11 DEF RawInv
<1>. QED
  BY <1>12, UserKeeps

LEMMA PastLinksTyped ==
  ASSUME ShapeInv
  PROVE  PastLinks \in SUBSET (Paths \X Paths)
BY DEF PastLinks, ShapeInv, TypeOK

LEMMA WriteInv ==
  ASSUME ShapeInv, WatchInv, NEW p \in Paths, NEW v \in Contents, Write(p, v)
  PROVE  WatchInv'
<1>0. disk \in [Paths -> Values] /\ PastLinks \in SUBSET (Paths \X Paths)
  BY PastLinksTyped DEF ShapeInv, TypeOK
<1>1. PICK a \in RawEvents : /\ a = Raw("modify", p, NoPath) /\ a.kind = "modify"
                             /\ a.path = p /\ a.to = NoPath
  BY RawTyped
<1>2. PICK raw \in Seq(RawEvents) : raw = <<a>> /\ DOMAIN raw = 1 .. 1 /\ raw[1] = a
  BY OneRaw
<1>3. \A i \in DOMAIN raw : i = 1
  BY <1>2
<1>4. 1 \in DOMAIN raw
  BY <1>2
<1>5. UserStep(raw, {p}, PastLinks, {}, NoPath, {}) /\ disk' = [disk EXCEPT ![p] = v] /\ disk[p] # Absent
  BY <1>1, <1>2 DEF Write
<1>6. disk'[p] # Absent /\ disk[p] # Absent /\ \A x \in Paths : x \notin {p} => disk'[x] = disk[x]
  BY <1>0, <1>5
<1>7. \A x \in Paths : x \in {p} <=> ~Silence(raw, x)
  BY <1>1, <1>2, <1>3, <1>4 DEF Silence, Mentions
<1>8. raw[1].kind = "modify"
  BY <1>1, <1>2
<1>9. RawModify(raw, p, disk') /\ RawTurn(raw, p, disk') /\ RawRemoves(raw, p)
  BY <1>3, <1>6, <1>8 DEF RawModify, RawTurn, RawRemoves, LastTurn, Turn
<1>10. RawLinks(raw, CleanPaths', links') /\ RawGone(raw, CleanPaths', NoPath)
  BY <1>3, <1>8 DEF RawLinks, RawGone, Moved, Paired
<1>11. \E i \in DOMAIN raw : raw[i].kind \notin Silent
  BY <1>4, <1>8 DEF Silent
<1>12. \A x \in CleanPaths' : x \in {p} =>
           /\ RawModify(raw, x, disk') /\ RawTurn(raw, x, disk') /\ RawRemoves(raw, x)
           /\ (\E i \in DOMAIN raw : Turn(raw[i], x)) \/ (disk'[x] = Absent <=> disk[x] = Absent)
  BY <1>6, <1>9
<1>13. \A x \in Paths : \A i \in DOMAIN raw : raw[i].kind = "remove" /\ raw[i].path = x => disk[x] # Absent
  BY <1>3, <1>8
<1>14. \A i \in DOMAIN raw : raw[i].kind # "create"
  BY <1>3, <1>8
<1>15. Told(raw, {p}, NoPath)
  BY <1>6, <1>7, <1>10, <1>11, <1>12, <1>13, <1>14, Zenon DEF Told
<1>. QED
  BY <1>0, <1>5, <1>15, UserInv

\* Nothing tells that the file is gone, and nothing is said of it from then on.
LEMMA MoveOutInv ==
  ASSUME ShapeInv, WatchInv, NEW p \in Paths, MoveOut(p)
  PROVE  WatchInv'
<1>0. disk \in [Paths -> Values] /\ PastLinks \in SUBSET (Paths \X Paths)
  BY PastLinksTyped DEF ShapeInv, TypeOK
<1>1. PICK a \in RawEvents : /\ a = Raw("modify", p, NoPath) /\ a.kind = "modify"
                             /\ a.path = p /\ a.to = NoPath
  BY RawTyped
<1>2. PICK raw \in Seq(RawEvents) : raw = <<a>> /\ DOMAIN raw = 1 .. 1 /\ raw[1] = a
  BY OneRaw
<1>3. \A i \in DOMAIN raw : i = 1
  BY <1>2
<1>4. 1 \in DOMAIN raw
  BY <1>2
<1>5. UserStep(raw, {p}, PastLinks, {}, NoPath, {p}) /\ disk' = [disk EXCEPT ![p] = Absent]
  BY <1>1, <1>2 DEF MoveOut
<1>6. p \notin CleanPaths' /\ \A x \in Paths : x \notin {p} => disk'[x] = disk[x]
  BY <1>0, <1>5 DEF UserStep, CleanPaths
<1>7. \A x \in Paths : x \in {p} <=> ~Silence(raw, x)
  BY <1>1, <1>2, <1>3, <1>4 DEF Silence, Mentions
<1>8. raw[1].kind = "modify"
  BY <1>1, <1>2
<1>10. RawLinks(raw, CleanPaths', links') /\ RawGone(raw, CleanPaths', NoPath)
  BY <1>3, <1>8 DEF RawLinks, RawGone, Moved, Paired
<1>11. \E i \in DOMAIN raw : raw[i].kind \notin Silent
  BY <1>4, <1>8 DEF Silent
<1>12. \A x \in CleanPaths' : x \in {p} =>
           /\ RawModify(raw, x, disk') /\ RawTurn(raw, x, disk') /\ RawRemoves(raw, x)
           /\ (\E i \in DOMAIN raw : Turn(raw[i], x)) \/ (disk'[x] = Absent <=> disk[x] = Absent)
  BY <1>6
<1>13. \A x \in Paths : \A i \in DOMAIN raw : raw[i].kind = "remove" /\ raw[i].path = x => disk[x] # Absent
  BY <1>3, <1>8
<1>14. \A i \in DOMAIN raw : raw[i].kind # "create"
  BY <1>3, <1>8
<1>15. Told(raw, {p}, NoPath)
  BY <1>6, <1>7, <1>10, <1>11, <1>12, <1>13, <1>14, Zenon DEF Told
<1>. QED
  BY <1>0, <1>5, <1>15, UserInv

LEMMA DeleteInv ==
  ASSUME ShapeInv, WatchInv, NEW p \in Paths, Delete(p)
  PROVE  WatchInv'
<1>0. disk \in [Paths -> Values] /\ PastLinks \in SUBSET (Paths \X Paths)
  BY PastLinksTyped DEF ShapeInv, TypeOK
<1>1. PICK a \in RawEvents : /\ a = Raw("remove", p, NoPath) /\ a.kind = "remove"
                             /\ a.path = p /\ a.to = NoPath
  BY RawTyped
<1>2. PICK raw \in Seq(RawEvents) : raw = <<a>> /\ DOMAIN raw = 1 .. 1 /\ raw[1] = a
  BY OneRaw
<1>3. \A i \in DOMAIN raw : i = 1
  BY <1>2
<1>4. 1 \in DOMAIN raw
  BY <1>2
<1>5. UserStep(raw, {p}, PastLinks, {}, p, {}) /\ disk' = [disk EXCEPT ![p] = Absent] /\ disk[p] # Absent
  BY <1>1, <1>2 DEF Delete
<1>6. disk'[p] = Absent /\ disk[p] # Absent /\ \A x \in Paths : x \notin {p} => disk'[x] = disk[x]
  BY <1>0, <1>5
<1>7. \A x \in Paths : x \in {p} <=> ~Silence(raw, x)
  BY <1>1, <1>2, <1>3, <1>4 DEF Silence, Mentions
<1>8. raw[1].kind = "remove" /\ raw[1].path = p
  BY <1>1, <1>2
<1>9. RawModify(raw, p, disk') /\ RawTurn(raw, p, disk') /\ RawRemoves(raw, p)
  BY <1>3, <1>6, <1>8 DEF RawModify, RawTurn, RawRemoves, LastTurn, Turn, Plus
<1>10. RawLinks(raw, CleanPaths', links') /\ RawGone(raw, CleanPaths', p)
  BY <1>3, <1>8 DEF RawLinks, RawGone, Moved, Paired
<1>11. \E i \in DOMAIN raw : raw[i].kind \notin Silent
  BY <1>4, <1>8 DEF Silent
<1>a. \E i \in DOMAIN raw : Turn(raw[i], p)
  BY <1>4, <1>8 DEF Turn, Mentions
<1>12. \A x \in CleanPaths' : x \in {p} =>
           /\ RawModify(raw, x, disk') /\ RawTurn(raw, x, disk') /\ RawRemoves(raw, x)
           /\ (\E i \in DOMAIN raw : Turn(raw[i], x)) \/ (disk'[x] = Absent <=> disk[x] = Absent)
  BY <1>a, <1>9
<1>13. \A x \in Paths : \A i \in DOMAIN raw : raw[i].kind = "remove" /\ raw[i].path = x => disk[x] # Absent
  BY <1>3, <1>6, <1>8
<1>14. \A i \in DOMAIN raw : raw[i].kind # "create"
  BY <1>3, <1>8
<1>15. Told(raw, {p}, p)
  BY <1>6, <1>7, <1>10, <1>11, <1>12, <1>13, <1>14, Zenon DEF Told
<1>. QED
  BY <1>0, <1>5, <1>15, UserInv

\* A file that is created is reported once, or twice where it was also written.
LEMMA CreateInv ==
  ASSUME ShapeInv, WatchInv, NEW p \in Paths, NEW v \in Contents, Create(p, v)
  PROVE  WatchInv'
<1>0. disk \in [Paths -> Values] /\ PastLinks \in SUBSET (Paths \X Paths) /\ gone \in Paths \cup {NoPath}
  BY PastLinksTyped DEF ShapeInv, TypeOK
<1>1. PICK a \in RawEvents : /\ a = Raw("create", p, NoPath) /\ a.kind = "create"
                             /\ a.path = p /\ a.to = NoPath
  BY RawTyped
<1>2. PICK b \in RawEvents : /\ b = Raw("modify", p, NoPath) /\ b.kind = "modify"
                             /\ b.path = p /\ b.to = NoPath
  BY RawTyped
<1>3. PICK pair \in SUBSET (Paths \X Paths) :
        pair = IF AtRest \/ gone \in {NoPath, p} THEN {} ELSE {<<gone, p>>}
  <2>1. CASE AtRest \/ gone \in {NoPath, p}
    <3>1. {} = (IF AtRest \/ gone \in {NoPath, p} THEN {} ELSE {<<gone, p>>})
      BY <2>1
    <3>. QED
      BY <3>1
  <2>2. CASE ~(AtRest \/ gone \in {NoPath, p})
    <3>1. {<<gone, p>>} = (IF AtRest \/ gone \in {NoPath, p} THEN {} ELSE {<<gone, p>>})
      BY <2>2, Zenon
    <3>2. {<<gone, p>>} \in SUBSET (Paths \X Paths)
      BY <1>0, <2>2
    <3>. QED
      BY <3>1, <3>2
  <2>. QED
    BY <2>1, <2>2
<1>4. disk[p] = Absent /\ disk' = [disk EXCEPT ![p] = v]
  BY DEF Create
<1>5. disk'[p] # Absent /\ disk[p] = Absent /\ \A x \in Paths : x \notin {p} => disk'[x] = disk[x]
  BY <1>0, <1>4
<1>6. CASE os = "inotify"
  <2>a. /\ <<a, b>> \in Seq(RawEvents) /\ DOMAIN <<a, b>> = 1 .. 2
        /\ <<a, b>>[1] = a /\ <<a, b>>[2] = b
    BY OneTwoThree
  <2>1. PICK raw \in Seq(RawEvents) : raw = <<a, b>> /\ DOMAIN raw = 1 .. 2 /\ raw[1] = a /\ raw[2] = b
    BY <2>a, Zenon
  <2>2. (\A i \in DOMAIN raw : i = 1 \/ i = 2) /\ 1 \in DOMAIN raw /\ 2 \in DOMAIN raw
    BY <2>1
  <2>3. UserStep(raw, {p}, PastLinks \cup pair, pair, NoPath, {})
    BY <1>1, <1>2, <1>3, <1>6, <2>1 DEF Create
  <2>4. \A x \in Paths : x \in {p} <=> ~Silence(raw, x)
    BY <1>1, <1>2, <2>1, <2>2 DEF Silence, Mentions
  <2>5. raw[1].kind = "create" /\ raw[2].kind = "modify" /\ raw[1].path = p /\ raw[2].path = p
    BY <1>1, <1>2, <2>1
  <2>6. RawModify(raw, p, disk') /\ RawTurn(raw, p, disk') /\ RawRemoves(raw, p)
    BY <1>5, <2>2, <2>5 DEF RawModify, RawTurn, RawRemoves, LastTurn, Turn, Plus
  <2>7. RawLinks(raw, CleanPaths', links') /\ RawGone(raw, CleanPaths', NoPath)
    BY <2>2, <2>5 DEF RawLinks, RawGone, Moved, Paired
  <2>8. \E i \in DOMAIN raw : raw[i].kind \notin Silent
    BY <2>2, <2>5 DEF Silent
  <2>9. \E i \in DOMAIN raw : Turn(raw[i], p)
    BY <2>2, <2>5 DEF Turn, Mentions
  <2>10. \A x \in CleanPaths' : x \in {p} =>
           /\ RawModify(raw, x, disk') /\ RawTurn(raw, x, disk') /\ RawRemoves(raw, x)
           /\ (\E i \in DOMAIN raw : Turn(raw[i], x)) \/ (disk'[x] = Absent <=> disk[x] = Absent)
    BY <2>6, <2>9
  <2>11. \A x \in Paths : \A i \in DOMAIN raw : raw[i].kind = "remove" /\ raw[i].path = x => disk[x] # Absent
    BY <2>2, <2>5
  <2>12. ASSUME ~AtRest, gone # p, gone \in CleanPaths' PROVE FALSE
    <3>1. CleanPaths' \in SUBSET Paths /\ \A x \in CleanPaths' : x \notin Torn(PastLinks \cup pair, {p})
      BY <2>3, UserClean
    <3>2. gone \in Paths /\ <<gone, p>> \in pair
      BY <1>3, <2>12, <3>1
    <3>3. PICK g \in Paths : g = gone
      BY <3>2
    <3>4. <<g, p>> \in PastLinks \cup pair /\ PastLinks \cup pair \in SUBSET (Paths \X Paths) /\ p \in {p}
      BY <1>0, <3>2, <3>3
    <3>5. g \in Torn(PastLinks \cup pair, {p})
      BY <3>4, TornTyped
    <3>. QED
      BY <2>12, <3>1, <3>3, <3>5
  <2>13. \A i \in DOMAIN raw :
           ~(raw[i].kind = "create" /\ ~AtRest /\ gone # raw[i].path /\ gone \in CleanPaths')
    BY <2>2, <2>5, <2>12
  <2>14. Told(raw, {p}, NoPath)
    BY <1>5, <2>4, <2>7, <2>8, <2>10, <2>11, <2>13, Zenon DEF Told
  <2>15. PastLinks \cup pair \in SUBSET (Paths \X Paths) /\ PastLinks \subseteq PastLinks \cup pair
    BY <1>0
  <2>. QED
    BY <2>3, <2>14, <2>15, UserInv
<1>7. CASE os # "inotify"
  <2>1. PICK raw \in Seq(RawEvents) : raw = <<a>> /\ DOMAIN raw = 1 .. 1 /\ raw[1] = a
    BY OneRaw
  <2>2. (\A i \in DOMAIN raw : i = 1) /\ 1 \in DOMAIN raw
    BY <2>1
  <2>3. UserStep(raw, {p}, PastLinks, pair, NoPath, {})
    BY <1>1, <1>3, <1>7, <2>1 DEF Create
  <2>4. \A x \in Paths : x \in {p} <=> ~Silence(raw, x)
    BY <1>1, <2>1, <2>2 DEF Silence, Mentions
  <2>5. raw[1].kind = "create" /\ raw[1].path = p
    BY <1>1, <2>1
  <2>6. RawModify(raw, p, disk') /\ RawTurn(raw, p, disk') /\ RawRemoves(raw, p)
    BY <1>5, <2>2, <2>5 DEF RawModify, RawTurn, RawRemoves, LastTurn, Turn, Plus
  <2>7. RawLinks(raw, CleanPaths', links') /\ RawGone(raw, CleanPaths', NoPath)
    BY <2>2, <2>5 DEF RawLinks, RawGone, Moved, Paired
  <2>8. \E i \in DOMAIN raw : raw[i].kind \notin Silent
    BY <2>2, <2>5 DEF Silent
  <2>9. \E i \in DOMAIN raw : Turn(raw[i], p)
    BY <2>2, <2>5 DEF Turn, Mentions
  <2>10. \A x \in CleanPaths' : x \in {p} =>
           /\ RawModify(raw, x, disk') /\ RawTurn(raw, x, disk') /\ RawRemoves(raw, x)
           /\ (\E i \in DOMAIN raw : Turn(raw[i], x)) \/ (disk'[x] = Absent <=> disk[x] = Absent)
    BY <2>6, <2>9
  <2>11. \A x \in Paths : \A i \in DOMAIN raw : raw[i].kind = "remove" /\ raw[i].path = x => disk[x] # Absent
    BY <2>2, <2>5
  <2>12. ASSUME ~AtRest, gone # p, gone \in CleanPaths' PROVE <<gone, p>> \in links'
    <3>1. CleanPaths' \in SUBSET Paths
      BY <2>3, UserClean
    <3>2. <<gone, p>> \in pair
      BY <1>3, <2>12, <3>1
    <3>. QED
      BY <2>3, <3>2 DEF UserStep
  <2>13. \A i \in DOMAIN raw :
           /\ raw[i].kind = "create" /\ (\A k \in DOMAIN raw : k < i => raw[k].kind \in Silent)
           /\ ~AtRest /\ gone # raw[i].path /\ gone \in CleanPaths'
           => /\ <<gone, raw[i].path>> \in links'
              /\ \A k \in DOMAIN raw :
                   k > i => ~Mentions(raw[k], raw[i].path) /\ ~Mentions(raw[k], gone)
    BY <2>2, <2>5, <2>12
  <2>14. Told(raw, {p}, NoPath)
    BY <1>5, <2>4, <2>7, <2>8, <2>10, <2>11, <2>13, Zenon DEF Told
  <2>. QED
    BY <1>0, <2>3, <2>14, UserInv
<1>. QED
  BY <1>6, <1>7

\* A rename.
LEMMA RenameInv ==
  ASSUME ShapeInv, WatchInv, NEW p \in Paths, NEW q \in Paths, Rename(p, q)
  PROVE  WatchInv'
<1>0. disk \in [Paths -> Values] /\ PastLinks \in SUBSET (Paths \X Paths)
  BY PastLinksTyped DEF ShapeInv, TypeOK
<1>1. /\ disk[p] # Absent /\ p # q /\ disk' = [disk EXCEPT ![p] = Absent, ![q] = disk[p]]
      /\ p \in {p, q} /\ q \in {p, q}
  BY DEF Rename
<1>2. /\ disk'[p] = Absent /\ disk'[q] # Absent
      /\ \A x \in Paths : x \notin {p, q} => disk'[x] = disk[x]
  BY <1>0, <1>1
<1>3. CASE os = "inotify"
  <2>1. PICK a \in RawEvents : /\ a = Raw("modify", p, NoPath) /\ a.kind = "modify"
                               /\ a.path = p /\ a.to = NoPath
    BY RawTyped
  <2>2. PICK b \in RawEvents : /\ b = Raw("modify", q, NoPath) /\ b.kind = "modify"
                               /\ b.path = q /\ b.to = NoPath
    BY RawTyped
  <2>3. PICK c \in RawEvents : /\ c = Raw("both", p, q) /\ c.kind = "both"
                               /\ c.path = p /\ c.to = q
    BY RawTyped
  <2>4. PICK raw \in Seq(RawEvents) : /\ raw = <<a, b, c>> /\ DOMAIN raw = 1 .. 3
                                      /\ raw[1] = a /\ raw[2] = b /\ raw[3] = c
    <3>1. /\ <<a, b, c>> \in Seq(RawEvents) /\ DOMAIN <<a, b, c>> = 1 .. 3
          /\ <<a, b, c>>[1] = a /\ <<a, b, c>>[2] = b /\ <<a, b, c>>[3] = c
      BY OneTwoThree
    <3>. QED
      BY <3>1, Zenon
  <2>5. /\ \A i \in DOMAIN raw : i = 1 \/ i = 2 \/ i = 3
        /\ 1 \in DOMAIN raw /\ 2 \in DOMAIN raw /\ 3 \in DOMAIN raw
    BY <2>4
  <2>6. UserStep(raw, {p, q}, PastLinks, {<<p, q>>}, NoPath, {})
    BY <1>3, <2>1, <2>2, <2>3, <2>4 DEF Rename
  <2>7. \A x \in Paths : x \in {p, q} <=> ~Silence(raw, x)
    BY <2>1, <2>2, <2>3, <2>4, <2>5 DEF Silence, Mentions
  <2>8. raw[1].kind = "modify" /\ raw[2].kind = "modify" /\ raw[3].kind = "both"
        /\ raw[3].path = p /\ raw[3].to = q
    BY <2>1, <2>2, <2>3, <2>4
  <2>9. Mentions(raw[3], p) /\ Mentions(raw[3], q)
    BY <2>8 DEF Mentions
  <2>10. \A x \in {p, q} : RawModify(raw, x, disk')
    <3>1. ASSUME NEW x \in {p, q}, NEW j \in DOMAIN raw, LastMention(raw, x, j) PROVE raw[j].kind # "modify"
      <4>1. Mentions(raw[3], x)
        BY <2>9, <3>1
      <4>2. ~(3 > j)
        BY <2>5, <3>1, <4>1 DEF LastMention
      <4>. QED
        BY <2>5, <2>8, <4>2
    <3>. QED
      BY <3>1 DEF RawModify
  <2>11. \A x \in {p, q} : RawTurn(raw, x, disk')
    <3>1. ASSUME NEW x \in {p, q}, NEW j \in DOMAIN raw, LastTurn(raw, x, j) PROVE j = 3
      BY <2>5, <2>8, <3>1 DEF LastTurn, Turn
    <3>2. \A x \in {p, q} : Plus(raw[3], x) <=> disk'[x] # Absent
      BY <1>1, <1>2, <2>8 DEF Plus
    <3>. QED
      BY <3>1, <3>2 DEF RawTurn
  <2>12. \A x \in {p, q} : RawRemoves(raw, x)
    BY <2>5, <2>8 DEF RawRemoves
  <2>13. RawLinks(raw, CleanPaths', links')
    <3>1. ASSUME NEW old, NEW new, NEW j \in DOMAIN raw, Moved(raw, old, new, j)
          PROVE  j = 3 /\ old = p /\ new = q
      BY <2>5, <2>8, <3>1 DEF Moved, Paired
    <3>2. <<p, q>> \in links'
      BY <2>6 DEF UserStep
    <3>3. \A k \in DOMAIN raw : ~(k > 3)
      BY <2>5
    <3>. QED
      BY <3>1, <3>2, <3>3 DEF RawLinks
  <2>14. RawGone(raw, CleanPaths', NoPath)
    BY <2>5, <2>8 DEF RawGone
  <2>15. \E i \in DOMAIN raw : raw[i].kind \notin Silent
    BY <2>5, <2>8 DEF Silent
  <2>16. \A x \in {p, q} : \E i \in DOMAIN raw : Turn(raw[i], x)
    BY <2>5, <2>8, <2>9 DEF Turn
  <2>17. \A x \in CleanPaths' : x \in {p, q} =>
           /\ RawModify(raw, x, disk') /\ RawTurn(raw, x, disk') /\ RawRemoves(raw, x)
           /\ (\E i \in DOMAIN raw : Turn(raw[i], x)) \/ (disk'[x] = Absent <=> disk[x] = Absent)
    BY <2>10, <2>11, <2>12, <2>16, Zenon
  <2>18. \A x \in Paths : \A i \in DOMAIN raw : raw[i].kind = "remove" /\ raw[i].path = x => disk[x] # Absent
    BY <2>5, <2>8
  <2>19. \A i \in DOMAIN raw : raw[i].kind # "create"
    BY <2>5, <2>8
  <2>20. Told(raw, {p, q}, NoPath)
    BY <1>2, <2>7, <2>13, <2>14, <2>15, <2>17, <2>18, <2>19, Zenon DEF Told
  <2>21. {<<p, q>>} \in SUBSET (Paths \X Paths) /\ {p, q} \in SUBSET Paths
    OBVIOUS
  <2>. QED
    BY <1>0, <2>6, <2>20, <2>21, UserInv
<1>4. CASE os # "inotify"
  <2>1. PICK a \in RawEvents : /\ a = Raw("remove", p, NoPath) /\ a.kind = "remove"
                               /\ a.path = p /\ a.to = NoPath
    BY RawTyped
  <2>2. PICK b \in RawEvents : /\ b = Raw("create", q, NoPath) /\ b.kind = "create"
                               /\ b.path = q /\ b.to = NoPath
    BY RawTyped
  <2>4. PICK raw \in Seq(RawEvents) : /\ raw = <<a, b>> /\ DOMAIN raw = 1 .. 2
                                      /\ raw[1] = a /\ raw[2] = b
    <3>1. /\ <<a, b>> \in Seq(RawEvents) /\ DOMAIN <<a, b>> = 1 .. 2
          /\ <<a, b>>[1] = a /\ <<a, b>>[2] = b
      BY OneTwoThree
    <3>. QED
      BY <3>1, Zenon
  <2>5. /\ \A i \in DOMAIN raw : i = 1 \/ i = 2
        /\ 1 \in DOMAIN raw /\ 2 \in DOMAIN raw
    BY <2>4
  <2>6. UserStep(raw, {p, q}, PastLinks, {<<p, q>>}, NoPath, {})
    BY <1>4, <2>1, <2>2, <2>4 DEF Rename
  <2>7. \A x \in Paths : x \in {p, q} <=> ~Silence(raw, x)
    BY <2>1, <2>2, <2>4, <2>5 DEF Silence, Mentions
  <2>8. /\ raw[1].kind = "remove" /\ raw[2].kind = "create"
        /\ raw[1].path = p /\ raw[1].to = NoPath /\ raw[2].path = q /\ raw[2].to = NoPath
    BY <2>1, <2>2, <2>4
  <2>10. \A x \in {p, q} : RawModify(raw, x, disk')
    BY <2>5, <2>8 DEF RawModify
  <2>11. \A x \in {p, q} : RawTurn(raw, x, disk')
    <3>1. \A j \in DOMAIN raw : LastTurn(raw, p, j) => j = 1
      BY <1>1, <2>5, <2>8 DEF LastTurn, Turn, Mentions
    <3>2. \A j \in DOMAIN raw : LastTurn(raw, q, j) => j = 2
      BY <1>1, <2>5, <2>8 DEF LastTurn, Turn, Mentions
    <3>3. ~Plus(raw[1], p) /\ Plus(raw[2], q)
      BY <2>8 DEF Plus
    <3>. QED
      BY <1>2, <3>1, <3>2, <3>3 DEF RawTurn
  <2>12. \A x \in {p, q} : RawRemoves(raw, x)
    BY <2>5, <2>8 DEF RawRemoves
  <2>13. RawLinks(raw, CleanPaths', links')
    <3>1. ASSUME NEW old, NEW new, NEW j \in DOMAIN raw, Moved(raw, old, new, j)
          PROVE  j = 2 /\ old = p /\ new = q
      BY <2>5, <2>8, <3>1 DEF Moved, Paired
    <3>3. <<p, q>> \in links'
      BY <2>6 DEF UserStep
    <3>2. <<p, q>> \in links' /\ \A k \in DOMAIN raw : ~(k > 2)
      BY <2>5, <3>3
    <3>. QED
      BY <3>1, <3>2 DEF RawLinks
  <2>14. RawGone(raw, CleanPaths', NoPath)
    <3>1. 2 > 1 /\ raw[2].kind \notin Silent
      BY <2>8 DEF Silent
    <3>. QED
      BY <2>5, <2>8, <3>1 DEF RawGone
  <2>15. \E i \in DOMAIN raw : raw[i].kind \notin Silent
    BY <2>5, <2>8 DEF Silent
  <2>16. \A x \in {p, q} : \E i \in DOMAIN raw : Turn(raw[i], x)
    BY <2>5, <2>8 DEF Turn, Mentions
  <2>17. \A x \in CleanPaths' : x \in {p, q} =>
           /\ RawModify(raw, x, disk') /\ RawTurn(raw, x, disk') /\ RawRemoves(raw, x)
           /\ (\E i \in DOMAIN raw : Turn(raw[i], x)) \/ (disk'[x] = Absent <=> disk[x] = Absent)
    BY <2>10, <2>11, <2>12, <2>16, Zenon
  <2>18. \A x \in Paths : \A i \in DOMAIN raw : raw[i].kind = "remove" /\ raw[i].path = x => disk[x] # Absent
    BY <1>1, <2>5, <2>8
  <2>19. \A i \in DOMAIN raw :
           raw[i].kind = "create" => ~(\A k \in DOMAIN raw : k < i => raw[k].kind \in Silent)
    <3>1. 1 < 2 /\ raw[1].kind \notin Silent
      BY <2>8 DEF Silent
    <3>. QED
      BY <2>5, <2>8, <3>1
  <2>20. Told(raw, {p, q}, NoPath)
    BY <1>2, <2>7, <2>13, <2>14, <2>15, <2>17, <2>18, <2>19, Zenon DEF Told
  <2>21. {<<p, q>>} \in SUBSET (Paths \X Paths) /\ {p, q} \in SUBSET Paths
    OBVIOUS
  <2>. QED
    BY <1>0, <2>6, <2>20, <2>21, UserInv
<1>. QED
  BY <1>3, <1>4

-----------------------------------------------------------------------------
(* What passes on the way to the watcher.                                  *)

\* A step on the way keeps the invariant, if it keeps that of the raw events and
\* either drops one or does not change what is told of.
LEMMA PassKeeps ==
  ASSUME ShapeInv, WatchInv, RawInv',
         UNCHANGED <<disk, hash, node, pc, events, plan, moves, stale, parse,
                     links, tangled, missed, mixed>>,
         \/ dropped' # 0
         \/ dropped = 0 /\ \A x \in Paths : Silence(InFlight', x) <=> Silence(InFlight, x)
  PROVE  WatchInv'
<1>0. CleanPaths' = CleanPaths
  BY DEF CleanPaths
<1>1. \A p \in CleanPaths : p \in Paths
  BY DEF CleanPaths
<1>2. SliceInv'
  <2>1. \A p \in Paths : NodesAt(p)' = NodesAt(p)
    BY DEF NodesAt
  <2>2. ASSUME NEW p \in CleanPaths' PROVE Consistent(p)'
    <3>1. Consistent(p) /\ NodesAt(p)' = NodesAt(p)
      BY <1>0, <1>1, <2>1 DEF WatchInv, SliceInv
    <3>. QED
      BY <3>1 DEF Consistent
  <2>. QED
    BY <2>2 DEF SliceInv
<1>3. CASE dropped' # 0
  <2>1. Settled' = {}
    BY <1>3 DEF Settled
  <2>2. EventInv' /\ PlanInv'
    BY <1>3, <2>1 DEF EventInv, PlanInv
  <2>3. WorkInv'
    <3>1. \A p, q, r \in Paths : <<p, r>> \in moves' /\ <<q, r>> \in moves' => p = q
      BY DEF WatchInv, WorkInv
    <3>. QED
      BY <1>3, <2>1, <3>1 DEF WorkInv
  <2>. QED
    BY <1>2, <2>2, <2>3 DEF WatchInv
<1>4. CASE dropped' = 0
  <2>1. dropped = 0 /\ \A x \in Paths : Silence(InFlight', x) <=> Silence(InFlight, x)
    BY <1>4
  <2>2. \A x \in Paths : Quiet(x)' <=> Quiet(x)
    <3>1. \A x \in Paths : Quiet(x)' <=> Silence(InFlight', x)
      BY DEF Quiet, Silence
    <3>. QED
      BY <2>1, <3>1 DEF Quiet
  <2>3. Settled' = Settled
    BY <1>0, <1>1, <1>4, <2>1, <2>2 DEF Settled
  <2>4. EventLinks'
    <3>1. SUFFICES ASSUME NEW k \in DOMAIN events,
                          events[k].kind = "renamed", events[k].old # events[k].path,
                          events[k].old \in CleanPaths
                   PROVE  /\ <<events[k].old, events[k].path>> \in links
                          /\ Silence(InFlight', events[k].old) /\ Silence(InFlight', events[k].path)
                          /\ \A l \in DOMAIN events :
                               l > k => ~Touches(events[l], events[k].old)
                                        /\ ~Touches(events[l], events[k].path)
      BY <1>0 DEF EventLinks, Quiet
    <3>2. events[k].old \in Paths /\ events[k].path \in Paths
      BY <3>1 DEF ShapeInv, EventShape
    <3>3. /\ <<events[k].old, events[k].path>> \in links
          /\ Silence(InFlight, events[k].old) /\ Silence(InFlight, events[k].path)
          /\ \A l \in DOMAIN events :
               l > k => ~Touches(events[l], events[k].old) /\ ~Touches(events[l], events[k].path)
      BY <2>1, <3>1 DEF WatchInv, EventInv, EventLinks, Quiet
    <3>. QED
      BY <2>1, <3>2, <3>3
  <2>5. EventInv'
    <3>1. \A p \in Settled : EventClean(p)' <=> EventClean(p)
      BY DEF EventClean, LastTouch
    <3>. QED
      BY <2>3, <2>4, <3>1 DEF WatchInv, EventInv
  <2>6. PlanInv'
    <3>1. SUFFICES ASSUME pc = "apply", ~plan.rescan
                   PROVE  /\ PlanLinks(plan.changes)'
                          /\ \A p \in Settled : PlanClean(plan.changes, p)'
      BY <2>3 DEF PlanInv
    <3>2. PlanLinks(plan.changes) /\ \A p \in Settled : PlanClean(plan.changes, p)
      BY <2>1, <3>1 DEF WatchInv, PlanInv
    <3>3. PlanLinks(plan.changes)'
      BY <1>0, <1>1, <2>2, <3>2 DEF PlanLinks
    <3>. QED
      BY <3>2, <3>3 DEF PlanClean
  <2>7. WorkInv'
    <3>1. \A p, q, r \in Paths : <<p, r>> \in moves' /\ <<q, r>> \in moves' => p = q
      BY DEF WatchInv, WorkInv
    <3>2. WorkLinks
      BY <2>1 DEF WatchInv, WorkInv
    <3>3. WorkLinks'
      BY <1>0, <1>1, <2>2, <3>2 DEF WorkLinks
    <3>4. \A p \in Settled : WorkClean(p)' <=> WorkClean(p)
      BY <1>0 DEF WorkClean
    <3>. QED
      BY <2>3, <3>1, <3>3, <3>4 DEF WatchInv, WorkInv
  <2>. QED
    BY <1>2, <2>5, <2>6, <2>7 DEF WatchInv
<1>. QED
  BY <1>3, <1>4

\* A series is its first event and the rest.
LEMMA HeadAndTail ==
  ASSUME NEW s \in Seq(RawEvents), s # <<>>
  PROVE  /\ s = <<Head(s)>> \o Tail(s)
         /\ Tail(s) \in Seq(RawEvents) /\ Head(s) \in RawEvents /\ Head(s) = s[1] /\ 1 \in DOMAIN s
         /\ <<Head(s)>> \in Seq(RawEvents) /\ Len(<<Head(s)>>) = 1
<1>1. /\ Head(s) \in RawEvents /\ Tail(s) \in Seq(RawEvents) /\ Len(Tail(s)) = Len(s) - 1
      /\ \A i \in 1 .. Len(Tail(s)) : Tail(s)[i] = s[i + 1]
  BY HeadTailProperties
<1>2. Len(s) \in Nat \ {0} /\ DOMAIN s = 1 .. Len(s)
  BY LenProperties, EmptySeq
<1>3. Head(s) = s[1] /\ 1 \in DOMAIN s
  BY <1>2
<1>4. PICK h \in Seq(RawEvents) : h = <<Head(s)>> /\ Len(h) = 1 /\ h[1] = Head(s)
  BY <1>1, OneRaw
<1>5. PICK t \in Seq(RawEvents) : t = Tail(s)
  BY <1>1
<1>6. /\ h \o t \in Seq(RawEvents) /\ Len(h \o t) = 1 + Len(t)
      /\ \A i \in 1 .. 1 + Len(t) : (h \o t)[i] = IF i <= 1 THEN h[i] ELSE t[i - 1]
  BY <1>4, ConcatProperties
<1>7. \A i \in 1 .. Len(s) : s[i] = (h \o t)[i]
  BY <1>1, <1>2, <1>3, <1>4, <1>5, <1>6
<1>8. Len(h \o t) = Len(s)
  BY <1>1, <1>2, <1>5, <1>6
<1>9. s = h \o t
  BY <1>6, <1>7, <1>8, SeqEqual
<1>. QED
  BY <1>1, <1>3, <1>4, <1>5, <1>9

\* An event of no interest tells of no path.
LEMMA NoiseInv ==
  ASSUME ShapeInv, WatchInv, NEW kind \in {"ignored"} \cup Silent, Noise(kind)
  PROVE  WatchInv'
<1>0. InFlight \in Seq(RawEvents) /\ wire \in Seq(RawEvents)
  BY InFlightTyped
<1>1. PICK a \in RawEvents : a = Raw(kind, NoPath, NoPath) /\ a.kind = kind
                             /\ a.path = NoPath /\ a.to = NoPath
  <2>1. Raw(kind, NoPath, NoPath) \in RawEvents
    BY DEF Raw, RawEvents
  <2>2. /\ Raw(kind, NoPath, NoPath).kind = kind /\ Raw(kind, NoPath, NoPath).path = NoPath
        /\ Raw(kind, NoPath, NoPath).to = NoPath
    BY DEF Raw
  <2>. QED
    BY <2>1, <2>2, Zenon
<1>2. PICK raw \in Seq(RawEvents) : raw = <<a>> /\ DOMAIN raw = 1 .. 1 /\ raw[1] = a
  BY OneRaw
<1>3. \A i \in DOMAIN raw : raw[i].kind = kind /\ raw[i].path = NoPath /\ raw[i].to = NoPath
  BY <1>1, <1>2
<1>4. kind \notin {"create", "modify", "both", "remove"} /\ 1 \in DOMAIN raw
  BY <1>2 DEF Silent
<1>5. /\ wire' = wire \o raw
      /\ gone' = (IF kind = "ignored" THEN NoPath ELSE gone)
      /\ UNCHANGED <<disk, hash, node, queue, dropped, pc, events, plan, moves, stale, parse,
                     links, tangled, missed, mixed>>
  <2>1. wire' = Append(wire, a)
    BY <1>1 DEF Noise
  <2>2. wire' = wire \o raw
    BY <1>0, <1>2, <2>1, AppendIsConcat
  <2>. QED
    BY <2>2 DEF Noise, graph, work
<1>6. InFlight' = InFlight \o raw
  BY <1>5, UserInFlight
<1>7. \A x \in Paths : Silence(InFlight', x) <=> Silence(InFlight, x)
  <2>1. \A x \in Paths : Silence(raw, x)
    BY <1>3 DEF Silence, Mentions
  <2>2. \A x \in Paths : Silence(InFlight \o raw, x) <=> Silence(InFlight, x) /\ Silence(raw, x)
    BY <1>0, SilenceConcat
  <2>. QED
    BY <1>6, <2>1, <2>2
<1>8. CleanPaths' = CleanPaths /\ CleanPaths \in SUBSET Paths
  BY <1>5 DEF CleanPaths
<1>9. \A p \in CleanPaths : p \notin Spinning(InFlight \o raw)
  <2>1. SUFFICES ASSUME NEW p \in CleanPaths, p \in Spinning(InFlight \o raw) PROVE FALSE
    OBVIOUS
  <2>. DEFINE s == InFlight
              w == s \o raw
              n == Len(s)
  <2>2. \A k \in DOMAIN w : /\ k \in Nat /\ (k <= n => k \in DOMAIN s /\ w[k] = s[k])
                            /\ (k > n => k - n \in DOMAIN raw /\ w[k] = raw[k - n])
    BY <1>0, AppendIndices
  <2>3. n \in Nat
    BY <1>0, LenProperties
  <2>. HIDE DEF s, w, n
  <2>4. \A k \in DOMAIN w : Turn(w[k], p) => k \in DOMAIN s /\ w[k] = s[k]
    <3>1. ASSUME NEW k \in DOMAIN w, k > n PROVE ~Turn(w[k], p)
      BY <1>3, <1>4, <2>2, <3>1 DEF Turn
    <3>. QED
      BY <2>2, <2>3, <3>1
  <2>5. PICK i \in DOMAIN w : \E j \in DOMAIN w : \E k \in DOMAIN w :
          i < j /\ j < k /\ Turn(w[i], p) /\ Turn(w[j], p) /\ Turn(w[k], p)
    BY <2>1 DEF Spinning, w, s
  <2>6. PICK j \in DOMAIN w : \E k \in DOMAIN w :
          i < j /\ j < k /\ Turn(w[i], p) /\ Turn(w[j], p) /\ Turn(w[k], p)
    BY <2>5
  <2>7. PICK k \in DOMAIN w :
          i < j /\ j < k /\ Turn(w[i], p) /\ Turn(w[j], p) /\ Turn(w[k], p)
    BY <2>6
  <2>8. /\ i \in DOMAIN s /\ j \in DOMAIN s /\ k \in DOMAIN s /\ i < j /\ j < k
        /\ Turn(s[i], p) /\ Turn(s[j], p) /\ Turn(s[k], p)
    BY <2>4, <2>7
  <2>9. p \in Paths
    BY <1>8
  <2>10. p \in Spinning(s)
    BY <2>8, <2>9, Zenon DEF Spinning
  <2>. QED
    BY <2>10 DEF s, WatchInv, RawInv, RawOK, RawClean
<1>10. Fits(InFlight, raw, CleanPaths, disk, links, gone, CleanPaths, disk, links, gone', {})
  <2>1. RawOK(InFlight, CleanPaths, disk, links, gone)
    BY DEF WatchInv, RawInv
  <2>2. \A i \in DOMAIN raw : \A x \in Paths : ~Mentions(raw[i], x)
    BY <1>3 DEF Mentions
  <2>3. RawLinks(raw, CleanPaths, links) /\ RawGone(raw, CleanPaths, gone')
    BY <1>3, <1>4 DEF RawLinks, RawGone, Moved, Paired
  <2>4. (\E i \in DOMAIN raw : raw[i].kind \notin Silent) \/ gone' = gone
    BY <1>3, <1>4, <1>5 DEF Silent
  <2>5. \A i \in DOMAIN raw : raw[i].kind # "create" /\ raw[i].kind # "remove"
    BY <1>3, <1>4
  <2>. QED
    BY <1>8, <1>9, <2>1, <2>2, <2>3, <2>4, <2>5, Zenon DEF Fits
<1>11. RawOK(InFlight \o raw, CleanPaths, disk, links, gone')
  <2>1. PICK g : g = gone'
    OBVIOUS
  <2>2. Fits(InFlight, raw, CleanPaths, disk, links, gone, CleanPaths, disk, links, g, {})
    BY <1>10, <2>1, Zenon
  <2>3. RawOK(InFlight \o raw, CleanPaths, disk, links, g)
    BY <1>0, <1>8, <2>2, RawAppend
  <2>. QED
    BY <2>1, <2>3, Zenon
<1>12. RawInv'
  BY <1>5, <1>6, <1>8, <1>11 DEF RawInv
<1>13. CASE dropped = 0
  BY <1>5, <1>7, <1>12, <1>13, PassKeeps
<1>14. CASE dropped # 0
  BY <1>5, <1>12, <1>14, PassKeeps
<1>. QED
  BY <1>13, <1>14

LEMMA SuffixTransitive ==
  ASSUME NEW s \in Seq(RawEvents), NEW t \in Seq(RawEvents), NEW u \in Seq(RawEvents),
         NEW n, NEW m, SuffixOf(t, s, n), SuffixOf(u, t, m)
  PROVE  SuffixOf(u, s, m + n)
<1>1. /\ n \in Nat /\ m \in Nat /\ Len(s) = Len(t) + n /\ Len(t) = Len(u) + m /\ Len(u) \in Nat
      /\ DOMAIN u = 1 .. Len(u)
  BY LenProperties DEF SuffixOf
<1>2. ASSUME NEW i \in DOMAIN u PROVE u[i] = s[i + (m + n)]
  <2>1. i + m \in DOMAIN t /\ t[i + m] = u[i] /\ i \in Nat
    BY SuffixIndices
  <2>2. s[(i + m) + n] = t[i + m]
    BY <2>1, SuffixIndices
  <2>3. (i + m) + n = i + (m + n)
    BY <1>1, <2>1
  <2>. QED
    BY <2>1, <2>2, <2>3
<1>. QED
  BY <1>1, <1>2 DEF SuffixOf

\* The callback puts an event into the queue, or drops it.
LEMMA DeliverInv ==
  ASSUME ShapeInv, WatchInv, Deliver
  PROVE  WatchInv'
<1>0. InFlight \in Seq(RawEvents) /\ wire \in Seq(RawEvents) /\ queue \in Seq(RawEvents)
      /\ queue \o wire \in Seq(RawEvents)
  BY InFlightTyped
<1>1. /\ wire # <<>> /\ wire' = Tail(wire)
      /\ UNCHANGED <<disk, hash, node, pc, events, plan, moves, stale, parse,
                     gone, links, tangled, missed, mixed>>
  BY DEF Deliver, graph, work, ghosts
<1>2. CleanPaths' = CleanPaths
  BY <1>1 DEF CleanPaths
<1>3. PICK h \in RawEvents : h = Head(wire)
  BY <1>0, <1>1, HeadAndTail
<1>4. PICK t \in Seq(RawEvents) : t = Tail(wire)
  BY <1>0, <1>1, HeadAndTail
<1>5. wire = <<h>> \o t /\ <<h>> \in Seq(RawEvents) /\ Len(<<h>>) = 1
  BY <1>0, <1>1, <1>3, <1>4, HeadAndTail
<1>6. SuffixOf(t, wire, 1)
  BY <1>5, AppendIndices
<1>7. dropped \in Nat
  BY DEF ShapeInv, TypeOK
<1>8. \E n : SuffixOf(t, InFlight, n)
  <2>1. CASE dropped = 0
    <3>1. SuffixOf(wire, queue \o wire, Len(queue))
      BY <1>0, AppendIndices
    <3>2. SuffixOf(t, queue \o wire, 1 + Len(queue))
      BY <1>0, <1>6, <3>1, SuffixTransitive
    <3>. QED
      BY <2>1, <3>2 DEF InFlight
  <2>2. CASE dropped # 0
    BY <1>6, <2>2 DEF InFlight
  <2>. QED
    BY <2>1, <2>2
<1>9. RawOK(t, CleanPaths, disk, links, gone)
  BY <1>0, <1>8, RawSuffix DEF WatchInv, RawInv
<1>10. CASE HasRoom /\ dropped = 0
  <2>1. queue' = Append(queue, h) /\ dropped' = dropped
    BY <1>3, <1>10 DEF Deliver
  <2>2. queue' = queue \o <<h>>
    BY <1>0, <2>1, AppendIsConcat
  <2>3. (queue \o <<h>>) \o t = queue \o (<<h>> \o t)
    BY <1>0, <1>5, ConcatAssociative
  <2>4. InFlight' = InFlight
    BY <1>1, <1>4, <1>5, <1>10, <2>1, <2>2, <2>3 DEF InFlight
  <2>5. RawInv'
    BY <1>1, <1>2, <2>4 DEF WatchInv, RawInv
  <2>. QED
    BY <1>1, <1>10, <2>4, <2>5, PassKeeps
<1>11. CASE ~(HasRoom /\ dropped = 0)
  <2>1. dropped' # 0
    BY <1>7, <1>11 DEF Deliver
  <2>2. InFlight' = t
    BY <1>1, <1>4, <2>1 DEF InFlight
  <2>3. RawInv'
    BY <1>1, <1>2, <1>9, <2>2 DEF RawInv
  <2>. QED
    BY <1>1, <2>1, <2>3, PassKeeps
<1>. QED
  BY <1>10, <1>11

-----------------------------------------------------------------------------
(* What normalize makes of a series.                                       *)

\* A Create takes one Remove only.
LEMMA PairedUnique ==
  ASSUME NEW s \in Seq(RawEvents), NEW i \in DOMAIN s, NEW m \in DOMAIN s, NEW j \in DOMAIN s,
         Paired(s, i, j), Paired(s, m, j)
  PROVE  i = m
<1>0. i \in Nat /\ m \in Nat /\ j \in Nat
  BY LenProperties
<1>1. /\ s[i].kind = "remove" /\ s[m].kind = "remove" /\ i < j /\ m < j
      /\ \A k \in (i + 1) .. (j - 1) : s[k].kind \in Silent
      /\ \A k \in (m + 1) .. (j - 1) : s[k].kind \in Silent
  BY DEF Paired
<1>2. "remove" \notin Silent
  BY DEF Silent
<1>3. ~(i < m)
  <2>1. SUFFICES ASSUME i < m PROVE FALSE
    OBVIOUS
  <2>2. m \in (i + 1) .. (j - 1)
    BY <1>0, <1>1, <2>1
  <2>. QED
    BY <1>1, <1>2, <2>2
<1>4. ~(m < i)
  <2>1. SUFFICES ASSUME m < i PROVE FALSE
    OBVIOUS
  <2>2. i \in (m + 1) .. (j - 1)
    BY <1>0, <1>1, <2>1
  <2>. QED
    BY <1>1, <1>2, <2>2
<1>. QED
  BY <1>0, <1>3, <1>4

\* What EventAt is, by the kind of the raw event.
LEMMA EventAtIs ==
  ASSUME NEW s \in Seq(RawEvents), \A i \in DOMAIN s : RawShape(s[i]), NEW j \in DOMAIN s,
         NEW e, e = EventAt(s, j)
  PROVE  \/ /\ e.kind = "none" /\ e = NoEvent
            /\ \/ s[j].kind \notin {"create", "both", "modify", "remove"}
               \/ s[j].kind = "remove" /\ \E c \in DOMAIN s : Paired(s, j, c)
         \/ e.kind = "modified" /\ s[j].kind = "modify" /\ e.path = s[j].path /\ e.old = NoPath
         \/ e.kind = "created" /\ s[j].kind = "create" /\ e.path = s[j].path /\ e.old = NoPath
         \/ e.kind = "deleted" /\ s[j].kind = "remove" /\ e.path = s[j].path /\ e.old = NoPath
         \/ /\ e.kind = "renamed" /\ e.path \in Paths /\ e.old \in Paths
            /\ \/ s[j].kind = "both" /\ s[j].path = e.old /\ s[j].to = e.path
               \/ \E i \in DOMAIN s : Paired(s, i, j) /\ s[i].path = e.old /\ s[j].path = e.path
<1>0. e \in WatchEvents /\ EventShape(e)
  BY EventAtTyped
<1>2. CASE s[j].kind = "create"
  <2>2. CASE \E i \in DOMAIN s : Paired(s, i, j)
    <3>1. PICK i \in DOMAIN s : i = (CHOOSE k \in DOMAIN s : Paired(s, k, j)) /\ Paired(s, i, j)
      BY <2>2, Zenon
    <3>2. e = Event("renamed", s[j].path, s[i].path)
      BY <1>2, <2>2, <3>1 DEF EventAt
    <3>3. e.kind = "renamed" /\ e.path = s[j].path /\ e.old = s[i].path
      BY <3>2 DEF Event
    <3>4. e.path \in Paths /\ e.old \in Paths
      BY <1>0, <3>3 DEF EventShape
    <3>. QED
      BY <3>1, <3>3, <3>4
  <2>3. CASE ~\E i \in DOMAIN s : Paired(s, i, j)
    <3>1. e = Event("created", s[j].path, NoPath)
      BY <1>2, <2>3 DEF EventAt
    <3>. QED
      BY <1>2, <3>1 DEF Event
  <2>. QED
    BY <2>2, <2>3
<1>3. CASE s[j].kind = "both"
  <2>1. e = Event("renamed", s[j].to, s[j].path)
    BY <1>3 DEF EventAt
  <2>2. e.kind = "renamed" /\ e.path = s[j].to /\ e.old = s[j].path
    BY <2>1 DEF Event
  <2>3. e.path \in Paths /\ e.old \in Paths
    BY <1>0, <2>2 DEF EventShape
  <2>. QED
    BY <1>3, <2>2, <2>3
<1>4. CASE s[j].kind = "modify"
  <2>1. e = Event("modified", s[j].path, NoPath)
    BY <1>4 DEF EventAt
  <2>. QED
    BY <2>1, <1>4 DEF Event
<1>5. CASE s[j].kind = "remove"
  <2>1. CASE \E c \in DOMAIN s : Paired(s, j, c)
    <3>1. e = NoEvent
      BY <1>5, <2>1 DEF EventAt
    <3>. QED
      BY <1>5, <2>1, <3>1 DEF Event, NoEvent
  <2>2. CASE ~\E c \in DOMAIN s : Paired(s, j, c)
    <3>1. e = Event("deleted", s[j].path, NoPath)
      BY <1>5, <2>2 DEF EventAt
    <3>. QED
      BY <1>5, <3>1 DEF Event
  <2>. QED
    BY <2>1, <2>2
<1>6. CASE s[j].kind \notin {"create", "both", "modify", "remove"}
  <2>1. e = NoEvent
    BY <1>6 DEF EventAt
  <2>. QED
    BY <1>6, <2>1 DEF Event, NoEvent
<1>. QED
  BY <1>2, <1>3, <1>4, <1>5, <1>6

\* An event touches only paths its raw events mention.
LEMMA TouchMentioned ==
  ASSUME NEW s \in Seq(RawEvents), \A i \in DOMAIN s : RawShape(s[i]), NEW j \in DOMAIN s,
         NEW p \in Paths, Touches(EventAt(s, j), p)
  PROVE  /\ Mentions(s[j], p) \/ \E i \in DOMAIN s : Paired(s, i, j) /\ s[i].path = p
         /\ EventAt(s, j) # NoEvent
<1>1. PICK e : e = EventAt(s, j)
  OBVIOUS
<1>2. p \in {e.path, e.old}
  BY <1>1 DEF Touches
<1>3. NoEvent.path = NoPath /\ NoEvent.old = NoPath
  BY DEF NoEvent, Event
<1>4. e # NoEvent
  BY <1>2, <1>3
<1>5. p # NoPath
  OBVIOUS
<1>6. Mentions(s[j], p) \/ \E i \in DOMAIN s : Paired(s, i, j) /\ s[i].path = p
  <2>1. CASE e.kind \in {"modified", "created", "deleted"}
    <3>1. e.path = s[j].path /\ e.old = NoPath
      BY <1>1, <2>1, EventAtIs
    <3>. QED
      BY <1>2, <1>5, <3>1 DEF Mentions
  <2>2. CASE e.kind = "renamed"
    <3>1. \/ s[j].kind = "both" /\ s[j].path = e.old /\ s[j].to = e.path
          \/ \E i \in DOMAIN s : Paired(s, i, j) /\ s[i].path = e.old /\ s[j].path = e.path
      BY <1>1, <2>2, EventAtIs
    <3>. QED
      BY <1>2, <3>1 DEF Mentions
  <2>3. e.kind \in {"modified", "created", "deleted", "renamed"}
    BY <1>1, <1>4, EventAtIs
  <2>. QED
    BY <2>1, <2>2, <2>3
<1>. QED
  BY <1>1, <1>4, <1>6

\* Every event is kept once, the first time.
LEMMA FirstKept ==
  ASSUME NEW s \in Seq(RawEvents), NEW j \in DOMAIN s
  PROVE  \E f \in DOMAIN s : /\ f <= j /\ EventAt(s, f) = EventAt(s, j)
                             /\ Normalize(s)[f] = EventAt(s, j)
<1>. DEFINE T == {f \in DOMAIN s : EventAt(s, f) = EventAt(s, j)}
<1>0. DOMAIN s = 1 .. Len(s) /\ Len(s) \in Nat
  BY LenProperties
<1>1. T \in SUBSET Nat /\ T # {} /\ j \in T
  BY <1>0
<1>2. PICK f \in T : \A y \in T : f <= y
  <2>. HIDE DEF T
  <2>. QED
    BY <1>1, LeastNumber
<1>3. f \in DOMAIN s /\ EventAt(s, f) = EventAt(s, j) /\ f <= j
  BY <1>1, <1>2
<1>4. ASSUME NEW i \in DOMAIN s, i < f, EventAt(s, i) = EventAt(s, f) PROVE FALSE
  <2>1. i \in T
    BY <1>3, <1>4
  <2>2. f <= i
    BY <1>2, <2>1
  <2>. QED
    BY <1>0, <1>3, <1>4, <2>2
<1>5. ~\E i \in DOMAIN s : i < f /\ EventAt(s, i) = EventAt(s, f)
  BY <1>4
<1>6. Normalize(s)[f] = EventAt(s, f)
  BY <1>3, <1>5, Zenon DEF Normalize
<1>. QED
  BY <1>3, <1>6

\* What is kept is an event of the series.
LEMMA KeptIs ==
  ASSUME NEW s \in Seq(RawEvents), NEW j \in DOMAIN s
  PROVE  Normalize(s)[j] \in {NoEvent, EventAt(s, j)}
BY Zenon DEF Normalize

\* A raw event that mentions a path becomes, with the Create that takes it, an
\* event that touches the path; when the path goes with it, the event tells so.
LEMMA MentionTouched ==
  ASSUME NEW s \in Seq(RawEvents), \A i \in DOMAIN s : RawShape(s[i]), NEW j \in DOMAIN s,
         NEW p \in Paths, Mentions(s[j], p)
  PROVE  \E c \in DOMAIN s :
           /\ c >= j /\ Touches(EventAt(s, c), p)
           /\ Turn(s[j], p) /\ ~Plus(s[j], p) =>
                \/ EventAt(s, c).kind = "deleted" /\ EventAt(s, c).path = p
                \/ EventAt(s, c).kind = "renamed" /\ EventAt(s, c).old = p
           /\ Plus(s[j], p) => c = j /\ EventAt(s, c).path = p /\ EventAt(s, c).kind # "deleted"
<1>0. DOMAIN s = 1 .. Len(s) /\ Len(s) \in Nat /\ j \in Nat /\ j >= j
  BY LenProperties
<1>1. PICK e : e = EventAt(s, j)
  OBVIOUS
<1>2. RawShape(s[j]) /\ p \in {s[j].path, s[j].to} /\ p # NoPath /\ s[j] \in RawEvents
  BY <1>0, ElementOfSeq DEF Mentions
<1>3. CASE s[j].kind = "modify"
  <2>1. e.kind = "modified" /\ e.path = s[j].path
    BY <1>1, <1>3, EventAtIs DEF Paired
  <2>2. s[j].path = p
    BY <1>2, <1>3 DEF RawShape
  <2>3. ~Turn(s[j], p) /\ ~Plus(s[j], p)
    BY <1>3 DEF Turn, Plus
  <2>. QED
    BY <1>0, <1>1, <2>1, <2>2, <2>3 DEF Touches
<1>4. CASE s[j].kind = "create"
  <2>1. /\ e.path = s[j].path /\ e.kind # "deleted"
    BY <1>1, <1>4, EventAtIs
  <2>2. s[j].path = p
    BY <1>2, <1>4 DEF RawShape
  <2>3. Plus(s[j], p)
    BY <1>4 DEF Plus
  <2>. QED
    BY <1>0, <1>1, <2>1, <2>2, <2>3 DEF Touches
<1>5. CASE s[j].kind = "both"
  <2>1. e.kind = "renamed" /\ e.path = s[j].to /\ e.old = s[j].path
    BY <1>1, <1>5, EventAtIs DEF Paired
  <2>2. Plus(s[j], p) <=> s[j].to = p
    BY <1>5 DEF Plus
  <2>. QED
    BY <1>0, <1>1, <1>2, <2>1, <2>2 DEF Touches
<1>6. CASE s[j].kind = "remove"
  <2>1. s[j].path = p
    BY <1>2, <1>6 DEF RawShape
  <2>2. ~Plus(s[j], p)
    BY <1>6 DEF Plus
  <2>3. CASE e.kind = "deleted"
    <3>1. e.path = p
      BY <1>1, <2>1, <2>3, EventAtIs
    <3>. QED
      BY <1>0, <1>1, <2>2, <2>3, <3>1 DEF Touches
  <2>4. CASE e.kind # "deleted"
    <3>1. PICK c \in DOMAIN s : Paired(s, j, c)
      BY <1>1, <1>6, <2>4, EventAtIs DEF Paired
    <3>2. PICK m : m = EventAt(s, c)
      OBVIOUS
    <3>3. s[c].kind = "create" /\ c > j /\ c \in Nat
      BY <1>0, <3>1 DEF Paired
    <3>4. m.kind = "renamed" /\ \E i \in DOMAIN s : Paired(s, i, c) /\ s[i].path = m.old
      <4>1. EventAt(s, c) = Event("renamed", s[c].path, s[CHOOSE i \in DOMAIN s : Paired(s, i, c)].path)
        BY <3>1, <3>3 DEF EventAt
      <4>2. m.kind = "renamed"
        BY <3>2, <4>1 DEF Event
      <4>. QED
        BY <3>2, <3>3, <4>2, EventAtIs
    <3>5. m.old = p
      BY <2>1, <3>1, <3>4, PairedUnique
    <3>. QED
      BY <1>0, <2>2, <3>2, <3>3, <3>4, <3>5 DEF Touches
  <2>. QED
    BY <2>3, <2>4
<1>7. s[j].kind \in {"create", "modify", "both", "remove"}
  BY <1>2 DEF RawShape, RawEvents
<1>. QED
  BY <1>3, <1>4, <1>5, <1>6, <1>7

\* A path has a last mention in a series, if any.
LEMMA LastMentionExists ==
  ASSUME NEW s \in Seq(RawEvents), NEW p, NEW i \in DOMAIN s, Mentions(s[i], p)
  PROVE  \E k \in DOMAIN s : LastMention(s, p, k) /\ i <= k
<1>. DEFINE T == {k \in DOMAIN s : Mentions(s[k], p)}
<1>1. Len(s) \in Nat /\ DOMAIN s = 1 .. Len(s)
  BY LenProperties
<1>2. T \in SUBSET Nat /\ T # {} /\ \A y \in T : y <= Len(s)
  BY <1>1
<1>3. PICK k \in T : \A y \in T : k >= y
  <2>. HIDE DEF T
  <2>. QED
    BY <1>1, <1>2, GreatestNumber
<1>4. \A l \in DOMAIN s : l > k => ~Mentions(s[l], p)
  BY <1>1, <1>3
<1>5. i <= k
  BY <1>1, <1>3
<1>. QED
  BY <1>3, <1>4, <1>5 DEF LastMention

\* The event at k is the last one kept of the path.
LastOf(s, cl, d, ls, p, k) ==
  /\ \A i \in DOMAIN s : RawShape(s[i])
  /\ p \in cl /\ RawClean(s, p, d) /\ RawLinks(s, cl, ls)
  /\ LastTouch(Normalize(s), p, k)

\* It tells how the path is: it came ...
LEMMA LastKeptCame ==
  ASSUME NEW s \in Seq(RawEvents), NEW cl, NEW d, NEW ls, NEW p \in Paths, NEW k \in DOMAIN s,
         LastOf(s, cl, d, ls, p, k),
         Normalize(s)[k].path = p, Normalize(s)[k].kind # "deleted"
  PROVE  d[p] # Absent
<1>. USE DEF LastOf
<1>0. /\ DOMAIN s = 1 .. Len(s) /\ Len(s) \in Nat /\ DOMAIN Normalize(s) = DOMAIN s
      /\ \A i \in DOMAIN s : i \in Nat
  BY LenProperties, NormalizeTyped
<1>1. SUFFICES ASSUME d[p] = Absent PROVE FALSE
  OBVIOUS
<1>2. PICK e : e = EventAt(s, k)
  OBVIOUS
<1>3. Touches(Normalize(s)[k], p) /\ \A l \in DOMAIN s : l > k => ~Touches(Normalize(s)[l], p)
  BY <1>0 DEF LastTouch
<1>4. Normalize(s)[k] = e /\ e.path = p /\ e.kind # "deleted" /\ e # NoEvent
  <2>1. NoEvent.path # p
    BY DEF NoEvent, Event
  <2>. QED
    BY <1>2, <2>1, KeptIs
<1>5. s[k].path = p \/ s[k].to = p
  BY <1>2, <1>4, EventAtIs
<1>6. Mentions(s[k], p)
  BY <1>5 DEF Mentions
<1>7. PICK j \in DOMAIN s : LastMention(s, p, j) /\ k <= j
  BY <1>6, LastMentionExists
<1>8. s[j].kind # "modify" /\ Mentions(s[j], p) /\ \A l \in DOMAIN s : l > j => ~Mentions(s[l], p)
  BY <1>1, <1>7 DEF RawClean, RawModify, LastMention
<1>9. Turn(s[j], p) /\ LastTurn(s, p, j)
  <2>1. s[j] \in RawEvents /\ RawShape(s[j])
    BY <1>0, ElementOfSeq
  <2>2. s[j].kind \in {"create", "remove", "both"}
    BY <1>8, <2>1 DEF RawShape, RawEvents, Mentions
  <2>3. Turn(s[j], p)
    BY <1>8, <2>2 DEF Turn
  <2>. QED
    BY <1>8, <2>3 DEF LastTurn, Turn
<1>10. ~Plus(s[j], p)
  BY <1>1, <1>9 DEF RawClean, RawTurn
<1>11. k < j
  <2>1. SUFFICES ASSUME k = j PROVE FALSE
    BY <1>0, <1>7
  <2>2. e.kind \in {"created", "renamed"}
    BY <1>2, <1>4, <1>8, <2>1, EventAtIs
  <2>3. Plus(s[k], p)
    <3>1. \/ s[k].kind = "create"
          \/ s[k].kind = "both" /\ s[k].to = p
      BY <1>2, <1>4, <2>2, EventAtIs DEF Paired
    <3>. QED
      BY <3>1 DEF Plus
  <2>. QED
    BY <1>10, <2>1, <2>3
<1>12. PICK c \in DOMAIN s :
         /\ c >= j /\ Touches(EventAt(s, c), p)
         /\ \/ EventAt(s, c).kind = "deleted" /\ EventAt(s, c).path = p
            \/ EventAt(s, c).kind = "renamed" /\ EventAt(s, c).old = p
  BY <1>8, <1>9, <1>10, MentionTouched
<1>13. PICK f \in DOMAIN s : /\ f <= c /\ EventAt(s, f) = EventAt(s, c)
                             /\ Normalize(s)[f] = EventAt(s, c)
  BY FirstKept
<1>14. f <= k
  BY <1>0, <1>3, <1>12, <1>13
<1>15. PICK m : m = EventAt(s, c)
  OBVIOUS
<1>16. CASE m.kind = "deleted"
  <2>1. s[c].kind = "remove" /\ s[c].path = p /\ s[f].kind = "remove" /\ s[f].path = p
    <3>1. m.path = p
      BY <1>12, <1>15, <1>16
    <3>2. s[c].kind = "remove" /\ s[c].path = p
      BY <1>15, <1>16, <3>1, EventAtIs
    <3>3. s[f].kind = "remove" /\ s[f].path = p
      BY <1>13, <1>15, <1>16, <3>1, EventAtIs
    <3>. QED
      BY <3>2, <3>3
  <2>2. f < c
    BY <1>0, <1>11, <1>12, <1>14
  <2>. QED
    BY <2>1, <2>2 DEF RawClean, RawRemoves
<1>17. CASE m.kind = "renamed"
  <2>1. m.old = p /\ m.path \in Paths
    <3>1. m.old = p
      BY <1>12, <1>15, <1>17
    <3>. QED
      BY <1>15, <1>17, <3>1, EventAtIs
  <2>2. Moved(s, p, m.path, f)
    BY <1>13, <1>15, <1>17, <2>1, EventAtIs DEF Moved
  <2>3. Moved(s, p, m.path, c)
    BY <1>15, <1>17, <2>1, EventAtIs DEF Moved
  <2>4. m.path # p
    <3>1. SUFFICES ASSUME m.path = p PROVE FALSE
      OBVIOUS
    <3>2. Plus(s[c], p) /\ Mentions(s[c], p)
      BY <2>3, <3>1 DEF Moved, Plus, Mentions, Paired
    <3>3. c = j
      BY <1>0, <1>8, <1>12, <3>2
    <3>. QED
      BY <1>10, <3>2, <3>3
  <2>5. ~(k > f)
    BY <1>6, <2>1, <2>2, <2>4 DEF RawLinks
  <2>6. f = k
    BY <1>0, <1>14, <2>5
  <2>7. e = m
    BY <1>2, <1>13, <1>15, <2>6
  <2>. QED
    BY <1>4, <2>4, <2>7
<1>. QED
  BY <1>12, <1>15, <1>16, <1>17

\* ... or it went.
LEMMA LastKeptWent ==
  ASSUME NEW s \in Seq(RawEvents), NEW cl, NEW d, NEW ls, NEW p \in Paths, NEW k \in DOMAIN s,
         LastOf(s, cl, d, ls, p, k),
         Normalize(s)[k].path = p => Normalize(s)[k].kind = "deleted"
  PROVE  d[p] = Absent
<1>. USE DEF LastOf
<1>0. /\ DOMAIN s = 1 .. Len(s) /\ Len(s) \in Nat /\ DOMAIN Normalize(s) = DOMAIN s
      /\ \A i \in DOMAIN s : i \in Nat
  BY LenProperties, NormalizeTyped
<1>1. SUFFICES ASSUME d[p] # Absent PROVE FALSE
  OBVIOUS
<1>2. PICK e : e = EventAt(s, k)
  OBVIOUS
<1>3. Touches(Normalize(s)[k], p) /\ \A l \in DOMAIN s : l > k => ~Touches(Normalize(s)[l], p)
  BY <1>0 DEF LastTouch
<1>4. Normalize(s)[k] = e /\ p \in {e.path, e.old} /\ e # NoEvent
  <2>1. NoEvent.path # p /\ NoEvent.old # p
    BY DEF NoEvent, Event
  <2>. QED
    BY <1>2, <1>3, <2>1, KeptIs DEF Touches
<1>5. e.kind \in {"deleted", "renamed"}
  BY <1>2, <1>4, EventAtIs
<1>6. CASE e.kind = "deleted"
  <2>1. s[k].kind = "remove" /\ s[k].path = p
    BY <1>2, <1>4, <1>6, EventAtIs
  <2>2. Turn(s[k], p) /\ ~Plus(s[k], p)
    BY <2>1 DEF Turn, Plus, Mentions
  <2>3. PICK t \in DOMAIN s : LastTurn(s, p, t) /\ k <= t
    BY <2>2, LastTurnExists
  <2>4. Plus(s[t], p) /\ Turn(s[t], p)
    BY <1>1, <2>3 DEF RawClean, RawTurn, LastTurn
  <2>5. k < t
    BY <1>0, <2>2, <2>3, <2>4
  <2>6. Touches(EventAt(s, t), p) /\ EventAt(s, t).path = p /\ EventAt(s, t).kind # "deleted"
    BY <2>4, MentionTouched DEF Turn
  <2>7. PICK f \in DOMAIN s : /\ f <= t /\ EventAt(s, f) = EventAt(s, t)
                              /\ Normalize(s)[f] = EventAt(s, t)
    BY FirstKept
  <2>8. f <= k
    BY <1>0, <1>3, <2>6, <2>7
  <2>9. f # k
    BY <1>2, <1>6, <2>6, <2>7
  <2>10. PICK m : m = EventAt(s, t)
    OBVIOUS
  <2>11. s[t].kind \in {"create", "both"} /\ m.path = p
    BY <2>4, <2>6, <2>10 DEF Plus
  <2>12. m.kind \in {"created", "renamed"}
    BY <2>10, <2>11, EventAtIs
  <2>13. \/ s[f].kind = "create" /\ s[f].path = p
         \/ s[f].kind = "both" /\ s[f].to = p
    BY <2>7, <2>10, <2>11, <2>12, EventAtIs DEF Paired
  <2>14. Turn(s[f], p)
    BY <2>13 DEF Turn, Mentions
  <2>15. f < k
    BY <1>0, <2>8, <2>9
  <2>16. p \in Spinning(s)
    BY <2>2, <2>4, <2>5, <2>14, <2>15, Zenon DEF Spinning
  <2>. QED
    BY <2>16 DEF RawClean
<1>7. CASE e.kind = "renamed"
  <2>1. e.old = p /\ e.path # p /\ e.path \in Paths
    BY <1>2, <1>4, <1>7, EventAtIs
  <2>2. Moved(s, p, e.path, k)
    BY <1>2, <1>7, <2>1, EventAtIs DEF Moved
  <2>3. \A l \in DOMAIN s : l > k => ~Mentions(s[l], p)
    BY <2>1, <2>2 DEF RawLinks
  <2>4. CASE s[k].kind = "both" /\ s[k].path = p /\ s[k].to = e.path
    <3>1. Turn(s[k], p) /\ ~Plus(s[k], p)
      BY <2>1, <2>4 DEF Turn, Plus, Mentions
    <3>2. LastTurn(s, p, k)
      BY <2>3, <3>1 DEF LastTurn, Turn
    <3>. QED
      BY <1>1, <3>1, <3>2 DEF RawClean, RawTurn
  <2>5. CASE \E i \in DOMAIN s : Paired(s, i, k) /\ s[i].path = p /\ s[k].path = e.path
    <3>1. PICK i \in DOMAIN s : Paired(s, i, k) /\ s[i].path = p /\ s[k].path = e.path
      BY <2>5
    <3>2. /\ i < k /\ s[i].kind = "remove" /\ s[k].kind = "create"
          /\ \A l \in (i + 1) .. (k - 1) : s[l].kind \in Silent
      BY <3>1 DEF Paired
    <3>3. Turn(s[i], p) /\ ~Plus(s[i], p)
      BY <3>1, <3>2 DEF Turn, Plus, Mentions
    <3>4. ASSUME NEW l \in DOMAIN s, l > i PROVE ~Turn(s[l], p)
      <4>1. CASE l > k
        BY <2>3, <4>1 DEF Turn
      <4>2. CASE l = k
        <5>1. RawShape(s[k])
          OBVIOUS
        <5>. QED
          BY <2>1, <3>1, <3>2, <4>2, <5>1 DEF RawShape, Turn, Mentions
      <4>3. CASE l < k
        <5>1. l \in (i + 1) .. (k - 1)
          BY <1>0, <3>4, <4>3
        <5>. QED
          BY <3>2, <5>1 DEF Silent, Turn
      <4>. QED
        BY <1>0, <4>1, <4>2, <4>3
    <3>5. LastTurn(s, p, i)
      BY <3>3, <3>4 DEF LastTurn
    <3>. QED
      BY <1>1, <3>3, <3>5 DEF RawClean, RawTurn
  <2>. QED
    BY <2>2, <2>4, <2>5 DEF Moved
<1>. QED
  BY <1>5, <1>6, <1>7

LEMMA LastKept ==
  ASSUME NEW s \in Seq(RawEvents), NEW cl, NEW d, NEW ls, NEW p \in Paths, NEW k \in DOMAIN s,
         LastOf(s, cl, d, ls, p, k)
  PROVE  d[p] # Absent <=> Normalize(s)[k].path = p /\ Normalize(s)[k].kind # "deleted"
<1>1. CASE Normalize(s)[k].path = p /\ Normalize(s)[k].kind # "deleted"
  BY <1>1, LastKeptCame
<1>2. CASE Normalize(s)[k].path = p => Normalize(s)[k].kind = "deleted"
  BY <1>2, LastKeptWent
<1>. QED
  BY <1>1, <1>2

\* A path the series mentions is touched by an event that is kept, and only such a
\* path is.
LEMMA KeptTouches ==
  ASSUME NEW s \in Seq(RawEvents), \A i \in DOMAIN s : RawShape(s[i]), NEW p \in Paths
  PROVE  Silence(s, p) <=> \A k \in DOMAIN s : ~Touches(Normalize(s)[k], p)
<1>1. ASSUME ~Silence(s, p) PROVE \E k \in DOMAIN s : Touches(Normalize(s)[k], p)
  <2>1. PICK j \in DOMAIN s : Mentions(s[j], p)
    BY <1>1 DEF Silence
  <2>2. PICK c \in DOMAIN s : Touches(EventAt(s, c), p)
    BY <2>1, MentionTouched
  <2>3. PICK f \in DOMAIN s : Normalize(s)[f] = EventAt(s, c)
    BY FirstKept
  <2>. QED
    BY <2>2, <2>3
<1>2. ASSUME NEW k \in DOMAIN s, Touches(Normalize(s)[k], p) PROVE ~Silence(s, p)
  <2>1. Touches(EventAt(s, k), p)
    <3>1. ~Touches(NoEvent, p)
      BY DEF NoEvent, Event, Touches
    <3>. QED
      BY <1>2, <3>1, KeptIs
  <2>2. Mentions(s[k], p) \/ \E i \in DOMAIN s : Paired(s, i, k) /\ s[i].path = p
    BY <2>1, TouchMentioned
  <2>. QED
    BY <2>2 DEF Silence, Mentions
<1>. QED
  BY <1>1, <1>2

\* A rename that is kept is a link, and no event after it touches its paths.
LEMMA KeptLinks ==
  ASSUME NEW s \in Seq(RawEvents), \A i \in DOMAIN s : RawShape(s[i]),
         NEW cl, NEW ls, RawLinks(s, cl, ls), NEW k \in DOMAIN s,
         Normalize(s)[k].kind = "renamed", Normalize(s)[k].old # Normalize(s)[k].path,
         Normalize(s)[k].old \in cl
  PROVE  /\ Moved(s, Normalize(s)[k].old, Normalize(s)[k].path, k)
         /\ <<Normalize(s)[k].old, Normalize(s)[k].path>> \in ls
         /\ \A l \in DOMAIN s : l > k =>
              /\ ~Touches(Normalize(s)[l], Normalize(s)[k].old)
              /\ ~Touches(Normalize(s)[l], Normalize(s)[k].path)
<1>0. \A i \in DOMAIN s : i \in Nat
  BY LenProperties
<1>1. PICK e : e = EventAt(s, k)
  OBVIOUS
<1>2. Normalize(s)[k] = e
  <2>1. NoEvent.kind # "renamed"
    BY DEF NoEvent, Event
  <2>. QED
    BY <1>1, <2>1, KeptIs
<1>3. e.kind = "renamed" /\ e.old # e.path /\ e.old \in cl
  BY <1>2
<1>4. e.path \in Paths /\ e.old \in Paths /\ Moved(s, e.old, e.path, k) /\ s[k].kind \in {"both", "create"}
  BY <1>1, <1>3, EventAtIs, SMTT(30) DEF Moved, Paired
<1>5. /\ <<e.old, e.path>> \in ls
      /\ \A l \in DOMAIN s : l > k => ~Mentions(s[l], e.old) /\ ~Mentions(s[l], e.path)
  BY <1>3, <1>4 DEF RawLinks
<1>6. ASSUME NEW l \in DOMAIN s, l > k, NEW x \in {e.old, e.path}, Touches(Normalize(s)[l], x)
      PROVE  FALSE
  <2>1. x \in Paths /\ \A m \in DOMAIN s : m > k => ~Mentions(s[m], x)
    BY <1>4, <1>5
  <2>2. Touches(EventAt(s, l), x)
    <3>1. ~Touches(NoEvent, x)
      BY <2>1 DEF NoEvent, Event, Touches
    <3>. QED
      BY <1>6, <3>1, KeptIs
  <2>3. PICK i \in DOMAIN s : Paired(s, i, l) /\ s[i].path = x
    BY <1>6, <2>1, <2>2, TouchMentioned
  <2>4. Mentions(s[i], x) /\ ~(i > k) /\ i < l /\ s[i].kind = "remove"
        /\ \A m \in (i + 1) .. (l - 1) : s[m].kind \in Silent
    BY <2>1, <2>3 DEF Mentions, Paired
  <2>5. i # k
    BY <1>4, <2>4
  <2>6. k \in (i + 1) .. (l - 1)
    BY <1>0, <1>6, <2>4, <2>5
  <2>. QED
    BY <1>4, <2>4, <2>6 DEF Silent
<1>. QED
  BY <1>2, <1>4, <1>5, <1>6, Zenon

-----------------------------------------------------------------------------
(* The drains.                                                             *)

\* The front of a series knows all of a path the rest does not mention.
LEMMA FrontClean ==
  ASSUME NEW s \in Seq(RawEvents), NEW r \in Seq(RawEvents), NEW p, NEW d,
         RawClean(s \o r, p, d), Silence(r, p)
  PROVE  RawClean(s, p, d)
<1>. DEFINE w == s \o r
            n == Len(s)
<1>0. /\ \A i \in DOMAIN s : i \in Nat /\ i <= n /\ i \in DOMAIN w /\ w[i] = s[i]
      /\ \A k \in DOMAIN w :
           /\ k \in Nat
           /\ k <= n => k \in DOMAIN s /\ w[k] = s[k]
           /\ k > n => k - n \in DOMAIN r /\ w[k] = r[k - n]
      /\ n \in Nat
  BY AppendIndices
<1>a. RawClean(w, p, d)
  OBVIOUS
<1>. HIDE DEF w, n
<1>1. ASSUME NEW k \in DOMAIN w, k > n PROVE ~Mentions(w[k], p)
  BY <1>0, <1>1 DEF Silence
<1>2. RawModify(s, p, d)
  <2>1. \A j \in DOMAIN s : LastMention(s, p, j) => LastMention(w, p, j)
    BY <1>0, <1>1 DEF LastMention
  <2>. QED
    BY <1>0, <1>a, <2>1 DEF RawClean, RawModify
<1>3. RawTurn(s, p, d)
  <2>1. \A j \in DOMAIN s : LastTurn(s, p, j) => LastTurn(w, p, j)
    BY <1>0, <1>1 DEF LastTurn, Turn
  <2>. QED
    BY <1>0, <1>a, <2>1 DEF RawClean, RawTurn
<1>4. RawRemoves(s, p)
  BY <1>0, <1>a DEF RawClean, RawRemoves
<1>5. p \notin Spinning(s)
  <2>1. SUFFICES ASSUME p \in Spinning(s) PROVE FALSE
    OBVIOUS
  <2>2. p \in Paths
    BY <2>1 DEF Spinning
  <2>3. PICK i \in DOMAIN s : \E j \in DOMAIN s : \E k \in DOMAIN s :
          i < j /\ j < k /\ Turn(s[i], p) /\ Turn(s[j], p) /\ Turn(s[k], p)
    BY <2>1 DEF Spinning
  <2>4. PICK j \in DOMAIN s : \E k \in DOMAIN s :
          i < j /\ j < k /\ Turn(s[i], p) /\ Turn(s[j], p) /\ Turn(s[k], p)
    BY <2>3
  <2>5. PICK k \in DOMAIN s :
          i < j /\ j < k /\ Turn(s[i], p) /\ Turn(s[j], p) /\ Turn(s[k], p)
    BY <2>4
  <2>6. /\ i \in DOMAIN w /\ j \in DOMAIN w /\ k \in DOMAIN w /\ i < j /\ j < k
        /\ Turn(w[i], p) /\ Turn(w[j], p) /\ Turn(w[k], p)
    BY <1>0, <2>5
  <2>7. p \in Spinning(w)
    BY <2>2, <2>6, Zenon DEF Spinning
  <2>. QED
    BY <1>a, <2>7 DEF RawClean
<1>. QED
  BY <1>2, <1>3, <1>4, <1>5 DEF RawClean

LEMMA FrontLinks ==
  ASSUME NEW s \in Seq(RawEvents), NEW r \in Seq(RawEvents), NEW cl, NEW ls,
         RawLinks(s \o r, cl, ls)
  PROVE  /\ RawLinks(s, cl, ls)
         /\ \A old \in cl : \A new \in Paths : \A j \in DOMAIN s :
              Moved(s, old, new, j) /\ old # new => Silence(r, old) /\ Silence(r, new)
<1>. DEFINE w == s \o r
            n == Len(s)
<1>0. /\ \A i \in DOMAIN s : i \in Nat /\ i <= n /\ i \in DOMAIN w /\ w[i] = s[i]
      /\ \A i \in DOMAIN r : i \in Nat /\ i > 0 /\ i + n \in DOMAIN w /\ w[i + n] = r[i]
      /\ n \in Nat
  BY AppendIndices
<1>a. RawLinks(w, cl, ls) /\ DOMAIN s = 1 .. n
  BY LenProperties
<1>. HIDE DEF w, n
<1>1. ASSUME NEW i \in DOMAIN s, NEW j \in DOMAIN s, Paired(s, i, j) PROVE Paired(w, i, j)
  <2>1. \A k \in (i + 1) .. (j - 1) : k \in DOMAIN s
    BY <1>0, <1>a
  <2>. QED
    BY <1>0, <1>1, <2>1 DEF Paired
<1>2. ASSUME NEW old \in cl, NEW new \in Paths, NEW j \in DOMAIN s, Moved(s, old, new, j), old # new
      PROVE  /\ <<old, new>> \in ls
             /\ \A k \in DOMAIN s : k > j => ~Mentions(s[k], old) /\ ~Mentions(s[k], new)
             /\ Silence(r, old) /\ Silence(r, new)
  <2>1. Moved(w, old, new, j) /\ j \in DOMAIN w
    BY <1>0, <1>1, <1>2 DEF Moved
  <2>2. /\ <<old, new>> \in ls
        /\ \A k \in DOMAIN w : k > j => ~Mentions(w[k], old) /\ ~Mentions(w[k], new)
    BY <1>2, <1>a, <2>1 DEF RawLinks
  <2>3. \A k \in DOMAIN r : k + n > j
    BY <1>0
  <2>. QED
    BY <1>0, <2>2, <2>3 DEF Silence
<1>. QED
  BY <1>2 DEF RawLinks

\* How the indices of a sequence of events and of what is appended correspond.
LEMMA EventIndices ==
  ASSUME NEW evs \in Seq(WatchEvents), NEW add \in Seq(WatchEvents)
  PROVE  /\ Len(evs) \in Nat
         /\ \A i \in DOMAIN evs : /\ i \in Nat /\ i <= Len(evs) /\ i \in DOMAIN (evs \o add)
                                  /\ (evs \o add)[i] = evs[i]
         /\ \A i \in DOMAIN add : /\ i \in Nat /\ i > 0 /\ i + Len(evs) \in DOMAIN (evs \o add)
                                  /\ (evs \o add)[i + Len(evs)] = add[i]
         /\ \A k \in DOMAIN (evs \o add) :
              /\ k \in Nat
              /\ k <= Len(evs) => k \in DOMAIN evs /\ (evs \o add)[k] = evs[k]
              /\ k > Len(evs) => /\ k - Len(evs) \in DOMAIN add
                                 /\ (evs \o add)[k] = add[k - Len(evs)]
<1>1. /\ evs \o add \in Seq(WatchEvents) /\ Len(evs \o add) = Len(evs) + Len(add)
      /\ \A i \in 1 .. Len(evs) + Len(add) :
           (evs \o add)[i] = IF i <= Len(evs) THEN evs[i] ELSE add[i - Len(evs)]
  BY ConcatProperties
<1>2. /\ Len(evs) \in Nat /\ DOMAIN evs = 1 .. Len(evs) /\ Len(add) \in Nat /\ DOMAIN add = 1 .. Len(add)
      /\ DOMAIN (evs \o add) = 1 .. Len(evs \o add)
  BY <1>1, LenProperties
<1>3. \A i \in DOMAIN evs : /\ i \in Nat /\ i <= Len(evs) /\ i \in DOMAIN (evs \o add)
                            /\ (evs \o add)[i] = evs[i]
  BY <1>1, <1>2
<1>4. \A i \in DOMAIN add : /\ i \in Nat /\ i > 0 /\ i + Len(evs) \in DOMAIN (evs \o add)
                            /\ (evs \o add)[i + Len(evs)] = add[i]
  BY <1>1, <1>2
<1>5. \A k \in DOMAIN (evs \o add) :
        /\ k \in Nat
        /\ k <= Len(evs) => k \in DOMAIN evs /\ (evs \o add)[k] = evs[k]
        /\ k > Len(evs) => /\ k - Len(evs) \in DOMAIN add
                           /\ (evs \o add)[k] = add[k - Len(evs)]
  BY <1>1, <1>2
<1>. QED
  BY <1>2, <1>3, <1>4, <1>5

LEMMA SliceKept ==
  ASSUME SliceInv, CleanPaths' \in SUBSET CleanPaths, UNCHANGED <<hash, node>>
  PROVE  SliceInv'
<1>1. \A p \in Paths : NodesAt(p)' = NodesAt(p)
  BY DEF NodesAt
<1>2. ASSUME NEW p \in CleanPaths' PROVE Consistent(p)'
  <2>1. Consistent(p) /\ NodesAt(p)' = NodesAt(p)
    BY <1>1 DEF SliceInv, CleanPaths
  <2>. QED
    BY <2>1 DEF Consistent
<1>. QED
  BY <1>2 DEF SliceInv

\* A drain keeps the invariant: what is taken from the queue is told by the events.
LEMMA DrainKeeps ==
  ASSUME ShapeInv, WatchInv, events' = events \o Normalize(queue), queue' = <<>>,
         pc \in {"idle", "debounce"}, pc' \in {"debounce", "plan"},
         UNCHANGED <<disk, hash, node, wire, dropped, plan, moves, stale, parse,
                     gone, links, tangled, missed, mixed>>
  PROVE  WatchInv'
<1>0. /\ InFlight \in Seq(RawEvents) /\ wire \in Seq(RawEvents) /\ queue \in Seq(RawEvents)
      /\ queue \o wire \in Seq(RawEvents)
  BY InFlightTyped
<1>1. CleanPaths' = CleanPaths /\ CleanPaths \in SUBSET Paths
  BY DEF CleanPaths
<1>2. InFlight' = wire
  <2>1. <<>> \o wire = wire
    BY <1>0, ConcatEmptySeq
  <2>. QED
    BY <2>1 DEF InFlight
<1>3. RawInv'
  <2>1. RawOK(wire, CleanPaths, disk, links, gone)
    <3>1. CASE dropped = 0
      <4>1. SuffixOf(wire, queue \o wire, Len(queue))
        BY <1>0, AppendIndices
      <4>2. RawOK(queue \o wire, CleanPaths, disk, links, gone)
        BY <3>1 DEF WatchInv, RawInv, InFlight
      <4>. QED
        BY <1>0, <4>1, <4>2, RawSuffix
    <3>2. CASE dropped # 0
      BY <3>2 DEF WatchInv, RawInv, InFlight
    <3>. QED
      BY <3>1, <3>2
  <2>. QED
    BY <1>1, <1>2, <2>1 DEF RawInv
<1>4. SliceInv'
  <2>1. SliceInv /\ CleanPaths' \in SUBSET CleanPaths /\ UNCHANGED <<hash, node>>
    BY <1>1 DEF WatchInv
  <2>. QED
    BY <2>1, SliceKept
<1>5. PlanInv' /\ WorkInv'
  <2>1. moves = {}
    BY DEF ShapeInv
  <2>2. WorkInv'
    BY <2>1 DEF WorkInv, WorkLinks
  <2>. QED
    BY <2>2 DEF PlanInv
<1>6. EventInv'
  <2>1. CASE dropped # 0
    <3>1. Settled' = {}
      BY <2>1 DEF Settled
    <3>. QED
      BY <2>1, <3>1 DEF EventInv
  <2>2. CASE dropped = 0
    <3>0. \A i \in DOMAIN queue : RawShape(queue[i])
      BY DEF ShapeInv
    <3>1. PICK evs \in Seq(WatchEvents) : evs = events
      BY DEF ShapeInv, TypeOK
    <3>2. PICK add \in Seq(WatchEvents) : add = Normalize(queue) /\ DOMAIN add = DOMAIN queue
      BY <1>0, <3>0, NormalizeTyped
    <3>3. PICK n \in Nat : n = Len(evs)
      BY LenProperties
    <3>4. PICK w : w = evs \o add
      OBVIOUS
    <3>5. /\ \A i \in DOMAIN evs : /\ i \in Nat /\ i <= n /\ i \in DOMAIN w /\ w[i] = evs[i]
          /\ \A i \in DOMAIN add : /\ i \in Nat /\ i > 0 /\ i + n \in DOMAIN w /\ w[i + n] = add[i]
          /\ \A k \in DOMAIN w :
               /\ k \in Nat
               /\ k <= n => k \in DOMAIN evs /\ w[k] = evs[k]
               /\ k > n => k - n \in DOMAIN add /\ w[k] = add[k - n]
      BY <3>3, <3>4, EventIndices, SMTT(30)
    <3>6. events' = w
      BY <3>1, <3>2, <3>4
    <3>7. RawOK(queue \o wire, CleanPaths, disk, links, gone)
      BY <2>2 DEF WatchInv, RawInv, InFlight
    <3>8. \A p \in Paths : p \in Settled' <=> p \in CleanPaths /\ Silence(wire, p)
      <4>1. \A p \in Paths : Quiet(p)' <=> Silence(wire, p)
        BY <1>2 DEF Quiet, Silence
      <4>. QED
        BY <1>1, <2>2, <4>1 DEF Settled
    <3>a. Settled' \in SUBSET Paths
      BY <1>1 DEF Settled
    <3>9. \A p \in Paths : Silence(queue, p) <=> \A k \in DOMAIN add : ~Touches(add[k], p)
      BY <1>0, <3>0, <3>2, KeptTouches
    <3>10. \A p \in Paths : Quiet(p) <=> Silence(queue, p) /\ Silence(wire, p)
      <4>1. \A p \in Paths : Silence(queue \o wire, p) <=> Silence(queue, p) /\ Silence(wire, p)
        BY <1>0, SilenceConcat
      <4>. QED
        BY <2>2, <4>1 DEF Quiet, InFlight
    <3>11. RawLinks(queue, CleanPaths, links)
           /\ \A old \in CleanPaths : \A new \in Paths : \A j \in DOMAIN queue :
                Moved(queue, old, new, j) /\ old # new => Silence(wire, old) /\ Silence(wire, new)
      <4>1. RawLinks(queue \o wire, CleanPaths, links)
        BY <3>7 DEF RawOK
      <4>. QED
        BY <1>0, <4>1, FrontLinks
    <3>12. ASSUME NEW p \in Settled', NEW k \in DOMAIN w, LastTouch(w, p, k)
           PROVE  disk[p] # Absent <=> w[k].path = p /\ w[k].kind # "deleted"
      <4>0. p \in Paths /\ p \in CleanPaths /\ Silence(wire, p)
        BY <3>8, <3>a
      <4>1. Touches(w[k], p) /\ \A l \in DOMAIN w : l > k => ~Touches(w[l], p)
        BY <3>12 DEF LastTouch
      <4>2. CASE k > n
        <5>1. PICK m \in DOMAIN queue : m = k - n /\ w[k] = add[m]
          BY <3>2, <3>5, <4>2
        <5>2. ASSUME NEW l \in DOMAIN add, l > m PROVE ~Touches(add[l], p)
          <6>1. l + n \in DOMAIN w /\ w[l + n] = add[l] /\ l + n > k
            BY <3>2, <3>5, <5>1, <5>2
          <6>. QED
            BY <4>1, <6>1
        <5>3. LastTouch(Normalize(queue), p, m)
          BY <3>2, <4>1, <5>1, <5>2 DEF LastTouch
        <5>4. RawClean(queue, p, disk)
          <6>1. RawClean(queue \o wire, p, disk)
            BY <3>7, <4>0 DEF RawOK
          <6>. QED
            BY <1>0, <4>0, <6>1, FrontClean
        <5>5. RawLinks(queue, CleanPaths, links)
          BY <3>11
        <5>a. LastOf(queue, CleanPaths, disk, links, p, m)
          BY <3>0, <4>0, <5>3, <5>4, <5>5 DEF LastOf
        <5>6. disk[p] # Absent <=>
                Normalize(queue)[m].path = p /\ Normalize(queue)[m].kind # "deleted"
          BY <1>0, <4>0, <5>a, LastKept
        <5>. QED
          BY <3>2, <5>1, <5>6
      <4>3. CASE k <= n
        <5>1. k \in DOMAIN evs /\ w[k] = evs[k]
          BY <3>5, <4>3
        <5>2. ASSUME NEW l \in DOMAIN add PROVE ~Touches(add[l], p)
          <6>1. l + n \in DOMAIN w /\ w[l + n] = add[l] /\ l + n > k
            BY <3>5, <4>3
          <6>. QED
            BY <4>1, <6>1
        <5>3. p \in Settled
          BY <2>2, <3>9, <3>10, <4>0, <5>2 DEF Settled
        <5>4. LastTouch(events, p, k)
          BY <3>1, <3>5, <4>1, <5>1 DEF LastTouch
        <5>5. EventClean(p)
          BY <5>3 DEF WatchInv, EventInv
        <5>. QED
          BY <3>1, <5>1, <5>4, <5>5 DEF EventClean
      <4>4. k \in Nat
        BY <3>5
      <4>. QED
        BY <4>2, <4>3, <4>4
    <3>13. \A p \in Settled' : EventClean(p)'
      BY <3>6, <3>12 DEF EventClean
    <3>14. ASSUME NEW k \in DOMAIN w, w[k].kind = "renamed", w[k].old # w[k].path, w[k].old \in CleanPaths
           PROVE  /\ <<w[k].old, w[k].path>> \in links
                  /\ Silence(wire, w[k].old) /\ Silence(wire, w[k].path)
                  /\ \A l \in DOMAIN w : l > k => ~Touches(w[l], w[k].old) /\ ~Touches(w[l], w[k].path)
      <4>1. CASE k > n
        <5>1. PICK m \in DOMAIN queue : m = k - n /\ w[k] = Normalize(queue)[m]
          BY <3>2, <3>5, <4>1
        <5>2. /\ Moved(queue, w[k].old, w[k].path, m)
              /\ <<w[k].old, w[k].path>> \in links
              /\ \A l \in DOMAIN queue : l > m =>
                   /\ ~Touches(Normalize(queue)[l], w[k].old)
                   /\ ~Touches(Normalize(queue)[l], w[k].path)
          BY <1>0, <3>0, <3>11, <3>14, <5>1, KeptLinks
        <5>3. w[k].path \in Paths
          <6>1. EventShape(Normalize(queue)[m])
            BY <1>0, <3>0, NormalizeTyped
          <6>. QED
            BY <3>14, <5>1, <6>1 DEF EventShape
        <5>4. Silence(wire, w[k].old) /\ Silence(wire, w[k].path)
          BY <3>11, <3>14, <5>2, <5>3
        <5>5. ASSUME NEW l \in DOMAIN w, l > k PROVE ~Touches(w[l], w[k].old) /\ ~Touches(w[l], w[k].path)
          <6>1. l > n /\ l - n > m
            BY <3>5, <4>1, <5>1, <5>5
          <6>2. l - n \in DOMAIN queue /\ w[l] = Normalize(queue)[l - n]
            BY <3>2, <3>5, <6>1
          <6>. QED
            BY <5>2, <6>1, <6>2
        <5>. QED
          BY <5>2, <5>4, <5>5
      <4>2. CASE k <= n
        <5>1. k \in DOMAIN events /\ w[k] = events[k]
          BY <3>1, <3>5, <4>2
        <5>2. /\ <<w[k].old, w[k].path>> \in links
              /\ Quiet(w[k].old) /\ Quiet(w[k].path)
              /\ \A l \in DOMAIN events :
                   l > k => ~Touches(events[l], w[k].old) /\ ~Touches(events[l], w[k].path)
          BY <2>2, <3>14, <5>1 DEF WatchInv, EventInv, EventLinks
        <5>3. w[k].old \in Paths /\ w[k].path \in Paths
          BY <3>14, <5>1 DEF ShapeInv, EventShape
        <5>4. /\ Silence(wire, w[k].old) /\ Silence(wire, w[k].path)
              /\ \A l \in DOMAIN add : ~Touches(add[l], w[k].old) /\ ~Touches(add[l], w[k].path)
          BY <3>9, <3>10, <5>2, <5>3
        <5>5. ASSUME NEW l \in DOMAIN w, l > k PROVE ~Touches(w[l], w[k].old) /\ ~Touches(w[l], w[k].path)
          <6>1. CASE l <= n
            BY <3>1, <3>5, <5>2, <5>5, <6>1
          <6>2. CASE l > n
            BY <3>5, <5>4, <6>2
          <6>3. l \in Nat
            BY <3>5
          <6>. QED
            BY <6>1, <6>2, <6>3
        <5>. QED
          BY <5>2, <5>4, <5>5
      <4>3. k \in Nat
        BY <3>5
      <4>. QED
        BY <4>1, <4>2, <4>3
    <3>15. EventLinks'
      BY <1>1, <1>2, <3>6, <3>14 DEF EventLinks, Quiet
    <3>16. ASSUME NEW p \in Settled', \A k \in DOMAIN w : ~Touches(w[k], p) PROVE hash[p] = disk[p]
      <4>0. p \in Paths /\ p \in CleanPaths /\ Silence(wire, p)
        BY <3>8, <3>a
      <4>1. \A k \in DOMAIN add : ~Touches(add[k], p)
        BY <3>5, <3>16
      <4>2. \A k \in DOMAIN events : ~Touches(events[k], p)
        BY <3>1, <3>5, <3>16
      <4>3. p \in Settled
        BY <2>2, <3>9, <3>10, <4>0, <4>1 DEF Settled
      <4>. QED
        BY <4>2, <4>3 DEF WatchInv, EventInv
    <3>. QED
      BY <3>6, <3>13, <3>15, <3>16 DEF EventInv
  <2>. QED
    BY <2>1, <2>2
<1>. QED
  BY <1>3, <1>4, <1>5, <1>6 DEF WatchInv

LEMMA DrainBufferedInv ==
  ASSUME ShapeInv, WatchInv, DrainBuffered
  PROVE  WatchInv'
<1>1. /\ events' = events \o Normalize(queue) /\ queue' = <<>>
      /\ pc \in {"idle", "debounce"} /\ pc' \in {"debounce", "plan"}
      /\ UNCHANGED <<disk, hash, node, wire, dropped, plan, moves, stale, parse,
                     gone, links, tangled, missed, mixed>>
  BY DEF DrainBuffered, graph, work, ghosts
<1>. QED
  BY <1>1, DrainKeeps

LEMMA DrainInv ==
  ASSUME ShapeInv, WatchInv, Drain
  PROVE  WatchInv'
<1>0. /\ InFlight \in Seq(RawEvents) /\ wire \in Seq(RawEvents) /\ queue \in Seq(RawEvents)
      /\ queue \o wire \in Seq(RawEvents)
  BY InFlightTyped
<1>1. /\ pc = "idle" /\ queue # <<>>
      /\ UNCHANGED <<disk, hash, node, wire, dropped, plan, moves, stale, parse,
                     gone, links, tangled, missed, mixed>>
  BY DEF Drain, graph, work, ghosts
<1>2. CleanPaths' = CleanPaths /\ RawOK(InFlight, CleanPaths, disk, links, gone)
  BY <1>1 DEF CleanPaths, WatchInv, RawInv
<1>3. \A i \in DOMAIN queue : RawShape(queue[i])
  BY DEF ShapeInv
<1>4. CASE Head(queue).kind = "error"
  <2>1. queue' = Tail(queue) /\ UNCHANGED <<pc, events>>
    BY <1>4 DEF Drain
  <2>2. PICK h \in Seq(RawEvents) : h = <<Head(queue)>> /\ Len(h) = 1
    BY <1>0, <1>1, HeadAndTail
  <2>3. PICK t \in Seq(RawEvents) : t = Tail(queue)
    BY <1>0, <1>1, HeadAndTail
  <2>4. queue = h \o t
    BY <1>0, <1>1, <2>2, <2>3, HeadAndTail
  <2>5. t \o wire \in Seq(RawEvents)
    BY <1>0, ConcatProperties
  <2>6. queue \o wire = h \o (t \o wire)
    <3>1. PICK w \in Seq(RawEvents) : w = wire
      BY <1>0
    <3>2. (h \o t) \o w = h \o (t \o w)
      BY ConcatAssociative
    <3>. QED
      BY <2>4, <3>1, <3>2, Zenon
  <2>7. CASE dropped # 0
    <3>1. InFlight' = InFlight
      BY <1>1, <2>7 DEF InFlight
    <3>2. RawInv'
      BY <1>1, <1>2, <3>1 DEF RawInv
    <3>. QED
      BY <1>1, <2>1, <2>7, <3>2, PassKeeps
  <2>8. CASE dropped = 0
    <3>1. InFlight' = t \o wire /\ InFlight = h \o (t \o wire)
      BY <1>1, <2>1, <2>3, <2>6, <2>8 DEF InFlight
    <3>2. SuffixOf(t \o wire, h \o (t \o wire), 1)
      BY <2>2, <2>5, AppendIndices
    <3>3. RawOK(t \o wire, CleanPaths, disk, links, gone)
      BY <1>0, <1>2, <2>5, <3>1, <3>2, RawSuffix
    <3>4. RawInv'
      BY <1>1, <1>2, <3>1, <3>3 DEF RawInv
    <3>5. \A x \in Paths : Silence(h, x)
      <4>1. Head(queue) = queue[1] /\ 1 \in DOMAIN queue
        BY <1>0, <1>1, HeadAndTail
      <4>2. Head(queue).path = NoPath /\ Head(queue).to = NoPath
        BY <1>3, <1>4, <4>1 DEF RawShape, Silent
      <4>3. \A i \in DOMAIN h : h[i] = Head(queue)
        BY <2>2
      <4>. QED
        BY <4>2, <4>3 DEF Silence, Mentions
    <3>6. \A x \in Paths : Silence(h \o (t \o wire), x) <=> Silence(h, x) /\ Silence(t \o wire, x)
      BY <2>5, SilenceConcat
    <3>7. \A x \in Paths : Silence(InFlight', x) <=> Silence(InFlight, x)
      BY <3>1, <3>5, <3>6
    <3>. QED
      BY <1>1, <2>1, <2>8, <3>4, <3>7, PassKeeps
  <2>. QED
    BY <2>7, <2>8
<1>5. CASE Head(queue).kind # "error" /\ \E j \in DOMAIN queue : Normalize(queue)[j] # NoEvent
  <2>1. queue' = <<>> /\ events' = Normalize(queue) /\ pc' = "debounce"
    BY <1>5 DEF Drain
  <2>2. events = <<>>
    BY <1>1 DEF ShapeInv
  <2>3. <<>> \o Normalize(queue) = Normalize(queue)
    <3>1. Normalize(queue) \in Seq(WatchEvents)
      BY <1>0, <1>3, NormalizeTyped
    <3>. QED
      BY <3>1, ConcatEmptySeq
  <2>4. events' = events \o Normalize(queue)
    BY <2>1, <2>2, <2>3
  <2>. QED
    BY <1>1, <2>1, <2>4, DrainKeeps
<1>6. CASE Head(queue).kind # "error" /\ ~\E j \in DOMAIN queue : Normalize(queue)[j] # NoEvent
  <2>1. queue' = <<>> /\ UNCHANGED <<pc, events>>
    BY <1>6 DEF Drain
  <2>2. ASSUME NEW x \in Paths PROVE Silence(queue, x)
    <3>1. ~Touches(NoEvent, x)
      BY DEF Touches, NoEvent, Event
    <3>2. \A j \in DOMAIN queue : ~Touches(Normalize(queue)[j], x)
      BY <1>6, <3>1
    <3>. QED
      BY <1>0, <1>3, <3>2, KeptTouches
  <2>3. InFlight' = wire
    <3>1. <<>> \o wire = wire
      BY <1>0, ConcatEmptySeq
    <3>. QED
      BY <1>1, <2>1, <3>1 DEF InFlight
  <2>4. CASE dropped = 0
    <3>1. InFlight = queue \o wire
      BY <2>4 DEF InFlight
    <3>2. SuffixOf(wire, queue \o wire, Len(queue))
      BY <1>0, AppendIndices
    <3>3. RawOK(wire, CleanPaths, disk, links, gone)
      BY <1>0, <1>2, <3>1, <3>2, RawSuffix
    <3>4. RawInv'
      BY <1>1, <1>2, <2>3, <3>3 DEF RawInv
    <3>5. \A x \in Paths : Silence(queue \o wire, x) <=> Silence(queue, x) /\ Silence(wire, x)
      BY <1>0, SilenceConcat
    <3>6. \A x \in Paths : Silence(InFlight', x) <=> Silence(InFlight, x)
      BY <2>2, <2>3, <3>1, <3>5
    <3>. QED
      BY <1>1, <2>1, <2>4, <3>4, <3>6, PassKeeps
  <2>5. CASE dropped # 0
    <3>1. InFlight' = InFlight
      BY <2>3, <2>5 DEF InFlight
    <3>2. RawInv'
      BY <1>1, <1>2, <3>1 DEF RawInv
    <3>. QED
      BY <1>1, <2>1, <2>5, <3>2, PassKeeps
  <2>. QED
    BY <2>4, <2>5
<1>. QED
  BY <1>4, <1>5, <1>6

-----------------------------------------------------------------------------
(* The plan.                                                               *)

LEMMA LastTouchExists ==
  ASSUME NEW evs \in Seq(WatchEvents), NEW p, NEW i \in DOMAIN evs, Touches(evs[i], p)
  PROVE  \E k \in DOMAIN evs : LastTouch(evs, p, k)
<1>. DEFINE T == {k \in DOMAIN evs : Touches(evs[k], p)}
<1>1. Len(evs) \in Nat /\ DOMAIN evs = 1 .. Len(evs)
  BY LenProperties
<1>2. T \in SUBSET Nat /\ T # {} /\ \A y \in T : y <= Len(evs)
  BY <1>1
<1>3. PICK k \in T : \A y \in T : k >= y
  <2>. HIDE DEF T
  <2>. QED
    BY <1>1, <1>2, GreatestNumber
<1>4. \A l \in DOMAIN evs : l > k => ~Touches(evs[l], p)
  BY <1>1, <1>3
<1>. QED
  BY <1>3, <1>4 DEF LastTouch

LEMMA LastTouchUnique ==
  ASSUME NEW evs \in Seq(WatchEvents), NEW p, NEW i \in DOMAIN evs, NEW k \in DOMAIN evs,
         LastTouch(evs, p, i), LastTouch(evs, p, k)
  PROVE  i = k
<1>1. i \in Nat /\ k \in Nat
  BY LenProperties
<1>. QED
  BY <1>1 DEF LastTouch

\* The change of a path is that of the last event that touches it, if it is the
\* destination.
LEMMA ChangeIs ==
  ASSUME NEW evs \in Seq(WatchEvents), NEW p \in Paths
  PROVE  /\ \A k \in DOMAIN evs :
              LastTouch(evs, p, k) /\ evs[k].path = p =>
                EventsToChanges(evs)[p] = ChangeOf(evs[k])
         /\ (\A k \in DOMAIN evs : ~(LastTouch(evs, p, k) /\ evs[k].path = p)) =>
                EventsToChanges(evs)[p] = NoChange
<1>1. ASSUME NEW k \in DOMAIN evs, LastTouch(evs, p, k), evs[k].path = p
      PROVE  EventsToChanges(evs)[p] = ChangeOf(evs[k])
  <2>1. PICK m \in DOMAIN evs : m = (CHOOSE l \in DOMAIN evs : LastTouch(evs, p, l))
                                /\ LastTouch(evs, p, m)
    BY <1>1, Zenon
  <2>2. m = k
    BY <1>1, <2>1, LastTouchUnique
  <2>3. EventsToChanges(evs)[p] = ChangeOf(evs[CHOOSE l \in DOMAIN evs : LastTouch(evs, p, l)])
    BY <1>1, Zenon DEF EventsToChanges
  <2>. QED
    BY <2>1, <2>2, <2>3
<1>2. ASSUME \A k \in DOMAIN evs : ~(LastTouch(evs, p, k) /\ evs[k].path = p)
      PROVE  EventsToChanges(evs)[p] = NoChange
  <2>1. ~\E k \in DOMAIN evs : LastTouch(evs, p, k) /\ evs[k].path = p
    BY <1>2, Zenon
  <2>. QED
    BY <2>1, Zenon DEF EventsToChanges
<1>. QED
  BY <1>1, <1>2

LEMMA ChangeOfIs ==
  ASSUME NEW e \in WatchEvents
  PROVE  /\ ChangeOf(e).old = e.old
         /\ ChangeOf(e).type = "renamed" <=> e.kind = "renamed"
         /\ ChangeOf(e).type = "deleted" <=> e.kind = "deleted"
         /\ ChangeOf(e).type = "modified" <=> e.kind \in {"created", "modified"}
         /\ ChangeOf(e).type = "none" <=> e.kind = "none"
BY DEF ChangeOf, WatchEvents

\* A change comes from an event.
LEMMA ChangeFrom ==
  ASSUME NEW evs \in Seq(WatchEvents), NEW p \in Paths, EventsToChanges(evs)[p].type # "none"
  PROVE  \E k \in DOMAIN evs : /\ LastTouch(evs, p, k) /\ evs[k].path = p /\ evs[k] \in WatchEvents
                               /\ EventsToChanges(evs)[p] = ChangeOf(evs[k])
<1>1. NoChange.type = "none"
  BY DEF NoChange
<1>2. PICK k \in DOMAIN evs : LastTouch(evs, p, k) /\ evs[k].path = p
  BY <1>1, ChangeIs
<1>3. EventsToChanges(evs)[p] = ChangeOf(evs[k])
  BY <1>2, ChangeIs
<1>4. evs[k] \in WatchEvents
  BY LenProperties, ElementOfSeq
<1>. QED
  BY <1>2, <1>3, <1>4

\* The changes of a batch nothing of which was dropped.
LEMMA BatchChanges ==
  ASSUME ShapeInv, WatchInv, dropped = 0, pc = "plan", NEW c, c = EventsToChanges(events)
  PROVE  PlanLinks(c) /\ \A p \in Settled : PlanClean(c, p)
<1>0. /\ \A k \in DOMAIN events : EventShape(events[k])
      /\ CleanPaths \in SUBSET Paths /\ Settled \in SUBSET CleanPaths
  BY DEF ShapeInv, CleanPaths, Settled
<1>1. PICK evs \in Seq(WatchEvents) : evs = events
  BY DEF ShapeInv, TypeOK
<1>a. c = EventsToChanges(evs)
  BY <1>1
<1>2. ASSUME NEW k \in DOMAIN evs, evs[k].kind = "renamed", evs[k].old # evs[k].path,
             evs[k].old \in CleanPaths
      PROVE  /\ <<evs[k].old, evs[k].path>> \in links
             /\ Quiet(evs[k].old) /\ Quiet(evs[k].path)
             /\ \A l \in DOMAIN evs : l > k => ~Touches(evs[l], evs[k].old) /\ ~Touches(evs[l], evs[k].path)
  BY <1>1, <1>2 DEF WatchInv, EventInv, EventLinks
<1>3. \A i \in DOMAIN evs : i \in Nat
  BY LenProperties
<1>4. ASSUME NEW p \in Settled, NEW k \in DOMAIN evs, LastTouch(evs, p, k)
      PROVE  disk[p] # Absent <=> evs[k].path = p /\ evs[k].kind # "deleted"
  BY <1>1, <1>4 DEF WatchInv, EventInv, EventClean
<1>b. NoChange.type = "none"
  BY DEF NoChange
<1>5. ASSUME NEW p \in CleanPaths, NEW q \in Paths, c[q].type = "renamed", c[q].old = p, p # q
      PROVE  /\ <<p, q>> \in links /\ Quiet(p) /\ Quiet(q)
             /\ c[p] = NoChange /\ disk[p] = Absent
             /\ \A r \in Paths : c[r].type = "renamed" /\ c[r].old = p => r = q
  <2>0. p \in Paths
    BY <1>0
  <2>1. PICK k \in DOMAIN evs : /\ LastTouch(evs, q, k) /\ evs[k].path = q /\ evs[k] \in WatchEvents
                                /\ c[q] = ChangeOf(evs[k])
    BY <1>5, <1>a, ChangeFrom
  <2>2. evs[k].kind = "renamed" /\ evs[k].old = p
    BY <1>5, <2>1, ChangeOfIs
  <2>3. /\ <<p, q>> \in links /\ Quiet(p) /\ Quiet(q)
        /\ \A l \in DOMAIN evs : l > k => ~Touches(evs[l], p) /\ ~Touches(evs[l], q)
    BY <1>2, <1>5, <2>1, <2>2
  <2>4. LastTouch(evs, p, k)
    BY <2>2, <2>3 DEF LastTouch, Touches
  <2>5. c[p] = NoChange
    <3>1. \A m \in DOMAIN evs : ~(LastTouch(evs, p, m) /\ evs[m].path = p)
      BY <1>5, <2>1, <2>4, LastTouchUnique
    <3>. QED
      BY <1>a, <2>0, <3>1, ChangeIs
  <2>6. disk[p] = Absent
    <3>1. p \in Settled
      BY <2>3 DEF Settled
    <3>. QED
      BY <1>4, <1>5, <2>1, <2>4, <3>1
  <2>7. ASSUME NEW r \in Paths, c[r].type = "renamed", c[r].old = p PROVE r = q
    <3>1. PICK m \in DOMAIN evs : /\ LastTouch(evs, r, m) /\ evs[m].path = r /\ evs[m] \in WatchEvents
                                  /\ c[r] = ChangeOf(evs[m])
      BY <1>a, <2>7, ChangeFrom
    <3>2. evs[m].kind = "renamed" /\ evs[m].old = p
      BY <2>7, <3>1, ChangeOfIs
    <3>3. r # p
      BY <1>b, <2>5, <2>7
    <3>4. \A l \in DOMAIN evs : l > m => ~Touches(evs[l], p)
      BY <1>2, <3>1, <3>2, <3>3
    <3>5. Touches(evs[m], p) /\ Touches(evs[k], p)
      BY <2>2, <3>2 DEF Touches
    <3>6. m = k
      BY <1>3, <2>3, <3>4, <3>5
    <3>. QED
      BY <2>1, <3>1, <3>6
  <2>. QED
    BY <2>3, <2>5, <2>6, <2>7
<1>6. ASSUME NEW p \in Settled PROVE PlanClean(c, p)
  <2>0. p \in Paths /\ p \in CleanPaths
    BY <1>0
  <2>1. ASSUME c[p].type # "none"
        PROVE  \E k \in DOMAIN evs : /\ c[p] = ChangeOf(evs[k]) /\ evs[k] \in WatchEvents
                                     /\ disk[p] # Absent <=> evs[k].kind # "deleted"
    <3>1. PICK k \in DOMAIN evs : /\ LastTouch(evs, p, k) /\ evs[k].path = p /\ evs[k] \in WatchEvents
                                  /\ c[p] = ChangeOf(evs[k])
      BY <1>a, <2>0, <2>1, ChangeFrom
    <3>. QED
      BY <1>4, <3>1
  <2>2. c[p].type \in {"modified", "renamed"} => disk[p] # Absent
    BY <2>1, ChangeOfIs
  <2>3. c[p].type = "deleted" => disk[p] = Absent
    BY <2>1, ChangeOfIs
  <2>4. ASSUME c[p].type = "none", hash[p] # disk[p]
        PROVE  \E q \in Paths : c[q].type = "renamed" /\ c[q].old = p
    <3>1. PICK i \in DOMAIN evs : Touches(evs[i], p)
      BY <1>1, <2>4 DEF WatchInv, EventInv
    <3>2. PICK k \in DOMAIN evs : LastTouch(evs, p, k)
      BY <3>1, LastTouchExists
    <3>3. evs[k] \in WatchEvents /\ EventShape(evs[k]) /\ p \in {evs[k].path, evs[k].old}
      BY <1>0, <1>1, <3>2, LenProperties, ElementOfSeq DEF LastTouch, Touches
    <3>4. evs[k].kind # "none" /\ p # NoPath
      BY <2>0, <3>3 DEF EventShape
    <3>5. evs[k].path # p
      <4>1. SUFFICES ASSUME evs[k].path = p PROVE FALSE
        OBVIOUS
      <4>2. c[p] = ChangeOf(evs[k])
        BY <1>a, <2>0, <3>2, <4>1, ChangeIs
      <4>. QED
        BY <2>4, <3>3, <3>4, <4>2, ChangeOfIs
    <3>6. evs[k].old = p /\ evs[k].kind = "renamed" /\ evs[k].path \in Paths
      BY <3>3, <3>4, <3>5 DEF EventShape, WatchEvents
    <3>7. \A l \in DOMAIN evs : l > k => ~Touches(evs[l], evs[k].path)
      BY <1>2, <2>0, <3>5, <3>6
    <3>8. LastTouch(evs, evs[k].path, k)
      BY <3>7 DEF LastTouch, Touches
    <3>9. c[evs[k].path] = ChangeOf(evs[k])
      <4>1. PICK q \in Paths : q = evs[k].path
        BY <3>6
      <4>2. c[q] = ChangeOf(evs[k])
        BY <1>a, <3>8, <4>1, ChangeIs
      <4>. QED
        BY <4>1, <4>2
    <3>. QED
      BY <3>3, <3>6, <3>9, ChangeOfIs
  <2>. QED
    BY <2>2, <2>3, <2>4 DEF PlanClean
<1>. QED
  BY <1>5, <1>6 DEF PlanLinks

\* Fewer clean paths, and the same series.
LEMMA RawKept ==
  ASSUME RawInv, CleanPaths' \in SUBSET CleanPaths,
         UNCHANGED <<wire, queue, dropped, disk, links, gone>>
  PROVE  RawInv'
<1>1. InFlight' = InFlight
  BY DEF InFlight
<1>2. PICK c2 \in SUBSET CleanPaths : c2 = CleanPaths'
  OBVIOUS
<1>3. RawOK(InFlight, CleanPaths, disk, links, gone)
  BY DEF RawInv
<1>4. RawOK(InFlight, c2, disk, links, gone)
  BY <1>3, RawSubset
<1>. QED
  BY <1>1, <1>2, <1>4 DEF RawInv

\* Without events there is nothing to say of them but at the start of the loop.
LEMMA EventsEmpty ==
  ASSUME events' = <<>>, pc' \notin {"idle", "debounce", "plan"}
  PROVE  EventInv'
<1>1. DOMAIN events' = {}
  OBVIOUS
<1>2. \A p \in Settled' : EventClean(p)'
  BY <1>1 DEF EventClean
<1>3. EventLinks'
  BY <1>1 DEF EventLinks
<1>. QED
  BY <1>2, <1>3 DEF EventInv

LEMMA PlanBatchInv ==
  ASSUME ShapeInv, WatchInv, PlanBatch
  PROVE  WatchInv'
<1>0. /\ InFlight \in Seq(RawEvents) /\ wire \in Seq(RawEvents) /\ queue \in Seq(RawEvents)
      /\ queue \o wire \in Seq(RawEvents)
  BY InFlightTyped
<1>1. /\ pc = "plan" /\ pc' = "apply" /\ events' = <<>> /\ dropped' = 0
      /\ plan' = Plan(events, dropped)
      /\ UNCHANGED <<disk, hash, node, wire, queue, moves, stale, parse, gone, links, tangled, mixed>>
  BY DEF PlanBatch, graph, work
<1>2. missed' = IF dropped = 0 THEN missed
                ELSE missed \cup {p \in Paths : \E i \in DOMAIN queue : Mentions(queue[i], p)}
  BY DEF PlanBatch
<1>3. CleanPaths' \in SUBSET CleanPaths /\ CleanPaths \in SUBSET Paths
  BY <1>1, <1>2 DEF CleanPaths
<1>4. InFlight' = queue \o wire
  BY <1>1 DEF InFlight
<1>5. EventInv'
  BY <1>1, EventsEmpty
<1>6. WorkInv'
  <2>1. moves' = {}
    BY <1>1 DEF ShapeInv
  <2>. QED
    BY <1>1, <2>1 DEF WorkInv, WorkLinks
<1>7. SliceInv'
  BY <1>1, <1>3, SliceKept DEF WatchInv
<1>8. dropped \in Nat
  BY DEF ShapeInv, TypeOK
<1>9. CASE dropped = 0
  <2>1. CleanPaths' = CleanPaths /\ InFlight' = InFlight
    BY <1>1, <1>2, <1>4, <1>9 DEF CleanPaths, InFlight
  <2>2. RawInv'
    BY <1>1, <1>3, <1>9, RawKept DEF WatchInv
  <2>3. PICK c : c = EventsToChanges(events)
    OBVIOUS
  <2>4. PlanLinks(c) /\ \A p \in Settled : PlanClean(c, p)
    BY <1>1, <1>9, <2>3, BatchChanges
  <2>5. plan'.changes = c
    <3>1. plan' = [rescan |-> dropped > 0, changes |-> IF dropped > 0 THEN NoChanges ELSE c]
      BY <1>1, <2>3, Zenon DEF Plan
    <3>. QED
      BY <1>9, <3>1
  <2>6. \A x \in Paths : Quiet(x)' <=> Quiet(x)
    BY <2>1 DEF Quiet, Silence
  <2>7. Settled' = Settled
    BY <1>1, <1>3, <1>9, <2>1, <2>6 DEF Settled
  <2>8. PlanLinks(c)'
    <3>1. SUFFICES ASSUME NEW p \in CleanPaths, NEW q \in Paths,
                          c[q].type = "renamed", c[q].old = p, p # q
                   PROVE  /\ <<p, q>> \in links /\ Quiet(p)' /\ Quiet(q)'
                          /\ c[p] = NoChange /\ disk[p] = Absent
                          /\ \A r \in Paths : c[r].type = "renamed" /\ c[r].old = p => r = q
      BY <1>1, <2>1 DEF PlanLinks
    <3>2. /\ <<p, q>> \in links /\ Quiet(p) /\ Quiet(q)
          /\ c[p] = NoChange /\ disk[p] = Absent
          /\ \A r \in Paths : c[r].type = "renamed" /\ c[r].old = p => r = q
      BY <2>4, <3>1 DEF PlanLinks
    <3>. QED
      BY <1>3, <2>6, <3>2
  <2>9. \A p \in Settled' : PlanClean(c, p)'
    BY <1>1, <2>4, <2>7 DEF PlanClean
  <2>10. PlanInv'
    <3>1. PlanLinks(plan.changes)'
      BY <2>5, <2>8 DEF PlanLinks
    <3>2. \A p \in Settled' : PlanClean(plan.changes, p)'
      BY <2>5, <2>9 DEF PlanClean
    <3>. QED
      BY <3>1, <3>2 DEF PlanInv
  <2>. QED
    BY <1>5, <1>6, <1>7, <2>2, <2>10 DEF WatchInv
<1>10. CASE dropped # 0
  <2>1. plan'.rescan = TRUE
    <3>1. dropped > 0
      BY <1>8, <1>10
    <3>. QED
      BY <1>1, <3>1 DEF Plan
  <2>2. PlanInv'
    BY <2>1 DEF PlanInv
  <2>3. PICK c2 \in SUBSET Paths : c2 = CleanPaths'
    BY <1>3
  <2>4. RawOK(wire, CleanPaths, disk, links, gone)
    BY <1>10 DEF WatchInv, RawInv, InFlight
  <2>5. RawOK(wire, c2, disk, links, gone)
    BY <1>3, <2>3, <2>4, RawSubset
  <2>6. \A p \in c2 : \A i \in DOMAIN queue : ~Mentions(queue[i], p)
    <3>1. \A p \in c2 : p \in Paths /\ p \notin missed'
      BY <2>3 DEF CleanPaths
    <3>. QED
      BY <1>2, <1>10, <3>1
  <2>7. SuffixOf(wire, queue \o wire, Len(queue))
        /\ \A i \in DOMAIN (queue \o wire) :
             i <= Len(queue) => i \in DOMAIN queue /\ (queue \o wire)[i] = queue[i]
    BY <1>0, AppendIndices
  <2>8. \A i \in DOMAIN (queue \o wire) : i <= Len(queue) =>
          \A p \in c2 : ~Mentions((queue \o wire)[i], p)
    BY <2>6, <2>7
  <2>9. RawOK(queue \o wire, c2, disk, links, gone)
    BY <1>0, <2>5, <2>7, <2>8, RawPrefix
  <2>10. RawInv'
    BY <1>1, <1>4, <2>3, <2>9 DEF RawInv
  <2>. QED
    BY <1>5, <1>6, <1>7, <2>2, <2>10 DEF WatchInv
<1>. QED
  BY <1>9, <1>10

-----------------------------------------------------------------------------
(* The update.                                                             *)

\* The changes sorted: what becomes of a settled path.
LEMMA ClassifyInv ==
  ASSUME ShapeInv, WatchInv, Classify
  PROVE  WatchInv'
<1>0. PICK c \in PlannedChanges :
        /\ c = WorkChanges
        /\ \A p \in Paths : c[p].type = "renamed" => c[p].old \in Paths
  BY WorkChangesTyped
<1>1. /\ pc = "apply" /\ pc' = "update" /\ plan' = NoPlan
      /\ moves' = {<<c[p].old, p>> : p \in StableRenames(c)}
      /\ stale' = ToDelete(c) /\ parse' = ToParse(c)
      /\ missed' = IF plan.rescan THEN missed \cup {p \in Paths : ~Reported(p)} ELSE missed
      /\ UNCHANGED <<disk, base, hash, node, wire, queue, dropped, events, gone, links,
                     tangled, mixed>>
  BY <1>0, ClassifyFacts, Zenon
<1>2. CleanPaths' \in SUBSET CleanPaths /\ CleanPaths \in SUBSET Paths
  BY <1>1 DEF CleanPaths
<1>3. InFlight' = InFlight /\ Settled' \in SUBSET Settled
  <2>1. InFlight' = InFlight
    BY <1>1 DEF InFlight
  <2>2. \A x : Quiet(x)' <=> Quiet(x)
    BY <2>1 DEF Quiet, Silence
  <2>. QED
    BY <1>1, <1>2, <2>1, <2>2 DEF Settled
<1>a. \A x : Quiet(x)' <=> Quiet(x)
  BY <1>3 DEF Quiet, Silence
<1>4. RawInv'
  BY <1>1, <1>2, RawKept DEF WatchInv
<1>5. EventInv'
  <2>1. events' = <<>>
    BY <1>1 DEF ShapeInv
  <2>. QED
    BY <1>1, <2>1, EventsEmpty
<1>6. PlanInv'
  BY <1>1 DEF PlanInv
<1>7. SliceInv'
  BY <1>1, <1>2, SliceKept DEF WatchInv
<1>8. \A p, q \in Paths : <<p, q>> \in moves' <=> q \in StableRenames(c) /\ c[q].old = p
  BY <1>0, <1>1 DEF StableRenames
<1>9. \A q \in StableRenames(c) : /\ q \in Paths /\ c[q].type = "renamed" /\ disk[q] # Absent
                                  /\ hash[c[q].old] = disk[q]
  BY DEF StableRenames
<1>10. \A p \in Paths : p \in parse' <=> c[p].type \in {"modified", "renamed"} /\ p \notin StableRenames(c)
  BY <1>1 DEF ToParse
<1>11. \A p \in Paths : p \in stale' <=>
         \/ c[p].type = "deleted"
         \/ \E q \in Paths : c[q].type = "renamed" /\ q \notin StableRenames(c) /\ c[q].old = p
  BY <1>1 DEF ToDelete
<1>b. NoChange.type = "none"
  BY DEF NoChange
<1>12. \A p, q, r \in Paths : <<p, r>> \in moves' /\ <<q, r>> \in moves' => p = q
  BY <1>8
<1>13. CASE plan.rescan
  <2>1. c = WorkingTreeChanges
    BY <1>0, <1>13 DEF WorkChanges
  <2>2. \A p \in Paths : c[p].type # "renamed"
    BY <2>1 DEF WorkingTreeChanges, NoChange
  <2>3. StableRenames(c) = {}
    BY <2>2 DEF StableRenames
  <2>4. \A p, q \in Paths : <<p, q>> \notin moves'
    BY <1>8, <2>3
  <2>5. ASSUME NEW p \in Settled' PROVE WorkClean(p)'
    <3>1. p \in Paths /\ Reported(p)
      <4>1. p \in Paths /\ p \notin missed'
        BY DEF Settled, CleanPaths
      <4>. QED
        BY <1>1, <1>13, <4>1
    <3>2. c[p] = [type |-> IF disk[p] = Absent THEN "deleted" ELSE "modified", old |-> NoPath]
      BY <2>1, <3>1, Zenon DEF WorkingTreeChanges
    <3>3. CASE disk[p] = Absent
      <4>1. c[p].type = "deleted"
        BY <3>2, <3>3
      <4>2. p \in stale' /\ p \notin parse'
        BY <1>10, <1>11, <3>1, <4>1
      <4>. QED
        BY <1>1, <2>4, <3>1, <3>3, <4>2 DEF WorkClean
    <3>4. CASE disk[p] # Absent
      <4>1. c[p].type = "modified"
        BY <3>2, <3>4
      <4>2. p \notin stale' /\ p \in parse'
        BY <1>10, <1>11, <2>2, <2>3, <3>1, <4>1
      <4>. QED
        BY <1>1, <2>4, <3>1, <3>4, <4>2 DEF WorkClean
    <3>. QED
      BY <3>3, <3>4
  <2>6. WorkLinks'
    <3>1. \A p \in CleanPaths' : p \in Paths
      BY <1>2
    <3>. QED
      BY <2>4, <3>1 DEF WorkLinks
  <2>7. WorkInv'
    BY <1>12, <2>5, <2>6 DEF WorkInv
  <2>. QED
    BY <1>4, <1>5, <1>6, <1>7, <2>7 DEF WatchInv
<1>14. CASE ~plan.rescan
  <2>1. c = plan.changes
    BY <1>0, <1>14 DEF WorkChanges
  <2>2. dropped = 0 => PlanLinks(c)
    BY <1>1, <1>14, <2>1 DEF WatchInv, PlanInv
  <2>3. \A p \in Settled : PlanClean(c, p)
    BY <1>1, <1>14, <2>1 DEF WatchInv, PlanInv
  <2>4. ASSUME dropped = 0, NEW p \in CleanPaths, NEW q \in Paths,
               c[q].type = "renamed", c[q].old = p, p # q
        PROVE  /\ <<p, q>> \in links /\ Quiet(p) /\ Quiet(q)
               /\ c[p] = NoChange /\ disk[p] = Absent
               /\ \A r \in Paths : c[r].type = "renamed" /\ c[r].old = p => r = q
    BY <2>2, <2>4 DEF PlanLinks
  <2>5. ASSUME dropped = 0 PROVE WorkLinks'
    <3>1. SUFFICES ASSUME NEW p \in CleanPaths', NEW q \in Paths, <<p, q>> \in moves', p # q
                   PROVE  /\ <<p, q>> \in links' /\ Quiet(p)' /\ Quiet(q)'
                          /\ disk'[p] = Absent /\ p \notin parse'
                          /\ \A r \in Paths : <<r, p>> \notin moves' /\ (<<p, r>> \in moves' => r = q)
      BY DEF WorkLinks
    <3>2. p \in CleanPaths /\ p \in Paths /\ c[q].type = "renamed" /\ c[q].old = p
      BY <1>2, <1>8, <1>9, <3>1
    <3>3. /\ <<p, q>> \in links /\ Quiet(p) /\ Quiet(q)
          /\ c[p] = NoChange /\ disk[p] = Absent
          /\ \A r \in Paths : c[r].type = "renamed" /\ c[r].old = p => r = q
      BY <2>4, <2>5, <3>1, <3>2
    <3>4. p \notin parse' /\ p \notin StableRenames(c)
      BY <1>9, <1>10, <1>b, <3>2, <3>3
    <3>5. \A r \in Paths : <<r, p>> \notin moves' /\ (<<p, r>> \in moves' => r = q)
      BY <1>8, <1>9, <3>2, <3>3, <3>4
    <3>. QED
      BY <1>1, <1>a, <3>3, <3>4, <3>5
  <2>6. ASSUME NEW p \in Settled' PROVE WorkClean(p)'
    <3>0. p \in Settled /\ p \in CleanPaths /\ p \in Paths /\ dropped = 0
      BY <1>2, <1>3 DEF Settled
    <3>1. /\ c[p].type \in {"modified", "renamed"} => disk[p] # Absent
          /\ c[p].type = "deleted" => disk[p] = Absent
          /\ c[p].type = "none" =>
               hash[p] = disk[p] \/ \E q \in Paths : c[q].type = "renamed" /\ c[q].old = p
      BY <2>3, <3>0 DEF PlanClean
    <3>2. p \in parse' => disk[p] # Absent
      BY <1>10, <3>0, <3>1
    <3>3. ASSUME NEW q \in Paths, c[q].type = "renamed", q \notin StableRenames(c), c[q].old = p,
                 p \notin parse'
          PROVE  disk[p] = Absent /\ c[p] = NoChange
      <4>1. q # p
        BY <1>10, <3>3
      <4>. QED
        BY <2>4, <3>0, <3>3, <4>1
    <3>4. p \in stale' /\ p \notin parse' => disk[p] = Absent
      BY <1>11, <3>0, <3>1, <3>3
    <3>5. ASSUME NEW g \in Paths, <<g, p>> \in moves'
          PROVE  p \notin parse' /\ p \notin stale' /\ disk[p] # Absent /\ hash[g] = disk[p]
      <4>1. p \in StableRenames(c) /\ c[p].old = g /\ c[p].type = "renamed"
            /\ disk[p] # Absent /\ hash[g] = disk[p]
        BY <1>8, <1>9, <3>0, <3>5
      <4>2. p \notin parse'
        BY <1>10, <3>0, <4>1
      <4>3. p \notin stale'
        BY <1>11, <1>b, <3>0, <3>3, <4>1, <4>2
      <4>. QED
        BY <4>1, <4>2, <4>3
    <3>6. \/ p \in parse' \/ p \in stale'
          \/ \E q \in Paths : <<p, q>> \in moves' \/ <<q, p>> \in moves'
          \/ hash[p] = disk[p]
      <4>1. c[p].type \in {"none", "modified", "deleted", "renamed"}
        BY <1>0, <3>0 DEF PlannedChanges
      <4>2. CASE c[p].type = "modified"
        BY <1>9, <1>10, <3>0, <4>2
      <4>3. CASE c[p].type = "deleted"
        BY <1>11, <3>0, <4>3
      <4>4. CASE c[p].type = "renamed"
        <5>1. CASE p \in StableRenames(c)
          BY <1>0, <1>8, <3>0, <4>4, <5>1
        <5>2. CASE p \notin StableRenames(c)
          BY <1>10, <3>0, <4>4, <5>2
        <5>. QED
          BY <5>1, <5>2
      <4>5. CASE c[p].type = "none"
        <5>1. CASE hash[p] # disk[p]
          <6>1. PICK q \in Paths : c[q].type = "renamed" /\ c[q].old = p
            BY <3>1, <4>5, <5>1
          <6>2. CASE q \in StableRenames(c)
            BY <1>8, <3>0, <6>1, <6>2
          <6>3. CASE q \notin StableRenames(c)
            BY <1>11, <3>0, <6>1, <6>3
          <6>. QED
            BY <6>2, <6>3
        <5>. QED
          BY <5>1
      <4>. QED
        BY <4>1, <4>2, <4>3, <4>4, <4>5
    <3>. QED
      BY <1>1, <3>2, <3>4, <3>5, <3>6 DEF WorkClean
  <2>7. WorkInv'
    BY <1>1, <1>12, <2>5, <2>6 DEF WorkInv
  <2>. QED
    BY <1>4, <1>5, <1>6, <1>7, <2>7 DEF WatchInv
<1>. QED
  BY <1>13, <1>14

\* The slice of a path is as consistent as the one it took over ...
LEMMA SliceTaken ==
  ASSUME NEW p, NEW q, NodesAt(p)' = NodesAt(q), \A o \in NodesAt(q) : node'[o].of = node[o].of,
         hash'[p] = hash[q], Consistent(q)
  PROVE  Consistent(p)'
<1>1. {node'[o].of : o \in NodesAt(q)} = {node[o].of : o \in NodesAt(q)}
  OBVIOUS
<1>2. {node'[o].of : o \in NodesAt(q)} = {hash'[p]} \ {Absent}
  BY <1>1 DEF Consistent
<1>3. \A o, m \in NodesAt(q) : o = m
  BY DEF Consistent
<1>. QED
  BY <1>2, <1>3 DEF Consistent

\* ... an empty one is ...
LEMMA SliceEmpty ==
  ASSUME NEW p, NodesAt(p)' = {}, hash'[p] = Absent
  PROVE  Consistent(p)'
BY DEF Consistent

\* ... and so is that of a parsed file.
LEMMA SliceParsed ==
  ASSUME NEW p, NodesAt(p)' = {p}, hash'[p] = node'[p].of, hash'[p] # Absent
  PROVE  Consistent(p)'
BY DEF Consistent

LEMMA DeleteSlice ==
  ASSUME ShapeInv, SliceInv, NEW S \in SUBSET Paths, DeleteFileGraphs(S),
         CleanPaths' \in SUBSET CleanPaths
  PROVE  SliceInv'
<1>1. /\ \A p \in Paths : hash'[p] = IF p \in S THEN Absent ELSE hash[p]
      /\ \A o \in Paths : node'[o] = IF node[o].at \in S THEN NoNode ELSE node[o]
  BY DEF DeleteFileGraphs
<1>2. NoNode.at = NoPath
  BY DEF NoNode
<1>3. ASSUME NEW p \in CleanPaths' PROVE Consistent(p)'
  <2>0. p \in Paths /\ Consistent(p) /\ p # NoPath
    BY DEF SliceInv, CleanPaths
  <2>1. CASE p \in S
    <3>1. NodesAt(p)' = {}
      BY <1>1, <1>2, <2>0, <2>1 DEF NodesAt
    <3>. QED
      BY <1>1, <2>0, <2>1, <3>1, SliceEmpty
  <2>2. CASE p \notin S
    <3>1. NodesAt(p)' = NodesAt(p)
      BY <1>1, <1>2, <2>0, <2>2 DEF NodesAt
    <3>2. \A o \in NodesAt(p) : node'[o].of = node[o].of
      BY <1>1, <2>2 DEF NodesAt
    <3>. QED
      BY <1>1, <2>0, <2>2, <3>1, <3>2, SliceTaken
  <2>. QED
    BY <2>1, <2>2
<1>. QED
  BY <1>3 DEF SliceInv

LEMMA ReplaceSlice ==
  ASSUME ShapeInv, SliceInv, NEW S \in SUBSET Paths, ReplaceFiles(S),
         UNCHANGED <<disk, tangled>>, missed \subseteq missed'
  PROVE  /\ SliceInv' /\ CleanPaths' \in SUBSET CleanPaths
         /\ \A p \in Paths : hash'[p] = IF p \in S /\ disk[p] # Absent THEN disk[p] ELSE hash[p]
<1>. DEFINE parsed == {p \in S : disk[p] # Absent}
<1>1. /\ \A p \in Paths : hash'[p] = IF p \in parsed THEN disk[p] ELSE hash[p]
      /\ \A o \in Paths : node'[o] = IF o \in parsed THEN [at |-> o, of |-> disk[o]]
                                     ELSE IF node[o].at \in parsed THEN NoNode ELSE node[o]
      /\ mixed' = mixed \cup ({node[o].at : o \in parsed} \ (parsed \cup {NoPath}))
  BY DEF ReplaceFiles
<1>2. parsed \in SUBSET Paths /\ \A p \in parsed : disk[p] # Absent
  OBVIOUS
<1>a. \A p \in Paths : hash'[p] = IF p \in S /\ disk[p] # Absent THEN disk[p] ELSE hash[p]
  BY <1>1
<1>. HIDE DEF parsed
<1>b. \A o \in parsed : node'[o].at = o /\ node'[o].of = disk[o]
  <2>1. ASSUME NEW o \in parsed PROVE node'[o].at = o /\ node'[o].of = disk[o]
    <3>1. node'[o] = [at |-> o, of |-> disk[o]]
      BY <1>1, <1>2, Zenon
    <3>. QED
      BY <3>1
  <2>. QED
    BY <2>1
<1>3. CleanPaths' \in SUBSET CleanPaths
  BY <1>1 DEF CleanPaths
<1>4. NoNode.at = NoPath
  BY DEF NoNode
<1>5. ASSUME NEW p \in CleanPaths' PROVE Consistent(p)'
  <2>0. p \in Paths /\ Consistent(p) /\ p # NoPath /\ p \notin mixed'
    BY <1>3 DEF SliceInv, CleanPaths
  <2>1. CASE p \in parsed
    <3>1. \A o \in Paths : node'[o].at = p <=> o = p
      <4>1. ASSUME NEW o \in Paths PROVE node'[o].at = p <=> o = p
        <5>1. CASE o \in parsed
          <6>1. node'[o].at = o
            BY <1>b, <5>1
          <6>. QED
            BY <6>1
        <5>2. CASE o \notin parsed
          <6>1. node'[o] = IF node[o].at \in parsed THEN NoNode ELSE node[o]
            BY <1>1, <5>2
          <6>. QED
            BY <1>4, <2>0, <2>1, <5>2, <6>1
        <5>. QED
          BY <5>1, <5>2
      <4>. QED
        BY <4>1
    <3>2. NodesAt(p)' = {p}
      BY <2>0, <3>1 DEF NodesAt
    <3>3. hash'[p] = disk[p] /\ node'[p].of = disk[p] /\ disk[p] # Absent
      BY <1>1, <1>2, <1>b, <2>0, <2>1
    <3>. QED
      BY <3>2, <3>3, SliceParsed
  <2>2. CASE p \notin parsed
    <3>1. \A o \in parsed : node[o].at # p
      BY <1>1, <2>0, <2>2
    <3>2. ASSUME NEW o \in Paths
          PROVE  (node'[o].at = p <=> node[o].at = p) /\ (node[o].at = p => node'[o].of = node[o].of)
      <4>1. CASE o \in parsed
        <5>1. node'[o].at = o
          BY <1>b, <4>1
        <5>. QED
          BY <2>2, <3>1, <4>1, <5>1
      <4>2. CASE o \notin parsed
        <5>1. node'[o] = IF node[o].at \in parsed THEN NoNode ELSE node[o]
          BY <1>1, <4>2
        <5>. QED
          BY <1>4, <2>0, <2>2, <5>1
      <4>. QED
        BY <4>1, <4>2
    <3>3. NodesAt(p)' = NodesAt(p)
      BY <3>2 DEF NodesAt
    <3>4. \A o \in NodesAt(p) : node'[o].of = node[o].of
      BY <3>2 DEF NodesAt
    <3>. QED
      BY <1>1, <2>0, <2>2, <3>3, <3>4, SliceTaken
  <2>. QED
    BY <2>1, <2>2
<1>. QED
  BY <1>3, <1>5, <1>a DEF SliceInv

\* A path that takes over the slice of a clean one and has no nodes of its own.
LEMMA RenameSlice ==
  ASSUME ShapeInv, SliceInv, NEW a \in Paths, NEW b \in Paths, a # b, RenameFileGraph(a, b),
         UNCHANGED <<tangled, missed>>,
         mixed' = IF NodesAt(b) # {} \/ a \in tangled \cup missed \cup mixed
                    THEN mixed \cup {b} ELSE mixed
  PROVE  /\ SliceInv' /\ CleanPaths' \in SUBSET CleanPaths
         /\ b \in CleanPaths' => a \in CleanPaths
         /\ hash'[a] = Absent /\ hash'[b] = IF hash[a] = Absent THEN hash[b] ELSE hash[a]
         /\ \A p \in Paths : p # a /\ p # b => hash'[p] = hash[p]
<1>0. hash \in [Paths -> Values] /\ node \in [Paths -> [at : Paths \cup {NoPath}, of : Values]]
  BY DEF ShapeInv, TypeOK
<1>1. /\ hash'[a] = Absent /\ hash'[b] = IF hash[a] = Absent THEN hash[b] ELSE hash[a]
      /\ \A p \in Paths : p # a /\ p # b => hash'[p] = hash[p]
  BY <1>0 DEF RenameFileGraph
<1>2. \A o \in Paths : /\ node[o].at = a => node'[o].at = b /\ node'[o].of = node[o].of
                       /\ node[o].at # a => node'[o] = node[o]
  BY <1>0 DEF RenameFileGraph
<1>3. CleanPaths' \in SUBSET CleanPaths
  BY DEF CleanPaths
<1>4. ASSUME b \in CleanPaths' PROVE a \in CleanPaths /\ NodesAt(b) = {}
  <2>1. b \notin mixed'
    BY <1>4 DEF CleanPaths
  <2>2. ~(NodesAt(b) # {} \/ a \in tangled \cup missed \cup mixed)
    BY <2>1
  <2>. QED
    BY <2>2 DEF CleanPaths
<1>5. ASSUME NEW p \in CleanPaths' PROVE Consistent(p)'
  <2>0. p \in Paths /\ Consistent(p)
    BY <1>3 DEF SliceInv, CleanPaths
  <2>1. CASE p = a
    <3>1. NodesAt(a)' = {}
      BY <1>2 DEF NodesAt
    <3>. QED
      BY <1>1, <2>1, <3>1, SliceEmpty
  <2>2. CASE p = b
    <3>1. Consistent(a) /\ Consistent(b) /\ NodesAt(b) = {}
      BY <1>4, <2>0, <2>2 DEF SliceInv
    <3>2. NodesAt(b)' = NodesAt(a)
      BY <1>2, <3>1 DEF NodesAt
    <3>3. \A o \in NodesAt(a) : node'[o].of = node[o].of
      BY <1>2 DEF NodesAt
    <3>4. hash'[b] = hash[a]
      <4>1. hash[b] = Absent
        BY <3>1 DEF Consistent
      <4>. QED
        BY <1>1, <4>1
    <3>. QED
      BY <2>2, <3>1, <3>2, <3>3, <3>4, SliceTaken
  <2>3. CASE p # a /\ p # b
    <3>1. NodesAt(p)' = NodesAt(p)
      BY <1>2, <2>3 DEF NodesAt
    <3>2. \A o \in NodesAt(p) : node'[o].of = node[o].of
      BY <1>2, <2>3 DEF NodesAt
    <3>. QED
      BY <1>1, <2>0, <2>3, <3>1, <3>2, SliceTaken
  <2>. QED
    BY <2>1, <2>2, <2>3
<1>. QED
  BY <1>1, <1>3, <1>4, <1>5 DEF SliceInv

\* What the steps of an update leave alone.
LEMMA UpdateFrame ==
  ASSUME ShapeInv, WatchInv, CleanPaths' \in SUBSET CleanPaths,
         pc \in {"apply", "update", "write"}, pc' \in {"idle", "update", "write"},
         UNCHANGED <<disk, wire, queue, dropped, events, gone, links>>
  PROVE  /\ RawInv' /\ PlanInv' /\ Settled' \in SUBSET Settled
         /\ \A x : Quiet(x)' <=> Quiet(x)
         /\ (pc' = "idle" => \A p \in Settled' : hash'[p] = disk[p]) => EventInv'
<1>1. RawInv'
  BY RawKept DEF WatchInv
<1>2. \A x : Quiet(x)' <=> Quiet(x)
  <2>1. InFlight' = InFlight
    BY DEF InFlight
  <2>. QED
    BY <2>1 DEF Quiet, Silence
<1>3. Settled' \in SUBSET Settled
  BY <1>2 DEF Settled
<1>4. ASSUME pc' = "idle" => \A p \in Settled' : hash'[p] = disk[p] PROVE EventInv'
  <2>1. DOMAIN events' = {}
    BY DEF ShapeInv
  <2>2. \A p \in Settled' : EventClean(p)'
    BY <2>1 DEF EventClean
  <2>3. EventLinks'
    BY <2>1 DEF EventLinks
  <2>. QED
    BY <1>4, <2>2, <2>3 DEF EventInv
<1>. QED
  BY <1>1, <1>2, <1>3, <1>4 DEF PlanInv

LEMMA RenameStableInv ==
  ASSUME ShapeInv, WatchInv, RenameStable
  PROVE  WatchInv'
<1>0. moves \subseteq Paths \X Paths /\ CleanPaths \in SUBSET Paths
  BY DEF ShapeInv, TypeOK, CleanPaths
<1>1. /\ pc = "update" /\ pc' = "update"
      /\ UNCHANGED <<disk, wire, queue, dropped, events, plan, stale, parse, gone, links, tangled, missed>>
  BY DEF RenameStable
<1>2. PICK m \in moves :
        /\ moves' = moves \ {m}
        /\ IF m[1] = m[2] THEN UNCHANGED <<graph, mixed>>
           ELSE /\ RenameFileGraph(m[1], m[2])
                /\ mixed' = IF NodesAt(m[2]) # {} \/ m[1] \in tangled \cup missed \cup mixed
                              THEN mixed \cup {m[2]} ELSE mixed
  BY DEF RenameStable
<1>3. PICK a \in Paths : a = m[1]
  BY <1>0
<1>4. PICK b \in Paths : b = m[2]
  BY <1>0
<1>5. m = <<a, b>> /\ <<a, b>> \in moves
  BY <1>0, <1>3, <1>4
<1>6. \A p, q \in Paths : <<p, q>> \in moves' <=> <<p, q>> \in moves /\ ~(p = a /\ q = b)
  BY <1>2, <1>5
<1>7. \A p, q, r \in Paths : <<p, r>> \in moves /\ <<q, r>> \in moves => p = q
  BY DEF WatchInv, WorkInv
<1>8. \A p, q, r \in Paths : <<p, r>> \in moves' /\ <<q, r>> \in moves' => p = q
  BY <1>6, <1>7
<1>9. \A p \in Settled : WorkClean(p)
  BY <1>1 DEF WatchInv, WorkInv
<1>10. ASSUME dropped = 0, NEW p \in CleanPaths, NEW q \in Paths, <<p, q>> \in moves, p # q
       PROVE  /\ <<p, q>> \in links /\ Quiet(p) /\ Quiet(q)
              /\ disk[p] = Absent /\ p \notin parse
              /\ \A r \in Paths : <<r, p>> \notin moves /\ (<<p, r>> \in moves => r = q)
  BY <1>10 DEF WatchInv, WorkInv, WorkLinks
<1>11. ASSUME CleanPaths' \in SUBSET CleanPaths, dropped = 0 PROVE WorkLinks'
  <2>1. SUFFICES ASSUME NEW p \in CleanPaths', NEW q \in Paths, <<p, q>> \in moves', p # q
                 PROVE  /\ <<p, q>> \in links' /\ Quiet(p)' /\ Quiet(q)'
                        /\ disk'[p] = Absent /\ p \notin parse'
                        /\ \A r \in Paths : <<r, p>> \notin moves' /\ (<<p, r>> \in moves' => r = q)
    BY DEF WorkLinks
  <2>2. p \in Paths /\ p \in CleanPaths /\ <<p, q>> \in moves
    BY <1>0, <1>6, <1>11, <2>1
  <2>3. /\ <<p, q>> \in links /\ Quiet(p) /\ Quiet(q)
        /\ disk[p] = Absent /\ p \notin parse
        /\ \A r \in Paths : <<r, p>> \notin moves /\ (<<p, r>> \in moves => r = q)
    BY <1>10, <1>11, <2>1, <2>2
  <2>4. \A x : Quiet(x)' <=> Quiet(x)
    BY <1>1, <1>11, UpdateFrame
  <2>. QED
    BY <1>1, <1>6, <2>2, <2>3, <2>4
<1>12. CASE a = b
  <2>1. UNCHANGED <<hash, node, mixed>>
    BY <1>2, <1>3, <1>4, <1>12 DEF graph
  <2>2. CleanPaths' = CleanPaths
    BY <1>1, <2>1 DEF CleanPaths
  <2>3. SliceInv'
    BY <2>1, <2>2, SliceKept DEF WatchInv
  <2>4. RawInv' /\ PlanInv' /\ Settled' \in SUBSET Settled /\ EventInv'
    BY <1>1, <2>2, UpdateFrame
  <2>5. ASSUME NEW p \in Settled' PROVE WorkClean(p)'
    <3>0. p \in Paths /\ p \in CleanPaths /\ WorkClean(p)
      BY <1>0, <1>9, <2>4 DEF Settled
    <3>1. \A g \in Paths : <<g, p>> \in moves' =>
            p \notin parse /\ p \notin stale /\ disk[p] # Absent /\ (g \in CleanPaths => hash[g] = disk[p])
      BY <1>6, <3>0 DEF WorkClean
    <3>2. \/ p \in parse \/ p \in stale
          \/ \E q \in Paths : <<p, q>> \in moves' \/ <<q, p>> \in moves'
          \/ hash[p] = disk[p]
      <4>1. CASE p = a
        BY <1>5, <1>12, <3>0, <4>1 DEF WorkClean
      <4>2. CASE p # a
        BY <1>6, <1>12, <3>0, <4>2 DEF WorkClean
      <4>. QED
        BY <4>1, <4>2
    <3>3. (p \in parse => disk[p] # Absent) /\ (p \in stale /\ p \notin parse => disk[p] = Absent)
      BY <3>0 DEF WorkClean
    <3>. QED
      BY <1>1, <2>1, <2>2, <3>1, <3>2, <3>3 DEF WorkClean
  <2>6. WorkInv'
    BY <1>1, <1>8, <1>11, <2>2, <2>5 DEF WorkInv
  <2>. QED
    BY <2>3, <2>4, <2>6 DEF WatchInv
<1>13. CASE a # b
  <2>1. /\ RenameFileGraph(a, b)
        /\ mixed' = IF NodesAt(b) # {} \/ a \in tangled \cup missed \cup mixed
                      THEN mixed \cup {b} ELSE mixed
    BY <1>2, <1>3, <1>4, <1>13
  <2>2. /\ SliceInv' /\ CleanPaths' \in SUBSET CleanPaths
        /\ b \in CleanPaths' => a \in CleanPaths
        /\ hash'[a] = Absent /\ hash'[b] = IF hash[a] = Absent THEN hash[b] ELSE hash[a]
        /\ \A p \in Paths : p # a /\ p # b => hash'[p] = hash[p]
    BY <1>1, <1>13, <2>1, RenameSlice DEF WatchInv
  <2>3. RawInv' /\ PlanInv' /\ Settled' \in SUBSET Settled /\ EventInv'
    BY <1>1, <2>2, UpdateFrame
  <2>4. ASSUME NEW p \in Settled' PROVE WorkClean(p)'
    <3>0. p \in Paths /\ p \in CleanPaths /\ p \in CleanPaths' /\ WorkClean(p) /\ dropped = 0
      BY <1>0, <1>9, <2>3 DEF Settled
    <3>1. ASSUME NEW g \in Paths, <<g, p>> \in moves'
          PROVE  p \notin parse /\ p \notin stale /\ disk[p] # Absent /\ (g \in CleanPaths' => hash'[g] = disk[p])
      <4>1. <<g, p>> \in moves /\ ~(g = a /\ p = b)
        BY <1>6, <3>0, <3>1
      <4>2. p \notin parse /\ p \notin stale /\ disk[p] # Absent /\ (g \in CleanPaths => hash[g] = disk[p])
        BY <3>0, <4>1 DEF WorkClean
      <4>3. ASSUME g \in CleanPaths' PROVE g # a /\ g # b
        <5>0. g \in CleanPaths
          BY <2>2, <4>3
        <5>1. g # a
          BY <1>5, <1>10, <1>13, <3>0, <4>1, <5>0
        <5>2. g # b
          <6>1. SUFFICES ASSUME g = b PROVE FALSE
            OBVIOUS
          <6>2. p # b
            BY <1>5, <1>7, <1>13, <4>1, <6>1
          <6>. QED
            BY <1>5, <1>10, <3>0, <4>1, <5>0, <6>1, <6>2
        <5>. QED
          BY <5>1, <5>2
      <4>. QED
        BY <2>2, <4>2, <4>3
    <3>2. \/ p \in parse \/ p \in stale
          \/ \E q \in Paths : <<p, q>> \in moves' \/ <<q, p>> \in moves'
          \/ hash'[p] = disk[p]
      <4>1. CASE p = a
        <5>1. disk[a] = Absent
          BY <1>5, <1>10, <1>13, <3>0, <4>1
        <5>. QED
          BY <2>2, <4>1, <5>1
      <4>2. CASE p = b
        <5>1. a \in CleanPaths
          BY <2>2, <3>0, <4>2
        <5>2. hash[a] = disk[b] /\ disk[b] # Absent
          BY <1>5, <3>0, <4>2, <5>1 DEF WorkClean
        <5>. QED
          BY <2>2, <4>2, <5>2
      <4>3. CASE p # a /\ p # b
        BY <1>6, <2>2, <3>0, <4>3 DEF WorkClean
      <4>. QED
        BY <4>1, <4>2, <4>3
    <3>3. (p \in parse => disk[p] # Absent) /\ (p \in stale /\ p \notin parse => disk[p] = Absent)
      BY <3>0 DEF WorkClean
    <3>. QED
      BY <1>1, <3>1, <3>2, <3>3 DEF WorkClean
  <2>5. WorkInv'
    BY <1>1, <1>8, <1>11, <2>2, <2>4 DEF WorkInv
  <2>. QED
    BY <2>2, <2>3, <2>5 DEF WatchInv
<1>. QED
  BY <1>12, <1>13

LEMMA DeleteStaleInv ==
  ASSUME ShapeInv, WatchInv, DeleteStale
  PROVE  WatchInv'
<1>0. stale \in SUBSET Paths /\ CleanPaths \in SUBSET Paths
  BY DEF ShapeInv, TypeOK, CleanPaths
<1>1. /\ pc = "update" /\ pc' = "write" /\ moves = {} /\ moves' = {} /\ stale' = {}
      /\ DeleteFileGraphs(stale)
      /\ UNCHANGED <<disk, wire, queue, dropped, events, parse, gone, links, tangled, missed, mixed>>
  BY DEF DeleteStale, ghosts
<1>2. CleanPaths' = CleanPaths
  BY <1>1 DEF CleanPaths
<1>3. SliceInv'
  BY <1>0, <1>1, <1>2, DeleteSlice DEF WatchInv
<1>4. RawInv' /\ PlanInv' /\ Settled' \in SUBSET Settled /\ EventInv'
  BY <1>1, <1>2, UpdateFrame
<1>5. \A p \in Paths : hash'[p] = IF p \in stale THEN Absent ELSE hash[p]
  BY <1>1 DEF DeleteFileGraphs
<1>6. ASSUME NEW p \in Settled' PROVE WorkClean(p)'
  <2>1. p \in Paths /\ WorkClean(p)
    BY <1>0, <1>1, <1>4 DEF Settled, WatchInv, WorkInv
  <2>2. p \in parse \/ hash'[p] = disk[p]
    BY <1>1, <1>5, <2>1 DEF WorkClean
  <2>3. p \in parse => disk[p] # Absent
    BY <2>1 DEF WorkClean
  <2>. QED
    BY <1>1, <2>2, <2>3 DEF WorkClean
<1>7. WorkInv'
  BY <1>1, <1>6 DEF WorkInv, WorkLinks
<1>. QED
  BY <1>3, <1>4, <1>7 DEF WatchInv

LEMMA ReplaceInv ==
  ASSUME ShapeInv, WatchInv, Replace
  PROVE  WatchInv'
<1>0. parse \in SUBSET Paths /\ CleanPaths \in SUBSET Paths /\ disk \in [Paths -> Values]
  BY DEF ShapeInv, TypeOK, CleanPaths
<1>1. /\ pc = "write" /\ pc' = "idle" /\ ReplaceFiles(parse)
      /\ UNCHANGED <<disk, wire, queue, dropped, events, moves, gone, links, tangled, missed>>
  BY DEF Replace
<1>2. moves = {} /\ stale = {}
  BY <1>1 DEF ShapeInv
<1>3. /\ SliceInv' /\ CleanPaths' \in SUBSET CleanPaths
      /\ \A p \in Paths : hash'[p] = IF p \in parse /\ disk[p] # Absent THEN disk[p] ELSE hash[p]
  BY <1>0, <1>1, ReplaceSlice DEF WatchInv
<1>4. RawInv' /\ PlanInv' /\ Settled' \in SUBSET Settled
      /\ ((\A p \in Settled' : hash'[p] = disk[p]) => EventInv')
  BY <1>1, <1>3, UpdateFrame
<1>5. ASSUME NEW p \in Settled' PROVE hash'[p] = disk[p]
  <2>1. p \in Paths /\ WorkClean(p)
    BY <1>0, <1>1, <1>4 DEF Settled, WatchInv, WorkInv
  <2>2. p \in parse => disk[p] # Absent
    BY <2>1 DEF WorkClean
  <2>3. p \in parse \/ hash[p] = disk[p]
    <3>1. \A q \in Paths : <<p, q>> \notin moves /\ <<q, p>> \notin moves
      BY <1>2
    <3>2. p \notin stale
      BY <1>2
    <3>3. \/ p \in parse \/ p \in stale
          \/ \E q \in Paths : <<p, q>> \in moves \/ <<q, p>> \in moves
          \/ hash[p] = disk[p]
      BY <2>1 DEF WorkClean
    <3>. QED
      BY <3>1, <3>2, <3>3
  <2>. QED
    BY <1>3, <2>1, <2>2, <2>3
<1>6. WorkInv'
  BY <1>1, <1>2 DEF WorkInv, WorkLinks
<1>. QED
  BY <1>3, <1>4, <1>5, <1>6 DEF WatchInv

\* A failed update: the paths it was about are known as missed.
LEMMA UpdateFailsInv ==
  ASSUME ShapeInv, WatchInv, UpdateFails
  PROVE  WatchInv'
<1>0. /\ parse \in SUBSET Paths /\ stale \in SUBSET Paths /\ moves \subseteq Paths \X Paths
      /\ CleanPaths \in SUBSET Paths
  BY DEF ShapeInv, TypeOK, CleanPaths
<1>1. /\ pc' = "idle" /\ moves' = {}
      /\ UNCHANGED <<disk, wire, queue, dropped, events, gone, links, tangled>>
  BY DEF UpdateFails
<1>2. missed' = missed \cup stale \cup parse \cup {m[1] : m \in moves} \cup {m[2] : m \in moves} \cup
       {p \in Paths : \/ plan.rescan
                      \/ plan.changes[p] # NoChange
                      \/ \E q \in Paths : plan.changes[q].old = p}
  BY DEF UpdateFails
<1>3. /\ missed \subseteq missed' /\ stale \subseteq missed' /\ parse \subseteq missed'
      /\ \A p, q \in Paths : <<p, q>> \in moves => p \in missed' /\ q \in missed'
  <2>1. ASSUME NEW p \in Paths, NEW q \in Paths, <<p, q>> \in moves
        PROVE  p \in missed' /\ q \in missed'
    <3>1. PICK m \in moves : m = <<p, q>>
      BY <2>1
    <3>2. m[1] = p /\ m[2] = q
      BY <3>1
    <3>3. p \in {k[1] : k \in moves} /\ q \in {k[2] : k \in moves}
      BY <3>2
    <3>. QED
      BY <1>2, <3>3
  <2>. QED
    BY <1>2, <2>1
<1>4. /\ pc \in {"apply", "update", "write"}
      /\ SliceInv' /\ CleanPaths' \in SUBSET CleanPaths
      /\ \A p \in Paths : p \notin missed' => hash'[p] = hash[p]
  <2>1. CASE pc \in {"apply", "update"} /\ UNCHANGED <<graph, mixed>>
    <3>1. UNCHANGED <<hash, node, mixed>>
      BY <2>1 DEF graph
    <3>2. CleanPaths' \in SUBSET CleanPaths
      BY <1>1, <1>3, <3>1 DEF CleanPaths
    <3>3. SliceInv'
      BY <3>1, <3>2, SliceKept DEF WatchInv
    <3>. QED
      BY <2>1, <3>1, <3>2, <3>3
  <2>2. CASE pc = "update" /\ UNCHANGED mixed /\ \E S \in SUBSET stale : DeleteFileGraphs(S)
    <3>1. PICK S \in SUBSET Paths : S \subseteq stale /\ DeleteFileGraphs(S)
      BY <1>0, <2>2
    <3>2. CleanPaths' \in SUBSET CleanPaths
      BY <1>1, <1>3, <2>2 DEF CleanPaths
    <3>3. SliceInv'
      BY <3>1, <3>2, DeleteSlice DEF WatchInv
    <3>4. \A p \in Paths : hash'[p] = IF p \in S THEN Absent ELSE hash[p]
      BY <3>1 DEF DeleteFileGraphs
    <3>. QED
      BY <1>3, <2>2, <3>1, <3>2, <3>3, <3>4
  <2>3. CASE pc = "write" /\ \E S \in SUBSET parse : ReplaceFiles(S)
    <3>1. PICK S \in SUBSET Paths : S \subseteq parse /\ ReplaceFiles(S)
      BY <1>0, <2>3
    <3>2. /\ SliceInv' /\ CleanPaths' \in SUBSET CleanPaths
          /\ \A p \in Paths : hash'[p] = IF p \in S /\ disk[p] # Absent THEN disk[p] ELSE hash[p]
      BY <1>1, <1>3, <3>1, ReplaceSlice DEF WatchInv
    <3>. QED
      BY <1>3, <2>3, <3>1, <3>2
  <2>. QED
    BY <2>1, <2>2, <2>3 DEF UpdateFails
<1>5. RawInv' /\ PlanInv' /\ Settled' \in SUBSET Settled
      /\ ((\A p \in Settled' : hash'[p] = disk[p]) => EventInv')
  BY <1>1, <1>4, UpdateFrame
<1>6. ASSUME NEW p \in Settled' PROVE hash'[p] = disk[p]
  <2>1. p \in Paths /\ p \in Settled /\ p \notin missed' /\ p \notin stale /\ p \notin parse
    BY <1>3, <1>5 DEF Settled, CleanPaths
  <2>2. hash[p] = disk[p]
    <3>1. CASE pc = "apply"
      <4>1. ~plan.rescan /\ plan.changes[p] = NoChange /\ \A q \in Paths : plan.changes[q].old # p
        BY <1>2, <2>1
      <4>2. PlanClean(plan.changes, p)
        BY <2>1, <3>1, <4>1 DEF WatchInv, PlanInv
      <4>3. plan.changes[p].type = "none"
        BY <4>1 DEF NoChange
      <4>. QED
        BY <4>1, <4>2, <4>3 DEF PlanClean
    <3>2. CASE pc \in {"update", "write"}
      <4>1. WorkClean(p)
        BY <2>1, <3>2 DEF WatchInv, WorkInv
      <4>2. \A q \in Paths : <<p, q>> \notin moves /\ <<q, p>> \notin moves
        BY <1>3, <2>1
      <4>. QED
        BY <2>1, <4>1, <4>2 DEF WorkClean
    <3>. QED
      BY <1>4, <3>1, <3>2
  <2>. QED
    BY <1>4, <2>1, <2>2
<1>7. WorkInv'
  BY <1>1 DEF WorkInv, WorkLinks
<1>. QED
  BY <1>4, <1>5, <1>6, <1>7 DEF WatchInv

-----------------------------------------------------------------------------
(* The slices at rest.                                                     *)

LEMMA WatchInit ==
  ASSUME Init
  PROVE  WatchInv
<1>1. InFlight = <<>> /\ DOMAIN InFlight = {}
  <2>1. <<>> \o <<>> = <<>>
    BY EmptySeq, ConcatEmptySeq
  <2>. QED
    BY <2>1 DEF Init, InFlight
<1>2. RawInv
  <2>1. \A p \in CleanPaths : RawClean(InFlight, p, disk)
    BY <1>1 DEF RawClean, RawModify, RawTurn, RawRemoves, Spinning
  <2>2. RawLinks(InFlight, CleanPaths, links) /\ RawGone(InFlight, CleanPaths, gone)
    BY <1>1 DEF RawLinks, RawGone
  <2>. QED
    BY <2>1, <2>2 DEF RawInv, RawOK
<1>3. EventInv
  <2>1. DOMAIN events = {} /\ \A p : hash[p] = disk[p]
    BY DEF Init
  <2>. QED
    BY <2>1 DEF EventInv, EventClean, EventLinks
<1>4. PlanInv /\ WorkInv
  BY DEF Init, PlanInv, WorkInv, WorkLinks
<1>5. ASSUME NEW p \in CleanPaths PROVE Consistent(p)
  <2>0. p \in Paths /\ hash[p] = disk[p] /\ p # NoPath
    BY DEF Init, CleanPaths
  <2>1. \A o \in Paths : node[o] = IF disk[o] = Absent THEN NoNode ELSE [at |-> o, of |-> disk[o]]
    BY DEF Init
  <2>4. ASSUME NEW o \in Paths
        PROVE  /\ disk[o] = Absent => node[o].at = NoPath
               /\ disk[o] # Absent => node[o].at = o /\ node[o].of = disk[o]
    <3>1. CASE disk[o] = Absent
      <4>1. node[o] = NoNode
        BY <2>1, <3>1, Zenon
      <4>. QED
        BY <3>1, <4>1 DEF NoNode
    <3>2. CASE disk[o] # Absent
      <4>1. node[o] = [at |-> o, of |-> disk[o]]
        BY <2>1, <3>2, Zenon
      <4>. QED
        BY <3>2, <4>1
    <3>. QED
      BY <3>1, <3>2
  <2>2. CASE disk[p] = Absent
    <3>1. NodesAt(p) = {}
      BY <2>0, <2>4, <2>2 DEF NodesAt
    <3>. QED
      BY <2>0, <2>2, <3>1 DEF Consistent
  <2>3. CASE disk[p] # Absent
    <3>1. NodesAt(p) = {p} /\ node[p].of = disk[p]
      BY <2>0, <2>4, <2>3 DEF NodesAt
    <3>. QED
      BY <2>0, <2>3, <3>1 DEF Consistent
  <2>. QED
    BY <2>2, <2>3
<1>. QED
  BY <1>2, <1>3, <1>4, <1>5 DEF WatchInv, SliceInv

\* Where nothing changes.
LEMMA WatchStutter ==
  ASSUME ShapeInv, WatchInv, UNCHANGED vars
  PROVE  WatchInv'
<1>1. /\ UNCHANGED <<disk, hash, node, pc, events, plan, moves, stale, parse,
                     links, tangled, missed, mixed, dropped, queue, wire, gone>>
  BY DEF vars
<1>2. InFlight' = InFlight /\ CleanPaths' = CleanPaths
  BY <1>1 DEF InFlight, CleanPaths
<1>3. RawInv'
  BY <1>1, <1>2 DEF WatchInv, RawInv
<1>4. CASE dropped = 0
  BY <1>1, <1>2, <1>3, <1>4, PassKeeps
<1>5. CASE dropped # 0
  BY <1>1, <1>3, <1>5, PassKeeps
<1>. QED
  BY <1>4, <1>5

LEMMA WatchNext ==
  ASSUME ShapeInv, WatchInv, [Next]_vars
  PROVE  WatchInv'
<1>1. CASE User
  <2>1. ASSUME NEW p \in Paths, Delete(p) PROVE WatchInv'
    BY <2>1, DeleteInv
  <2>2. ASSUME NEW p \in Paths, NEW v \in Contents, Write(p, v) PROVE WatchInv'
    BY <2>2, WriteInv
  <2>3. ASSUME NEW p \in Paths, NEW v \in Contents, Create(p, v) PROVE WatchInv'
    BY <2>3, CreateInv
  <2>4. ASSUME NEW p \in Paths, NEW q \in Paths, Rename(p, q) PROVE WatchInv'
    BY <2>4, RenameInv
  <2>5. ASSUME NEW kind \in {"ignored"} \cup Silent, Noise(kind) PROVE WatchInv'
    BY <2>5, NoiseInv
  <2>6. ASSUME NEW p \in Paths, MoveOut(p) PROVE WatchInv'
    BY <2>6, MoveOutInv
  <2>. QED
    BY <1>1, <2>1, <2>2, <2>3, <2>4, <2>5, <2>6 DEF User
<1>2. CASE Deliver
  BY <1>2, DeliverInv
<1>3. CASE Watcher
  <2>1. CASE Drain
    BY <2>1, DrainInv
  <2>2. CASE DrainBuffered
    BY <2>2, DrainBufferedInv
  <2>3. CASE PlanBatch
    BY <2>3, PlanBatchInv
  <2>4. CASE Classify
    BY <2>4, ClassifyInv
  <2>5. CASE RenameStable
    BY <2>5, RenameStableInv
  <2>6. CASE DeleteStale
    BY <2>6, DeleteStaleInv
  <2>7. CASE Replace
    BY <2>7, ReplaceInv
  <2>8. CASE UpdateFails
    BY <2>8, UpdateFailsInv
  <2>. QED
    BY <1>3, <2>1, <2>2, <2>3, <2>4, <2>5, <2>6, <2>7, <2>8 DEF Watcher, Update
<1>4. CASE UNCHANGED vars
  BY <1>4, WatchStutter
<1>. QED
  BY <1>1, <1>2, <1>3, <1>4 DEF Next

\* However the raw events were cut into drains and batches, a clean path nothing
\* more is to be heard of is told right by the last thing that waits for it, and
\* its slice is never mixed with another's.
LEMMA WatchInvariant == Spec => []WatchInv
<1>1. ShapeInv /\ ShapeInv' /\ WatchInv /\ [Next]_vars => WatchInv'
  BY WatchNext
<1>2. Init => WatchInv
  BY WatchInit
<1>. QED
  BY <1>1, <1>2, Shapes, PTL DEF Spec

\* At rest the slice of every file is that of its content, or gone with it, but for
\* the paths the exceptions name: for any number of files, edits and events, any
\* capacity of the channel and both platforms (WatchRunner::run, watch.rs).
THEOREM AtRestCurrent == Spec => []WatchedIsCurrent
<1>1. ASSUME ShapeInv, WatchInv PROVE WatchedIsCurrent
  <2>1. SUFFICES ASSUME AtRest, NEW p \in Paths, p \notin tangled \cup missed \cup mixed
                 PROVE  Current(p)
    BY DEF WatchedIsCurrent
  <2>2. p \in CleanPaths /\ pc = "idle" /\ dropped = 0
    BY <2>1 DEF CleanPaths, AtRest
  <2>3. DOMAIN InFlight = {}
    <3>1. <<>> \o <<>> = <<>>
      BY EmptySeq, ConcatEmptySeq
    <3>. QED
      BY <2>1, <3>1 DEF AtRest, InFlight
  <2>4. p \in Settled
    BY <2>2, <2>3 DEF Settled, Quiet, Silence
  <2>5. DOMAIN events = {}
    BY <1>1, <2>2 DEF ShapeInv
  <2>6. hash[p] = disk[p]
    BY <1>1, <2>2, <2>4, <2>5 DEF WatchInv, EventInv
  <2>7. Consistent(p)
    BY <1>1, <2>2 DEF WatchInv, SliceInv
  <2>. QED
    BY <2>6, <2>7 DEF Current
<1>. QED
  BY <1>1, Shapes, WatchInvariant, PTL
=============================================================================
