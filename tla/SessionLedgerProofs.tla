------------------------ MODULE SessionLedgerProofs ------------------------
(***************************************************************************)
(* Proofs about SessionLedger, for any events, files, processes and        *)
(* limits.                                                                 *)
(***************************************************************************)
EXTENDS SessionLedger, FiniteSetTheorems, SequenceTheorems, TLAPS

-----------------------------------------------------------------------------
(* The inductive invariant.                                                *)

Rows == [id : Nat, ev : Events, pri : Nat, at : Nat]
Plans == [del : SUBSET Rows, promote : SUBSET Nat]
Names == {"append", "load", "mark", "curate", "apply", "snapshot", "handoff",
          "get_or_build", "view", "record", "write", "read", "deliver", "remove"}
Handlers == [todo : Seq(Names), ev : Events \cup {None}, plan : Plans \cup {None},
             ver : Nat, file : Files \cup {None}]
Histories == [top : [Groups -> Nat], lost : SUBSET Groups, kept : SUBSET Events,
              settled : SUBSET Events, shown : SUBSET Nat, overtaken : SUBSET Nat,
              written : SUBSET Files]
Bridges == [state : {"none", "partial", "whole"}, at : Nat]

StateOK ==
  /\ session \in BOOLEAN /\ clock \in Nat
  /\ snap = None \/ snap \in [ver : 1..clock, consumed : BOOLEAN]
  /\ bridge \in [Files -> Bridges] /\ history \in Histories
  /\ proc \in [Procs -> Handlers]

\* The ledger: one row per id and per event, and no more than the limit.
LedgerOK ==
  /\ rows \subseteq Rows /\ IsFiniteSet(rows) /\ Cardinality(rows) <= MaxEvents
  /\ \A r \in rows : /\ r.id \in 1..clock /\ r.at \in 1..clock
                     /\ r.pri \in {r.ev.pri, PromotionPriority}
  /\ \A r, s \in rows : (r.id = s.id \/ r.ev = s.ev) => r = s
  /\ ~session => rows = {} /\ decisions = {} /\ snap = None

\* Which step of a handler may follow which, and which may be the last.
Follow == {<<"append", "curate">>, <<"append", "load">>, <<"curate", "apply">>,
           <<"apply", "snapshot">>, <<"snapshot", "handoff">>, <<"snapshot", "view">>,
           <<"load", "mark">>, <<"get_or_build", "view">>, <<"view", "mark">>,
           <<"view", "record">>, <<"mark", "record">>,
           <<"deliver", "deliver">>, <<"deliver", "remove">>}
Last == {"append", "handoff", "mark", "apply", "snapshot", "record", "write", "read", "remove"}

WellFormed(t) ==
  /\ \A i \in 1..Len(t) - 1 : <<t[i], t[i + 1]>> \in Follow
  /\ t # <<>> => t[Len(t)] \in Last

\* What a handler has in hand: a plan to apply, an event to append, a file.
HandlerOK(p) ==
  /\ WellFormed(proc[p].todo)
  /\ At(p, "apply") => proc[p].plan \in Plans
  /\ At(p, "append") => proc[p].ev \in Events
  /\ \A i \in 1..Len(proc[p].todo) : proc[p].todo[i] = "view" => proc[p].ev = None
  /\ At(p, "write") \/ At(p, "read") \/ At(p, "deliver") \/ At(p, "remove") =>
       proc[p].file \in Files /\ bridge[proc[p].file].at \in 1..clock
  /\ At(p, "deliver") \/ At(p, "remove") =>
       Len(proc[p].todo) <= Len(FileEvents[proc[p].file]) + 1

\* A file has the time it was created at.
FilesDated ==
  \A f \in Files : bridge[f].at <= clock /\ (bridge[f].state # "none" => bridge[f].at # 0)

TypeInv == StateOK /\ LedgerOK /\ FilesDated /\ \A p \in Procs : HandlerOK(p)

\* What a reader has in hand it has been shown, and no snapshot is older.
Reader(p) ==
  /\ proc[p].ver <= clock /\ (snap # None => proc[p].ver <= snap.ver)
  /\ At(p, "view") \/ At(p, "mark") => proc[p].ver \in history.shown

ResumeInv == ConsumedWasLoaded /\ \A p \in Procs : Reader(p)

\* A file that was begun and is gone has been dealt with; one that was finished is whole
\* or gone.
FileOK(f) ==
  /\ bridge[f].at # 0 /\ bridge[f].state = "none" => Range(FileEvents[f]) \subseteq history.settled
  /\ f \in history.written => bridge[f].at # 0 /\ bridge[f].state # "partial"

\* An ingesting process has delivered the events before the one it is at.
Ingest(p) ==
  At(p, "deliver") \/ At(p, "remove") =>
    LET es == FileEvents[proc[p].file] IN
    \A i \in 1..Len(es) : i < Len(es) + 2 - Len(proc[p].todo) => es[i] \in history.settled

BridgeInv == (\A f \in Files : FileOK(f)) /\ \A p \in Procs : Ingest(p)

\* The first row of a group with the newest time: no curation has it in its plan.
First(r) ==
  \A s \in rows : Group(s.ev) = Group(r.ev) =>
    s.at <= r.at /\ (s.at = r.at => r.id <= s.id)
Newest(g) ==
  \/ history.top[g] = 0 \/ g \in history.lost
  \/ \E r \in rows : /\ Group(r.ev) = g /\ r.at = history.top[g] /\ First(r)
                     /\ \A p \in Procs : At(p, "apply") =>
                          \A d \in proc[p].plan.del : d.id # r.id

\* A row that curation promotes is the first of its group, unless a newer one came.
Outdone(r) == r.at < history.top[Group(r.ev)] \/ Group(r.ev) \in history.lost
Promoted(r) == r.ev.kind \in DOMAIN Keep => Outdone(r) \/ First(r)

\* What a plan says of a row it still finds.
PlanOK(p) ==
  At(p, "apply") =>
    /\ \A d \in proc[p].plan.del :
         d.id <= clock /\ d.ev.kind \in DOMAIN Keep /\ \A r \in rows : r.id = d.id => r.ev = d.ev
    /\ \A n \in proc[p].plan.promote : n <= clock /\ \A r \in rows : r.id = n => Promoted(r)

CurationInv ==
  /\ \A r \in rows : r.at <= history.top[Group(r.ev)]
  /\ \A r \in rows : r.pri = PromotionPriority => Promoted(r)
  /\ \A g \in Groups : Newest(g)
  /\ \A p \in Procs : PlanOK(p)

-----------------------------------------------------------------------------
(* Programs.                                                               *)

\* What is left of a program after a step.
LEMMA TailFacts ==
  ASSUME NEW t \in Seq(Names), t # <<>>
  PROVE  /\ Tail(t) \in Seq(Names) /\ Len(t) \in Nat \ {0} /\ Len(Tail(t)) = Len(t) - 1
         /\ \A i \in 1..Len(t) - 1 : Tail(t)[i] = t[i + 1]
         /\ Head(t) = t[1] /\ t[1] \in Names
         /\ Len(t) = 1 => Tail(t) = <<>>
         /\ Tail(t) = <<>> => Len(t) = 1
<1>1. /\ Tail(t) \in Seq(Names) /\ Len(t) \in Nat \ {0} /\ Len(Tail(t)) = Len(t) - 1
      /\ Head(t) = t[1] /\ t[1] \in Names
  OBVIOUS
<1>2. \A i \in 1..Len(t) - 1 : Tail(t)[i] = t[i + 1]
  OBVIOUS
<1>3. Len(t) = 1 => Tail(t) = <<>>
  <2>1. \A s \in Seq(Names) : s # <<>> => Len(s) \in Nat \ {0}
    BY EmptySeq
  <2>2. Tail(t) # <<>> => Len(Tail(t)) \in Nat \ {0}
    BY <1>1, <2>1, Zenon
  <2>3. Len(t) = 1 => Len(Tail(t)) = 0
    BY <1>1
  <2>. QED
    BY <2>2, <2>3
<1>4. Tail(t) = <<>> => Len(t) = 1
  <2>1. Len(<<>>) = 0
    BY EmptySeq
  <2>. QED
    BY <1>1, <2>1
<1>. QED
  BY <1>1, <1>2, <1>3, <1>4

\* It is a program, and begins with a step that may follow.
LEMMA WellFormedTail ==
  ASSUME NEW t \in Seq(Names), t # <<>>, WellFormed(t)
  PROVE  /\ WellFormed(Tail(t))
         /\ Tail(t) # <<>> => <<Head(t), Head(Tail(t))>> \in Follow
         /\ Tail(t) = <<>> => Head(t) \in Last
<1>. DEFINE u == Tail(t)
<1>1. /\ u \in Seq(Names) /\ Len(t) \in Nat \ {0} /\ Len(u) = Len(t) - 1
      /\ \A i \in 1..Len(t) - 1 : u[i] = t[i + 1]
      /\ Head(t) = t[1] /\ (Len(t) = 1 <=> u = <<>>)
  BY TailFacts
<1>. HIDE DEF u
<1>2. ASSUME NEW i \in 1..Len(u) - 1 PROVE <<u[i], u[i + 1]>> \in Follow
  <2>1. i + 1 \in 1..Len(t) - 1 /\ i \in 1..Len(t) - 1
    BY <1>1
  <2>. QED
    BY <1>1, <2>1 DEF WellFormed
<1>3. ASSUME u # <<>> PROVE u[Len(u)] \in Last /\ <<Head(t), Head(u)>> \in Follow
  <2>1. Len(t) > 1 /\ Head(u) = u[1]
    BY <1>1, <1>3
  <2>2. u[Len(u)] = t[Len(t)] /\ u[1] = t[2]
    BY <1>1, <2>1
  <2>. QED
    BY <1>1, <2>1, <2>2 DEF WellFormed
<1>4. u = <<>> => Head(t) \in Last
  BY <1>1 DEF WellFormed
<1>. QED
  BY <1>2, <1>3, <1>4 DEF u, WellFormed

\* Three programs put together.
LEMMA BuildResumeFacts ==
  /\ BuildResume \in Seq(Names) /\ Len(BuildResume) = 3 /\ BuildResume # <<>>
  /\ BuildResume[1] = "curate" /\ BuildResume[2] = "apply" /\ BuildResume[3] = "snapshot"
  /\ Head(BuildResume) = "curate" /\ WellFormed(BuildResume)
  /\ <<"append">> \o BuildResume \o <<"handoff">>
       = <<"append", "curate", "apply", "snapshot", "handoff">>
<1>1. /\ BuildResume \in Seq(Names) /\ Len(BuildResume) = 3 /\ BuildResume # <<>>
      /\ BuildResume[1] = "curate" /\ BuildResume[2] = "apply" /\ BuildResume[3] = "snapshot"
      /\ Head(BuildResume) = "curate"
  BY DEF BuildResume, Names
<1>2. WellFormed(BuildResume)
  <2>1. ASSUME NEW i \in 1..2 PROVE <<BuildResume[i], BuildResume[i + 1]>> \in Follow
    <3>1. i = 1 \/ i = 2
      OBVIOUS
    <3>. QED
      BY <1>1, <3>1 DEF Follow
  <2>. QED
    BY <1>1, <2>1 DEF WellFormed, Last
<1>3. <<"append">> \o BuildResume \o <<"handoff">>
        = <<"append", "curate", "apply", "snapshot", "handoff">>
  <2>. DEFINE u == <<"append">> \o BuildResume
              v == <<"append", "curate", "apply", "snapshot", "handoff">>
              w == u \o <<"handoff">>
  <2>1. <<"append">> \in Seq(Names) /\ Len(<<"append">>) = 1 /\ (<<"append">>)[1] = "append"
    BY DEF Names
  <2>2. <<"handoff">> \in Seq(Names) /\ Len(<<"handoff">>) = 1 /\ (<<"handoff">>)[1] = "handoff"
    BY DEF Names
  <2>3. /\ u \in Seq(Names) /\ Len(u) = 4 /\ u[1] = "append" /\ u[2] = "curate"
        /\ u[3] = "apply" /\ u[4] = "snapshot"
    <3>1. /\ u \in Seq(Names) /\ Len(u) = Len(<<"append">>) + Len(BuildResume)
          /\ \A i \in 1..Len(<<"append">>) + Len(BuildResume) :
                u[i] = IF i <= Len(<<"append">>) THEN (<<"append">>)[i]
                       ELSE BuildResume[i - Len(<<"append">>)]
      BY <1>1, <2>1, ConcatProperties, Zenon
    <3>. QED
      BY <1>1, <2>1, <3>1
  <2>. HIDE DEF u
  <2>4. /\ w \in Seq(Names) /\ Len(w) = 5 /\ w[1] = "append" /\ w[2] = "curate"
        /\ w[3] = "apply" /\ w[4] = "snapshot" /\ w[5] = "handoff"
    <3>1. /\ w \in Seq(Names) /\ Len(w) = Len(u) + Len(<<"handoff">>)
          /\ \A i \in 1..Len(u) + Len(<<"handoff">>) :
                w[i] = IF i <= Len(u) THEN u[i] ELSE (<<"handoff">>)[i - Len(u)]
      BY <2>2, <2>3, ConcatProperties, Zenon
    <3>. QED
      BY <2>2, <2>3, <3>1
  <2>5. /\ v \in Seq(Names) /\ Len(v) = 5 /\ v[1] = "append" /\ v[2] = "curate"
        /\ v[3] = "apply" /\ v[4] = "snapshot" /\ v[5] = "handoff"
    BY DEF Names
  <2>. HIDE DEF v, w
  <2>6. ASSUME NEW i \in 1..5 PROVE w[i] = v[i]
    <3>1. i = 1 \/ i = 2 \/ i = 3 \/ i = 4 \/ i = 5
      OBVIOUS
    <3>. QED
      BY <2>4, <2>5, <3>1
  <2>7. w = v
    BY <2>4, <2>5, <2>6, SeqEqual
  <2>. QED
    BY <2>7 DEF u, v, w
<1>. QED
  BY <1>1, <1>2, <1>3

\* A program that begins with a step of the tables and goes on like one.
Plain(t) == t \in Seq(Names) /\ WellFormed(t) /\ t # <<>>

\* The programs the handlers begin with.
LEMMA HookProgramFacts ==
  ASSUME NEW t \in HookPrograms
  PROVE  Plain(t) /\ Head(t) = "append" /\ \A i \in 1..Len(t) : t[i] # "view"
<1>1. CASE t = <<"append">>
  <2>1. Len(t) = 1 /\ t \in Seq(Names) /\ t # <<>> /\ t[1] = "append" /\ Head(t) = "append"
    BY <1>1 DEF Names
  <2>. QED
    BY <2>1 DEF Plain, WellFormed, Last
<1>2. CASE t = <<"append", "curate", "apply", "snapshot", "handoff">>
  <2>1. /\ Len(t) = 5 /\ t \in Seq(Names) /\ t # <<>> /\ Head(t) = "append"
        /\ t[1] = "append" /\ t[2] = "curate" /\ t[3] = "apply" /\ t[4] = "snapshot"
        /\ t[5] = "handoff"
    BY <1>2 DEF Names
  <2>2. ASSUME NEW i \in 1..4 PROVE <<t[i], t[i + 1]>> \in Follow
    <3>1. i = 1 \/ i = 2 \/ i = 3 \/ i = 4
      OBVIOUS
    <3>. QED
      BY <2>1, <3>1 DEF Follow
  <2>3. ASSUME NEW i \in 1..5 PROVE t[i] # "view"
    <3>1. i = 1 \/ i = 2 \/ i = 3 \/ i = 4 \/ i = 5
      OBVIOUS
    <3>. QED
      BY <2>1, <3>1
  <2>. QED
    BY <2>1, <2>2, <2>3 DEF Plain, WellFormed, Last
<1>3. CASE t = <<"append", "load", "mark">>
  <2>1. /\ Len(t) = 3 /\ t \in Seq(Names) /\ t # <<>> /\ Head(t) = "append"
        /\ t[1] = "append" /\ t[2] = "load" /\ t[3] = "mark"
    BY <1>3 DEF Names
  <2>2. ASSUME NEW i \in 1..2 PROVE <<t[i], t[i + 1]>> \in Follow
    <3>1. i = 1 \/ i = 2
      OBVIOUS
    <3>. QED
      BY <2>1, <3>1 DEF Follow
  <2>3. ASSUME NEW i \in 1..3 PROVE t[i] # "view"
    <3>1. i = 1 \/ i = 2 \/ i = 3
      OBVIOUS
    <3>. QED
      BY <2>1, <3>1
  <2>. QED
    BY <2>1, <2>2, <2>3 DEF Plain, WellFormed, Last
<1>. QED
  BY <1>1, <1>2, <1>3, BuildResumeFacts DEF HookPrograms

\* Those of the tools, and of atlas session resume.
LEMMA ToolProgramFacts ==
  /\ \A t \in ToolPrograms : Plain(t) /\ Head(t) \in {"curate", "get_or_build"}
  /\ Plain(<<"load", "mark">>) /\ Head(<<"load", "mark">>) = "load"
<1>1. ASSUME NEW t, t = <<"curate", "apply">> \/ t = <<"load", "mark">>
      PROVE  Plain(t) /\ Head(t) \in {"curate", "load"} /\ Head(t) = t[1]
  <2>1. /\ Len(t) = 2 /\ t \in Seq(Names) /\ t # <<>> /\ Head(t) = t[1]
        /\ (t[1] = "curate" /\ t[2] = "apply") \/ (t[1] = "load" /\ t[2] = "mark")
    <3>1. CASE t = <<"curate", "apply">>
      BY <3>1 DEF Names
    <3>2. CASE t = <<"load", "mark">>
      BY <3>2 DEF Names
    <3>. QED
      BY <1>1, <3>1, <3>2
  <2>2. ASSUME NEW i \in 1..1 PROVE <<t[i], t[i + 1]>> \in Follow
    <3>1. i = 1
      OBVIOUS
    <3>. QED
      BY <2>1, <3>1 DEF Follow
  <2>. QED
    BY <2>1, <2>2 DEF Plain, WellFormed, Last
<1>2. ASSUME NEW t, t = <<"get_or_build", "view", "mark", "record">>
      PROVE  Plain(t) /\ Head(t) = "get_or_build"
  <2>1. /\ Len(t) = 4 /\ t \in Seq(Names) /\ t # <<>> /\ Head(t) = t[1]
        /\ t[1] = "get_or_build" /\ t[2] = "view" /\ t[3] = "mark" /\ t[4] = "record"
    BY <1>2 DEF Names
  <2>2. ASSUME NEW i \in 1..3 PROVE <<t[i], t[i + 1]>> \in Follow
    <3>1. i = 1 \/ i = 2 \/ i = 3
      OBVIOUS
    <3>. QED
      BY <2>1, <3>1 DEF Follow
  <2>. QED
    BY <2>1, <2>2 DEF Plain, WellFormed, Last
<1>3. ASSUME NEW t, t = <<"get_or_build", "view", "record">>
      PROVE  Plain(t) /\ Head(t) = "get_or_build"
  <2>1. /\ Len(t) = 3 /\ t \in Seq(Names) /\ t # <<>> /\ Head(t) = t[1]
        /\ t[1] = "get_or_build" /\ t[2] = "view" /\ t[3] = "record"
    BY <1>3 DEF Names
  <2>2. ASSUME NEW i \in 1..2 PROVE <<t[i], t[i + 1]>> \in Follow
    <3>1. i = 1 \/ i = 2
      OBVIOUS
    <3>. QED
      BY <2>1, <3>1 DEF Follow
  <2>. QED
    BY <2>1, <2>2 DEF Plain, WellFormed, Last
<1>4. Head(<<"curate", "apply">>) = "curate" /\ Head(<<"load", "mark">>) = "load"
  OBVIOUS
<1>. QED
  BY <1>1, <1>2, <1>3, <1>4 DEF ToolPrograms

\* A handler that builds the snapshot it did not find.
LEMMA BuildFirst ==
  ASSUME NEW t \in Seq(Names), t # <<>>, WellFormed(t), Head(t) = "get_or_build"
  PROVE  /\ Plain(BuildResume \o Tail(t)) /\ Head(BuildResume \o Tail(t)) = "curate"
         /\ \E k \in 1..Len(t) : t[k] = "view"
<1>. DEFINE u == BuildResume \o Tail(t)
            x == Tail(t)
            n == Len(Tail(t))
<1>1. /\ x \in Seq(Names) /\ n \in Nat /\ n = Len(t) - 1 /\ n = Len(x)
      /\ WellFormed(x) /\ n > 0 /\ x[1] = "view" /\ Len(t) \in Nat
      /\ \A i \in 1..n : x[i] = t[i + 1]
  <2>1. "get_or_build" \notin Last
    BY DEF Last
  <2>2. \A y : <<"get_or_build", y>> \in Follow => y = "view"
    BY DEF Follow
  <2>3. /\ x \in Seq(Names) /\ Len(t) \in Nat \ {0} /\ Len(x) = Len(t) - 1
        /\ \A i \in 1..Len(t) - 1 : x[i] = t[i + 1]
    BY TailFacts
  <2>4. /\ WellFormed(x)
        /\ x # <<>> => <<"get_or_build", Head(x)>> \in Follow
        /\ x = <<>> => "get_or_build" \in Last
    BY WellFormedTail
  <2>5. x # <<>> /\ Head(x) = "view"
    BY <2>1, <2>2, <2>4
  <2>6. Len(x) \in Nat \ {0} /\ Head(x) = x[1]
    BY <2>3, <2>5, TailFacts
  <2>. HIDE DEF x
  <2>. QED
    BY <2>3, <2>4, <2>5, <2>6 DEF n, x
<1>. HIDE DEF x, n
<1>2. /\ u \in Seq(Names) /\ Len(u) = n + 3
      /\ \A i \in 1..n + 3 : u[i] = IF i <= 3 THEN BuildResume[i] ELSE x[i - 3]
  <2>1. u = BuildResume \o x
    BY DEF x
  <2>2. /\ BuildResume \o x \in Seq(Names)
        /\ Len(BuildResume \o x) = 3 + n
        /\ \A i \in 1..3 + n : (BuildResume \o x)[i] = IF i <= 3 THEN BuildResume[i] ELSE x[i - 3]
    <3>1. /\ BuildResume \o x \in Seq(Names)
          /\ Len(BuildResume \o x) = Len(BuildResume) + Len(x)
          /\ \A i \in 1..Len(BuildResume) + Len(x) :
                (BuildResume \o x)[i] = IF i <= Len(BuildResume) THEN BuildResume[i]
                                        ELSE x[i - Len(BuildResume)]
      BY <1>1, BuildResumeFacts, ConcatProperties, Zenon
    <3>2. Len(BuildResume) = 3 /\ Len(x) = n
      BY <1>1, BuildResumeFacts
    <3>. QED
      BY <3>1, <3>2
  <2>. QED
    BY <1>1, <2>1, <2>2
<1>. HIDE DEF u
<1>3. /\ u[1] = "curate" /\ u[2] = "apply" /\ u[3] = "snapshot"
      /\ \A i \in 4..n + 3 : u[i] = x[i - 3]
  BY <1>1, <1>2, BuildResumeFacts
<1>4. ASSUME NEW i \in 1..n + 2 PROVE <<u[i], u[i + 1]>> \in Follow
  <2>1. CASE i = 1 \/ i = 2
    BY <1>3, <2>1 DEF Follow
  <2>2. CASE i = 3
    <3>1. 4 \in 4..n + 3 /\ u[4] = x[4 - 3]
      BY <1>1, <1>3
    <3>2. u[4] = "view"
      BY <1>1, <3>1
    <3>. QED
      BY <1>3, <2>2, <3>2 DEF Follow
  <2>3. CASE i > 3
    <3>1. i - 3 \in 1..Len(x) - 1 /\ (i - 3) + 1 = (i + 1) - 3
      BY <1>1, <2>3
    <3>2. u[i] = x[i - 3] /\ u[i + 1] = x[(i + 1) - 3]
      <4>1. i \in 4..n + 3 /\ i + 1 \in 4..n + 3
        BY <1>1, <2>3
      <4>. QED
        BY <1>3, <4>1, Zenon
    <3>3. <<x[i - 3], x[(i - 3) + 1]>> \in Follow
      BY <1>1, <3>1 DEF WellFormed
    <3>. QED
      BY <3>1, <3>2, <3>3
  <2>. QED
    BY <1>1, <2>1, <2>2, <2>3
<1>5. u[Len(u)] \in Last
  <2>1. u[n + 3] = x[n]
    <3>1. n + 3 \in 4..n + 3 /\ (n + 3) - 3 = n
      BY <1>1
    <3>. QED
      BY <1>3, <3>1
  <2>2. x # <<>>
    BY <1>1
  <2>. QED
    BY <1>1, <1>2, <2>1, <2>2 DEF WellFormed
<1>6. u # <<>> /\ Head(u) = u[1] /\ Len(u) - 1 = n + 2
  BY <1>1, <1>2
<1>7. 2 \in 1..Len(t) /\ t[2] = "view"
  BY <1>1
<1>. QED
  BY <1>2, <1>3, <1>4, <1>5, <1>6, <1>7 DEF Plain, WellFormed, u

\* What is left of an ingestion.
LEMMA DeliverProgram ==
  ASSUME NEW n \in Nat
  PROVE  LET u == [i \in 1..n |-> "deliver"] \o <<"remove">>
         IN  /\ Plain(u) /\ Len(u) = n + 1
             /\ Head(u) \in {"deliver", "remove"} /\ \A i \in 1..Len(u) : u[i] # "view"
<1>. DEFINE u == [i \in 1..n |-> "deliver"] \o <<"remove">>
<1>1. /\ u \in Seq(Names) /\ Len(u) = n + 1 /\ (\A i \in 1..n : u[i] = "deliver")
      /\ u[n + 1] = "remove"
  <2>1. [i \in 1..n |-> "deliver"] \in Seq(Names) /\ Len([i \in 1..n |-> "deliver"]) = n
    BY DEF Names
  <2>2. <<"remove">> \in Seq(Names) /\ Len(<<"remove">>) = 1
    BY DEF Names
  <2>. QED
    BY <2>1, <2>2
<1>. HIDE DEF u
<1>2. WellFormed(u)
  <2>1. ASSUME NEW i \in 1..n PROVE <<u[i], u[i + 1]>> \in Follow
    <3>1. u[i] = "deliver"
      BY <1>1
    <3>2. i + 1 \in 1..n \/ i + 1 = n + 1
      OBVIOUS
    <3>3. u[i + 1] = "deliver" \/ u[i + 1] = "remove"
      BY <1>1, <3>2
    <3>. QED
      BY <3>1, <3>3 DEF Follow
  <2>2. Len(u) - 1 = n
    BY <1>1
  <2>. QED
    BY <1>1, <2>1, <2>2 DEF WellFormed, Last
<1>3. u # <<>> /\ Head(u) = u[1]
  BY <1>1
<1>4. \A i \in 1..Len(u) : u[i] \in {"deliver", "remove"}
  BY <1>1
<1>. QED
  BY <1>1, <1>2, <1>3, <1>4 DEF u, Plain

-----------------------------------------------------------------------------
(* Types of the handlers.                                                  *)

\* A handler that goes on, with what it has in hand; or ends.
Goes(p) ==
  /\ proc' = [proc EXCEPT ![p] = proc'[p]] /\ proc'[p] \in Handlers
  /\ \/ proc'[p] = Idle
     \/ /\ proc'[p].todo = Tail(proc[p].todo) /\ proc'[p].todo # <<>>
        /\ proc'[p].ev = proc[p].ev /\ proc'[p].file = proc[p].file

\* A process without a handler.
LEMMA IdleFacts ==
  /\ Idle \in Handlers /\ Idle.todo = <<>> /\ Idle.ver = 0 /\ Idle.ev = None
  /\ Idle.plan = None /\ Idle.file = None
<1>1. <<>> \in Seq(Names)
  OBVIOUS
<1>. QED
  BY <1>1 DEF Idle, Handlers

\* Where the handler is: its program has a first step.
LEMMA AtFacts ==
  ASSUME StateOK, NEW p \in Procs, NEW step, At(p, step)
  PROVE  /\ proc[p].todo \in Seq(Names) /\ proc[p].todo # <<>> /\ Head(proc[p].todo) = step
         /\ Len(proc[p].todo) \in Nat \ {0} /\ proc[p] \in Handlers
         /\ Tail(proc[p].todo) \in Seq(Names)
         /\ Len(proc[p].todo) = 1 => Tail(proc[p].todo) = <<>>
         /\ Tail(proc[p].todo) = <<>> => Len(proc[p].todo) = 1
<1>1. /\ proc[p].todo \in Seq(Names) /\ proc[p].todo # <<>> /\ Head(proc[p].todo) = step
      /\ proc[p] \in Handlers
  BY DEF StateOK, At, Handlers
<1>. DEFINE t == proc[p].todo
<1>. HIDE DEF t
<1>2. t \in Seq(Names) /\ t # <<>>
  BY <1>1 DEF t
<1>3. /\ Len(t) \in Nat \ {0} /\ Tail(t) \in Seq(Names) /\ (Len(t) = 1 => Tail(t) = <<>>)
      /\ (Tail(t) = <<>> => Len(t) = 1)
  BY <1>2, TailFacts
<1>. QED
  BY <1>1, <1>3 DEF t

\* The two ways to go on.
LEMMA AfterGoes ==
  ASSUME StateOK, NEW p \in Procs, NEW step, At(p, step),
         NEW h \in Handlers, h.todo = proc[p].todo, h.ev = proc[p].ev, h.file = proc[p].file,
         proc' = [proc EXCEPT ![p] = After(h)]
  PROVE  /\ Goes(p)
         /\ \/ proc'[p] = Idle /\ Tail(proc[p].todo) = <<>>
            \/ /\ proc'[p].todo = Tail(proc[p].todo) /\ proc'[p].ver = h.ver
               /\ proc'[p].plan = h.plan
<1>1. /\ Len(h.todo) \in Nat \ {0} /\ Tail(h.todo) \in Seq(Names)
      /\ Tail(h.todo) = <<>> => Len(h.todo) = 1
      /\ Len(h.todo) = 1 => Tail(h.todo) = <<>>
  BY AtFacts
<1>2. proc'[p] = After(h) /\ proc' = [proc EXCEPT ![p] = proc'[p]]
  <2>. DEFINE x == After(h)
  <2>. HIDE DEF x
  <2>1. proc' = [proc EXCEPT ![p] = x]
    BY DEF x
  <2>. QED
    BY <2>1 DEF StateOK, x
<1>3. CASE Len(h.todo) = 1
  BY <1>1, <1>2, <1>3, IdleFacts DEF Goes, After
<1>4. CASE Len(h.todo) # 1
  <2>1. proc'[p] = [h EXCEPT !.todo = Tail(h.todo)]
    BY <1>2, <1>4 DEF After
  <2>2. /\ proc'[p] \in Handlers /\ proc'[p].todo = Tail(h.todo)
        /\ proc'[p].ev = h.ev /\ proc'[p].file = h.file
        /\ proc'[p].ver = h.ver /\ proc'[p].plan = h.plan
    <3>1. PICK u \in Seq(Names) : u = Tail(h.todo)
      BY <1>1
    <3>2. proc'[p] = [h EXCEPT !.todo = u]
      BY <2>1, <3>1
    <3>3. /\ proc'[p] \in Handlers /\ proc'[p].todo = u
          /\ proc'[p].ev = h.ev /\ proc'[p].file = h.file
          /\ proc'[p].ver = h.ver /\ proc'[p].plan = h.plan
      BY <3>2 DEF Handlers
    <3>. QED
      BY <3>1, <3>3
  <2>3. proc'[p].todo # <<>>
    BY <1>1, <1>4, <2>2
  <2>. QED
    BY <1>2, <2>2, <2>3 DEF Goes
<1>. QED
  BY <1>3, <1>4

\* An ordinary step.
LEMMA StepGoes ==
  ASSUME StateOK, NEW p \in Procs, NEW step, At(p, step), Step(p)
  PROVE  /\ Goes(p)
         /\ \/ proc'[p] = Idle /\ Tail(proc[p].todo) = <<>>
            \/ /\ proc'[p].todo = Tail(proc[p].todo) /\ proc'[p].ver = proc[p].ver
               /\ proc'[p].plan = proc[p].plan
<1>1. PICK h : h = proc[p]
  OBVIOUS
<1>2. h \in Handlers /\ proc' = [proc EXCEPT ![p] = After(h)]
  BY <1>1 DEF StateOK, Step
<1>. QED
  BY <1>1, <1>2, AfterGoes

\* An error ends the handler.
LEMMA FailGoes ==
  ASSUME StateOK, NEW p \in Procs, Fail(p)
  PROVE  Goes(p) /\ proc'[p] = Idle
<1>1. proc' = [proc EXCEPT ![p] = proc'[p]] /\ proc'[p] = Idle
  BY DEF Fail, StateOK
<1>. QED
  BY <1>1, IdleFacts DEF Goes

\* A handler that has seen a version goes on to mark or to show it.
LEMMA ShowGoes ==
  ASSUME StateOK, NEW p \in Procs, HandlerOK(p), At(p, "load") \/ At(p, "get_or_build"),
         NEW v \in Nat, Show(p, v)
  PROVE  Goes(p) /\ proc'[p].ver = v /\ proc'[p].todo = Tail(proc[p].todo)
         /\ proc'[p].plan = proc[p].plan /\ history' = [history EXCEPT !.shown = @ \cup {v}]
<1>1. /\ proc[p] \in Handlers /\ Tail(proc[p].todo) \in Seq(Names)
      /\ proc[p].todo \in Seq(Names) /\ proc[p].todo # <<>>
  BY AtFacts
<1>2. Tail(proc[p].todo) # <<>>
  <2>1. WellFormed(proc[p].todo) /\ Head(proc[p].todo) \notin Last
    BY DEF HandlerOK, At, Last
  <2>. DEFINE t == proc[p].todo
  <2>. HIDE DEF t
  <2>2. Tail(t) = <<>> => Head(t) \in Last
    BY <1>1, <2>1, WellFormedTail DEF t
  <2>. QED
    BY <2>1, <2>2 DEF t
<1>3. /\ proc' = [proc EXCEPT ![p] = proc'[p]]
      /\ proc'[p] = [proc[p] EXCEPT !.ver = v, !.todo = Tail(proc[p].todo)]
  BY DEF Show, StateOK
<1>4. /\ proc'[p] \in Handlers /\ proc'[p].todo = Tail(proc[p].todo)
      /\ proc'[p].ev = proc[p].ev /\ proc'[p].file = proc[p].file /\ proc'[p].ver = v
      /\ proc'[p].plan = proc[p].plan
  BY <1>1, <1>3 DEF Handlers
<1>. QED
  BY <1>2, <1>3, <1>4 DEF Goes, Show

\* No file loses the time it was created at.
Dated == \A f \in Files : bridge[f].at \in 1..clock => bridge'[f].at \in 1..clock'

\* What follows a step, and what the handler has for it.
LEMMA GoesOK ==
  ASSUME StateOK, NEW p \in Procs, NEW step, HandlerOK(p), At(p, step), Goes(p), Dated,
         step = "curate" => proc'[p].plan \in Plans
  PROVE  /\ HandlerOK(p)'
         /\ proc'[p] = Idle \/ <<step, Head(proc'[p].todo)>> \in Follow
<1>1. CASE proc'[p] = Idle
  <2>1. proc'[p].todo = <<>> /\ Len(<<>>) = 0
    BY <1>1, IdleFacts, EmptySeq
  <2>. QED
    BY <1>1, <2>1 DEF HandlerOK, At, WellFormed
<1>2. CASE proc'[p] # Idle
  <2>1. PICK t \in Seq(Names) : t = proc[p].todo
    BY AtFacts
  <2>2. t # <<>> /\ Head(t) = step /\ WellFormed(t)
    BY <2>1 DEF At, HandlerOK
  <2>3. PICK u \in Seq(Names) : u = Tail(t)
    BY <2>2, TailFacts
  <2>4. /\ proc'[p].todo = u /\ u # <<>>
        /\ proc'[p].ev = proc[p].ev /\ proc'[p].file = proc[p].file
    BY <1>2, <2>1, <2>3 DEF Goes
  <2>5. WellFormed(u) /\ <<step, Head(u)>> \in Follow
    BY <2>2, <2>3, <2>4, WellFormedTail
  <2>6. /\ Head(u) = "apply" => step = "curate"
        /\ Head(u) \notin {"append", "write", "read"}
        /\ Head(u) \in {"deliver", "remove"} => step = "deliver"
    BY <2>5 DEF Follow
  <2>7. ASSUME NEW i \in 1..Len(u), u[i] = "view" PROVE proc'[p].ev = None
    <3>1. /\ Len(t) \in Nat \ {0} /\ Len(u) = Len(t) - 1
          /\ \A k \in 1..Len(t) - 1 : u[k] = t[k + 1]
      BY <2>2, <2>3, TailFacts
    <3>2. i + 1 \in 1..Len(t) /\ t[i + 1] = "view"
      BY <2>7, <3>1
    <3>. QED
      BY <2>1, <2>4, <3>2 DEF HandlerOK
  <2>8. step = "deliver" => proc'[p].file \in Files /\ bridge'[proc'[p].file].at \in 1..clock'
    BY <2>4 DEF HandlerOK, Dated
  <2>9. step = "deliver" => Len(u) <= Len(FileEvents[proc'[p].file]) + 1
    <3>1. Len(t) \in Nat \ {0} /\ Len(u) = Len(t) - 1
      BY <2>2, <2>3, TailFacts
    <3>2. ASSUME step = "deliver"
          PROVE  Len(t) <= Len(FileEvents[proc[p].file]) + 1 /\ proc[p].file \in Files
      BY <2>1, <3>2 DEF HandlerOK
    <3>3. step = "deliver" => Len(FileEvents[proc[p].file]) \in Nat
      BY <3>2, LedgerAssumption
    <3>. QED
      BY <2>4, <3>1, <3>2, <3>3
  <2>. QED
    BY <2>4, <2>5, <2>6, <2>7, <2>8, <2>9 DEF HandlerOK, At
<1>. QED
  BY <1>1, <1>2

\* A handler that does not move keeps what it has.
LEMMA OthersOK ==
  ASSUME StateOK, NEW q \in Procs, HandlerOK(q), proc'[q] = proc[q], Dated
  PROVE  HandlerOK(q)'
BY DEF HandlerOK, At, Dated

\* A handler begins, or changes its program.
LEMMA BeginOK ==
  ASSUME StateOK, NEW p \in Procs, NEW t, Plain(t), NEW h \in Handlers, h.todo = t,
         proc' = [proc EXCEPT ![p] = h],
         Head(t) # "apply", Head(t) = "append" => h.ev \in Events,
         \A i \in 1..Len(t) : t[i] = "view" => h.ev = None,
         Head(t) \in {"write", "read", "deliver", "remove"} =>
           h.file \in Files /\ bridge'[h.file].at \in 1..clock',
         Head(t) \in {"deliver", "remove"} => Len(t) <= Len(FileEvents[h.file]) + 1
  PROVE  /\ HandlerOK(p)' /\ proc' \in [Procs -> Handlers] /\ proc'[p] = h
         /\ \A q \in Procs : q # p => proc'[q] = proc[q]
<1>1. /\ proc' \in [Procs -> Handlers] /\ proc'[p] = h
      /\ \A q \in Procs : q # p => proc'[q] = proc[q]
  BY DEF StateOK
<1>. QED
  BY <1>1 DEF HandlerOK, At, Plain

\* One handler moves: the others keep theirs.
LEMMA GoesTypes ==
  ASSUME StateOK, NEW p \in Procs, Goes(p)
  PROVE  /\ proc' \in [Procs -> Handlers] /\ \A q \in Procs : q # p => proc'[q] = proc[q]
BY DEF Goes, StateOK

-----------------------------------------------------------------------------
(* The retention limit.                                                    *)

\* A set of numbers has a least one.
LEMMA LeastNumber ==
  ASSUME NEW S \in SUBSET Nat, S # {}
  PROVE  \E x \in S : \A y \in S : x <= y
<1>1. PICK x \in S : \A y \in S : ~(<<y, x>> \in OpToRel(<, Nat))
  BY WFMin, NatLessThanWellFounded
<1>2. ASSUME NEW y \in S PROVE x <= y
  <2>1. y < x => <<y, x>> \in OpToRel(<, Nat)
    BY DEF OpToRel
  <2>2. ~(y < x)
    BY <1>1, <2>1, Zenon
  <2>. QED
    BY <2>2
<1>. QED
  BY <1>2

\* There is a row that is evicted before all others.
LEMMA FirstEvicted ==
  ASSUME NEW R \in SUBSET Rows, R # {}
  PROVE  \E r \in R : \A s \in R : ~EvictedBefore(s, r)
<1>. DEFINE P == {r.pri : r \in R}
<1>1. P \in SUBSET Nat /\ P # {}
  BY DEF Rows
<1>2. PICK x \in P : \A y \in P : x <= y
  BY <1>1, LeastNumber
<1>. DEFINE A == {r \in R : r.pri = x}
            T == {r.at : r \in A}
<1>3. T \in SUBSET Nat /\ T # {}
  BY <1>2 DEF Rows
<1>4. PICK y \in T : \A z \in T : y <= z
  BY <1>3, LeastNumber
<1>. DEFINE B == {r \in A : r.at = y}
            I == {r.id : r \in B}
<1>5. I \in SUBSET Nat /\ I # {}
  BY <1>4 DEF Rows
<1>6. PICK z \in I : \A w \in I : z <= w
  BY <1>5, LeastNumber
<1>7. PICK r \in B : r.id = z
  BY <1>6
<1>8. ASSUME NEW s \in R PROVE ~EvictedBefore(s, r)
  <2>1. /\ s.pri \in Nat /\ s.at \in Nat /\ s.id \in Nat /\ x \in Nat /\ y \in Nat /\ z \in Nat
        /\ r.pri = x /\ r.at = y /\ r.id = z
    BY <1>1, <1>3, <1>5, <1>7 DEF Rows
  <2>2. x <= s.pri
    BY <1>2
  <2>3. s.pri = x => y <= s.at
    BY <1>4
  <2>4. s.pri = x /\ s.at = y => z <= s.id
    BY <1>6
  <2>. HIDE DEF P, A, T, B, I
  <2>. QED
    BY <2>1, <2>2, <2>3, <2>4 DEF EvictedBefore
<1>. QED
  BY <1>7, <1>8

\* enforce_event_limit leaves no more rows than the limit, when one was added.
LEMMA EvictionLimits ==
  ASSUME NEW R \in SUBSET Rows, IsFiniteSet(R), Cardinality(R) <= MaxEvents + 1
  PROVE  IsFiniteSet(R \ Evicted(R)) /\ Cardinality(R \ Evicted(R)) <= MaxEvents
<1>0. MaxEvents \in Nat \ {0} /\ Cardinality(R) \in Nat
  BY LedgerAssumption, FS_CardinalityType
<1>1. IsFiniteSet(R \ Evicted(R)) /\ Cardinality(R \ Evicted(R)) <= Cardinality(R)
  BY FS_Subset
<1>2. Cardinality(R \ Evicted(R)) \in Nat
  BY <1>1, FS_CardinalityType
<1>3. CASE Cardinality(R) <= MaxEvents
  BY <1>0, <1>1, <1>2, <1>3
<1>4. CASE Cardinality(R) = MaxEvents + 1
  <2>1. R # {}
    BY <1>0, <1>4, FS_EmptySet
  <2>2. PICK r \in R : \A s \in R : ~EvictedBefore(s, r)
    BY <2>1, FirstEvicted
  <2>3. {s \in R : EvictedBefore(s, r)} = {}
    BY <2>2
  <2>4. Cardinality({s \in R : EvictedBefore(s, r)}) = 0
    BY <2>3, FS_EmptySet
  <2>5. r \in Evicted(R)
    BY <1>0, <1>4, <2>4 DEF Evicted
  <2>6. IsFiniteSet(R \ {r}) /\ Cardinality(R \ {r}) = Cardinality(R) - 1
    BY FS_RemoveElement
  <2>7. Cardinality(R \ Evicted(R)) <= Cardinality(R \ {r})
    <3>1. R \ Evicted(R) \subseteq R \ {r}
      BY <2>5
    <3>. QED
      BY <2>6, <3>1, FS_Subset
  <2>8. Cardinality(R \ {r}) = MaxEvents
    BY <1>0, <1>4, <2>6
  <2>. QED
    BY <1>1, <2>7, <2>8
<1>. QED
  BY <1>0, <1>3, <1>4

\* What has a lower priority goes first.
LEMMA EvictionOrder ==
  ASSUME NEW R \in SUBSET Rows, IsFiniteSet(R), NEW r \in Evicted(R), NEW s \in R, s.pri < r.pri
  PROVE  s \in Evicted(R)
<1>. DEFINE Br == {x \in R : EvictedBefore(x, r)}
            Bs == {x \in R : EvictedBefore(x, s)}
<1>1. r \in R /\ Cardinality(Br) + MaxEvents < Cardinality(R)
  BY DEF Evicted
<1>2. Bs \subseteq Br
  <2>. SUFFICES ASSUME NEW x \in R, EvictedBefore(x, s) PROVE EvictedBefore(x, r)
    OBVIOUS
  <2>1. x.pri \in Nat /\ s.pri \in Nat /\ r.pri \in Nat
    BY <1>1 DEF Rows
  <2>2. x.pri <= s.pri
    BY <2>1 DEF EvictedBefore
  <2>. QED
    BY <2>1, <2>2 DEF EvictedBefore
<1>3. IsFiniteSet(Br) /\ IsFiniteSet(Bs)
  BY FS_Subset
<1>4. Cardinality(Bs) <= Cardinality(Br) /\ Cardinality(Bs) \in Nat /\ Cardinality(Br) \in Nat
  BY <1>2, <1>3, FS_Subset, FS_CardinalityType
<1>5. Cardinality(R) \in Nat /\ MaxEvents \in Nat
  BY LedgerAssumption, FS_CardinalityType
<1>6. Cardinality(Bs) + MaxEvents < Cardinality(R)
  <2>. HIDE DEF Br, Bs
  <2>. QED
    BY <1>1, <1>4, <1>5
<1>. QED
  BY <1>6 DEF Evicted

-----------------------------------------------------------------------------
(* append_event.                                                           *)

NewRow(e, at) == [id |-> clock + 1, ev |-> e, pri |-> e.pri, at |-> at]
Dup(e) == \E r \in rows : r.ev = e
EvictedBy(e, at) == IF Dup(e) THEN {} ELSE Evicted(rows \cup {NewRow(e, at)})
IsKept(e, at) == ~Dup(e) /\ NewRow(e, at) \notin EvictedBy(e, at)
IsNewest(e, at) == ~Dup(e) /\ at > history.top[Group(e)]
TopAfter(e, at) ==
  [history.top EXCEPT ![Group(e)] = IF IsNewest(e, at) THEN at ELSE history.top[Group(e)]]
LostAfter(e, at) ==
  (IF IsNewest(e, at) THEN history.lost \ {Group(e)} ELSE history.lost)
    \cup {Group(r.ev) : r \in {d \in EvictedBy(e, at) : d.at = TopAfter(e, at)[Group(d.ev)]}}

DecisionsKept(e, at, ok) ==
  /\ decisions' = IF ok /\ IsKept(e, at) /\ IsDecision(e) THEN Upsert(decisions, e) ELSE decisions
  /\ history'.kept = IF IsKept(e, at) /\ ok THEN history.kept \cup {e} ELSE history.kept

\* What the transaction of append_event does, one table at a time.
LEMMA StoreEffect ==
  ASSUME StateOK, LedgerOK, NEW e \in Events, NEW at \in Nat, Store(e, at)
  PROVE  /\ rows' = IF Dup(e) THEN rows ELSE (rows \cup {NewRow(e, at)}) \ EvictedBy(e, at)
         /\ \E ok \in BOOLEAN : DecisionsKept(e, at, ok)
         /\ clock' = IF Dup(e) THEN clock ELSE clock + 1
         /\ history' \in Histories
         /\ history'.top = TopAfter(e, at) /\ history'.lost = LostAfter(e, at)
         /\ history'.settled = history.settled \cup {e}
         /\ history'.shown = history.shown /\ history'.overtaken = history.overtaken
         /\ history'.written = history.written
         /\ NewRow(e, at) \in Rows /\ Group(e) \in Groups
<1>0. history \in Histories /\ clock \in Nat /\ Group(e) \in Groups /\ rows \subseteq Rows
  BY DEF StateOK, LedgerOK, Groups
<1>1. NewRow(e, at) \in Rows /\ NewRow(e, at).ev = e /\ NewRow(e, at).at = at
  BY <1>0, LedgerAssumption DEF NewRow, Rows
<1>2. /\ rows' = IF Dup(e) THEN rows ELSE (rows \cup {NewRow(e, at)}) \ EvictedBy(e, at)
      /\ clock' = IF Dup(e) THEN clock ELSE clock + 1
  BY DEF Store, Dup, NewRow, EvictedBy
<1>. DEFINE top == IF IsNewest(e, at) THEN at ELSE history.top[Group(e)]
            Decided(ok) == IF ok /\ IsKept(e, at) /\ IsDecision(e) THEN Upsert(decisions, e) ELSE decisions
            Kept(ok) == IF IsKept(e, at) /\ ok THEN history.kept \cup {e} ELSE history.kept
<1>20. PICK ok \in BOOLEAN :
         /\ decisions' = Decided(ok)
         /\ history' = [history EXCEPT !.top = [history.top EXCEPT ![Group(e)] = top],
                           !.lost = LostAfter(e, at), !.kept = Kept(ok),
                           !.settled = history.settled \cup {e}]
  BY DEF Store, Dup, NewRow, EvictedBy, IsKept, IsNewest, LostAfter, TopAfter, DecisionsAfter
<1>. DEFINE kept == Kept(ok)
<1>3. history' = [history EXCEPT !.top = [history.top EXCEPT ![Group(e)] = top],
                    !.lost = LostAfter(e, at), !.kept = kept,
                    !.settled = history.settled \cup {e}]
  BY <1>20
<1>4. top \in Nat /\ kept \in SUBSET Events /\ history.settled \cup {e} \in SUBSET Events
  BY <1>0 DEF Histories
<1>5. LostAfter(e, at) \in SUBSET Groups
  <2>1. EvictedBy(e, at) \subseteq rows \cup {NewRow(e, at)}
    BY DEF EvictedBy, Evicted
  <2>2. \A r \in EvictedBy(e, at) : Group(r.ev) \in Groups
    BY <1>0, <1>1, <2>1 DEF Rows, Groups
  <2>3. history.lost \subseteq Groups
    BY <1>0 DEF Histories
  <2>. QED
    BY <2>2, <2>3 DEF LostAfter
<1>. HIDE DEF kept, top
<1>6. [history.top EXCEPT ![Group(e)] = top] \in [Groups -> Nat]
  BY <1>0, <1>4 DEF Histories
<1>7. /\ history' \in Histories /\ history'.top = [history.top EXCEPT ![Group(e)] = top]
      /\ history'.lost = LostAfter(e, at)
      /\ history'.kept = kept /\ history'.settled = history.settled \cup {e}
      /\ history'.shown = history.shown /\ history'.overtaken = history.overtaken
      /\ history'.written = history.written
  <2>1. PICK tp \in [Groups -> Nat] : tp = [history.top EXCEPT ![Group(e)] = top]
    BY <1>6
  <2>2. PICK ls \in SUBSET Groups : ls = LostAfter(e, at)
    BY <1>5
  <2>3. PICK st \in SUBSET Events : st = history.settled \cup {e}
    BY <1>4
  <2>4. history' = [history EXCEPT !.top = tp, !.lost = ls, !.kept = kept, !.settled = st]
    BY <1>3, <2>1, <2>2, <2>3
  <2>5. /\ history' \in Histories /\ history'.top = tp /\ history'.lost = ls
        /\ history'.kept = kept /\ history'.settled = st
        /\ history'.shown = history.shown /\ history'.overtaken = history.overtaken
        /\ history'.written = history.written
    BY <1>0, <1>4, <2>4 DEF Histories
  <2>. QED
    BY <2>1, <2>2, <2>3, <2>5
<1>8. history'.top = TopAfter(e, at)
  BY <1>7 DEF TopAfter, top
<1>9. DecisionsKept(e, at, ok)
  BY <1>7, <1>20, Zenon DEF kept, DecisionsKept
<1>. QED
  BY <1>0, <1>1, <1>2, <1>7, <1>8, <1>9

\* The ledger after it.
LEMMA StoreLedger ==
  ASSUME StateOK, LedgerOK, session, session', UNCHANGED snap,
         NEW e \in Events, NEW at \in 1..clock + 1, Store(e, at)
  PROVE  LedgerOK' /\ clock' \in Nat /\ clock <= clock'
<1>0. clock \in Nat /\ at \in Nat /\ rows \subseteq Rows /\ IsFiniteSet(rows)
  BY DEF StateOK, LedgerOK
<1>1. /\ rows' = IF Dup(e) THEN rows ELSE (rows \cup {NewRow(e, at)}) \ EvictedBy(e, at)
      /\ clock' = IF Dup(e) THEN clock ELSE clock + 1
      /\ NewRow(e, at) \in Rows
  BY <1>0, StoreEffect
<1>2. clock' \in Nat /\ clock <= clock'
  BY <1>0, <1>1
<1>3. CASE Dup(e)
  <2>1. rows' = rows /\ clock' = clock
    BY <1>1, <1>3
  <2>. QED
    BY <1>2, <2>1 DEF LedgerOK
<1>4. CASE ~Dup(e)
  <2>. DEFINE R == rows \cup {NewRow(e, at)}
  <2>1. rows' = R \ Evicted(R) /\ clock' = clock + 1
    BY <1>1, <1>4 DEF EvictedBy
  <2>2. R \in SUBSET Rows
    BY <1>0, <1>1
  <2>3. IsFiniteSet(R) /\ Cardinality(R) <= MaxEvents + 1
    <3>1. Cardinality(rows) \in Nat /\ MaxEvents \in Nat /\ Cardinality(rows) <= MaxEvents
      BY <1>0, LedgerAssumption, FS_CardinalityType DEF LedgerOK
    <3>2. /\ IsFiniteSet(R)
          /\ Cardinality(R) = IF NewRow(e, at) \in rows THEN Cardinality(rows)
                              ELSE Cardinality(rows) + 1
      BY <1>0, FS_AddElement
    <3>. QED
      BY <3>1, <3>2
  <2>4. IsFiniteSet(rows') /\ Cardinality(rows') <= MaxEvents
    BY <2>1, <2>2, <2>3, EvictionLimits
  <2>5. rows' \subseteq R
    BY <2>1
  <2>6. /\ NewRow(e, at).id = clock + 1 /\ NewRow(e, at).ev = e /\ NewRow(e, at).at = at
        /\ NewRow(e, at).pri = e.pri
    BY DEF NewRow
  <2>. HIDE DEF R
  <2>7. ASSUME NEW r \in R
        PROVE  /\ r.id \in 1..clock' /\ r.at \in 1..clock'
               /\ r.pri \in {r.ev.pri, PromotionPriority}
    <3>1. CASE r \in rows
      BY <1>0, <2>1, <3>1 DEF LedgerOK
    <3>2. CASE r = NewRow(e, at)
      BY <1>0, <2>1, <2>6, <3>2
    <3>. QED
      BY <3>1, <3>2 DEF R
  <2>8. ASSUME NEW r \in R, NEW s \in R, r.id = s.id \/ r.ev = s.ev PROVE r = s
    <3>1. CASE r \in rows /\ s \in rows
      BY <2>8, <3>1 DEF LedgerOK
    <3>2. ASSUME NEW x \in rows PROVE x.id # clock + 1 /\ x.ev # e
      BY <1>0, <1>4 DEF LedgerOK, Dup
    <3>. QED
      BY <2>6, <2>8, <3>1, <3>2 DEF R
  <2>. QED
    BY <1>2, <2>2, <2>4, <2>5, <2>7, <2>8 DEF LedgerOK
<1>. QED
  BY <1>3, <1>4

\* Apply deletes rows and raises priorities.
LEMMA ApplyLedger ==
  ASSUME StateOK, LedgerOK, UNCHANGED <<session, snap, clock>>, NEW plan \in Plans,
         rows' = ApplyPlan(rows, plan), decisions' = decisions
  PROVE  /\ LedgerOK'
         /\ \A s \in rows' : \E r \in rows :
              /\ s.id = r.id /\ s.ev = r.ev /\ s.at = r.at
              /\ \A d \in plan.del : d.id # r.id
              /\ s.pri = IF r.id \in plan.promote THEN PromotionPriority ELSE r.pri
         /\ \A r \in rows : (\A d \in plan.del : d.id # r.id) =>
              \E s \in rows' : s.id = r.id /\ s.ev = r.ev /\ s.at = r.at
<1>. DEFINE W == Without(rows, plan.del)
            f == [r \in W |-> [r EXCEPT !.pri =
                    IF r.id \in plan.promote THEN PromotionPriority ELSE r.pri]]
<1>0. rows \subseteq Rows /\ IsFiniteSet(rows) /\ W \subseteq rows /\ PromotionPriority \in Nat
  BY DEF LedgerOK, Without, PromotionPriority
<1>1. rows' = {f[r] : r \in W}
  BY DEF ApplyPlan
<1>2. ASSUME NEW r \in W
      PROVE  /\ f[r] \in Rows /\ f[r].id = r.id /\ f[r].ev = r.ev /\ f[r].at = r.at
             /\ f[r].pri = IF r.id \in plan.promote THEN PromotionPriority ELSE r.pri
  <2>1. r \in Rows
    BY <1>0
  <2>2. f[r] = [r EXCEPT !.pri = IF r.id \in plan.promote THEN PromotionPriority ELSE r.pri]
    OBVIOUS
  <2>. QED
    BY <1>0, <2>1, <2>2 DEF Rows
<1>3. IsFiniteSet(W) /\ Cardinality(W) <= Cardinality(rows)
  BY <1>0, FS_Subset
<1>4. f \in Surjection(W, rows')
  <2>. HIDE DEF W
  <2>. QED
    BY <1>1 DEF Surjection
<1>. HIDE DEF f
<1>5. IsFiniteSet(rows') /\ Cardinality(rows') <= Cardinality(W)
  BY <1>3, <1>4, FS_Surjection
<1>6. Cardinality(rows') <= MaxEvents
  <2>1. /\ Cardinality(rows) \in Nat /\ Cardinality(W) \in Nat /\ Cardinality(rows') \in Nat
        /\ MaxEvents \in Nat
    BY <1>0, <1>3, <1>5, LedgerAssumption, FS_CardinalityType
  <2>2. Cardinality(rows) <= MaxEvents
    BY DEF LedgerOK
  <2>. HIDE DEF W
  <2>. QED
    BY <1>3, <1>5, <2>1, <2>2
<1>7. ASSUME NEW s \in rows'
      PROVE  \E r \in rows :
              /\ s.id = r.id /\ s.ev = r.ev /\ s.at = r.at
              /\ \A d \in plan.del : d.id # r.id
              /\ s.pri = IF r.id \in plan.promote THEN PromotionPriority ELSE r.pri
  <2>1. PICK r \in W : s = f[r]
    BY <1>1
  <2>. QED
    BY <1>0, <1>2, <2>1 DEF Without
<1>8. ASSUME NEW r \in rows, \A d \in plan.del : d.id # r.id
      PROVE  \E s \in rows' : s.id = r.id /\ s.ev = r.ev /\ s.at = r.at
  <2>1. r \in W
    BY <1>8 DEF Without
  <2>. QED
    BY <1>1, <1>2, <2>1
<1>9. rows' \subseteq Rows
  BY <1>1, <1>2
<1>10. ASSUME NEW s \in rows', NEW x \in rows', s.id = x.id \/ s.ev = x.ev PROVE s = x
  <2>1. PICK r \in W : s = f[r]
    BY <1>1
  <2>2. PICK y \in W : x = f[y]
    BY <1>1
  <2>3. r.id = y.id \/ r.ev = y.ev
    BY <1>2, <1>10, <2>1, <2>2
  <2>4. r = y
    BY <1>0, <2>3 DEF LedgerOK
  <2>. QED
    BY <2>1, <2>2, <2>4
<1>11. ASSUME NEW s \in rows'
       PROVE  s.id \in 1..clock' /\ s.at \in 1..clock' /\ s.pri \in {s.ev.pri, PromotionPriority}
  <2>1. PICK r \in rows : /\ s.id = r.id /\ s.ev = r.ev /\ s.at = r.at
                          /\ s.pri = IF r.id \in plan.promote THEN PromotionPriority ELSE r.pri
    BY <1>7
  <2>. QED
    BY <2>1 DEF LedgerOK
<1>12. ~session' => rows' = {} /\ decisions' = {} /\ snap' = None
  BY <1>0, <1>1 DEF LedgerOK
<1>. QED
  BY <1>5, <1>6, <1>7, <1>8, <1>9, <1>10, <1>11, <1>12 DEF LedgerOK

-----------------------------------------------------------------------------
(* Types.                                                                  *)

\* A handler takes a step: the programs of all are in order.
LEMMA MoveOK ==
  ASSUME StateOK, \A q \in Procs : HandlerOK(q), NEW p \in Procs, NEW step, At(p, step),
         Goes(p), Dated, step = "curate" => proc'[p].plan \in Plans
  PROVE  proc' \in [Procs -> Handlers] /\ \A q \in Procs : HandlerOK(q)'
<1>1. proc' \in [Procs -> Handlers] /\ \A q \in Procs : q # p => proc'[q] = proc[q]
  BY GoesTypes
<1>2. HandlerOK(p)'
  BY GoesOK
<1>3. ASSUME NEW q \in Procs, q # p PROVE HandlerOK(q)'
  BY <1>1, <1>3, OthersOK
<1>. QED
  BY <1>1, <1>2, <1>3

\* A handler ends early.
LEMMA EndOK ==
  ASSUME StateOK, \A q \in Procs : HandlerOK(q), NEW p \in Procs, Fail(p), Dated
  PROVE  proc' \in [Procs -> Handlers] /\ \A q \in Procs : HandlerOK(q)'
<1>1. Goes(p) /\ proc'[p] = Idle
  BY FailGoes
<1>2. proc' \in [Procs -> Handlers] /\ \A q \in Procs : q # p => proc'[q] = proc[q]
  BY <1>1, GoesTypes
<1>3. HandlerOK(p)'
  <2>1. proc'[p].todo = <<>> /\ Len(<<>>) = 0
    BY <1>1, IdleFacts, EmptySeq
  <2>. QED
    BY <2>1 DEF HandlerOK, At, WellFormed
<1>4. ASSUME NEW q \in Procs, q # p PROVE HandlerOK(q)'
  BY <1>2, <1>4, OthersOK
<1>. QED
  BY <1>2, <1>3, <1>4

\* A handler begins, or changes its program: the programs of all are in order.
LEMMA BeganOK ==
  ASSUME StateOK, \A q \in Procs : HandlerOK(q), NEW p \in Procs, Dated,
         NEW t, Plain(t), NEW h \in Handlers, h.todo = t,
         proc' = [proc EXCEPT ![p] = h],
         Head(t) # "apply", Head(t) = "append" => h.ev \in Events,
         \A i \in 1..Len(t) : t[i] = "view" => h.ev = None,
         Head(t) \in {"write", "read", "deliver", "remove"} =>
           h.file \in Files /\ bridge'[h.file].at \in 1..clock',
         Head(t) \in {"deliver", "remove"} => Len(t) <= Len(FileEvents[h.file]) + 1
  PROVE  proc' \in [Procs -> Handlers] /\ \A q \in Procs : HandlerOK(q)'
<1>1. /\ HandlerOK(p)' /\ proc' \in [Procs -> Handlers]
      /\ \A q \in Procs : q # p => proc'[q] = proc[q]
  BY BeginOK
<1>2. ASSUME NEW q \in Procs, q # p PROVE HandlerOK(q)'
  BY <1>1, <1>2, OthersOK
<1>. QED
  BY <1>1, <1>2

\* Clock and files unchanged, or the clock went on.
LEMMA DatedOK ==
  ASSUME StateOK, FilesDated, clock' \in Nat, clock <= clock', bridge' = bridge
  PROVE  Dated /\ FilesDated'
BY DEF StateOK, Dated, FilesDated, Bridges

\* Initially.
LEMMA TypeInit == Init => TypeInv
<1>. SUFFICES ASSUME Init PROVE TypeInv
  OBVIOUS
<1>1. bridge \in [Files -> Bridges] /\ FilesDated
  <2>1. bridge = [f \in Files |-> [state |-> "none", at |-> 0]] /\ clock = 0
    BY DEF Init
  <2>. QED
    BY <2>1 DEF Bridges, FilesDated
<1>2. history \in Histories
  BY DEF Init, Histories
<1>3. proc \in [Procs -> Handlers] /\ \A p \in Procs : proc[p] = Idle
  BY IdleFacts DEF Init
<1>4. StateOK
  BY <1>1, <1>2, <1>3 DEF Init, StateOK
<1>5. LedgerOK
  BY LedgerAssumption, FS_EmptySet DEF Init, LedgerOK
<1>6. ASSUME NEW p \in Procs PROVE HandlerOK(p)
  <2>1. proc[p].todo = <<>> /\ Len(<<>>) = 0
    BY <1>3, IdleFacts, EmptySeq
  <2>. QED
    BY <2>1 DEF HandlerOK, At, WellFormed
<1>. QED
  BY <1>1, <1>4, <1>5, <1>6 DEF TypeInv

\* A hook begins.
LEMMA TypeStartHook ==
  ASSUME TypeInv, NEW p \in Procs, StartHook(p)
  PROVE  TypeInv'
<1>1. PICK t \in HookPrograms, e \in HookEvents : Begin(p, [Idle EXCEPT !.todo = t, !.ev = e])
  BY DEF StartHook
<1>2. /\ UNCHANGED <<rows, decisions, snap, bridge, clock, history>> /\ session' = TRUE
  BY DEF StartHook
<1>3. StateOK /\ LedgerOK /\ FilesDated /\ (\A q \in Procs : HandlerOK(q)) /\ e \in Events
  BY DEF TypeInv, Events
<1>4. Dated /\ FilesDated'
  BY <1>2, <1>3, DatedOK DEF StateOK
<1>5. Plain(t) /\ Head(t) = "append" /\ \A i \in 1..Len(t) : t[i] # "view"
  BY HookProgramFacts
<1>6. PICK h : h = [Idle EXCEPT !.todo = t, !.ev = e]
  OBVIOUS
<1>7. h \in Handlers /\ h.todo = t /\ h.ev = e
  BY <1>3, <1>5, <1>6, IdleFacts DEF Handlers, Plain
<1>8. proc' = [proc EXCEPT ![p] = h]
  BY <1>1, <1>6 DEF Begin
<1>9. proc' \in [Procs -> Handlers] /\ \A q \in Procs : HandlerOK(q)'
  BY <1>3, <1>4, <1>5, <1>7, <1>8, BeganOK
<1>10. StateOK'
  BY <1>2, <1>3, <1>9 DEF StateOK
<1>11. LedgerOK'
  BY <1>2, <1>3 DEF LedgerOK
<1>. QED
  BY <1>4, <1>9, <1>10, <1>11 DEF TypeInv

\* A tool or command begins.
LEMMA TypeStartTool ==
  ASSUME TypeInv, NEW p \in Procs, StartTool(p) \/ StartSessionResume(p)
  PROVE  TypeInv'
<1>1. PICK t : /\ Begin(p, [Idle EXCEPT !.todo = t]) /\ Plain(t)
               /\ Head(t) \in {"curate", "get_or_build", "load"}
  BY ToolProgramFacts DEF StartTool, StartSessionResume
<1>2. /\ UNCHANGED <<rows, decisions, snap, bridge, clock, history>>
      /\ session' = TRUE \/ session' = session
  BY DEF StartTool, StartSessionResume
<1>3. StateOK /\ LedgerOK /\ FilesDated /\ (\A q \in Procs : HandlerOK(q))
  BY DEF TypeInv
<1>4. Dated /\ FilesDated'
  BY <1>2, <1>3, DatedOK DEF StateOK
<1>6. PICK h : h = [Idle EXCEPT !.todo = t]
  OBVIOUS
<1>7. h \in Handlers /\ h.todo = t /\ h.ev = None
  BY <1>1, <1>6, IdleFacts DEF Handlers, Plain
<1>8. proc' = [proc EXCEPT ![p] = h]
  BY <1>1, <1>6 DEF Begin
<1>9. proc' \in [Procs -> Handlers] /\ \A q \in Procs : HandlerOK(q)'
  BY <1>1, <1>3, <1>4, <1>7, <1>8, BeganOK
<1>10. StateOK'
  BY <1>2, <1>3, <1>9 DEF StateOK
<1>11. LedgerOK'
  BY <1>2, <1>3 DEF LedgerOK
<1>. QED
  BY <1>4, <1>9, <1>10, <1>11 DEF TypeInv

\* The tables after append_event.
LEMMA StoreTypes ==
  ASSUME StateOK, LedgerOK, FilesDated, session, UNCHANGED <<session, snap, bridge>>,
         NEW e \in Events, NEW at \in 1..clock + 1, Store(e, at),
         proc' \in [Procs -> Handlers]
  PROVE  StateOK' /\ LedgerOK' /\ Dated /\ FilesDated' /\ clock <= clock'
<1>1. LedgerOK' /\ clock' \in Nat /\ clock <= clock'
  BY StoreLedger
<1>2. clock \in Nat /\ at \in Nat
  BY DEF StateOK
<1>3. history' \in Histories
  BY <1>2, StoreEffect
<1>4. Dated /\ FilesDated'
  BY <1>1, DatedOK
<1>5. snap' = None \/ snap' \in [ver : 1..clock', consumed : BOOLEAN]
  <2>1. CASE snap = None
    BY <2>1
  <2>2. CASE snap \in [ver : 1..clock, consumed : BOOLEAN]
    <3>1. 1..clock \subseteq 1..clock'
      BY <1>1, <1>2
    <3>. QED
      BY <2>2, <3>1
  <2>. QED
    BY <2>1, <2>2 DEF StateOK
<1>. QED
  BY <1>1, <1>3, <1>4, <1>5 DEF StateOK

\* Where an ingesting process is.
LEMMA DeliverFacts ==
  ASSUME StateOK, NEW p \in Procs, HandlerOK(p), At(p, "deliver")
  PROVE  /\ proc[p].file \in Files /\ bridge[proc[p].file].at \in 1..clock
         /\ Len(proc[p].todo) \in Nat \ {0, 1}
         /\ Len(FileEvents[proc[p].file]) \in Nat
         /\ Len(FileEvents[proc[p].file]) + 2 - Len(proc[p].todo)
              \in 1..Len(FileEvents[proc[p].file])
         /\ FileEvents[proc[p].file][Len(FileEvents[proc[p].file]) + 2 - Len(proc[p].todo)]
              \in Events
<1>1. /\ proc[p].file \in Files /\ bridge[proc[p].file].at \in 1..clock
      /\ Len(proc[p].todo) <= Len(FileEvents[proc[p].file]) + 1
  BY DEF HandlerOK
<1>2. PICK t \in Seq(Names) : t = proc[p].todo
  BY AtFacts
<1>3. t # <<>> /\ Head(t) = "deliver" /\ WellFormed(t)
  BY <1>2 DEF At, HandlerOK
<1>4. Tail(t) # <<>>
  <2>1. Tail(t) = <<>> => "deliver" \in Last
    BY <1>3, WellFormedTail
  <2>. QED
    BY <2>1 DEF Last
<1>5. Len(t) \in Nat \ {0, 1}
  <2>1. Len(t) \in Nat \ {0} /\ (Len(t) = 1 => Tail(t) = <<>>)
    BY <1>3, TailFacts
  <2>. QED
    BY <1>4, <2>1
<1>6. PICK es \in Seq(Events) : es = FileEvents[proc[p].file]
  BY <1>1, LedgerAssumption
<1>7. Len(es) \in Nat /\ Len(es) + 2 - Len(t) \in 1..Len(es)
  <2>1. Len(es) \in Nat /\ Len(t) <= Len(es) + 1
    BY <1>1, <1>2, <1>6
  <2>2. PICK n \in Nat, m \in Nat : n = Len(es) /\ m = Len(t)
    BY <1>5, <2>1
  <2>3. n + 2 - m \in 1..n
    BY <1>5, <2>1, <2>2
  <2>. QED
    BY <2>2, <2>3
<1>8. es[Len(es) + 2 - Len(t)] \in Events
  BY <1>7
<1>. QED
  BY <1>1, <1>2, <1>5, <1>6, <1>7, <1>8

\* The handlers that append.
LEMMA TypeAppend ==
  ASSUME TypeInv, NEW p \in Procs, AppendEvent(p) \/ RecordResume(p) \/ Deliver(p)
  PROVE  TypeInv'
<1>1. StateOK /\ LedgerOK /\ FilesDated /\ (\A q \in Procs : HandlerOK(q)) /\ clock \in Nat
  BY DEF TypeInv, StateOK
<1>2. UNCHANGED <<session, snap, bridge>>
  BY DEF AppendEvent, RecordResume, Deliver
<1>3. Goes(p) /\ \E step : At(p, step) /\ step # "curate"
  <2>1. CASE AppendEvent(p)
    BY <1>1, <2>1, StepGoes, FailGoes DEF AppendEvent
  <2>2. CASE RecordResume(p)
    BY <1>1, <2>2, StepGoes DEF RecordResume
  <2>3. CASE Deliver(p)
    BY <1>1, <2>3, StepGoes DEF Deliver
  <2>. QED
    BY <2>1, <2>2, <2>3
<1>4. proc' \in [Procs -> Handlers]
  BY <1>1, <1>3, GoesTypes
<1>5. PICK step : At(p, step) /\ step # "curate"
  BY <1>3
<1>6. CASE session
  <2>1. \E e \in Events, at \in 1..clock + 1 : Store(e, at)
    <3>1. CASE AppendEvent(p)
      <4>1. proc[p].ev \in Events /\ Store(proc[p].ev, clock + 1)
        BY <1>1, <1>6, <3>1 DEF AppendEvent, HandlerOK
      <4>. QED
        BY <1>1, <4>1
    <3>2. CASE RecordResume(p)
      <4>1. ResumeEvent \in Events /\ Store(ResumeEvent, clock + 1)
        BY <1>6, <3>2 DEF RecordResume, Events
      <4>. QED
        BY <1>1, <4>1
    <3>3. CASE Deliver(p)
      <4>1. At(p, "deliver")
        BY <3>3 DEF Deliver
      <4>. DEFINE f == proc[p].file
                  e == FileEvents[f][Len(FileEvents[f]) + 2 - Len(proc[p].todo)]
      <4>2. e \in Events /\ bridge[f].at \in 1..clock
        BY <1>1, <4>1, DeliverFacts
      <4>3. Store(e, bridge[f].at)
        BY <1>6, <3>3 DEF Deliver
      <4>4. bridge[f].at \in 1..clock + 1
        BY <1>1, <4>2
      <4>. HIDE DEF e, f
      <4>. QED
        BY <4>2, <4>3, <4>4
    <3>. QED
      BY <3>1, <3>2, <3>3
  <2>2. PICK e \in Events, at \in 1..clock + 1 : Store(e, at)
    BY <2>1
  <2>3. StateOK' /\ LedgerOK' /\ Dated /\ FilesDated'
    BY <1>1, <1>2, <1>4, <1>6, <2>2, StoreTypes
  <2>4. \A q \in Procs : HandlerOK(q)'
    BY <1>1, <1>3, <1>5, <2>3, MoveOK
  <2>. QED
    BY <2>3, <2>4 DEF TypeInv
<1>7. CASE ~session
  <2>1. UNCHANGED <<rows, decisions, clock>>
    BY <1>7 DEF AppendEvent, RecordResume, Deliver
  <2>2. history' \in Histories
    <3>1. CASE AppendEvent(p) \/ RecordResume(p)
      BY <1>1, <1>7, <3>1 DEF AppendEvent, RecordResume, StateOK
    <3>2. CASE Deliver(p)
      <4>1. At(p, "deliver")
        BY <3>2 DEF Deliver
      <4>2. PICK e \in Events :
              e = FileEvents[proc[p].file][Len(FileEvents[proc[p].file]) + 2 - Len(proc[p].todo)]
        BY <1>1, <4>1, DeliverFacts
      <4>3. history' = [history EXCEPT !.settled = @ \cup {e}]
        BY <1>7, <3>2, <4>2 DEF Deliver
      <4>. QED
        BY <1>1, <4>3 DEF StateOK, Histories
    <3>. QED
      BY <3>1, <3>2
  <2>3. Dated /\ FilesDated'
    BY <1>1, <1>2, <2>1, DatedOK
  <2>4. \A q \in Procs : HandlerOK(q)'
    BY <1>1, <1>3, <1>5, <2>3, MoveOK
  <2>5. StateOK'
    BY <1>1, <1>2, <1>4, <2>1, <2>2 DEF StateOK
  <2>6. LedgerOK'
    BY <1>1, <1>2, <2>1 DEF LedgerOK
  <2>. QED
    BY <2>3, <2>4, <2>5, <2>6 DEF TypeInv
<1>. QED
  BY <1>6, <1>7

\* What compact_session_events decides is a plan.
LEMMA CurationPlanType ==
  ASSUME NEW L \in SUBSET Rows
  PROVE  CurationPlan(L) \in Plans
<1>. DEFINE del == {r \in L : /\ r.ev.kind \in DOMAIN Keep
                        /\ Cardinality({s \in L : Group(s.ev) = Group(r.ev) /\ KeptBefore(s, r)})
                             >= Keep[r.ev.kind]}
            high == {r \in L \ del : r.ev.kind \in PromotionTypes /\ r.pri < PromotionPriority}
<1>1. CurationPlan(L) = [del |-> del, promote |-> {r.id : r \in high}]
  BY DEF CurationPlan
<1>2. del \in SUBSET Rows /\ high \in SUBSET Rows
  OBVIOUS
<1>. HIDE DEF del, high
<1>3. {r.id : r \in high} \in SUBSET Nat
  BY <1>2 DEF Rows
<1>. QED
  BY <1>1, <1>2, <1>3 DEF Plans

\* Curate goes on with its plan.
LEMMA CurateGoes ==
  ASSUME TypeInv, NEW p \in Procs, Curate(p)
  PROVE  /\ Goes(p) /\ proc'[p].todo = Tail(proc[p].todo)
         /\ proc'[p].plan = CurationPlan(rows) /\ proc'[p].plan \in Plans
         /\ proc'[p].ver = proc[p].ver
<1>1. StateOK /\ HandlerOK(p) /\ rows \subseteq Rows /\ At(p, "curate")
  BY DEF TypeInv, LedgerOK, Curate
<1>2. /\ proc[p] \in Handlers /\ Tail(proc[p].todo) \in Seq(Names)
      /\ proc[p].todo \in Seq(Names) /\ proc[p].todo # <<>>
  BY <1>1, AtFacts
<1>3. Tail(proc[p].todo) # <<>>
  <2>1. WellFormed(proc[p].todo) /\ Head(proc[p].todo) \notin Last
    BY <1>1 DEF HandlerOK, At, Last
  <2>. DEFINE t == proc[p].todo
  <2>. HIDE DEF t
  <2>2. Tail(t) = <<>> => Head(t) \in Last
    BY <1>2, <2>1, WellFormedTail DEF t
  <2>. QED
    BY <2>1, <2>2 DEF t
<1>4. PICK pl \in Plans : pl = CurationPlan(rows)
  BY <1>1, CurationPlanType
<1>5. /\ proc' = [proc EXCEPT ![p] = proc'[p]]
      /\ proc'[p] = [proc[p] EXCEPT !.plan = pl, !.todo = Tail(proc[p].todo)]
  BY <1>1, <1>4 DEF Curate, StateOK
<1>6. /\ proc'[p] \in Handlers /\ proc'[p].todo = Tail(proc[p].todo)
      /\ proc'[p].ev = proc[p].ev /\ proc'[p].file = proc[p].file /\ proc'[p].ver = proc[p].ver
      /\ proc'[p].plan = pl
  BY <1>2, <1>5 DEF Handlers
<1>. QED
  BY <1>3, <1>4, <1>5, <1>6 DEF Goes

\* Apply goes on without it, whether it succeeds or fails.
LEMMA ApplyGoes ==
  ASSUME TypeInv, NEW p \in Procs, Apply(p) \/ CurationFails(p)
  PROVE  /\ Goes(p) /\ At(p, "apply")
         /\ \/ proc'[p] = Idle /\ Tail(proc[p].todo) = <<>>
            \/ proc'[p].todo = Tail(proc[p].todo) /\ proc'[p].ver = proc[p].ver
<1>1. StateOK /\ At(p, "apply")
  BY DEF TypeInv, Apply, CurationFails
<1>2. /\ proc[p] \in Handlers /\ Tail(proc[p].todo) \in Seq(Names)
      /\ (Tail(proc[p].todo) = <<>> => Len(proc[p].todo) = 1)
  BY <1>1, AtFacts
<1>3. PICK h : h = [proc[p] EXCEPT !.plan = None]
  OBVIOUS
<1>4. /\ h \in Handlers /\ h.todo = proc[p].todo /\ h.ev = proc[p].ev /\ h.file = proc[p].file
      /\ h.ver = proc[p].ver
  BY <1>2, <1>3 DEF Handlers
<1>5. CASE Apply(p)
  <2>1. proc' = [proc EXCEPT ![p] = After(h)]
    BY <1>3, <1>5 DEF Apply
  <2>. QED
    BY <1>1, <1>4, <2>1, AfterGoes
<1>6. CASE CurationFails(p)
  <2>1. /\ proc' = [proc EXCEPT ![p] = proc'[p]]
        /\ proc'[p] = [proc[p] EXCEPT !.plan = None, !.todo = Tail(proc[p].todo)]
    BY <1>1, <1>6 DEF CurationFails, StateOK
  <2>2. /\ proc'[p] \in Handlers /\ proc'[p].todo = Tail(proc[p].todo)
        /\ proc'[p].ev = proc[p].ev /\ proc'[p].file = proc[p].file /\ proc'[p].ver = proc[p].ver
    BY <1>2, <2>1 DEF Handlers
  <2>3. Tail(proc[p].todo) # <<>>
    <3>1. Len(proc[p].todo) > 1
      BY <1>6 DEF CurationFails
    <3>2. PICK n \in Nat : n = Len(proc[p].todo)
      BY <1>1, AtFacts
    <3>4. n > 1
      BY <3>1, <3>2, Zenon
    <3>3. n # 1
      BY <3>4
    <3>. QED
      BY <1>2, <3>2, <3>3
  <2>. QED
    BY <1>1, <2>1, <2>2, <2>3 DEF Goes
<1>. QED
  BY <1>5, <1>6

\* Curation.
LEMMA TypeCurate ==
  ASSUME TypeInv, NEW p \in Procs, Curate(p) \/ Apply(p) \/ CurationFails(p)
  PROVE  TypeInv'
<1>1. StateOK /\ LedgerOK /\ FilesDated /\ (\A q \in Procs : HandlerOK(q)) /\ clock \in Nat
  BY DEF TypeInv, StateOK
<1>2. UNCHANGED <<session, snap, bridge, clock, history>>
  BY DEF Curate, Apply, CurationFails
<1>3. Dated /\ FilesDated'
  BY <1>1, <1>2, DatedOK
<1>4. LedgerOK'
  <2>1. CASE UNCHANGED <<rows, decisions>>
    BY <1>1, <1>2, <2>1 DEF LedgerOK
  <2>2. CASE Apply(p)
    <3>1. PICK pl \in Plans : pl = proc[p].plan
      BY <1>1, <2>2 DEF HandlerOK, Apply
    <3>2. rows' = ApplyPlan(rows, pl) /\ decisions' = decisions
      BY <2>2, <3>1 DEF Apply, DecisionsAfter
    <3>. QED
      BY <1>1, <1>2, <3>2, ApplyLedger
  <2>. QED
    BY <2>1, <2>2 DEF Curate, CurationFails
<1>5. \E step : /\ At(p, step) /\ Goes(p) /\ (step = "curate" => proc'[p].plan \in Plans)
  <2>1. CASE Curate(p)
    BY <2>1, CurateGoes DEF Curate
  <2>2. CASE Apply(p) \/ CurationFails(p)
    BY <2>2, ApplyGoes
  <2>. QED
    BY <2>1, <2>2
<1>6. proc' \in [Procs -> Handlers] /\ \A q \in Procs : HandlerOK(q)'
  BY <1>1, <1>3, <1>5, MoveOK
<1>7. StateOK'
  BY <1>1, <1>2, <1>6 DEF StateOK
<1>. QED
  BY <1>3, <1>4, <1>6, <1>7 DEF TypeInv

\* The snapshot is built.
LEMMA SnapshotGoes ==
  ASSUME TypeInv, NEW p \in Procs, Snapshot(p), session
  PROVE  /\ Goes(p) /\ At(p, "snapshot")
         /\ \/ proc'[p] = Idle
            \/ proc'[p].todo = Tail(proc[p].todo) /\ proc'[p].ver = clock + 1
<1>1. StateOK /\ At(p, "snapshot") /\ clock \in Nat
  BY DEF TypeInv, StateOK, Snapshot
<1>2. proc[p] \in Handlers
  BY <1>1, AtFacts
<1>3. PICK h : h = [proc[p] EXCEPT !.ver = clock + 1]
  OBVIOUS
<1>4. /\ h \in Handlers /\ h.todo = proc[p].todo /\ h.ev = proc[p].ev /\ h.file = proc[p].file
      /\ h.ver = clock + 1
  BY <1>1, <1>2, <1>3 DEF Handlers
<1>5. proc' = [proc EXCEPT ![p] = After(h)]
  BY <1>3 DEF Snapshot
<1>6. /\ Goes(p)
      /\ \/ proc'[p] = Idle /\ Tail(proc[p].todo) = <<>>
         \/ /\ proc'[p].todo = Tail(proc[p].todo) /\ proc'[p].ver = h.ver
            /\ proc'[p].plan = h.plan
  BY <1>1, <1>4, <1>5, AfterGoes
<1>. QED
  BY <1>1, <1>4, <1>6

\* build_resume_snapshot.
LEMMA TypeSnapshot ==
  ASSUME TypeInv, NEW p \in Procs, Snapshot(p)
  PROVE  TypeInv'
<1>1. /\ StateOK /\ LedgerOK /\ FilesDated /\ (\A q \in Procs : HandlerOK(q)) /\ clock \in Nat
      /\ history \in Histories /\ session \in BOOLEAN
  BY DEF TypeInv, StateOK
<1>2. UNCHANGED <<session, rows, decisions, bridge>> /\ At(p, "snapshot")
  BY DEF Snapshot
<1>3. CASE session
  <2>1. clock' = clock + 1 /\ snap' = [ver |-> clock + 1, consumed |-> FALSE]
    BY <1>3 DEF Snapshot, Put
  <2>2. Dated /\ FilesDated'
    BY <1>1, <1>2, <2>1, DatedOK
  <2>3. Goes(p)
    BY <1>3, SnapshotGoes
  <2>4. proc' \in [Procs -> Handlers] /\ \A q \in Procs : HandlerOK(q)'
    BY <1>1, <1>2, <2>2, <2>3, MoveOK
  <2>5. history' \in Histories
    <3>0. history.shown \in SUBSET Nat /\ history.shown \cup {clock + 1} \in SUBSET Nat
      BY <1>1 DEF Histories
    <3>1. PICK sh \in SUBSET Nat :
            sh = IF proc[p].ev = None THEN history.shown \cup {clock + 1} ELSE history.shown
      BY <3>0, Zenon
    <3>2. history' = [history EXCEPT !.shown = sh]
      BY <1>3, <3>1 DEF Snapshot
    <3>. QED
      BY <1>1, <3>2 DEF Histories
  <2>6. StateOK'
    BY <1>1, <1>2, <2>1, <2>4, <2>5 DEF StateOK
  <2>7. LedgerOK'
    BY <1>1, <1>2, <1>3, <2>1 DEF LedgerOK
  <2>. QED
    BY <2>2, <2>4, <2>6, <2>7 DEF TypeInv
<1>4. CASE ~session
  <2>1. UNCHANGED <<snap, clock, history>> /\ Fail(p)
    BY <1>4 DEF Snapshot
  <2>2. Dated /\ FilesDated'
    BY <1>1, <1>2, <2>1, DatedOK
  <2>3. proc' \in [Procs -> Handlers] /\ \A q \in Procs : HandlerOK(q)'
    BY <1>1, <2>1, <2>2, EndOK
  <2>4. StateOK'
    BY <1>1, <1>2, <2>1, <2>3 DEF StateOK
  <2>5. LedgerOK'
    BY <1>1, <1>2, <2>1 DEF LedgerOK
  <2>. QED
    BY <2>2, <2>3, <2>4, <2>5 DEF TypeInv
<1>. QED
  BY <1>3, <1>4

\* A handler that builds a snapshot first.
LEMMA RebuildGoes ==
  ASSUME TypeInv, NEW p \in Procs, snap = None, Handoff(p) \/ GetOrBuild(p)
  PROVE  \E t : /\ Plain(t) /\ Head(t) = "curate"
                /\ proc'[p] = [proc[p] EXCEPT !.todo = t] /\ proc'[p] \in Handlers
                /\ proc'[p].todo = t /\ proc'[p].ver = proc[p].ver /\ proc'[p].ev = proc[p].ev
                /\ proc' = [proc EXCEPT ![p] = proc'[p]]
                /\ \A i \in 1..Len(t) : t[i] = "view" => proc[p].ev = None
<1>1. StateOK /\ HandlerOK(p) /\ proc[p] \in Handlers
  BY DEF TypeInv, StateOK
<1>2. CASE Handoff(p)
  <2>1. Plain(BuildResume) /\ Head(BuildResume) = "curate" /\ BuildResume \in Seq(Names)
    BY BuildResumeFacts DEF Plain
  <2>2. \A i \in 1..Len(BuildResume) : BuildResume[i] # "view"
    <3>1. ASSUME NEW i \in 1..3 PROVE BuildResume[i] # "view"
      <4>1. i = 1 \/ i = 2 \/ i = 3
        OBVIOUS
      <4>. QED
        BY <4>1, BuildResumeFacts
    <3>. QED
      BY <3>1, BuildResumeFacts
  <2>3. /\ proc' = [proc EXCEPT ![p] = proc'[p]]
        /\ proc'[p] = [proc[p] EXCEPT !.todo = BuildResume]
    BY <1>1, <1>2 DEF Handoff, StateOK
  <2>4. /\ proc'[p] \in Handlers /\ proc'[p].todo = BuildResume /\ proc'[p].ver = proc[p].ver
        /\ proc'[p].ev = proc[p].ev
    BY <1>1, <2>1, <2>3 DEF Handlers
  <2>. QED
    BY <2>1, <2>2, <2>3, <2>4
<1>3. CASE GetOrBuild(p)
  <2>1. PICK u \in Seq(Names) : u = proc[p].todo
    BY <1>1 DEF Handlers
  <2>2. u # <<>> /\ WellFormed(u) /\ Head(u) = "get_or_build"
    BY <1>1, <1>3, <2>1 DEF GetOrBuild, At, HandlerOK
  <2>3. PICK t : t = BuildResume \o Tail(u)
    OBVIOUS
  <2>4. Plain(t) /\ Head(t) = "curate" /\ \E k \in 1..Len(u) : u[k] = "view"
    BY <2>2, <2>3, BuildFirst
  <2>5. proc[p].ev = None
    BY <1>1, <2>1, <2>4 DEF HandlerOK
  <2>6. /\ proc' = [proc EXCEPT ![p] = proc'[p]]
        /\ proc'[p] = [proc[p] EXCEPT !.todo = t]
    BY <1>1, <1>3, <2>1, <2>3 DEF GetOrBuild, StateOK
  <2>7. /\ proc'[p] \in Handlers /\ proc'[p].todo = t /\ proc'[p].ver = proc[p].ver
        /\ proc'[p].ev = proc[p].ev
    BY <1>1, <2>4, <2>6 DEF Handlers, Plain
  <2>. QED
    BY <2>4, <2>5, <2>6, <2>7
<1>. QED
  BY <1>2, <1>3

\* Reading the snapshot.
LEMMA TypeRead ==
  ASSUME TypeInv, NEW p \in Procs, Handoff(p) \/ Load(p) \/ GetOrBuild(p) \/ View(p)
  PROVE  TypeInv'
<1>1. /\ StateOK /\ LedgerOK /\ FilesDated /\ (\A q \in Procs : HandlerOK(q)) /\ clock \in Nat
      /\ history \in Histories
  BY DEF TypeInv, StateOK
<1>2. UNCHANGED <<session, rows, decisions, snap, bridge, clock>>
  BY DEF Handoff, Load, GetOrBuild, View
<1>3. Dated /\ FilesDated' /\ LedgerOK'
  BY <1>1, <1>2, DatedOK DEF LedgerOK
<1>. SUFFICES history' \in Histories /\ proc' \in [Procs -> Handlers]
              /\ \A q \in Procs : HandlerOK(q)'
  BY <1>1, <1>2, <1>3 DEF TypeInv, StateOK
<1>4. CASE history' = history /\ Fail(p)
  BY <1>1, <1>3, <1>4, EndOK
<1>5. CASE history' = history /\ (Handoff(p) \/ View(p)) /\ Step(p)
  <2>1. \E step : At(p, step) /\ step # "curate"
    BY <1>5 DEF Handoff, View
  <2>2. Goes(p)
    BY <1>1, <1>5, <2>1, StepGoes
  <2>. QED
    BY <1>1, <1>3, <1>5, <2>1, <2>2, MoveOK
<1>6. CASE /\ snap # None /\ (At(p, "load") \/ At(p, "get_or_build")) /\ Show(p, snap.ver)
  <2>1. PICK v \in Nat : v = snap.ver
    BY <1>1, <1>6 DEF StateOK
  <2>2. Show(p, v)
    BY <1>6, <2>1
  <2>3. Goes(p) /\ history' = [history EXCEPT !.shown = @ \cup {v}]
    BY <1>1, <1>6, <2>2, ShowGoes
  <2>4. history' \in Histories
    BY <1>1, <2>3 DEF Histories
  <2>. QED
    BY <1>1, <1>3, <1>6, <2>3, <2>4, MoveOK
<1>7. CASE snap = None /\ (Handoff(p) \/ GetOrBuild(p))
  <2>0. history' = history
    BY <1>7 DEF Handoff, GetOrBuild
  <2>1. PICK t : /\ Plain(t) /\ Head(t) = "curate"
                 /\ proc'[p] = [proc[p] EXCEPT !.todo = t] /\ proc'[p] \in Handlers
                 /\ proc'[p].todo = t /\ proc'[p].ver = proc[p].ver /\ proc'[p].ev = proc[p].ev
                 /\ proc' = [proc EXCEPT ![p] = proc'[p]]
                 /\ \A i \in 1..Len(t) : t[i] = "view" => proc[p].ev = None
    BY <1>7, RebuildGoes, Zenon
  <2>2. PICK h \in Handlers : h = proc'[p]
    BY <2>1
  <2>3. h.todo = t /\ proc' = [proc EXCEPT ![p] = h] /\ h.ev = proc[p].ev
    BY <2>1, <2>2
  <2>. QED
    BY <1>1, <1>3, <2>0, <2>1, <2>3, BeganOK
<1>. QED
  BY <1>4, <1>5, <1>6, <1>7 DEF Handoff, Load, GetOrBuild, View

\* mark_resume_consumed.
LEMMA TypeMark ==
  ASSUME TypeInv, NEW p \in Procs, Mark(p)
  PROVE  TypeInv'
<1>1. /\ StateOK /\ LedgerOK /\ FilesDated /\ (\A q \in Procs : HandlerOK(q)) /\ clock \in Nat
      /\ history \in Histories
  BY DEF TypeInv, StateOK
<1>2. UNCHANGED <<session, rows, decisions, bridge, clock>> /\ At(p, "mark") /\ Step(p)
  BY DEF Mark
<1>3. Dated /\ FilesDated'
  BY <1>1, <1>2, DatedOK
<1>4. proc' \in [Procs -> Handlers] /\ \A q \in Procs : HandlerOK(q)'
  BY <1>1, <1>2, <1>3, StepGoes, MoveOK
<1>5. CASE snap = None
  <2>1. UNCHANGED <<snap, history>>
    BY <1>5 DEF Mark
  <2>. QED
    BY <1>1, <1>2, <1>3, <1>4, <2>1 DEF TypeInv, StateOK, LedgerOK
<1>6. CASE snap # None
  <2>1. snap \in [ver : 1..clock, consumed : BOOLEAN]
    BY <1>1, <1>6 DEF StateOK
  <2>2. snap' = [snap EXCEPT !.consumed = TRUE]
    BY <1>6 DEF Mark
  <2>3. snap' \in [ver : 1..clock, consumed : BOOLEAN]
    BY <2>1, <2>2
  <2>4. history' \in Histories
    <3>1. PICK v \in Nat : v = snap.ver
      BY <2>1
    <3>2. PICK ot \in SUBSET Nat :
            ot = IF v > proc[p].ver THEN history.overtaken \cup {v} ELSE history.overtaken
      BY <1>1 DEF Histories
    <3>3. history' = [history EXCEPT !.overtaken = ot]
      BY <1>6, <3>1, <3>2 DEF Mark
    <3>. QED
      BY <1>1, <3>3 DEF Histories
  <2>5. StateOK'
    BY <1>1, <1>2, <1>4, <2>3, <2>4 DEF StateOK
  <2>6. LedgerOK'
    BY <1>1, <1>2, <1>6 DEF LedgerOK
  <2>. QED
    BY <1>3, <1>4, <2>5, <2>6 DEF TypeInv
<1>. QED
  BY <1>5, <1>6

\* delete_session.
LEMMA TypeClear ==
  ASSUME TypeInv, Clear
  PROVE  TypeInv'
<1>1. /\ StateOK /\ LedgerOK /\ FilesDated /\ (\A q \in Procs : HandlerOK(q)) /\ clock \in Nat
      /\ history \in Histories
  BY DEF TypeInv, StateOK
<1>2. /\ UNCHANGED <<bridge, clock, proc>> /\ session' = FALSE /\ rows' = {} /\ decisions' = {}
      /\ snap' = None
      /\ history' = [history EXCEPT !.top = [g \in Groups |-> 0], !.lost = {}, !.kept = {}]
  BY DEF Clear
<1>3. Dated /\ FilesDated'
  BY <1>1, <1>2, DatedOK
<1>4. ASSUME NEW q \in Procs PROVE HandlerOK(q)'
  BY <1>1, <1>2, <1>3, OthersOK
<1>5. history' \in Histories
  <2>1. PICK tp \in [Groups -> Nat] : tp = [g \in Groups |-> 0]
    OBVIOUS
  <2>2. history' = [history EXCEPT !.top = tp, !.lost = {}, !.kept = {}]
    BY <1>2, <2>1
  <2>. QED
    BY <1>1, <2>2 DEF Histories
<1>6. LedgerOK'
  BY <1>2, LedgerAssumption, FS_EmptySet DEF LedgerOK
<1>7. StateOK'
  BY <1>1, <1>2, <1>5 DEF StateOK
<1>. QED
  BY <1>3, <1>4, <1>6, <1>7 DEF TypeInv

\* A file is removed, or finished: it keeps its time.
LEMMA FileStep ==
  ASSUME StateOK, FilesDated, clock' = clock, NEW f \in Files,
         NEW st \in {"none", "partial", "whole"}, bridge[f].state = "none" => st = "none",
         bridge' = [bridge EXCEPT ![f].state = st]
  PROVE  /\ bridge' \in [Files -> Bridges] /\ Dated /\ FilesDated'
         /\ bridge'[f].state = st /\ \A g \in Files : bridge'[g].at = bridge[g].at
         /\ \A g \in Files : g # f => bridge'[g] = bridge[g]
<1>0. bridge \in [Files -> Bridges] /\ clock \in Nat
  BY DEF StateOK
<1>1. bridge'[f] = [bridge[f] EXCEPT !.state = st]
  BY <1>0
<1>2. bridge'[f] \in Bridges /\ bridge'[f].state = st /\ bridge'[f].at = bridge[f].at
  BY <1>0, <1>1 DEF Bridges
<1>3. bridge' \in [Files -> Bridges] /\ \A g \in Files : g # f => bridge'[g] = bridge[g]
  BY <1>0, <1>2
<1>4. \A g \in Files : bridge'[g].at = bridge[g].at
  BY <1>2, <1>3
<1>5. Dated
  BY <1>4 DEF Dated
<1>6. FilesDated'
  BY <1>2, <1>3, <1>4 DEF FilesDated
<1>. QED
  BY <1>2, <1>3, <1>4, <1>5, <1>6

\* The file leaves the directory.
LEMMA RemoveStep ==
  ASSUME StateOK, FilesDated, clock' = clock, NEW f \in Files, Remove(f)
  PROVE  /\ bridge' \in [Files -> Bridges] /\ Dated /\ FilesDated'
         /\ bridge'[f].state = "none" /\ \A g \in Files : bridge'[g].at = bridge[g].at
         /\ \A g \in Files : g # f => bridge'[g] = bridge[g]
<1>1. bridge' = [bridge EXCEPT ![f].state = "none"]
  BY DEF Remove
<1>. QED
  BY <1>1, FileStep

\* Its events are given up.
LEMMA GiveUpStep ==
  ASSUME StateOK, NEW f \in Files, GiveUp(f)
  PROVE  /\ history' \in Histories
         /\ history'.settled = history.settled \cup Range(FileEvents[f])
         /\ history'.written = history.written
         /\ history'.top = history.top /\ history'.lost = history.lost
         /\ history'.kept = history.kept /\ history'.shown = history.shown
         /\ history'.overtaken = history.overtaken
<1>1. Range(FileEvents[f]) \subseteq Events
  BY DEF Events
<1>2. PICK x \in SUBSET Events : x = Range(FileEvents[f])
  BY <1>1
<1>3. history' = [history EXCEPT !.settled = history.settled \cup x] /\ history \in Histories
  BY <1>2 DEF GiveUp, StateOK
<1>. QED
  BY <1>2, <1>3 DEF Histories

\* A single-step program.
LEMMA ShortProgram ==
  /\ Plain(<<"write">>) /\ Head(<<"write">>) = "write" /\ \A i \in 1..Len(<<"write">>) : (<<"write">>)[i] # "view"
  /\ Plain(<<"read">>) /\ Head(<<"read">>) = "read" /\ \A i \in 1..Len(<<"read">>) : (<<"read">>)[i] # "view"
<1>1. ASSUME NEW n \in {"write", "read"}, NEW t, t = <<n>>
      PROVE  Plain(t) /\ Head(t) = n /\ \A i \in 1..Len(t) : t[i] # "view"
  <2>1. Len(t) = 1 /\ t \in Seq(Names) /\ t # <<>> /\ t[1] = n /\ Head(t) = n
    BY <1>1 DEF Names
  <2>. QED
    BY <2>1 DEF Plain, WellFormed, Last
<1>. QED
  BY <1>1

\* write_bridge_file creates a file.
LEMMA TypeStartWrite ==
  ASSUME TypeInv, NEW p \in Procs, StartWrite(p)
  PROVE  TypeInv'
<1>1. /\ StateOK /\ LedgerOK /\ FilesDated /\ (\A q \in Procs : HandlerOK(q)) /\ clock \in Nat
      /\ bridge \in [Files -> Bridges]
  BY DEF TypeInv, StateOK
<1>2. UNCHANGED <<session, rows, decisions, snap, history>> /\ clock' = clock + 1
  BY DEF StartWrite
<1>3. PICK f \in Files :
         /\ bridge[f] = [state |-> "none", at |-> 0]
         /\ Begin(p, [Idle EXCEPT !.todo = <<"write">>, !.file = f])
         /\ bridge' = [bridge EXCEPT ![f] = [state |-> "partial", at |-> clock + 1]]
  BY DEF StartWrite
<1>4. PICK b : b = [state |-> "partial", at |-> clock + 1]
  OBVIOUS
<1>5. b \in Bridges /\ b.at = clock + 1 /\ b.state = "partial"
  BY <1>1, <1>4 DEF Bridges
<1>6. /\ bridge' \in [Files -> Bridges] /\ bridge'[f] = b
      /\ \A g \in Files : g # f => bridge'[g] = bridge[g]
  BY <1>1, <1>3, <1>4, <1>5
<1>7. Dated /\ FilesDated'
  <2>1. ASSUME NEW g \in Files
        PROVE  /\ bridge[g].at \in 1..clock => bridge'[g].at \in 1..clock'
               /\ bridge'[g].at <= clock' /\ (bridge'[g].state # "none" => bridge'[g].at # 0)
    <3>1. CASE g = f
      BY <1>1, <1>2, <1>5, <1>6, <3>1
    <3>2. CASE g # f
      <4>1. bridge[g].at \in Nat /\ bridge[g].at <= clock /\ (bridge[g].state # "none" => bridge[g].at # 0)
        BY <1>1 DEF FilesDated, Bridges
      <4>. QED
        BY <1>1, <1>2, <1>6, <3>2, <4>1
    <3>. QED
      BY <3>1, <3>2
  <2>. QED
    BY <2>1 DEF Dated, FilesDated
<1>8. PICK h : h = [Idle EXCEPT !.todo = <<"write">>, !.file = f]
  OBVIOUS
<1>9. PICK t : t = <<"write">>
  OBVIOUS
<1>10. Plain(t) /\ Head(t) = "write" /\ \A i \in 1..Len(t) : t[i] # "view"
  BY <1>9, ShortProgram
<1>11. h \in Handlers /\ h.todo = t /\ h.file = f
  <2>1. h = [Idle EXCEPT !.todo = t, !.file = f] /\ t \in Seq(Names)
    BY <1>8, <1>9, <1>10 DEF Plain
  <2>. QED
    BY <2>1, IdleFacts DEF Handlers
<1>12. proc' = [proc EXCEPT ![p] = h]
  BY <1>3, <1>8 DEF Begin
<1>13. bridge'[f].at \in 1..clock'
  BY <1>1, <1>2, <1>5, <1>6
<1>14. proc' \in [Procs -> Handlers] /\ \A q \in Procs : HandlerOK(q)'
  BY <1>1, <1>7, <1>10, <1>11, <1>12, <1>13, BeganOK
<1>15. StateOK'
  BY <1>1, <1>2, <1>6, <1>14 DEF StateOK
<1>16. LedgerOK'
  BY <1>1, <1>2 DEF LedgerOK
<1>. QED
  BY <1>7, <1>14, <1>15, <1>16 DEF TypeInv

\* ... and finishes it.
LEMMA FinishWriteStep ==
  ASSUME StateOK, FilesDated, NEW p \in Procs, HandlerOK(p), FinishWrite(p)
  PROVE  /\ proc[p].file \in Files
         /\ bridge' \in [Files -> Bridges] /\ Dated /\ FilesDated'
         /\ bridge'[proc[p].file].state =
              IF bridge[proc[p].file].state = "partial" THEN "whole" ELSE bridge[proc[p].file].state
         /\ \A g \in Files : bridge'[g].at = bridge[g].at
         /\ \A g \in Files : g # proc[p].file => bridge'[g] = bridge[g]
         /\ history' \in Histories /\ history'.written = history.written \cup {proc[p].file}
         /\ history'.settled = history.settled
         /\ history'.top = history.top /\ history'.lost = history.lost
         /\ history'.kept = history.kept /\ history'.shown = history.shown
         /\ history'.overtaken = history.overtaken
<1>1. PICK f \in Files : f = proc[p].file
  BY DEF FinishWrite, HandlerOK
<1>2. bridge[f] \in Bridges /\ history \in Histories
  BY DEF StateOK
<1>3. PICK st \in {"none", "partial", "whole"} :
        st = IF bridge[f].state = "partial" THEN "whole" ELSE bridge[f].state
  BY <1>2 DEF Bridges
<1>4. bridge' = [bridge EXCEPT ![f].state = st] /\ clock' = clock
  BY <1>1, <1>3 DEF FinishWrite
<1>5. bridge[f].state = "none" => st = "none"
  BY <1>3
<1>6. /\ bridge' \in [Files -> Bridges] /\ Dated /\ FilesDated'
      /\ bridge'[f].state = st /\ \A g \in Files : bridge'[g].at = bridge[g].at
      /\ \A g \in Files : g # f => bridge'[g] = bridge[g]
  BY <1>4, <1>5, FileStep
<1>7. history' = [history EXCEPT !.written = history.written \cup {f}]
  BY <1>1 DEF FinishWrite
<1>8. /\ history' \in Histories /\ history'.written = history.written \cup {f}
      /\ history'.settled = history.settled
      /\ history'.top = history.top /\ history'.lost = history.lost
      /\ history'.kept = history.kept /\ history'.shown = history.shown
      /\ history'.overtaken = history.overtaken
  BY <1>2, <1>7 DEF Histories
<1>. QED
  BY <1>1, <1>3, <1>6, <1>8

\* ... types.
LEMMA TypeFinishWrite ==
  ASSUME TypeInv, NEW p \in Procs, FinishWrite(p)
  PROVE  TypeInv'
<1>1. StateOK /\ LedgerOK /\ FilesDated /\ (\A q \in Procs : HandlerOK(q))
  BY DEF TypeInv
<1>2. UNCHANGED <<session, rows, decisions, snap, clock>> /\ At(p, "write") /\ Step(p)
  BY DEF FinishWrite
<1>3. bridge' \in [Files -> Bridges] /\ Dated /\ FilesDated' /\ history' \in Histories
  BY <1>1, FinishWriteStep
<1>4. proc' \in [Procs -> Handlers] /\ \A q \in Procs : HandlerOK(q)'
  BY <1>1, <1>2, <1>3, StepGoes, MoveOK
<1>. QED
  BY <1>1, <1>2, <1>3, <1>4 DEF TypeInv, StateOK, LedgerOK

\* ingest_pending_bridge_files lists a file.
LEMMA TypeStartIngest ==
  ASSUME TypeInv, NEW p \in Procs, StartIngest(p)
  PROVE  TypeInv'
<1>1. /\ StateOK /\ LedgerOK /\ FilesDated /\ (\A q \in Procs : HandlerOK(q)) /\ clock \in Nat
      /\ bridge \in [Files -> Bridges]
  BY DEF TypeInv, StateOK
<1>2. UNCHANGED <<session, rows, decisions, snap, bridge, clock, history>>
  BY DEF StartIngest
<1>3. PICK f \in Files : /\ bridge[f].state \in {"partial", "whole"}
                         /\ Begin(p, [Idle EXCEPT !.todo = <<"read">>, !.file = f])
  BY DEF StartIngest
<1>4. Dated /\ FilesDated'
  BY <1>1, <1>2, DatedOK
<1>5. bridge'[f].at \in 1..clock'
  <2>1. bridge[f].at \in Nat /\ bridge[f].at <= clock /\ bridge[f].at # 0
    BY <1>1, <1>3 DEF FilesDated, Bridges
  <2>. QED
    BY <1>1, <1>2, <2>1
<1>8. PICK h : h = [Idle EXCEPT !.todo = <<"read">>, !.file = f]
  OBVIOUS
<1>9. PICK t : t = <<"read">>
  OBVIOUS
<1>10. Plain(t) /\ Head(t) = "read" /\ \A i \in 1..Len(t) : t[i] # "view"
  BY <1>9, ShortProgram
<1>11. h \in Handlers /\ h.todo = t /\ h.file = f
  <2>1. h = [Idle EXCEPT !.todo = t, !.file = f] /\ t \in Seq(Names)
    BY <1>8, <1>9, <1>10 DEF Plain
  <2>. QED
    BY <2>1, IdleFacts DEF Handlers
<1>12. proc' = [proc EXCEPT ![p] = h]
  BY <1>3, <1>8 DEF Begin
<1>14. proc' \in [Procs -> Handlers] /\ \A q \in Procs : HandlerOK(q)'
  BY <1>1, <1>4, <1>5, <1>10, <1>11, <1>12, BeganOK
<1>15. StateOK'
  BY <1>1, <1>2, <1>14 DEF StateOK
<1>16. LedgerOK'
  BY <1>1, <1>2 DEF LedgerOK
<1>. QED
  BY <1>4, <1>14, <1>15, <1>16 DEF TypeInv

\* ingest_bridge_file finds the file whole.
LEMMA IngestBegins ==
  ASSUME TypeInv, NEW p \in Procs, IngestRead(p), bridge[proc[p].file].state = "whole"
  PROVE  /\ proc[p].file \in Files /\ bridge[proc[p].file].at \in 1..clock
         /\ \E t : /\ Plain(t) /\ Head(t) \in {"deliver", "remove"}
                   /\ \A i \in 1..Len(t) : t[i] # "view"
                   /\ Len(t) = Len(FileEvents[proc[p].file]) + 1
                   /\ proc'[p] = [proc[p] EXCEPT !.todo = t] /\ proc'[p] \in Handlers
                   /\ proc'[p].todo = t /\ proc'[p].file = proc[p].file
                   /\ proc'[p].ver = proc[p].ver
                   /\ proc' = [proc EXCEPT ![p] = proc'[p]]
<1>1. StateOK /\ HandlerOK(p) /\ proc[p] \in Handlers /\ At(p, "read")
  BY DEF TypeInv, StateOK, IngestRead
<1>2. PICK f \in Files : f = proc[p].file /\ bridge[f].at \in 1..clock
  BY <1>1 DEF HandlerOK
<1>3. PICK n \in Nat : n = Len(FileEvents[f])
  BY LedgerAssumption
<1>4. PICK t : t = [i \in 1..n |-> "deliver"] \o <<"remove">>
  OBVIOUS
<1>5. /\ Plain(t) /\ Len(t) = n + 1
      /\ Head(t) \in {"deliver", "remove"} /\ \A i \in 1..Len(t) : t[i] # "view"
  BY <1>4, DeliverProgram, Zenon
<1>6. proc' = [proc EXCEPT ![p].todo = t]
  BY <1>2, <1>3, <1>4 DEF IngestRead
<1>7. proc' = [proc EXCEPT ![p] = proc'[p]] /\ proc'[p] = [proc[p] EXCEPT !.todo = t]
  BY <1>1, <1>6 DEF StateOK
<1>8. /\ proc'[p] \in Handlers /\ proc'[p].todo = t /\ proc'[p].file = proc[p].file
      /\ proc'[p].ver = proc[p].ver
  BY <1>1, <1>5, <1>7 DEF Handlers, Plain
<1>. QED
  BY <1>2, <1>3, <1>5, <1>7, <1>8

\* ingest_bridge_file.
LEMMA TypeIngestRead ==
  ASSUME TypeInv, NEW p \in Procs, IngestRead(p)
  PROVE  TypeInv'
<1>1. /\ StateOK /\ LedgerOK /\ FilesDated /\ (\A q \in Procs : HandlerOK(q)) /\ clock \in Nat
  BY DEF TypeInv, StateOK
<1>2. UNCHANGED <<rows, decisions, snap, clock>> /\ At(p, "read")
  BY DEF IngestRead
<1>3. PICK f \in Files : f = proc[p].file
  BY <1>1, <1>2 DEF HandlerOK
<1>4. CASE bridge[f].state = "whole"
  <2>1. session' = TRUE /\ UNCHANGED <<bridge, history>>
    BY <1>3, <1>4 DEF IngestRead
  <2>2. Dated /\ FilesDated'
    BY <1>1, <1>2, <2>1, DatedOK
  <2>3. /\ proc[p].file \in Files /\ bridge[proc[p].file].at \in 1..clock
        /\ \E t : /\ Plain(t) /\ Head(t) \in {"deliver", "remove"}
                  /\ \A i \in 1..Len(t) : t[i] # "view"
                  /\ Len(t) = Len(FileEvents[proc[p].file]) + 1
                  /\ proc'[p] = [proc[p] EXCEPT !.todo = t] /\ proc'[p] \in Handlers
                  /\ proc'[p].todo = t /\ proc'[p].file = proc[p].file
                  /\ proc'[p].ver = proc[p].ver
                  /\ proc' = [proc EXCEPT ![p] = proc'[p]]
    BY <1>3, <1>4, IngestBegins, Zenon
  <2>4. PICK t : /\ Plain(t) /\ Head(t) \in {"deliver", "remove"}
                 /\ \A i \in 1..Len(t) : t[i] # "view"
                 /\ Len(t) = Len(FileEvents[proc[p].file]) + 1
                 /\ proc'[p] = [proc[p] EXCEPT !.todo = t] /\ proc'[p] \in Handlers
                 /\ proc'[p].todo = t /\ proc'[p].file = proc[p].file
                 /\ proc'[p].ver = proc[p].ver
                 /\ proc' = [proc EXCEPT ![p] = proc'[p]]
    BY <2>3, Zenon
  <2>5. PICK h \in Handlers : h = proc'[p]
    BY <2>4, Zenon
  <2>6. /\ h.todo = t /\ proc' = [proc EXCEPT ![p] = h] /\ h.file = f
        /\ bridge'[f].at \in 1..clock' /\ Len(t) = Len(FileEvents[f]) + 1
    <3>1. h.todo = t /\ proc' = [proc EXCEPT ![p] = h] /\ h.file = f
      BY <1>3, <2>4, <2>5, Zenon
    <3>2. bridge'[f].at \in 1..clock' /\ Len(t) = Len(FileEvents[f]) + 1
      BY <1>2, <1>3, <2>1, <2>3, <2>4, Zenon
    <3>. QED
      BY <3>1, <3>2
  <2>7. Len(t) <= Len(FileEvents[h.file]) + 1 /\ bridge'[h.file].at \in 1..clock' /\ h.file \in Files
    <3>1. Len(FileEvents[f]) \in Nat
      BY LedgerAssumption
    <3>. QED
      BY <2>6, <3>1
  <2>8. /\ Head(t) # "apply" /\ Head(t) # "append" /\ \A i \in 1..Len(t) : t[i] = "view" => h.ev = None
    BY <2>4
  <2>9. Plain(t)
    BY <2>4
  <2>10. proc' \in [Procs -> Handlers] /\ \A q \in Procs : HandlerOK(q)'
    BY <1>1, <2>2, <2>6, <2>7, <2>8, <2>9, BeganOK
  <2>11. StateOK'
    BY <1>1, <1>2, <2>1, <2>10 DEF StateOK
  <2>12. LedgerOK'
    BY <1>1, <1>2, <2>1 DEF LedgerOK
  <2>. QED
    BY <2>2, <2>10, <2>11, <2>12 DEF TypeInv
<1>5. CASE bridge[f].state # "whole"
  <2>1. /\ Remove(f) /\ Fail(p) /\ UNCHANGED session
        /\ GiveUp(f) \/ history' = history
    BY <1>3, <1>5 DEF IngestRead
  <2>2. bridge' \in [Files -> Bridges] /\ Dated /\ FilesDated'
    BY <1>1, <1>2, <2>1, RemoveStep
  <2>3. history' \in Histories
    BY <1>1, <2>1, GiveUpStep DEF StateOK
  <2>4. proc' \in [Procs -> Handlers] /\ \A q \in Procs : HandlerOK(q)'
    BY <1>1, <2>1, <2>2, EndOK
  <2>. QED
    BY <1>1, <1>2, <2>1, <2>2, <2>3, <2>4 DEF TypeInv, StateOK, LedgerOK
<1>. QED
  BY <1>4, <1>5

\* The rest.
LEMMA TypeRest ==
  ASSUME TypeInv, Purge \/ \E p \in Procs : IngestRemove(p) \/ Crash(p)
  PROVE  TypeInv'
<1>1. /\ StateOK /\ LedgerOK /\ FilesDated /\ (\A q \in Procs : HandlerOK(q)) /\ clock \in Nat
  BY DEF TypeInv, StateOK
<1>2. CASE Purge
  <2>1. PICK f \in Files : Remove(f) /\ GiveUp(f) /\ UNCHANGED <<session, rows, decisions, snap, clock, proc>>
    BY <1>2 DEF Purge
  <2>2. bridge' \in [Files -> Bridges] /\ Dated /\ FilesDated' /\ history' \in Histories
    BY <1>1, <2>1, RemoveStep, GiveUpStep
  <2>3. ASSUME NEW q \in Procs PROVE HandlerOK(q)'
    BY <1>1, <2>1, <2>2, OthersOK
  <2>. QED
    BY <1>1, <2>1, <2>2, <2>3 DEF TypeInv, StateOK, LedgerOK
<1>3. ASSUME NEW p \in Procs, IngestRemove(p) PROVE TypeInv'
  <2>1. At(p, "remove") /\ Step(p) /\ UNCHANGED <<session, rows, decisions, snap, clock, history>>
    BY <1>3 DEF IngestRemove
  <2>2. PICK f \in Files : f = proc[p].file
    BY <1>1, <2>1 DEF HandlerOK
  <2>3. bridge' \in [Files -> Bridges] /\ Dated /\ FilesDated'
    BY <1>1, <1>3, <2>1, <2>2, RemoveStep DEF IngestRemove
  <2>4. proc' \in [Procs -> Handlers] /\ \A q \in Procs : HandlerOK(q)'
    BY <1>1, <2>1, <2>3, StepGoes, MoveOK
  <2>. QED
    BY <1>1, <2>1, <2>3, <2>4 DEF TypeInv, StateOK, LedgerOK
<1>4. ASSUME NEW p \in Procs, Crash(p) PROVE TypeInv'
  <2>1. Fail(p) /\ UNCHANGED <<session, rows, decisions, snap, bridge, clock, history>>
    BY <1>4 DEF Crash
  <2>2. Dated /\ FilesDated'
    BY <1>1, <2>1, DatedOK
  <2>3. proc' \in [Procs -> Handlers] /\ \A q \in Procs : HandlerOK(q)'
    BY <1>1, <2>1, <2>2, EndOK
  <2>. QED
    BY <1>1, <2>1, <2>2, <2>3 DEF TypeInv, StateOK, LedgerOK
<1>. QED
  BY <1>2, <1>3, <1>4

\* Every step keeps the types.
LEMMA TypeStep == TypeInv /\ [Next]_vars => TypeInv'
<1>. SUFFICES ASSUME TypeInv, [Next]_vars PROVE TypeInv'
  OBVIOUS
<1>1. CASE UNCHANGED vars
  <2>1. ASSUME NEW p \in Procs PROVE HandlerOK(p)'
    BY <1>1 DEF TypeInv, vars, HandlerOK, At
  <2>2. StateOK' /\ LedgerOK' /\ FilesDated'
    BY <1>1 DEF TypeInv, vars, StateOK, LedgerOK, FilesDated
  <2>. QED
    BY <2>1, <2>2 DEF TypeInv
<1>. QED
  BY <1>1, TypeClear, TypeRest, TypeStartHook, TypeStartTool, TypeAppend, TypeCurate,
     TypeSnapshot, TypeRead, TypeMark, TypeStartWrite, TypeFinishWrite, TypeStartIngest,
     TypeIngestRead DEF Next

\* The types, the retention limit, one row per event and no row without its session
\* (append_event, delete_session), whatever overlaps.
THEOREM TypeCorrect == Spec => []TypeOK
<1>1. TypeInv => TypeOK
  <2>. SUFFICES ASSUME TypeInv PROVE TypeOK
    OBVIOUS
  <2>1. snap # None => snap.consumed \in BOOLEAN /\ snap.ver \in 1..clock
    BY DEF TypeInv, StateOK
  <2>2. \A f \in Files : bridge[f].state \in {"none", "partial", "whole"}
    BY DEF TypeInv, StateOK, Bridges
  <2>3. \A r \in rows : r.ev \in Events
    BY DEF TypeInv, LedgerOK, Rows
  <2>. QED
    BY <2>1, <2>2, <2>3 DEF TypeInv, StateOK, LedgerOK, TypeOK
<1>. QED
  BY <1>1, TypeInit, TypeStep, PTL DEF Spec

-----------------------------------------------------------------------------
(* Decisions.                                                              *)

\* What a step may do to the ledger.
SameLedger ==
  /\ UNCHANGED <<rows, decisions>>
  /\ history'.top = history.top /\ history'.lost = history.lost /\ history'.kept = history.kept

\* The ledger changes in a transaction of append_event, of compact_session_events, or
\* of delete_session.
LEMMA LedgerSteps ==
  ASSUME TypeInv, [Next]_vars
  PROVE  \/ \E e \in Events, at \in 1..clock + 1 : session /\ session' /\ Store(e, at)
         \/ Clear
         \/ \E p \in Procs : Apply(p)
         \/ SameLedger
<1>1. StateOK /\ (\A q \in Procs : HandlerOK(q)) /\ clock \in Nat /\ history \in Histories
  BY DEF TypeInv, StateOK
<1>2. CASE UNCHANGED vars
  BY <1>2 DEF vars, SameLedger
<1>3. CASE Purge
  <2>1. PICK f \in Files : GiveUp(f) /\ UNCHANGED <<rows, decisions>>
    BY <1>3 DEF Purge
  <2>. QED
    BY <1>1, <2>1, GiveUpStep DEF SameLedger
<1>4. ASSUME NEW p \in Procs,
             \/ StartHook(p) \/ StartTool(p) \/ StartSessionResume(p) \/ Curate(p)
             \/ CurationFails(p) \/ Handoff(p) \/ View(p) \/ StartWrite(p) \/ StartIngest(p)
             \/ IngestRemove(p) \/ Crash(p)
      PROVE  SameLedger
  BY <1>4 DEF StartHook, StartTool, StartSessionResume, Curate, CurationFails, Handoff, View,
              StartWrite, StartIngest, IngestRemove, Crash, SameLedger
<1>5. ASSUME NEW p \in Procs, AppendEvent(p) \/ RecordResume(p)
      PROVE  SameLedger \/ \E e \in Events, at \in 1..clock + 1 : session /\ session' /\ Store(e, at)
  <2>1. CASE ~session
    BY <1>5, <2>1 DEF AppendEvent, RecordResume, SameLedger
  <2>2. CASE session
    <3>0. session' = session
      BY <1>5 DEF AppendEvent, RecordResume
    <3>1. session' /\ clock + 1 \in 1..clock + 1
      BY <1>1, <2>2, <3>0
    <3>2. \E e \in Events : Store(e, clock + 1)
      <4>1. CASE AppendEvent(p)
        BY <1>1, <2>2, <4>1 DEF AppendEvent, HandlerOK
      <4>2. CASE RecordResume(p)
        BY <2>2, <4>2 DEF RecordResume, Events
      <4>. QED
        BY <1>5, <4>1, <4>2
    <3>. QED
      BY <2>2, <3>1, <3>2
  <2>. QED
    BY <2>1, <2>2
<1>6. ASSUME NEW p \in Procs, Deliver(p)
      PROVE  SameLedger \/ \E e \in Events, at \in 1..clock + 1 : session /\ session' /\ Store(e, at)
  <2>0. At(p, "deliver") /\ session' = session
    BY <1>6 DEF Deliver
  <2>1. PICK e \in Events :
          e = FileEvents[proc[p].file][Len(FileEvents[proc[p].file]) + 2 - Len(proc[p].todo)]
    BY <1>1, <2>0, DeliverFacts
  <2>2. PICK at \in 1..clock + 1 : at = bridge[proc[p].file].at
    <3>1. bridge[proc[p].file].at \in 1..clock
      BY <1>1, <2>0, DeliverFacts
    <3>. QED
      BY <1>1, <3>1
  <2>3. CASE session
    <3>1. Store(e, at)
      BY <1>6, <2>1, <2>2, <2>3 DEF Deliver
    <3>. QED
      BY <2>0, <2>3, <3>1
  <2>4. CASE ~session
    <3>1. /\ history' = [history EXCEPT !.settled = history.settled \cup {e}]
          /\ UNCHANGED <<rows, decisions>>
      BY <1>6, <2>1, <2>4 DEF Deliver
    <3>. QED
      BY <1>1, <3>1 DEF Histories, SameLedger
  <2>. QED
    BY <2>3, <2>4
<1>7. ASSUME NEW p \in Procs, Snapshot(p) \/ Load(p) \/ GetOrBuild(p) \/ Mark(p) PROVE SameLedger
  <2>1. /\ UNCHANGED <<rows, decisions>>
        /\ \/ history' = history
           \/ \E x : history' = [history EXCEPT !.shown = x]
           \/ \E x : history' = [history EXCEPT !.overtaken = x]
    <3>1. CASE Snapshot(p)
      BY <3>1 DEF Snapshot
    <3>2. CASE Load(p)
      BY <3>2 DEF Load, Show
    <3>3. CASE GetOrBuild(p)
      BY <3>3 DEF GetOrBuild, Show
    <3>4. CASE Mark(p)
      BY <3>4 DEF Mark
    <3>. QED
      BY <1>7, <3>1, <3>2, <3>3, <3>4
  <2>2. ASSUME NEW x, history' = [history EXCEPT !.shown = x] PROVE SameLedger
    BY <1>1, <2>1, <2>2 DEF Histories, SameLedger
  <2>3. ASSUME NEW x, history' = [history EXCEPT !.overtaken = x] PROVE SameLedger
    BY <1>1, <2>1, <2>3 DEF Histories, SameLedger
  <2>. QED
    BY <2>1, <2>2, <2>3 DEF SameLedger
<1>8. ASSUME NEW p \in Procs, FinishWrite(p) PROVE SameLedger
  <2>1. FilesDated /\ HandlerOK(p) /\ UNCHANGED <<rows, decisions>>
    BY <1>8 DEF TypeInv, FinishWrite
  <2>. QED
    BY <1>1, <1>8, <2>1, FinishWriteStep DEF SameLedger
<1>9. ASSUME NEW p \in Procs, IngestRead(p) PROVE SameLedger
  <2>1. UNCHANGED <<rows, decisions>> /\ At(p, "read")
    BY <1>9 DEF IngestRead
  <2>2. PICK f \in Files : f = proc[p].file
    BY <1>1, <2>1 DEF HandlerOK
  <2>3. history' = history \/ GiveUp(f)
    BY <1>9, <2>2 DEF IngestRead
  <2>. QED
    BY <1>1, <2>1, <2>3, GiveUpStep DEF SameLedger
<1>. QED
  BY <1>2, <1>3, <1>4, <1>5, <1>6, <1>7, <1>8, <1>9 DEF Next

\* A decision that append_event wrote to decision_memory has a row there until the
\* session is cleared: the deletions set its event_id to NULL, and a later event of the
\* same decision_id replaces its text.
THEOREM DecisionsAreRemembered == Spec => []DecisionOutlivesItsEvent
<1>1. Init => DecisionOutlivesItsEvent
  BY DEF Init, DecisionOutlivesItsEvent
<1>2. ASSUME TypeInv, DecisionOutlivesItsEvent, [Next]_vars PROVE DecisionOutlivesItsEvent'
  <2>1. StateOK /\ LedgerOK /\ clock \in Nat /\ history \in Histories
    BY <1>2 DEF TypeInv, StateOK
  <2>2. ASSUME NEW e \in Events, NEW at \in 1..clock + 1, Store(e, at)
        PROVE  DecisionOutlivesItsEvent'
    <3>0. at \in Nat
      BY <2>1
    <3>1. PICK ok \in BOOLEAN : DecisionsKept(e, at, ok)
      BY <2>1, <2>2, <3>0, StoreEffect
    <3>2. CASE ok /\ IsKept(e, at) /\ IsDecision(e)
      <4>1. decisions' = Upsert(decisions, e) /\ history'.kept = history.kept \cup {e}
        BY <3>1, <3>2 DEF DecisionsKept
      <4>2. e \in decisions' /\ \A d \in decisions : d.key # e.key => d \in decisions'
        BY <4>1 DEF Upsert
      <4>. QED
        BY <1>2, <4>1, <4>2 DEF DecisionOutlivesItsEvent
    <3>3. CASE ~(ok /\ IsKept(e, at) /\ IsDecision(e))
      <4>1. /\ decisions' = decisions
            /\ \A x \in history'.kept : IsDecision(x) => x \in history.kept
        BY <3>1, <3>3 DEF DecisionsKept
      <4>. QED
        BY <1>2, <4>1 DEF DecisionOutlivesItsEvent
    <3>. QED
      BY <3>2, <3>3
  <2>3. CASE Clear
    <3>1. history' = [history EXCEPT !.top = [g \in Groups |-> 0], !.lost = {}, !.kept = {}]
      BY <2>3 DEF Clear
    <3>2. history'.kept = {}
      BY <2>1, <3>1 DEF Histories
    <3>. QED
      BY <3>2 DEF DecisionOutlivesItsEvent
  <2>4. ASSUME NEW p \in Procs, Apply(p) PROVE DecisionOutlivesItsEvent'
    BY <1>2, <2>4 DEF Apply, DecisionsAfter, DecisionOutlivesItsEvent
  <2>5. CASE SameLedger
    BY <1>2, <2>5 DEF SameLedger, DecisionOutlivesItsEvent
  <2>. QED
    BY <1>2, <2>2, <2>3, <2>4, <2>5, LedgerSteps
<1>. QED
  BY <1>1, <1>2, TypeInit, TypeStep, PTL DEF Spec

-----------------------------------------------------------------------------
(* Resume snapshots.                                                       *)

\* Versions grow, and what was shown stays so.
Later ==
  /\ clock <= clock' /\ history.shown \subseteq history'.shown
  /\ history.overtaken \subseteq history'.overtaken
  /\ snap' # None => \/ snap # None /\ snap'.ver = snap.ver
                     \/ snap'.ver = clock + 1 /\ clock' = clock + 1

\* A snapshot replaces the one before, is marked, or goes with its session.
LEMMA SnapSteps ==
  ASSUME TypeInv, [Next]_vars
  PROVE  /\ Later
         /\ \/ snap' = snap \/ snap' = None
            \/ \E p \in Procs : (Snapshot(p) /\ session) \/ (Mark(p) /\ snap # None)
<1>1. /\ StateOK /\ LedgerOK /\ FilesDated /\ (\A q \in Procs : HandlerOK(q)) /\ clock \in Nat
      /\ history \in Histories
  BY DEF TypeInv, StateOK
<1>2. ASSUME clock' = clock \/ clock' = clock + 1, snap' = snap \/ snap' = None,
             history.shown \subseteq history'.shown, history.overtaken \subseteq history'.overtaken
      PROVE  Later /\ (snap' = snap \/ snap' = None)
  BY <1>1, <1>2 DEF Later
<1>3. CASE Clear
  <2>1. history' = [history EXCEPT !.top = [g \in Groups |-> 0], !.lost = {}, !.kept = {}]
    BY <1>3 DEF Clear
  <2>2. history'.shown = history.shown /\ history'.overtaken = history.overtaken
    BY <1>1, <2>1 DEF Histories
  <2>. QED
    BY <1>2, <1>3, <2>2 DEF Clear
<1>4. CASE Purge
  <2>1. PICK f \in Files : GiveUp(f) /\ UNCHANGED <<snap, clock>>
    BY <1>4 DEF Purge
  <2>2. history'.shown = history.shown /\ history'.overtaken = history.overtaken
    BY <1>1, <2>1, GiveUpStep
  <2>. QED
    BY <1>2, <2>1, <2>2
<1>5. ASSUME NEW p \in Procs,
             \/ StartHook(p) \/ StartTool(p) \/ StartSessionResume(p) \/ Curate(p) \/ Apply(p)
             \/ CurationFails(p) \/ Handoff(p) \/ View(p) \/ StartWrite(p) \/ StartIngest(p)
             \/ IngestRemove(p) \/ Crash(p)
      PROVE  Later /\ (snap' = snap \/ snap' = None)
  <2>1. UNCHANGED <<snap, history>> /\ (clock' = clock \/ clock' = clock + 1)
    BY <1>5 DEF StartHook, StartTool, StartSessionResume, Curate, Apply, CurationFails, Handoff,
                View, StartWrite, StartIngest, IngestRemove, Crash
  <2>. QED
    BY <1>2, <2>1
<1>6. ASSUME NEW p \in Procs, AppendEvent(p) \/ RecordResume(p) \/ Deliver(p)
      PROVE  Later /\ (snap' = snap \/ snap' = None)
  <2>1. snap' = snap
    BY <1>6 DEF AppendEvent, RecordResume, Deliver
  <2>2. \/ \E e \in Events, at \in Nat : Store(e, at)
        \/ clock' = clock /\ history' = history
        \/ clock' = clock /\ \E e \in Events : history' = [history EXCEPT !.settled = @ \cup {e}]
    <3>1. CASE AppendEvent(p)
      BY <1>1, <3>1 DEF AppendEvent, HandlerOK
    <3>2. CASE RecordResume(p)
      BY <1>1, <3>2 DEF RecordResume, Events
    <3>3. CASE Deliver(p)
      <4>1. PICK e \in Events :
              e = FileEvents[proc[p].file][Len(FileEvents[proc[p].file]) + 2 - Len(proc[p].todo)]
        BY <1>1, <3>3, DeliverFacts DEF Deliver
      <4>2. PICK at \in Nat : at = bridge[proc[p].file].at
        <5>1. bridge[proc[p].file].at \in 1..clock
          BY <1>1, <3>3, DeliverFacts DEF Deliver
        <5>. QED
          BY <1>1, <5>1
      <4>. QED
        BY <3>3, <4>1, <4>2 DEF Deliver
    <3>. QED
      BY <1>6, <3>1, <3>2, <3>3
  <2>3. ASSUME NEW e \in Events, NEW at \in Nat, Store(e, at)
        PROVE  /\ clock' = clock \/ clock' = clock + 1
               /\ history'.shown = history.shown /\ history'.overtaken = history.overtaken
    BY <1>1, <2>3, StoreEffect
  <2>4. ASSUME NEW e \in Events, history' = [history EXCEPT !.settled = @ \cup {e}]
        PROVE  history'.shown = history.shown /\ history'.overtaken = history.overtaken
    BY <1>1, <2>4 DEF Histories
  <2>5. /\ clock' = clock \/ clock' = clock + 1
        /\ history'.shown = history.shown /\ history'.overtaken = history.overtaken
    BY <2>2, <2>3, <2>4
  <2>. QED
    BY <1>2, <2>1, <2>5
<1>7. ASSUME NEW p \in Procs, Load(p) \/ GetOrBuild(p)
      PROVE  Later /\ (snap' = snap \/ snap' = None)
  <2>1. /\ UNCHANGED <<snap, clock>>
        /\ history' = history \/ \E v : history' = [history EXCEPT !.shown = @ \cup {v}]
    BY <1>7 DEF Load, GetOrBuild, Show
  <2>2. ASSUME NEW v, history' = [history EXCEPT !.shown = @ \cup {v}]
        PROVE  history.shown \subseteq history'.shown /\ history'.overtaken = history.overtaken
    BY <1>1, <2>2 DEF Histories
  <2>. QED
    BY <1>2, <2>1, <2>2
<1>8. ASSUME NEW p \in Procs, Snapshot(p)
      PROVE  Later /\ (snap' = snap \/ (Snapshot(p) /\ session))
  <2>1. CASE session
    <3>1. clock' = clock + 1 /\ snap' = [ver |-> clock + 1, consumed |-> FALSE]
      BY <1>8, <2>1 DEF Snapshot, Put
    <3>2. \E x : history' = [history EXCEPT !.shown = history.shown \cup x]
      <4>1. history' = [history EXCEPT !.shown = history.shown \cup
              (IF proc[p].ev = None THEN {clock + 1} ELSE {})]
        BY <1>8, <2>1 DEF Snapshot
      <4>. QED
        BY <4>1
    <3>3. ASSUME NEW x, history' = [history EXCEPT !.shown = history.shown \cup x]
          PROVE  history.shown \subseteq history'.shown /\ history'.overtaken = history.overtaken
      BY <1>1, <3>3 DEF Histories
    <3>4. snap'.ver = clock + 1
      BY <3>1
    <3>. QED
      BY <1>1, <1>8, <2>1, <3>1, <3>2, <3>3, <3>4 DEF Later
  <2>2. CASE ~session
    <3>1. UNCHANGED <<snap, clock, history>>
      BY <1>8, <2>2 DEF Snapshot
    <3>2. Later
      BY <1>1, <3>1 DEF Later
    <3>3. snap' = snap
      BY <3>1
    <3>. QED
      BY <3>2, <3>3, Zenon
  <2>. QED
    BY <2>1, <2>2
<1>9. ASSUME NEW p \in Procs, Mark(p)
      PROVE  Later /\ (snap' = snap \/ (Mark(p) /\ snap # None))
  <2>1. CASE snap = None
    <3>1. UNCHANGED <<snap, clock, history>>
      BY <1>9, <2>1 DEF Mark
    <3>2. Later
      BY <1>1, <3>1 DEF Later
    <3>3. snap' = snap
      BY <3>1
    <3>. QED
      BY <3>2, <3>3, Zenon
  <2>2. CASE snap # None
    <3>1. snap \in [ver : 1..clock, consumed : BOOLEAN]
      BY <1>1, <2>2 DEF StateOK
    <3>2. snap' = [snap EXCEPT !.consumed = TRUE] /\ clock' = clock
      BY <1>9, <2>2 DEF Mark
    <3>3. snap'.ver = snap.ver
      BY <3>1, <3>2
    <3>4. \E x : history' = [history EXCEPT !.overtaken = history.overtaken \cup x]
      <4>1. history' = [history EXCEPT !.overtaken = history.overtaken \cup
              (IF snap.ver > proc[p].ver THEN {snap.ver} ELSE {})]
        BY <1>9, <2>2 DEF Mark
      <4>. QED
        BY <4>1
    <3>5. ASSUME NEW x, history' = [history EXCEPT !.overtaken = history.overtaken \cup x]
          PROVE  history.overtaken \subseteq history'.overtaken /\ history'.shown = history.shown
      BY <1>1, <3>5 DEF Histories
    <3>. QED
      BY <1>1, <1>9, <2>2, <3>2, <3>3, <3>4, <3>5 DEF Later
  <2>. QED
    BY <2>1, <2>2
<1>10. ASSUME NEW p \in Procs, FinishWrite(p) PROVE Later /\ (snap' = snap \/ snap' = None)
  <2>1. UNCHANGED <<snap, clock>>
    BY <1>10 DEF FinishWrite
  <2>2. history'.shown = history.shown /\ history'.overtaken = history.overtaken
    BY <1>1, <1>10, FinishWriteStep
  <2>. QED
    BY <1>2, <2>1, <2>2
<1>11. ASSUME NEW p \in Procs, IngestRead(p) PROVE Later /\ (snap' = snap \/ snap' = None)
  <2>1. UNCHANGED <<snap, clock>> /\ At(p, "read")
    BY <1>11 DEF IngestRead
  <2>2. PICK f \in Files : f = proc[p].file
    BY <1>1, <2>1 DEF HandlerOK
  <2>3. history' = history \/ GiveUp(f)
    BY <1>11, <2>2 DEF IngestRead
  <2>4. history'.shown = history.shown /\ history'.overtaken = history.overtaken
    BY <1>1, <2>3, GiveUpStep
  <2>. QED
    BY <1>2, <2>1, <2>4
<1>12. CASE UNCHANGED vars
  BY <1>2, <1>12 DEF vars
<1>. QED
  BY <1>3, <1>4, <1>5, <1>6, <1>7, <1>8, <1>9, <1>10, <1>11, <1>12 DEF Next

\* A reader that keeps what it has in hand.
LEMMA ReaderStays ==
  ASSUME StateOK, StateOK', Later, NEW q \in Procs, Reader(q), proc'[q].ver = proc[q].ver,
         At(q, "view")' \/ At(q, "mark")' => proc[q].ver \in history.shown
  PROVE  Reader(q)'
<1>1. clock \in Nat /\ clock' \in Nat /\ proc[q].ver \in Nat
  BY DEF StateOK, Handlers
<1>2. proc'[q].ver <= clock'
  <2>1. PICK v \in Nat : v = proc[q].ver
    BY <1>1
  <2>2. v <= clock /\ clock <= clock'
    BY <2>1 DEF Reader, Later
  <2>. QED
    BY <1>1, <2>1, <2>2
<1>3. snap' # None => proc'[q].ver <= snap'.ver
  <2>1. PICK v \in Nat : v = proc[q].ver
    BY <1>1
  <2>2. v <= clock /\ (snap # None => v <= snap.ver)
    BY <2>1 DEF Reader
  <2>3. snap' # None => \/ snap # None /\ snap'.ver = snap.ver
                        \/ snap'.ver = clock + 1
    BY DEF Later
  <2>4. v <= clock + 1
    BY <1>1, <2>2
  <2>. QED
    BY <2>1, <2>2, <2>3, <2>4
<1>4. At(q, "view")' \/ At(q, "mark")' => proc'[q].ver \in history'.shown
  BY DEF Later
<1>. QED
  BY <1>2, <1>3, <1>4 DEF Reader

\* A process without a handler has nothing in hand.
LEMMA ReaderIdle ==
  ASSUME StateOK', NEW q \in Procs, proc'[q] = Idle
  PROVE  Reader(q)'
<1>1. proc'[q].ver = 0 /\ proc'[q].todo = <<>> /\ clock' \in Nat
  BY IdleFacts DEF StateOK
<1>2. snap' # None => snap'.ver \in Nat
  BY DEF StateOK
<1>. QED
  BY <1>1, <1>2 DEF Reader, At

\* A handler that begins.
LEMMA ReaderBegins ==
  ASSUME StateOK', NEW q \in Procs, proc'[q].ver = 0, proc'[q].todo # <<>>,
         Head(proc'[q].todo) \notin {"view", "mark"}
  PROVE  Reader(q)'
<1>1. clock' \in Nat
  BY DEF StateOK
<1>2. snap' # None => snap'.ver \in Nat
  BY DEF StateOK
<1>. QED
  BY <1>1, <1>2 DEF Reader, At

\* A step that is not about a snapshot.
LEMMA ReaderGoes ==
  ASSUME StateOK, StateOK', Later, Dated, NEW p \in Procs, HandlerOK(p), Reader(p),
         NEW step, At(p, step),
         step \notin {"load", "get_or_build", "snapshot"}, Goes(p),
         proc'[p] = Idle \/ proc'[p].ver = proc[p].ver,
         step = "curate" => proc'[p].plan \in Plans
  PROVE  Reader(p)'
<1>1. proc'[p] = Idle \/ <<step, Head(proc'[p].todo)>> \in Follow
  BY GoesOK
<1>2. CASE proc'[p] = Idle
  BY <1>2, ReaderIdle
<1>3. CASE proc'[p] # Idle
  <2>1. <<step, Head(proc'[p].todo)>> \in Follow /\ proc'[p].ver = proc[p].ver
    BY <1>1, <1>3
  <2>2. Head(proc'[p].todo) \in {"view", "mark"} => step = "view"
    BY <2>1 DEF Follow
  <2>3. At(p, "view")' \/ At(p, "mark")' => proc[p].ver \in history.shown
    BY <2>2 DEF At, Reader
  <2>. QED
    BY <2>1, <2>3, ReaderStays
<1>. QED
  BY <1>2, <1>3

\* What the handler that moves has in hand.
LEMMA ReaderMoves ==
  ASSUME TypeInv, ResumeInv, TypeInv', Later, NEW p \in Procs,
         \/ StartHook(p) \/ StartTool(p) \/ StartSessionResume(p)
         \/ AppendEvent(p) \/ RecordResume(p) \/ Curate(p) \/ Apply(p) \/ CurationFails(p)
         \/ Snapshot(p) \/ Handoff(p) \/ Load(p) \/ GetOrBuild(p) \/ View(p) \/ Mark(p)
         \/ StartWrite(p) \/ FinishWrite(p)
         \/ StartIngest(p) \/ IngestRead(p) \/ Deliver(p) \/ IngestRemove(p)
         \/ Crash(p)
  PROVE  Reader(p)' /\ \A q \in Procs : q # p => proc'[q] = proc[q]
<1>1. /\ StateOK /\ StateOK' /\ HandlerOK(p) /\ Reader(p) /\ FilesDated /\ clock \in Nat
      /\ proc \in [Procs -> Handlers]
  BY DEF TypeInv, ResumeInv, StateOK
<1>2. ASSUME NEW h, Begin(p, h), h.ver = 0, h.todo # <<>>, Head(h.todo) \notin {"view", "mark"}
      PROVE  Reader(p)' /\ \A q \in Procs : q # p => proc'[q] = proc[q]
  <2>1. proc'[p] = h /\ \A q \in Procs : q # p => proc'[q] = proc[q]
    BY <1>1, <1>2 DEF Begin
  <2>. QED
    BY <1>1, <1>2, <2>1, ReaderBegins
<1>3. CASE StartHook(p)
  <2>1. PICK t \in HookPrograms, e \in HookEvents : Begin(p, [Idle EXCEPT !.todo = t, !.ev = e])
    BY <1>3 DEF StartHook
  <2>2. t # <<>> /\ Head(t) = "append"
    BY HookProgramFacts DEF Plain
  <2>3. PICK h : h = [Idle EXCEPT !.todo = t, !.ev = e]
    OBVIOUS
  <2>4. h.ver = 0 /\ h.todo = t
    BY <2>3, IdleFacts DEF Handlers
  <2>. QED
    BY <1>2, <2>1, <2>2, <2>3, <2>4
<1>4. CASE StartTool(p) \/ StartSessionResume(p)
  <2>1. PICK t : /\ Begin(p, [Idle EXCEPT !.todo = t]) /\ Plain(t)
                 /\ Head(t) \in {"curate", "get_or_build", "load"}
    BY <1>4, ToolProgramFacts DEF StartTool, StartSessionResume
  <2>2. t # <<>>
    BY <2>1 DEF Plain
  <2>3. PICK h : h = [Idle EXCEPT !.todo = t]
    OBVIOUS
  <2>4. h.ver = 0 /\ h.todo = t
    BY <2>3, IdleFacts DEF Handlers
  <2>. QED
    BY <1>2, <2>1, <2>2, <2>3, <2>4
<1>5. CASE StartWrite(p) \/ StartIngest(p)
  <2>1. PICK t, f : /\ Begin(p, [Idle EXCEPT !.todo = t, !.file = f])
                    /\ t = <<"write">> \/ t = <<"read">>
    BY <1>5 DEF StartWrite, StartIngest
  <2>2. t # <<>> /\ Head(t) \in {"write", "read"}
    BY <2>1
  <2>3. PICK h : h = [Idle EXCEPT !.todo = t, !.file = f]
    OBVIOUS
  <2>4. h.ver = 0 /\ h.todo = t
    BY <2>3, IdleFacts DEF Handlers
  <2>. QED
    BY <1>2, <2>1, <2>2, <2>3, <2>4
<1>6. ASSUME Goes(p) PROVE \A q \in Procs : q # p => proc'[q] = proc[q]
  BY <1>1, <1>6, GoesTypes
<1>7. ASSUME Fail(p) PROVE Reader(p)' /\ \A q \in Procs : q # p => proc'[q] = proc[q]
  BY <1>1, <1>6, <1>7, FailGoes, ReaderIdle
<1>8. Dated
  <2>1. CASE bridge' = bridge
    BY <1>1, <2>1, DatedOK DEF Later, TypeInv, StateOK
  <2>2. CASE StartWrite(p)
    <3>1. PICK f \in Files : /\ bridge[f] = [state |-> "none", at |-> 0]
                             /\ bridge' = [bridge EXCEPT ![f] = [state |-> "partial", at |-> clock + 1]]
      BY <2>2 DEF StartWrite
    <3>0. bridge \in [Files -> Bridges] /\ clock' = clock + 1 /\ bridge[f].at = 0
      <4>1. bridge \in [Files -> Bridges]
        BY <1>1 DEF StateOK
      <4>2. clock' = clock + 1
        BY <2>2 DEF StartWrite
      <4>3. bridge[f].at = 0
        BY <3>1
      <4>. QED
        BY <4>1, <4>2, <4>3
    <3>2. bridge[f].at = 0 /\ clock' = clock + 1 /\ \A g \in Files : g # f => bridge'[g] = bridge[g]
      BY <3>0, <3>1
    <3>3. ASSUME NEW g \in Files, bridge[g].at \in 1..clock PROVE bridge'[g].at \in 1..clock'
      BY <1>1, <3>2, <3>3
    <3>. QED
      BY <3>3 DEF Dated
  <2>3. CASE FinishWrite(p)
    BY <1>1, <2>3, FinishWriteStep
  <2>4. CASE IngestRead(p) \/ IngestRemove(p)
    <3>1. PICK f \in Files : f = proc[p].file
      BY <1>1, <2>4 DEF HandlerOK, IngestRead, IngestRemove
    <3>2. clock' = clock /\ (bridge' = bridge \/ Remove(f))
      BY <2>4, <3>1 DEF IngestRead, IngestRemove
    <3>. QED
      BY <1>1, <2>1, <3>2, RemoveStep
  <2>. QED
    BY <2>1, <2>2, <2>3, <2>4 DEF StartHook, StartTool, StartSessionResume, AppendEvent,
       RecordResume, Curate, Apply, CurationFails, Snapshot, Handoff, Load, GetOrBuild, View,
       Mark, StartIngest, Deliver, Crash
<1>9. ASSUME NEW step, At(p, step), Step(p), step \notin {"load", "get_or_build", "snapshot", "curate"}
      PROVE  Reader(p)' /\ \A q \in Procs : q # p => proc'[q] = proc[q]
  <2>1. Goes(p) /\ (proc'[p] = Idle \/ proc'[p].ver = proc[p].ver)
    BY <1>1, <1>9, StepGoes
  <2>. QED
    BY <1>1, <1>6, <1>8, <1>9, <2>1, ReaderGoes
<1>10. CASE AppendEvent(p) \/ RecordResume(p) \/ Mark(p) \/ FinishWrite(p) \/ Deliver(p)
            \/ IngestRemove(p) \/ View(p) \/ Crash(p)
  BY <1>7, <1>9, <1>10 DEF AppendEvent, RecordResume, Mark, FinishWrite, Deliver, IngestRemove,
                           View, Crash
<1>11. CASE Curate(p)
  <2>1. Goes(p) /\ proc'[p].ver = proc[p].ver /\ proc'[p].plan \in Plans /\ At(p, "curate")
    BY <1>11, CurateGoes DEF Curate
  <2>. QED
    BY <1>1, <1>6, <1>8, <2>1, ReaderGoes
<1>12. CASE Apply(p) \/ CurationFails(p)
  <2>1. Goes(p) /\ (proc'[p] = Idle \/ proc'[p].ver = proc[p].ver) /\ At(p, "apply")
    BY <1>12, ApplyGoes
  <2>. QED
    BY <1>1, <1>6, <1>8, <2>1, ReaderGoes
<1>13. CASE Snapshot(p)
  <2>1. CASE ~session
    BY <1>7, <1>13, <2>1 DEF Snapshot
  <2>2. CASE session
    <3>1. /\ Goes(p) /\ At(p, "snapshot")
          /\ \/ proc'[p] = Idle
             \/ proc'[p].todo = Tail(proc[p].todo) /\ proc'[p].ver = clock + 1
      BY <1>13, <2>2, SnapshotGoes
    <3>2. CASE proc'[p] = Idle
      BY <1>1, <1>6, <3>1, <3>2, ReaderIdle
    <3>3. CASE proc'[p] # Idle
      <4>1. clock' = clock + 1 /\ snap' = [ver |-> clock + 1, consumed |-> FALSE]
        BY <1>13, <2>2 DEF Snapshot, Put
      <4>2. <<"snapshot", Head(proc'[p].todo)>> \in Follow
        BY <1>1, <1>8, <3>1, <3>3, GoesOK
      <4>3. Head(proc'[p].todo) # "mark"
        BY <4>2 DEF Follow
      <4>4. ASSUME At(p, "view")' PROVE clock + 1 \in history'.shown
        <5>1. HandlerOK(p)'
          BY DEF TypeInv
        <5>2. 1 \in 1..Len(proc'[p].todo) /\ proc'[p].todo[1] = "view"
          <6>1. PICK u \in Seq(Names) : u = proc'[p].todo
            BY <1>1 DEF StateOK, Handlers
          <6>2. u # <<>> /\ Head(u) = "view"
            BY <4>4, <6>1 DEF At
          <6>3. Len(u) \in Nat \ {0} /\ u[1] = "view"
            BY <6>2, TailFacts
          <6>. QED
            BY <6>1, <6>3
        <5>3. proc'[p].ev = None
          BY <5>1, <5>2 DEF HandlerOK
        <5>4. proc[p].ev = None
          BY <3>1, <3>3, <5>3 DEF Goes
        <5>5. history' = [history EXCEPT !.shown = history.shown \cup {clock + 1}]
          BY <1>13, <2>2, <5>4 DEF Snapshot
        <5>. QED
          BY <1>1, <5>5 DEF StateOK, Histories
      <4>5. proc'[p].ver = clock + 1 /\ proc'[p].ver <= clock' /\ snap'.ver = clock + 1
        BY <1>1, <3>1, <3>3, <4>1
      <4>6. proc'[p].ver <= snap'.ver
        BY <1>1, <4>5
      <4>7. Reader(p)'
        BY <4>3, <4>4, <4>5, <4>6 DEF Reader, At
      <4>. QED
        BY <1>6, <3>1, <4>7
    <3>. QED
      BY <3>2, <3>3
  <2>. QED
    BY <2>1, <2>2
<1>14. CASE (Load(p) \/ GetOrBuild(p)) /\ snap # None /\ Show(p, snap.ver)
  <2>1. PICK v \in 1..clock : v = snap.ver
    BY <1>1, <1>14 DEF StateOK
  <2>2. Show(p, v) /\ v \in Nat /\ (At(p, "load") \/ At(p, "get_or_build"))
    BY <1>1, <1>14, <2>1 DEF Load, GetOrBuild
  <2>3. Goes(p) /\ proc'[p].ver = v /\ history' = [history EXCEPT !.shown = @ \cup {v}]
    BY <1>1, <2>2, ShowGoes
  <2>4. v \in history'.shown
    BY <1>1, <2>3 DEF StateOK, Histories
  <2>5. UNCHANGED <<snap, clock>>
    BY <1>14 DEF Load, GetOrBuild
  <2>6. v <= clock' /\ v <= snap'.ver
    BY <1>1, <2>1, <2>5
  <2>7. Reader(p)'
    BY <2>3, <2>4, <2>6 DEF Reader
  <2>. QED
    BY <1>6, <2>3, <2>7
<1>15. CASE (Handoff(p) \/ GetOrBuild(p)) /\ snap = None
  <2>1. PICK t : /\ Plain(t) /\ Head(t) = "curate"
                 /\ proc'[p] = [proc[p] EXCEPT !.todo = t] /\ proc'[p] \in Handlers
                 /\ proc'[p].todo = t /\ proc'[p].ver = proc[p].ver /\ proc'[p].ev = proc[p].ev
                 /\ proc' = [proc EXCEPT ![p] = proc'[p]]
                 /\ \A i \in 1..Len(t) : t[i] = "view" => proc[p].ev = None
    BY <1>15, RebuildGoes, Zenon
  <2>2. /\ Head(proc'[p].todo) = "curate" /\ proc'[p].ver = proc[p].ver
        /\ proc' = [proc EXCEPT ![p] = proc'[p]]
    BY <2>1, Zenon
  <2>3. Reader(p)'
    BY <1>1, <2>2, ReaderStays DEF At
  <2>4. \A q \in Procs : q # p => proc'[q] = proc[q]
    BY <1>1, <2>2
  <2>. QED
    BY <2>3, <2>4
<1>16. CASE Handoff(p) /\ snap # None
  BY <1>9, <1>16 DEF Handoff
<1>17. CASE Load(p) /\ Fail(p)
  BY <1>7, <1>17
<1>18. CASE IngestRead(p)
  <2>1. CASE bridge[proc[p].file].state # "whole"
    BY <1>7, <1>18, <2>1 DEF IngestRead
  <2>2. CASE bridge[proc[p].file].state = "whole"
    <3>1. PICK t : /\ Plain(t) /\ Head(t) \in {"deliver", "remove"}
                   /\ \A i \in 1..Len(t) : t[i] # "view"
                   /\ Len(t) = Len(FileEvents[proc[p].file]) + 1
                   /\ proc'[p] = [proc[p] EXCEPT !.todo = t] /\ proc'[p] \in Handlers
                   /\ proc'[p].todo = t /\ proc'[p].file = proc[p].file
                   /\ proc'[p].ver = proc[p].ver
                   /\ proc' = [proc EXCEPT ![p] = proc'[p]]
      BY <1>18, <2>2, IngestBegins, Zenon
    <3>2. /\ Head(proc'[p].todo) \in {"deliver", "remove"} /\ proc'[p].ver = proc[p].ver
          /\ proc' = [proc EXCEPT ![p] = proc'[p]]
      BY <3>1, Zenon
    <3>3. Reader(p)'
      BY <1>1, <3>2, ReaderStays DEF At
    <3>4. \A q \in Procs : q # p => proc'[q] = proc[q]
      BY <1>1, <3>2
    <3>. QED
      BY <3>3, <3>4
  <2>. QED
    BY <2>1, <2>2
<1>19. CASE Load(p)
  BY <1>14, <1>17, <1>19 DEF Load
<1>20. CASE GetOrBuild(p)
  BY <1>14, <1>15, <1>20 DEF GetOrBuild
<1>. QED
  BY <1>3, <1>4, <1>5, <1>10, <1>11, <1>12, <1>13, <1>15, <1>16, <1>18, <1>19, <1>20

\* Every step keeps them.
LEMMA ResumeStep ==
  ASSUME TypeInv, ResumeInv, TypeInv', [Next]_vars
  PROVE  ResumeInv'
<1>1. /\ StateOK /\ StateOK' /\ ConsumedWasLoaded /\ (\A q \in Procs : Reader(q)) /\ clock \in Nat
      /\ history \in Histories
  BY DEF TypeInv, ResumeInv, StateOK
<1>2. /\ Later
      /\ \/ snap' = snap \/ snap' = None
         \/ \E p \in Procs : (Snapshot(p) /\ session) \/ (Mark(p) /\ snap # None)
  BY SnapSteps
<1>3. ASSUME NEW q \in Procs PROVE Reader(q)'
  <2>1. CASE proc'[q] = proc[q]
    <3>1. At(q, "view")' \/ At(q, "mark")' => proc[q].ver \in history.shown
      BY <1>1, <2>1 DEF Reader, At
    <3>. QED
      BY <1>1, <1>2, <2>1, <3>1, ReaderStays
  <2>2. CASE Clear \/ Purge \/ UNCHANGED vars
    BY <2>1, <2>2 DEF Clear, Purge, vars
  <2>3. ASSUME NEW p \in Procs,
               \/ StartHook(p) \/ StartTool(p) \/ StartSessionResume(p)
               \/ AppendEvent(p) \/ RecordResume(p) \/ Curate(p) \/ Apply(p) \/ CurationFails(p)
               \/ Snapshot(p) \/ Handoff(p) \/ Load(p) \/ GetOrBuild(p) \/ View(p) \/ Mark(p)
               \/ StartWrite(p) \/ FinishWrite(p)
               \/ StartIngest(p) \/ IngestRead(p) \/ Deliver(p) \/ IngestRemove(p)
               \/ Crash(p)
        PROVE  Reader(q)'
    <3>1. Reader(p)' /\ \A x \in Procs : x # p => proc'[x] = proc[x]
      BY <1>2, <2>3, ReaderMoves
    <3>. QED
      BY <2>1, <3>1
  <2>. QED
    BY <2>2, <2>3 DEF Next
<1>4. ConsumedWasLoaded'
  <2>1. CASE snap' = snap
    BY <1>1, <1>2, <2>1 DEF ConsumedWasLoaded, Later
  <2>2. CASE snap' = None
    BY <2>2 DEF ConsumedWasLoaded
  <2>3. ASSUME NEW p \in Procs, Snapshot(p), session PROVE ConsumedWasLoaded'
    <3>1. snap' = [ver |-> clock + 1, consumed |-> FALSE]
      BY <2>3 DEF Snapshot, Put
    <3>. QED
      BY <3>1 DEF ConsumedWasLoaded
  <2>4. ASSUME NEW p \in Procs, Mark(p), snap # None PROVE ConsumedWasLoaded'
    <3>1. snap \in [ver : 1..clock, consumed : BOOLEAN] /\ proc[p].ver \in Nat
      BY <1>1, <2>4 DEF StateOK, Handlers
    <3>2. PICK v \in Nat : v = snap.ver
      BY <1>1, <3>1
    <3>3. snap' = [snap EXCEPT !.consumed = TRUE]
      BY <2>4 DEF Mark
    <3>4. snap'.ver = v
      BY <3>1, <3>2, <3>3
    <3>5. proc[p].ver \in history.shown /\ proc[p].ver <= v
      BY <1>1, <2>4, <3>2 DEF Reader, Mark
    <3>6. v > proc[p].ver => v \in history'.overtaken
      <4>1. ASSUME v > proc[p].ver PROVE v \in history'.overtaken
        <5>1. history' = [history EXCEPT !.overtaken = history.overtaken \cup {v}]
          BY <2>4, <3>2, <4>1 DEF Mark
        <5>. QED
          BY <1>1, <5>1 DEF Histories
      <4>. QED
        BY <4>1
    <3>7. v = proc[p].ver \/ v > proc[p].ver
      BY <3>1, <3>5
    <3>8. v \in history'.shown \cup history'.overtaken
      BY <1>2, <3>5, <3>6, <3>7 DEF Later
    <3>. QED
      BY <3>4, <3>8 DEF ConsumedWasLoaded
  <2>. QED
    BY <1>2, <2>1, <2>2, <2>3, <2>4
<1>. QED
  BY <1>3, <1>4 DEF ResumeInv

\* A consumed snapshot was read by someone, unless it replaced the one that was read
\* (mark_resume_consumed marks the snapshot of the session, whichever it is).
THEOREM ConsumedSnapshotsWereLoaded == Spec => []ConsumedWasLoaded
<1>1. Init => ResumeInv
  <2>. SUFFICES ASSUME Init PROVE ResumeInv
    OBVIOUS
  <2>1. ASSUME NEW p \in Procs PROVE Reader(p)
    <3>1. proc[p] = Idle /\ clock = 0 /\ snap = None
      BY DEF Init
    <3>2. proc[p].ver = 0 /\ proc[p].todo = <<>>
      BY <3>1, IdleFacts
    <3>. QED
      BY <3>1, <3>2 DEF Reader, At
  <2>2. ConsumedWasLoaded
    BY DEF Init, ConsumedWasLoaded
  <2>. QED
    BY <2>1, <2>2 DEF ResumeInv
<1>2. TypeInv /\ ResumeInv /\ TypeInv' /\ [Next]_vars => ResumeInv'
  BY ResumeStep
<1>3. ResumeInv => ConsumedWasLoaded
  BY DEF ResumeInv
<1>. QED
  BY <1>1, <1>2, <1>3, TypeInit, TypeStep, PTL DEF Spec

-----------------------------------------------------------------------------
(* Bridge files.                                                           *)

\* The step after one of a program.
LEMMA GoesFollow ==
  ASSUME StateOK, NEW p \in Procs, HandlerOK(p), NEW step, At(p, step), Goes(p), proc'[p].todo # <<>>
  PROVE  /\ <<step, Head(proc'[p].todo)>> \in Follow /\ proc'[p].todo = Tail(proc[p].todo)
         /\ proc'[p].ev = proc[p].ev /\ proc'[p].file = proc[p].file
<1>1. PICK t \in Seq(Names) : t = proc[p].todo
  BY AtFacts
<1>2. t # <<>> /\ Head(t) = step /\ WellFormed(t)
  BY <1>1 DEF At, HandlerOK
<1>3. /\ proc'[p].todo = Tail(t)
      /\ proc'[p].ev = proc[p].ev /\ proc'[p].file = proc[p].file
  BY <1>1, IdleFacts DEF Goes
<1>4. <<step, Head(Tail(t))>> \in Follow
  BY <1>2, <1>3, WellFormedTail
<1>. QED
  BY <1>1, <1>3, <1>4

\* Only curation comes to the application of a plan, and only an ingestion to the delivery
\* of events.
LEMMA Moves ==
  ASSUME TypeInv, NEW p \in Procs,
         \/ StartHook(p) \/ StartTool(p) \/ StartSessionResume(p)
         \/ AppendEvent(p) \/ RecordResume(p) \/ Curate(p) \/ Apply(p) \/ CurationFails(p)
         \/ Snapshot(p) \/ Handoff(p) \/ Load(p) \/ GetOrBuild(p) \/ View(p) \/ Mark(p)
         \/ StartWrite(p) \/ FinishWrite(p)
         \/ StartIngest(p) \/ IngestRead(p) \/ Deliver(p) \/ IngestRemove(p)
         \/ Crash(p)
  PROVE  /\ \A q \in Procs : q # p => proc'[q] = proc[q]
         /\ At(p, "apply")' => Curate(p)
         /\ At(p, "deliver")' \/ At(p, "remove")' =>
              \/ Deliver(p) /\ Goes(p)
              \/ IngestRead(p) /\ bridge[proc[p].file].state = "whole"
<1>1. StateOK /\ HandlerOK(p) /\ proc \in [Procs -> Handlers]
  BY DEF TypeInv, StateOK
<1>. DEFINE Others == \A q \in Procs : q # p => proc'[q] = proc[q]
            Calm == ~At(p, "apply")' /\ ~At(p, "deliver")' /\ ~At(p, "remove")'
<1>2. ASSUME NEW h, proc' = [proc EXCEPT ![p] = h], h.todo # <<>>,
             Head(h.todo) \notin {"apply", "deliver", "remove"}
      PROVE  Others /\ Calm
  BY <1>1, <1>2 DEF At
<1>3. CASE StartHook(p)
  <2>1. PICK t \in HookPrograms, e \in HookEvents : Begin(p, [Idle EXCEPT !.todo = t, !.ev = e])
    BY <1>3 DEF StartHook
  <2>2. t # <<>> /\ Head(t) = "append"
    BY HookProgramFacts DEF Plain
  <2>3. PICK h : h = [Idle EXCEPT !.todo = t, !.ev = e]
    OBVIOUS
  <2>4. h.todo = t
    BY <2>3, IdleFacts DEF Handlers
  <2>. QED
    BY <1>2, <2>1, <2>2, <2>3, <2>4 DEF Begin
<1>4. CASE StartTool(p) \/ StartSessionResume(p)
  <2>1. PICK t : /\ Begin(p, [Idle EXCEPT !.todo = t]) /\ Plain(t)
                 /\ Head(t) \in {"curate", "get_or_build", "load"}
    BY <1>4, ToolProgramFacts DEF StartTool, StartSessionResume
  <2>2. t # <<>>
    BY <2>1 DEF Plain
  <2>3. PICK h : h = [Idle EXCEPT !.todo = t]
    OBVIOUS
  <2>4. h.todo = t
    BY <2>3, IdleFacts DEF Handlers
  <2>. QED
    BY <1>2, <2>1, <2>2, <2>3, <2>4 DEF Begin
<1>5. CASE StartWrite(p) \/ StartIngest(p)
  <2>1. PICK t, f : /\ Begin(p, [Idle EXCEPT !.todo = t, !.file = f])
                    /\ t = <<"write">> \/ t = <<"read">>
    BY <1>5 DEF StartWrite, StartIngest
  <2>2. t # <<>> /\ Head(t) \in {"write", "read"}
    BY <2>1
  <2>3. PICK h : h = [Idle EXCEPT !.todo = t, !.file = f]
    OBVIOUS
  <2>4. h.todo = t
    BY <2>3, IdleFacts DEF Handlers
  <2>. QED
    BY <1>2, <2>1, <2>2, <2>3, <2>4 DEF Begin
<1>6. ASSUME Goes(p) PROVE Others
  BY <1>1, <1>6, GoesTypes
<1>7. ASSUME Fail(p) PROVE Others /\ Calm
  <2>1. Goes(p) /\ proc'[p] = Idle
    BY <1>1, <1>7, FailGoes
  <2>2. proc'[p].todo = <<>>
    BY <2>1, IdleFacts
  <2>. QED
    BY <1>6, <2>1, <2>2 DEF At
<1>8. ASSUME NEW step, At(p, step), Goes(p), step \notin {"curate", "deliver"} PROVE Others /\ Calm
  <2>1. ASSUME proc'[p].todo # <<>> PROVE Head(proc'[p].todo) \notin {"apply", "deliver", "remove"}
    <3>1. <<step, Head(proc'[p].todo)>> \in Follow
      BY <1>1, <1>8, <2>1, GoesFollow
    <3>. QED
      BY <1>8, <3>1 DEF Follow
  <2>. QED
    BY <1>6, <1>8, <2>1 DEF At
<1>9. ASSUME NEW step, At(p, step), Step(p), step \notin {"curate", "deliver"} PROVE Others /\ Calm
  BY <1>1, <1>8, <1>9, StepGoes
<1>10. CASE AppendEvent(p) \/ RecordResume(p) \/ Mark(p) \/ FinishWrite(p)
            \/ IngestRemove(p) \/ View(p) \/ Crash(p)
  BY <1>7, <1>9, <1>10 DEF AppendEvent, RecordResume, Mark, FinishWrite, IngestRemove, View, Crash
<1>11. CASE Curate(p)
  <2>1. Goes(p) /\ At(p, "curate")
    BY <1>11, CurateGoes DEF Curate
  <2>2. ASSUME proc'[p].todo # <<>> PROVE Head(proc'[p].todo) = "apply"
    <3>1. <<"curate", Head(proc'[p].todo)>> \in Follow
      BY <1>1, <2>1, <2>2, GoesFollow
    <3>. QED
      BY <3>1 DEF Follow
  <2>. QED
    BY <1>6, <1>11, <2>1, <2>2 DEF At
<1>12. CASE Apply(p) \/ CurationFails(p)
  <2>1. Goes(p) /\ At(p, "apply")
    BY <1>12, ApplyGoes
  <2>. QED
    BY <1>8, <2>1
<1>13. CASE Snapshot(p)
  BY <1>7, <1>8, <1>13, SnapshotGoes DEF Snapshot
<1>14. CASE (Load(p) \/ GetOrBuild(p)) /\ snap # None /\ Show(p, snap.ver)
  <2>1. PICK v \in Nat : v = snap.ver
    BY <1>1, <1>14 DEF StateOK
  <2>2. Show(p, v) /\ (At(p, "load") \/ At(p, "get_or_build"))
    BY <1>14, <2>1 DEF Load, GetOrBuild
  <2>3. Goes(p)
    BY <1>1, <2>2, ShowGoes
  <2>. QED
    BY <1>8, <2>2, <2>3
<1>15. CASE (Handoff(p) \/ GetOrBuild(p)) /\ snap = None
  <2>1. PICK t : /\ Plain(t) /\ Head(t) = "curate"
                 /\ proc'[p] = [proc[p] EXCEPT !.todo = t] /\ proc'[p] \in Handlers
                 /\ proc'[p].todo = t /\ proc'[p].ver = proc[p].ver /\ proc'[p].ev = proc[p].ev
                 /\ proc' = [proc EXCEPT ![p] = proc'[p]]
                 /\ \A i \in 1..Len(t) : t[i] = "view" => proc[p].ev = None
    BY <1>15, RebuildGoes, Zenon
  <2>2. /\ Head(proc'[p].todo) = "curate"
        /\ proc' = [proc EXCEPT ![p] = proc'[p]]
    BY <2>1, Zenon
  <2>3. Others /\ Calm
    BY <1>1, <2>2 DEF At
  <2>. QED
    BY <2>3
<1>16. CASE Handoff(p) /\ snap # None
  BY <1>9, <1>16 DEF Handoff
<1>17. CASE Load(p)
  BY <1>7, <1>14, <1>17 DEF Load
<1>18. CASE GetOrBuild(p)
  BY <1>14, <1>15, <1>18 DEF GetOrBuild
<1>19. CASE IngestRead(p)
  <2>1. CASE bridge[proc[p].file].state # "whole"
    BY <1>7, <1>19, <2>1 DEF IngestRead
  <2>2. CASE bridge[proc[p].file].state = "whole"
    <3>1. PICK t : /\ Plain(t) /\ Head(t) \in {"deliver", "remove"}
                   /\ \A i \in 1..Len(t) : t[i] # "view"
                   /\ Len(t) = Len(FileEvents[proc[p].file]) + 1
                   /\ proc'[p] = [proc[p] EXCEPT !.todo = t] /\ proc'[p] \in Handlers
                   /\ proc'[p].todo = t /\ proc'[p].file = proc[p].file
                   /\ proc'[p].ver = proc[p].ver
                   /\ proc' = [proc EXCEPT ![p] = proc'[p]]
      BY <1>19, <2>2, IngestBegins, Zenon
    <3>2. /\ Head(proc'[p].todo) \in {"deliver", "remove"}
          /\ proc' = [proc EXCEPT ![p] = proc'[p]]
      BY <3>1, Zenon
    <3>3. Others /\ ~At(p, "apply")'
      BY <1>1, <3>2 DEF At
    <3>. QED
      BY <1>19, <2>2, <3>3
  <2>. QED
    BY <2>1, <2>2
<1>20. CASE Deliver(p)
  <2>1. Goes(p) /\ At(p, "deliver")
    BY <1>1, <1>20, StepGoes DEF Deliver
  <2>2. ASSUME proc'[p].todo # <<>> PROVE Head(proc'[p].todo) # "apply"
    <3>1. <<"deliver", Head(proc'[p].todo)>> \in Follow
      BY <1>1, <2>1, <2>2, GoesFollow
    <3>. QED
      BY <3>1 DEF Follow
  <2>. QED
    BY <1>6, <1>20, <2>1, <2>2 DEF At
<1>. QED
  BY <1>3, <1>4, <1>5, <1>10, <1>11, <1>12, <1>13, <1>15, <1>16, <1>17, <1>18, <1>19, <1>20

\* What a step may do to the files.
LEMMA FileSteps ==
  ASSUME TypeInv, [Next]_vars
  PROVE  /\ history.settled \subseteq history'.settled
         /\ \/ bridge' = bridge /\ history'.written = history.written
            \/ \E f \in Files :
                 /\ Remove(f) /\ history'.written = history.written /\ clock' = clock
                 /\ \/ GiveUp(f)
                    \/ \E p \in Procs : At(p, "remove") /\ f = proc[p].file
                    \/ bridge[f].state = "none" /\ bridge[f].at # 0
            \/ \E p \in Procs : StartWrite(p) \/ FinishWrite(p)
<1>1. /\ StateOK /\ LedgerOK /\ FilesDated /\ (\A q \in Procs : HandlerOK(q)) /\ clock \in Nat
      /\ history \in Histories
  BY DEF TypeInv, StateOK
<1>. DEFINE Grow == history.settled \subseteq history'.settled
            Still == bridge' = bridge /\ history'.written = history.written
<1>2. ASSUME bridge' = bridge, history' = history PROVE Grow /\ Still
  BY <1>2
<1>3. CASE UNCHANGED vars
  BY <1>2, <1>3 DEF vars
<1>4. CASE Clear
  <2>1. history' = [history EXCEPT !.top = [g \in Groups |-> 0], !.lost = {}, !.kept = {}]
    BY <1>4 DEF Clear
  <2>2. history'.settled = history.settled /\ history'.written = history.written
    BY <1>1, <2>1 DEF Histories
  <2>. QED
    BY <1>4, <2>2 DEF Clear
<1>5. CASE Purge
  <2>1. PICK f \in Files : Remove(f) /\ GiveUp(f) /\ clock' = clock
    BY <1>5 DEF Purge
  <2>2. /\ history'.settled = history.settled \cup Range(FileEvents[f])
        /\ history'.written = history.written
    BY <1>1, <2>1, GiveUpStep
  <2>. QED
    BY <2>1, <2>2
<1>6. ASSUME NEW p \in Procs,
             \/ StartHook(p) \/ StartTool(p) \/ StartSessionResume(p) \/ Curate(p) \/ Apply(p)
             \/ CurationFails(p) \/ Handoff(p) \/ View(p) \/ StartIngest(p) \/ Crash(p)
      PROVE  Grow /\ Still
  <2>1. UNCHANGED <<bridge, history>>
    BY <1>6 DEF StartHook, StartTool, StartSessionResume, Curate, Apply, CurationFails, Handoff,
                View, StartIngest, Crash
  <2>. QED
    BY <1>2, <2>1
<1>7. ASSUME NEW p \in Procs, AppendEvent(p) \/ RecordResume(p) \/ Deliver(p) PROVE Grow /\ Still
  <2>1. bridge' = bridge
    BY <1>7 DEF AppendEvent, RecordResume, Deliver
  <2>2. \/ \E e \in Events, at \in Nat : Store(e, at)
        \/ history' = history
        \/ \E e \in Events : history' = [history EXCEPT !.settled = @ \cup {e}]
    <3>1. CASE AppendEvent(p)
      BY <1>1, <3>1 DEF AppendEvent, HandlerOK
    <3>2. CASE RecordResume(p)
      BY <1>1, <3>2 DEF RecordResume, Events
    <3>3. CASE Deliver(p)
      <4>1. PICK e \in Events :
              e = FileEvents[proc[p].file][Len(FileEvents[proc[p].file]) + 2 - Len(proc[p].todo)]
        BY <1>1, <3>3, DeliverFacts DEF Deliver
      <4>2. PICK at \in Nat : at = bridge[proc[p].file].at
        <5>1. bridge[proc[p].file].at \in 1..clock
          BY <1>1, <3>3, DeliverFacts DEF Deliver
        <5>. QED
          BY <1>1, <5>1
      <4>. QED
        BY <3>3, <4>1, <4>2 DEF Deliver
    <3>. QED
      BY <1>7, <3>1, <3>2, <3>3
  <2>3. ASSUME NEW e \in Events, NEW at \in Nat, Store(e, at)
        PROVE  Grow /\ history'.written = history.written
    <3>1. history'.settled = history.settled \cup {e} /\ history'.written = history.written
      BY <1>1, <2>3, StoreEffect
    <3>. QED
      BY <3>1
  <2>4. ASSUME NEW e \in Events, history' = [history EXCEPT !.settled = @ \cup {e}]
        PROVE  Grow /\ history'.written = history.written
    BY <1>1, <2>4 DEF Histories
  <2>. QED
    BY <2>1, <2>2, <2>3, <2>4
<1>8. ASSUME NEW p \in Procs, Snapshot(p) \/ Load(p) \/ GetOrBuild(p) \/ Mark(p) PROVE Grow /\ Still
  <2>1. /\ bridge' = bridge
        /\ \/ history' = history
           \/ \E x : history' = [history EXCEPT !.shown = x]
           \/ \E x : history' = [history EXCEPT !.overtaken = x]
    <3>1. CASE Snapshot(p)
      BY <3>1 DEF Snapshot
    <3>2. CASE Load(p)
      BY <3>2 DEF Load, Show
    <3>3. CASE GetOrBuild(p)
      BY <3>3 DEF GetOrBuild, Show
    <3>4. CASE Mark(p)
      BY <3>4 DEF Mark
    <3>. QED
      BY <1>8, <3>1, <3>2, <3>3, <3>4
  <2>2. ASSUME NEW x, history' = [history EXCEPT !.shown = x] PROVE Grow /\ Still
    BY <1>1, <2>1, <2>2 DEF Histories
  <2>3. ASSUME NEW x, history' = [history EXCEPT !.overtaken = x] PROVE Grow /\ Still
    BY <1>1, <2>1, <2>3 DEF Histories
  <2>. QED
    BY <1>2, <2>1, <2>2, <2>3
<1>9. ASSUME NEW p \in Procs, StartWrite(p) \/ FinishWrite(p) PROVE Grow
  BY <1>1, <1>9, FinishWriteStep DEF StartWrite
<1>10. ASSUME NEW p \in Procs, IngestRead(p)
       PROVE  /\ Grow
              /\ \/ Still
                 \/ \E f \in Files :
                      /\ Remove(f) /\ history'.written = history.written /\ clock' = clock
                      /\ GiveUp(f) \/ (bridge[f].state = "none" /\ bridge[f].at # 0)
  <2>1. At(p, "read") /\ clock' = clock
    BY <1>10 DEF IngestRead
  <2>2. PICK f \in Files : f = proc[p].file /\ bridge[f].at \in 1..clock
    BY <1>1, <2>1 DEF HandlerOK
  <2>3. CASE bridge[f].state = "whole"
    BY <1>2, <1>10, <2>2, <2>3 DEF IngestRead
  <2>4. CASE bridge[f].state # "whole"
    <3>1. Remove(f) /\ IF bridge[f].state = "partial" THEN GiveUp(f) ELSE history' = history
      BY <1>10, <2>2, <2>4 DEF IngestRead
    <3>2. bridge[f].state \in {"none", "partial", "whole"} /\ bridge[f].at # 0
      BY <1>1, <2>2 DEF StateOK, Bridges
    <3>3. CASE GiveUp(f)
      <4>1. /\ history'.settled = history.settled \cup Range(FileEvents[f])
            /\ history'.written = history.written
        BY <1>1, <3>3, GiveUpStep
      <4>. QED
        BY <2>1, <3>1, <3>3, <4>1
    <3>4. CASE history' = history /\ bridge[f].state # "partial"
      BY <2>1, <2>4, <3>1, <3>2, <3>4
    <3>. QED
      BY <3>1, <3>3, <3>4
  <2>. QED
    BY <2>3, <2>4
<1>11. ASSUME NEW p \in Procs, IngestRemove(p)
       PROVE  /\ Grow
              /\ \E f \in Files :
                   /\ Remove(f) /\ history'.written = history.written /\ clock' = clock
                   /\ At(p, "remove") /\ f = proc[p].file
  <2>1. /\ At(p, "remove") /\ clock' = clock /\ history' = history
        /\ Remove(proc[p].file)
    BY <1>11 DEF IngestRemove
  <2>2. proc[p].file \in Files
    BY <1>1, <2>1 DEF HandlerOK
  <2>. QED
    BY <2>1, <2>2
<1>. QED
  BY <1>3, <1>4, <1>5, <1>6, <1>7, <1>8, <1>9, <1>10, <1>11 DEF Next

\* The last step of an ingestion.
LEMMA RemoveIsLast ==
  ASSUME StateOK, NEW p \in Procs, HandlerOK(p), At(p, "remove")
  PROVE  Len(proc[p].todo) = 1
<1>1. PICK t \in Seq(Names) : t = proc[p].todo
  BY AtFacts
<1>2. t # <<>> /\ Head(t) = "remove" /\ WellFormed(t)
  BY <1>1 DEF At, HandlerOK
<1>3. Tail(t) # <<>> => <<"remove", Head(Tail(t))>> \in Follow
  BY <1>2, WellFormedTail
<1>4. Tail(t) = <<>>
  BY <1>3 DEF Follow
<1>. QED
  BY <1>1, <1>2, <1>4, TailFacts

\* The files after a step.
LEMMA FilesKept ==
  ASSUME TypeInv, BridgeInv, [Next]_vars, NEW g \in Files
  PROVE  FileOK(g)'
<1>1. /\ StateOK /\ FilesDated /\ (\A q \in Procs : HandlerOK(q)) /\ clock \in Nat
      /\ FileOK(g) /\ (\A q \in Procs : Ingest(q)) /\ bridge \in [Files -> Bridges]
      /\ history \in Histories
  BY DEF TypeInv, BridgeInv, StateOK
<1>2. history.settled \subseteq history'.settled
  BY FileSteps
<1>3. CASE bridge'[g] = bridge[g] /\ (g \in history'.written => g \in history.written)
  BY <1>1, <1>2, <1>3 DEF FileOK
<1>4. CASE bridge' = bridge /\ history'.written = history.written
  BY <1>3, <1>4
<1>5. ASSUME NEW f \in Files, Remove(f), history'.written = history.written, clock' = clock,
             \/ GiveUp(f)
             \/ \E p \in Procs : At(p, "remove") /\ f = proc[p].file
             \/ bridge[f].state = "none" /\ bridge[f].at # 0
      PROVE  FileOK(g)'
  <2>1. /\ bridge'[f].state = "none" /\ bridge'[f].at = bridge[f].at
        /\ \A x \in Files : x # f => bridge'[x] = bridge[x]
    BY <1>1, <1>5, RemoveStep
  <2>2. CASE g # f
    BY <1>3, <1>5, <2>1, <2>2
  <2>3. CASE g = f
    <3>1. Range(FileEvents[f]) \subseteq history'.settled
      <4>1. CASE GiveUp(f)
        <5>1. history'.settled = history.settled \cup Range(FileEvents[f])
          BY <1>1, <4>1, GiveUpStep
        <5>. QED
          BY <5>1
      <4>2. CASE bridge[f].state = "none" /\ bridge[f].at # 0
        BY <1>1, <1>2, <2>3, <4>2 DEF FileOK
      <4>3. ASSUME NEW p \in Procs, At(p, "remove"), f = proc[p].file
            PROVE  Range(FileEvents[f]) \subseteq history.settled
        <5>1. PICK es \in Seq(Events) : es = FileEvents[f]
          BY LedgerAssumption
        <5>2. Len(proc[p].todo) = 1
          BY <1>1, <4>3, RemoveIsLast
        <5>3. \A i \in 1..Len(es) : i < Len(es) + 2 - Len(proc[p].todo) => es[i] \in history.settled
          BY <1>1, <4>3, <5>1 DEF Ingest
        <5>4. ASSUME NEW i \in 1..Len(es) PROVE es[i] \in history.settled
          <6>1. i < Len(es) + 2 - 1
            OBVIOUS
          <6>. QED
            BY <5>2, <5>3, <6>1
        <5>5. Range(es) = {es[i] : i \in 1..Len(es)}
          BY DEF Range
        <5>. QED
          BY <5>1, <5>4, <5>5
      <4>. QED
        BY <1>2, <1>5, <4>1, <4>2, <4>3
    <3>2. g \in history'.written => bridge[g].at # 0
      BY <1>1, <1>5 DEF FileOK
    <3>. QED
      BY <2>1, <2>3, <3>1, <3>2 DEF FileOK
  <2>. QED
    BY <2>2, <2>3
<1>6. ASSUME NEW p \in Procs, StartWrite(p) PROVE FileOK(g)'
  <2>1. PICK f \in Files : /\ bridge[f] = [state |-> "none", at |-> 0]
                           /\ bridge' = [bridge EXCEPT ![f] = [state |-> "partial", at |-> clock + 1]]
    BY <1>6 DEF StartWrite
  <2>2. history' = history
    BY <1>6 DEF StartWrite
  <2>3. bridge[f].at = 0
    BY <2>1
  <2>4. bridge'[f] = [state |-> "partial", at |-> clock + 1] /\ \A x \in Files : x # f => bridge'[x] = bridge[x]
    BY <1>1, <2>1
  <2>5. CASE g # f
    BY <1>3, <2>2, <2>4, <2>5
  <2>6. CASE g = f
    <3>1. g \notin history'.written
      BY <1>1, <2>2, <2>3, <2>6 DEF FileOK
    <3>2. bridge'[g].state = "partial"
      BY <2>4, <2>6
    <3>. QED
      BY <3>1, <3>2 DEF FileOK
  <2>. QED
    BY <2>5, <2>6
<1>7. ASSUME NEW p \in Procs, FinishWrite(p) PROVE FileOK(g)'
  <2>1. PICK f \in Files : f = proc[p].file /\ bridge[f].at \in 1..clock
    BY <1>1, <1>7 DEF FinishWrite, HandlerOK
  <2>2. /\ bridge'[f].state = IF bridge[f].state = "partial" THEN "whole" ELSE bridge[f].state
        /\ bridge'[f].at = bridge[f].at
        /\ \A x \in Files : x # f => bridge'[x] = bridge[x]
        /\ history'.written = history.written \cup {f} /\ history'.settled = history.settled
    BY <1>1, <1>7, <2>1, FinishWriteStep
  <2>3. CASE g # f
    BY <1>3, <2>2, <2>3
  <2>4. CASE g = f
    <3>1. bridge'[f].state # "partial" /\ bridge'[f].at # 0
      BY <1>1, <2>1, <2>2
    <3>2. bridge'[f].state = "none" => bridge[f].state = "none"
      BY <2>2
    <3>. QED
      BY <1>1, <2>2, <2>4, <3>1, <3>2 DEF FileOK
  <2>. QED
    BY <2>3, <2>4
<1>. QED
  BY <1>4, <1>5, <1>6, <1>7, FileSteps

\* An ingestion after a step.
LEMMA IngestKept ==
  ASSUME TypeInv, BridgeInv, TypeInv', [Next]_vars, NEW q \in Procs
  PROVE  Ingest(q)'
<1>1. /\ StateOK /\ (\A x \in Procs : HandlerOK(x)) /\ Ingest(q) /\ clock \in Nat
      /\ history \in Histories
  BY DEF TypeInv, BridgeInv, StateOK
<1>2. history.settled \subseteq history'.settled
  BY FileSteps
<1>3. CASE proc'[q] = proc[q]
  BY <1>1, <1>2, <1>3 DEF Ingest, At
<1>4. CASE ~At(q, "deliver")' /\ ~At(q, "remove")'
  BY <1>4 DEF Ingest
<1>5. CASE Clear \/ Purge \/ UNCHANGED vars
  BY <1>3, <1>5 DEF Clear, Purge, vars
<1>6. CASE Deliver(q) /\ Goes(q)
  <2>1. At(q, "deliver")
    BY <1>6 DEF Deliver
  <2>2. CASE proc'[q].todo = <<>>
    BY <2>2 DEF Ingest, At
  <2>3. CASE proc'[q].todo # <<>>
    <3>1. PICK f \in Files : f = proc[q].file
      BY <1>1, <2>1 DEF HandlerOK
    <3>2. PICK es \in Seq(Events) : es = FileEvents[f]
      BY LedgerAssumption
    <3>3. PICK t \in Seq(Names) : t = proc[q].todo
      BY <1>1, <2>1, AtFacts
    <3>4. PICK n \in Nat, m \in Nat : n = Len(es) /\ m = Len(t)
      BY <3>2, <3>3
    <3>5. proc'[q].file = f /\ proc'[q].todo = Tail(t)
      BY <1>1, <1>6, <2>1, <2>3, <3>1, <3>3, GoesFollow
    <3>6. t # <<>> /\ Len(Tail(t)) = m - 1
      <4>1. t # <<>>
        BY <2>1, <3>3 DEF At
      <4>. QED
        BY <3>3, <3>4, <4>1, TailFacts
    <3>7. \A i \in 1..n : i < n + 2 - m => es[i] \in history.settled
      BY <1>1, <2>1, <3>1, <3>2, <3>3, <3>4 DEF Ingest
    <3>8. n + 2 - m \in 1..n /\ es[n + 2 - m] \in Events
      BY <1>1, <2>1, <3>1, <3>2, <3>3, <3>4, DeliverFacts
    <3>9. es[n + 2 - m] \in history'.settled
      <4>1. PICK e \in Events : e = es[n + 2 - m]
        BY <3>8
      <4>2. PICK at \in Nat : at = bridge[f].at
        <5>1. bridge[f].at \in 1..clock
          BY <1>1, <2>1, <3>1, DeliverFacts
        <5>. QED
          BY <1>1, <5>1
      <4>3. \/ Store(e, at)
            \/ history' = [history EXCEPT !.settled = @ \cup {e}]
        BY <1>6, <3>1, <3>2, <3>3, <3>4, <4>1, <4>2 DEF Deliver
      <4>4. ASSUME Store(e, at) PROVE e \in history'.settled
        <5>1. LedgerOK
          BY DEF TypeInv
        <5>2. history'.settled = history.settled \cup {e}
          BY <1>1, <4>4, <5>1, StoreEffect
        <5>. QED
          BY <5>2
      <4>5. ASSUME history' = [history EXCEPT !.settled = @ \cup {e}] PROVE e \in history'.settled
        BY <1>1, <4>5 DEF Histories
      <4>. QED
        BY <4>1, <4>3, <4>4, <4>5
    <3>10. ASSUME NEW i \in 1..n, i < n + 2 - (m - 1) PROVE es[i] \in history'.settled
      <4>1. i < n + 2 - m \/ i = n + 2 - m
        BY <3>4, <3>10
      <4>. QED
        BY <1>2, <3>7, <3>9, <4>1
    <3>11. /\ FileEvents[proc'[q].file] = es /\ Len(es) = n /\ Len(proc'[q].todo) = m - 1
      BY <3>2, <3>4, <3>5, <3>6
    <3>. QED
      BY <3>10, <3>11 DEF Ingest
  <2>. QED
    BY <2>2, <2>3
<1>7. CASE IngestRead(q) /\ bridge[proc[q].file].state = "whole"
  <2>1. PICK t : /\ Plain(t) /\ Head(t) \in {"deliver", "remove"}
                 /\ \A i \in 1..Len(t) : t[i] # "view"
                 /\ Len(t) = Len(FileEvents[proc[q].file]) + 1
                 /\ proc'[q] = [proc[q] EXCEPT !.todo = t] /\ proc'[q] \in Handlers
                 /\ proc'[q].todo = t /\ proc'[q].file = proc[q].file
                 /\ proc'[q].ver = proc[q].ver
                 /\ proc' = [proc EXCEPT ![q] = proc'[q]]
    BY <1>7, IngestBegins, Zenon
  <2>2. proc[q].file \in Files
    BY <1>7, IngestBegins
  <2>3. PICK n \in Nat : n = Len(FileEvents[proc[q].file])
    BY <2>2, LedgerAssumption
  <2>4. Len(proc'[q].todo) = n + 1 /\ Len(FileEvents[proc'[q].file]) = n
    BY <2>1, <2>3, Zenon
  <2>5. ASSUME NEW i \in 1..n PROVE ~(i < n + 2 - (n + 1))
    OBVIOUS
  <2>. QED
    BY <2>4, <2>5 DEF Ingest
<1>8. ASSUME NEW p \in Procs,
             \/ StartHook(p) \/ StartTool(p) \/ StartSessionResume(p)
             \/ AppendEvent(p) \/ RecordResume(p) \/ Curate(p) \/ Apply(p) \/ CurationFails(p)
             \/ Snapshot(p) \/ Handoff(p) \/ Load(p) \/ GetOrBuild(p) \/ View(p) \/ Mark(p)
             \/ StartWrite(p) \/ FinishWrite(p)
             \/ StartIngest(p) \/ IngestRead(p) \/ Deliver(p) \/ IngestRemove(p)
             \/ Crash(p)
      PROVE  Ingest(q)'
  <2>1. /\ \A x \in Procs : x # p => proc'[x] = proc[x]
        /\ At(p, "deliver")' \/ At(p, "remove")' =>
              \/ Deliver(p) /\ Goes(p)
              \/ IngestRead(p) /\ bridge[proc[p].file].state = "whole"
    BY <1>8, Moves
  <2>2. CASE q # p
    BY <1>3, <2>1, <2>2
  <2>3. CASE q = p
    BY <1>4, <1>6, <1>7, <2>1, <2>3
  <2>. QED
    BY <2>2, <2>3
<1>. QED
  BY <1>5, <1>8 DEF Next

\* The events of a bridge file that was written are in the file until each has been stored
\* or given up (write_bridge_file, ingest_bridge_file), whatever crashes or overlaps.
THEOREM BridgeFilesArrive == Spec => []BridgeEventsArrive
<1>1. Init => BridgeInv
  <2>. SUFFICES ASSUME Init PROVE BridgeInv
    OBVIOUS
  <2>1. ASSUME NEW p \in Procs PROVE Ingest(p)
    <3>1. proc[p] = Idle
      BY DEF Init
    <3>2. proc[p].todo = <<>>
      BY <3>1, IdleFacts
    <3>. QED
      BY <3>2 DEF Ingest, At
  <2>2. ASSUME NEW f \in Files PROVE FileOK(f)
    <3>1. bridge[f] = [state |-> "none", at |-> 0] /\ history.written = {}
      BY DEF Init
    <3>2. bridge[f].at = 0
      BY <3>1
    <3>. QED
      BY <3>1, <3>2 DEF FileOK
  <2>. QED
    BY <2>1, <2>2 DEF BridgeInv
<1>2. TypeInv /\ BridgeInv /\ TypeInv' /\ [Next]_vars => BridgeInv'
  <2>. SUFFICES ASSUME TypeInv, BridgeInv, TypeInv', [Next]_vars PROVE BridgeInv'
    OBVIOUS
  <2>1. ASSUME NEW f \in Files PROVE FileOK(f)'
    BY FilesKept
  <2>2. ASSUME NEW p \in Procs PROVE Ingest(p)'
    BY IngestKept
  <2>. QED
    BY <2>1, <2>2 DEF BridgeInv
<1>3. TypeInv /\ BridgeInv => BridgeEventsArrive
  <2>. SUFFICES ASSUME TypeInv, BridgeInv, NEW f \in history.written, bridge[f].state # "whole"
                PROVE  Range(FileEvents[f]) \subseteq history.settled
    BY DEF BridgeEventsArrive
  <2>1. f \in Files /\ bridge[f] \in Bridges
    BY DEF TypeInv, StateOK, Histories
  <2>2. bridge[f].state = "none" /\ bridge[f].at # 0
    BY <2>1 DEF BridgeInv, FileOK, Bridges
  <2>. QED
    BY <2>1, <2>2 DEF BridgeInv, FileOK
<1>. QED
  BY <1>1, <1>2, <1>3, TypeInit, TypeStep, PTL DEF Spec

-----------------------------------------------------------------------------
(* Curation.                                                               *)

\* The plans in flight are the ones of before, unless one is made.
LEMMA PlansKept ==
  ASSUME TypeInv, [Next]_vars, NEW q \in Procs, At(q, "apply")'
  PROVE  proc'[q] = proc[q] \/ Curate(q)
<1>1. CASE Clear \/ Purge \/ UNCHANGED vars
  BY <1>1 DEF Clear, Purge, vars
<1>2. ASSUME NEW p \in Procs,
             \/ StartHook(p) \/ StartTool(p) \/ StartSessionResume(p)
             \/ AppendEvent(p) \/ RecordResume(p) \/ Curate(p) \/ Apply(p) \/ CurationFails(p)
             \/ Snapshot(p) \/ Handoff(p) \/ Load(p) \/ GetOrBuild(p) \/ View(p) \/ Mark(p)
             \/ StartWrite(p) \/ FinishWrite(p)
             \/ StartIngest(p) \/ IngestRead(p) \/ Deliver(p) \/ IngestRemove(p)
             \/ Crash(p)
      PROVE  proc'[q] = proc[q] \/ Curate(q)
  <2>1. (\A x \in Procs : x # p => proc'[x] = proc[x]) /\ (At(p, "apply")' => Curate(p))
    BY <1>2, Moves
  <2>. QED
    BY <2>1
<1>. QED
  BY <1>1, <1>2 DEF Next

\* The numbers of a row, and of its group.
LEMMA RowFacts ==
  ASSUME TypeInv, NEW r \in rows
  PROVE  /\ r.id \in Nat /\ r.at \in Nat /\ r.pri \in Nat /\ r.ev \in Events
         /\ r.id \in 1..clock /\ r.at \in 1..clock /\ clock \in Nat
         /\ Group(r.ev) \in Groups /\ history.top[Group(r.ev)] \in Nat /\ r \in Rows
<1>1. r \in Rows /\ r.id \in 1..clock /\ r.at \in 1..clock /\ clock \in Nat /\ history \in Histories
  BY DEF TypeInv, LedgerOK, StateOK
<1>2. r.id \in Nat /\ r.at \in Nat /\ r.pri \in Nat /\ r.ev \in Events
  BY <1>1 DEF Rows
<1>3. Group(r.ev) \in Groups
  BY <1>2 DEF Groups
<1>. QED
  BY <1>1, <1>2, <1>3 DEF Histories

\* A row that stays what it was, in a ledger with no other rows: what is said of it holds.
LEMMA FirstKept ==
  ASSUME NEW r \in rows, NEW x \in rows', x.id = r.id, x.ev = r.ev, x.at = r.at, First(r),
         \A s \in rows' : \E y \in rows : y.id = s.id /\ y.ev = s.ev /\ y.at = s.at
  PROVE  First(x)'
<1>. SUFFICES ASSUME NEW s \in rows', Group(s.ev) = Group(x.ev)
              PROVE  s.at <= x.at /\ (s.at = x.at => x.id <= s.id)
  BY DEF First
<1>1. PICK y \in rows : y.id = s.id /\ y.ev = s.ev /\ y.at = s.at
  OBVIOUS
<1>2. y.at <= r.at /\ (y.at = r.at => r.id <= y.id)
  BY <1>1 DEF First
<1>. QED
  BY <1>1, <1>2

\* Rows only go, are promoted, or stay; top and lost stay; the plans are of before.
LEMMA CurationShrinks ==
  ASSUME TypeInv, TypeInv', CurationInv, clock <= clock',
         history'.top = history.top, history'.lost = history.lost,
         \A s \in rows' : \E y \in rows : /\ y.id = s.id /\ y.ev = s.ev /\ y.at = s.at
                                          /\ s.pri = PromotionPriority => Promoted(y),
         \A q \in Procs : At(q, "apply")' => proc'[q] = proc[q],
         \A g \in Groups, r \in rows :
           (Group(r.ev) = g /\ r.at = history.top[g] /\ First(r) /\ g \notin history.lost
            /\ \A p \in Procs : At(p, "apply") => \A d \in proc[p].plan.del : d.id # r.id)
             => \E s \in rows' : s.id = r.id /\ s.ev = r.ev /\ s.at = r.at
  PROVE  CurationInv'
<1>1. \A s \in rows' : \E y \in rows : y.id = s.id /\ y.ev = s.ev /\ y.at = s.at
  OBVIOUS
<1>2. ASSUME NEW y \in rows, NEW s \in rows', y.id = s.id, y.ev = s.ev, y.at = s.at, Promoted(y)
      PROVE  Promoted(s)'
  <2>1. First(y) => First(s)'
    BY <1>1, <1>2, FirstKept
  <2>2. Outdone(y) => Outdone(s)'
    BY <1>2 DEF Outdone
  <2>. QED
    BY <1>2, <2>1, <2>2 DEF Promoted
<1>3. ASSUME NEW s \in rows' PROVE s.at <= history'.top[Group(s.ev)]
  BY <1>1 DEF CurationInv
<1>4. ASSUME NEW s \in rows', s.pri = PromotionPriority PROVE Promoted(s)'
  <2>1. PICK y \in rows : y.id = s.id /\ y.ev = s.ev /\ y.at = s.at /\ Promoted(y)
    BY <1>4
  <2>. QED
    BY <1>2, <2>1
<1>5. ASSUME NEW g \in Groups PROVE Newest(g)'
  <2>1. CASE history.top[g] = 0 \/ g \in history.lost
    BY <2>1 DEF Newest
  <2>2. CASE g \notin history.lost /\ history.top[g] # 0
    <3>1. PICK r \in rows : /\ Group(r.ev) = g /\ r.at = history.top[g] /\ First(r)
                            /\ \A p \in Procs : At(p, "apply") =>
                                 \A d \in proc[p].plan.del : d.id # r.id
      BY <2>2 DEF CurationInv, Newest
    <3>2. PICK s \in rows' : s.id = r.id /\ s.ev = r.ev /\ s.at = r.at
      BY <2>2, <3>1
    <3>3. First(s)'
      BY <1>1, <3>1, <3>2, FirstKept
    <3>4. ASSUME NEW p \in Procs, At(p, "apply")' PROVE \A d \in proc'[p].plan.del : d.id # s.id
      <4>1. proc'[p] = proc[p]
        BY <3>4
      <4>2. At(p, "apply")
        BY <3>4, <4>1 DEF At
      <4>. QED
        BY <3>1, <3>2, <4>1, <4>2
    <3>. QED
      BY <3>1, <3>2, <3>3, <3>4 DEF Newest
  <2>. QED
    BY <2>1, <2>2
<1>6. ASSUME NEW q \in Procs PROVE PlanOK(q)'
  <2>. SUFFICES ASSUME At(q, "apply")' PROVE PlanOK(q)'
    BY DEF PlanOK
  <2>1. proc'[q] = proc[q]
    OBVIOUS
  <2>2. At(q, "apply") /\ proc[q].plan \in Plans
    <3>1. At(q, "apply")
      BY <2>1 DEF At
    <3>. QED
      BY <3>1 DEF TypeInv, HandlerOK
  <2>3. clock \in Nat /\ clock' \in Nat
    BY DEF TypeInv, StateOK
  <2>4. ASSUME NEW d \in proc[q].plan.del
        PROVE  /\ d.id <= clock' /\ d.ev.kind \in DOMAIN Keep
               /\ \A s \in rows' : s.id = d.id => s.ev = d.ev
    <3>1. d.id \in Nat /\ d.id <= clock /\ d.ev.kind \in DOMAIN Keep
      BY <2>2 DEF CurationInv, PlanOK, Plans, Rows
    <3>2. \A r \in rows : r.id = d.id => r.ev = d.ev
      BY <2>2 DEF CurationInv, PlanOK
    <3>3. d.id <= clock'
      BY <2>3, <3>1
    <3>. QED
      BY <1>1, <3>1, <3>2, <3>3
  <2>5. ASSUME NEW n \in proc[q].plan.promote
        PROVE  n <= clock' /\ \A s \in rows' : s.id = n => Promoted(s)'
    <3>1. n \in Nat /\ n <= clock
      BY <2>2 DEF CurationInv, PlanOK, Plans
    <3>2. \A r \in rows : r.id = n => Promoted(r)
      BY <2>2 DEF CurationInv, PlanOK
    <3>3. n <= clock'
      BY <2>3, <3>1
    <3>4. ASSUME NEW s \in rows', s.id = n PROVE Promoted(s)'
      <4>1. PICK y \in rows : y.id = s.id /\ y.ev = s.ev /\ y.at = s.at
        BY <1>1
      <4>. QED
        BY <1>2, <3>2, <3>4, <4>1
    <3>. QED
      BY <3>3, <3>4
  <2>. QED
    BY <2>1, <2>4, <2>5 DEF PlanOK
<1>. QED
  BY <1>3, <1>4, <1>5, <1>6 DEF CurationInv

\* The application of a plan.
LEMMA CurationApply ==
  ASSUME TypeInv, TypeInv', CurationInv, [Next]_vars, NEW p \in Procs, Apply(p)
  PROVE  CurationInv'
<1>1. StateOK /\ LedgerOK /\ HandlerOK(p) /\ At(p, "apply") /\ PlanOK(p) /\ clock \in Nat
  BY DEF TypeInv, Apply, CurationInv, StateOK
<1>2. PICK pl \in Plans : pl = proc[p].plan
  BY <1>1 DEF HandlerOK
<1>3. /\ rows' = ApplyPlan(rows, pl) /\ decisions' = decisions
      /\ UNCHANGED <<session, snap, clock>> /\ history' = history
  BY <1>2 DEF Apply, DecisionsAfter
<1>4. /\ \A s \in rows' : \E r \in rows :
              /\ s.id = r.id /\ s.ev = r.ev /\ s.at = r.at
              /\ \A d \in pl.del : d.id # r.id
              /\ s.pri = IF r.id \in pl.promote THEN PromotionPriority ELSE r.pri
      /\ \A r \in rows : (\A d \in pl.del : d.id # r.id) =>
              \E s \in rows' : s.id = r.id /\ s.ev = r.ev /\ s.at = r.at
  BY <1>1, <1>3, ApplyLedger
<1>5. ASSUME NEW s \in rows'
      PROVE  \E y \in rows : /\ y.id = s.id /\ y.ev = s.ev /\ y.at = s.at
                             /\ s.pri = PromotionPriority => Promoted(y)
  <2>1. PICK r \in rows :
              /\ s.id = r.id /\ s.ev = r.ev /\ s.at = r.at
              /\ s.pri = IF r.id \in pl.promote THEN PromotionPriority ELSE r.pri
    BY <1>4
  <2>2. r.id \in pl.promote => Promoted(r)
    BY <1>1, <1>2 DEF PlanOK
  <2>3. r.pri = PromotionPriority => Promoted(r)
    BY DEF CurationInv
  <2>. QED
    BY <2>1, <2>2, <2>3
<1>6. ASSUME NEW q \in Procs, At(q, "apply")' PROVE proc'[q] = proc[q]
  <2>1. ~Curate(q)
    <3>1. At(p, "apply")' => Curate(p)
      BY Moves
    <3>2. CASE q = p
      BY <1>1, <3>2 DEF Curate, At
    <3>3. CASE q # p
      <4>1. proc'[q] = proc[q]
        BY <3>3, Moves
      <4>2. At(q, "apply")
        BY <1>6, <4>1 DEF At
      <4>. QED
        BY <4>2 DEF Curate, At
    <3>. QED
      BY <3>2, <3>3
  <2>. QED
    BY <1>6, <2>1, PlansKept
<1>7. ASSUME NEW r \in rows, \A q \in Procs : At(q, "apply") => \A d \in proc[q].plan.del : d.id # r.id
      PROVE  \E s \in rows' : s.id = r.id /\ s.ev = r.ev /\ s.at = r.at
  BY <1>1, <1>2, <1>4, <1>7
<1>8. clock <= clock' /\ history'.top = history.top /\ history'.lost = history.lost
  BY <1>1, <1>3
<1>. QED
  BY <1>5, <1>6, <1>7, <1>8, CurationShrinks

\* A step that leaves the ledger and the plans alone.
LEMMA CurationSame ==
  ASSUME TypeInv, TypeInv', CurationInv, clock <= clock', SameLedger,
         \A q \in Procs : At(q, "apply")' => proc'[q] = proc[q]
  PROVE  CurationInv'
<1>1. /\ rows' = rows /\ history'.top = history.top /\ history'.lost = history.lost
  BY DEF SameLedger
<1>2. ASSUME NEW s \in rows'
      PROVE  \E y \in rows : /\ y.id = s.id /\ y.ev = s.ev /\ y.at = s.at
                             /\ s.pri = PromotionPriority => Promoted(y)
  BY <1>1 DEF CurationInv
<1>3. ASSUME NEW r \in rows PROVE \E s \in rows' : s.id = r.id /\ s.ev = r.ev /\ s.at = r.at
  BY <1>1
<1>. QED
  BY <1>1, <1>2, <1>3, CurationShrinks

\* delete_session.
LEMMA CurationClear ==
  ASSUME TypeInv, CurationInv, Clear
  PROVE  CurationInv'
<1>1. history \in Histories /\ UNCHANGED <<proc, clock>> /\ rows' = {}
  BY DEF TypeInv, StateOK, Clear
<1>2. history' = [history EXCEPT !.top = [g \in Groups |-> 0], !.lost = {}, !.kept = {}]
  BY DEF Clear
<1>3. history'.top = [g \in Groups |-> 0]
  BY <1>1, <1>2 DEF Histories
<1>4. ASSUME NEW g \in Groups PROVE Newest(g)'
  BY <1>3 DEF Newest
<1>5. ASSUME NEW q \in Procs PROVE PlanOK(q)'
  <2>1. PlanOK(q)
    BY DEF CurationInv
  <2>. QED
    BY <1>1, <2>1 DEF PlanOK, At
<1>. QED
  BY <1>1, <1>4, <1>5 DEF CurationInv

\* A new row.
LEMMA CurationStore ==
  ASSUME TypeInv, TypeInv', CurationInv, NEW e \in Events, NEW at \in 1..clock + 1, Store(e, at),
         \A q \in Procs : At(q, "apply")' => proc'[q] = proc[q]
  PROVE  CurationInv'
<1>0. /\ StateOK /\ LedgerOK /\ clock \in Nat /\ at \in Nat /\ history \in Histories
      /\ history.top \in [Groups -> Nat] /\ Group(e) \in Groups
  BY DEF TypeInv, StateOK, Histories, Groups
<1>1. /\ rows' = IF Dup(e) THEN rows ELSE (rows \cup {NewRow(e, at)}) \ EvictedBy(e, at)
      /\ clock' = IF Dup(e) THEN clock ELSE clock + 1
      /\ history'.top = TopAfter(e, at) /\ history'.lost = LostAfter(e, at)
      /\ NewRow(e, at) \in Rows
  BY <1>0, StoreEffect
<1>2. CASE Dup(e)
  <2>1. rows' = rows /\ clock <= clock'
    BY <1>0, <1>1, <1>2
  <2>2. history'.top = history.top
    BY <1>0, <1>1, <1>2 DEF TopAfter, IsNewest
  <2>3. history'.lost = history.lost
    BY <1>0, <1>1, <1>2 DEF LostAfter, IsNewest, EvictedBy
  <2>4. ASSUME NEW s \in rows'
        PROVE  \E y \in rows : /\ y.id = s.id /\ y.ev = s.ev /\ y.at = s.at
                               /\ s.pri = PromotionPriority => Promoted(y)
    BY <2>1 DEF CurationInv
  <2>5. ASSUME NEW r \in rows PROVE \E s \in rows' : s.id = r.id /\ s.ev = r.ev /\ s.at = r.at
    BY <2>1
  <2>. QED
    BY <2>1, <2>2, <2>3, <2>4, <2>5, CurationShrinks
<1>3. CASE ~Dup(e)
  <2>. DEFINE g0 == Group(e)
  <2>1. PICK new \in Rows : new = NewRow(e, at)
    BY <1>1
  <2>2. new.id = clock + 1 /\ new.ev = e /\ new.at = at /\ new.pri = e.pri
    BY <2>1 DEF NewRow
  <2>3. PICK gone : gone = EvictedBy(e, at)
    OBVIOUS
  <2>4. rows' = (rows \cup {new}) \ gone /\ clock' = clock + 1
    BY <1>1, <1>3, <2>1, <2>3
  <2>5. PICK top \in [Groups -> Nat] : top = history'.top
    BY DEF TypeInv, StateOK, Histories
  <2>6. /\ at > history.top[g0] => top[g0] = at
        /\ ~(at > history.top[g0]) => top[g0] = history.top[g0]
        /\ \A g \in Groups : g # g0 => top[g] = history.top[g]
    <3>1. top = [history.top EXCEPT ![g0] = IF at > history.top[g0] THEN at ELSE history.top[g0]]
      BY <1>1, <1>3, <2>5 DEF TopAfter, IsNewest
    <3>. HIDE DEF g0
    <3>. QED
      BY <1>0, <3>1 DEF g0
  <2>7. /\ (IF at > history.top[g0] THEN history.lost \ {g0} ELSE history.lost) \subseteq history'.lost
        /\ \A d \in gone : d.at = top[Group(d.ev)] => Group(d.ev) \in history'.lost
    BY <1>1, <1>3, <2>3, <2>5 DEF LostAfter, IsNewest
  <2>8. ASSUME NEW g \in Groups PROVE history.top[g] \in Nat /\ top[g] \in Nat /\ history.top[g] <= top[g]
    <3>1. history.top[g] \in Nat /\ top[g] \in Nat
      BY <1>0
    <3>2. CASE g # g0
      BY <2>6, <3>1, <3>2
    <3>3. CASE g = g0
      BY <1>0, <2>6, <3>1, <3>3
    <3>. QED
      BY <3>1, <3>2, <3>3
  <2>9. at <= top[g0]
    BY <1>0, <2>6, <2>8
  <2>. HIDE DEF g0
  <2>10. g0 \in Groups /\ Group(new.ev) = g0
    BY <1>0, <2>2 DEF g0
  <2>11. ASSUME NEW r \in rows, r \in rows'
         PROVE  /\ Outdone(r) => Outdone(r)'
                /\ First(r) => Outdone(r)' \/ First(r)'
                /\ First(r) /\ (Group(r.ev) = g0 => at <= r.at) => First(r)'
    <3>1. /\ r.id \in 1..clock /\ r.at \in Nat /\ Group(r.ev) \in Groups
          /\ r.at <= history.top[Group(r.ev)]
      BY RowFacts DEF CurationInv
    <3>2. ASSUME Outdone(r) PROVE Outdone(r)'
      <4>1. CASE r.at < history.top[Group(r.ev)]
        <5>1. r.at < top[Group(r.ev)]
          BY <2>8, <3>1, <4>1
        <5>. QED
          BY <2>5, <5>1 DEF Outdone
      <4>2. CASE Group(r.ev) \in history.lost /\ ~(Group(r.ev) = g0 /\ at > history.top[g0])
        BY <2>7, <4>2 DEF Outdone
      <4>3. CASE Group(r.ev) = g0 /\ at > history.top[g0]
        <5>1. r.at < top[Group(r.ev)]
          BY <1>0, <2>6, <2>8, <2>10, <3>1, <4>3
        <5>. QED
          BY <2>5, <5>1 DEF Outdone
      <4>. QED
        BY <3>2, <4>1, <4>2, <4>3 DEF Outdone
    <3>3. ASSUME First(r), Group(r.ev) = g0 => at <= r.at PROVE First(r)'
      <4>. SUFFICES ASSUME NEW s \in rows', Group(s.ev) = Group(r.ev)
                    PROVE  s.at <= r.at /\ (s.at = r.at => r.id <= s.id)
        BY DEF First
      <4>1. CASE s \in rows
        BY <3>3, <4>1 DEF First
      <4>2. CASE s = new
        <5>1. at <= r.at
          BY <2>10, <3>3, <4>2
        <5>2. r.id <= clock + 1
          BY <1>0, <3>1
        <5>. QED
          BY <2>2, <4>2, <5>1, <5>2
      <4>. QED
        BY <2>4, <4>1, <4>2
    <3>4. ASSUME First(r) PROVE Outdone(r)' \/ First(r)'
      <4>1. CASE Group(r.ev) = g0 /\ at > r.at
        <5>1. r.at < top[Group(r.ev)]
          BY <1>0, <2>8, <2>9, <2>10, <3>1, <4>1
        <5>. QED
          BY <2>5, <5>1 DEF Outdone
      <4>2. CASE ~(Group(r.ev) = g0 /\ at > r.at)
        <5>1. Group(r.ev) = g0 => at <= r.at
          BY <1>0, <3>1, <4>2
        <5>. QED
          BY <3>3, <3>4, <5>1
      <4>. QED
        BY <4>1, <4>2
    <3>. QED
      BY <3>2, <3>3, <3>4
  <2>12. ASSUME NEW r \in rows, r \in rows', Promoted(r) PROVE Promoted(r)'
    BY <2>11, <2>12 DEF Promoted
  <2>13. ASSUME NEW s \in rows' PROVE s.at <= history'.top[Group(s.ev)]
    <3>1. CASE s \in rows
      <4>1. s.at \in Nat /\ Group(s.ev) \in Groups /\ s.at <= history.top[Group(s.ev)]
        BY <3>1, RowFacts DEF CurationInv
      <4>2. s.at <= top[Group(s.ev)]
        BY <2>8, <4>1
      <4>. QED
        BY <2>5, <4>2
    <3>2. CASE s = new
      BY <2>2, <2>5, <2>9, <2>10, <3>2
    <3>. QED
      BY <2>4, <3>1, <3>2
  <2>14. ASSUME NEW s \in rows', s.pri = PromotionPriority PROVE Promoted(s)'
    <3>1. CASE s \in rows
      BY <2>12, <2>14, <3>1 DEF CurationInv
    <3>2. CASE s = new
      <4>1. e.pri \in 0..5
        BY LedgerAssumption
      <4>2. e.pri = 90
        BY <2>2, <2>14, <3>2 DEF PromotionPriority
      <4>. QED
        BY <4>1, <4>2
    <3>. QED
      BY <2>4, <3>1, <3>2
  <2>15. ASSUME NEW q \in Procs, At(q, "apply")'
         PROVE  /\ proc'[q] = proc[q] /\ At(q, "apply") /\ PlanOK(q)
                /\ \A d \in proc[q].plan.del : d.id \in Nat /\ d.id <= clock
                /\ \A n \in proc[q].plan.promote : n \in Nat /\ n <= clock
    <3>1. proc'[q] = proc[q]
      BY <2>15
    <3>2. At(q, "apply")
      BY <2>15, <3>1 DEF At
    <3>3. proc[q].plan \in Plans /\ PlanOK(q)
      BY <3>2 DEF TypeInv, HandlerOK, CurationInv
    <3>4. \A d \in proc[q].plan.del : d.id \in Nat /\ d.id <= clock
      BY <3>2, <3>3 DEF Plans, Rows, PlanOK
    <3>5. \A n \in proc[q].plan.promote : n \in Nat /\ n <= clock
      BY <3>2, <3>3 DEF Plans, PlanOK
    <3>. QED
      BY <3>1, <3>2, <3>3, <3>4, <3>5
  <2>16. ASSUME NEW g \in Groups PROVE Newest(g)'
    <3>1. CASE g = g0 /\ at > history.top[g0]
      <4>1. top[g] = at
        BY <2>6, <3>1
      <4>2. CASE new \in gone
        BY <2>2, <2>7, <2>10, <3>1, <4>1, <4>2 DEF Newest
      <4>3. CASE new \notin gone
        <5>1. new \in rows'
          BY <2>4, <4>3
        <5>2. First(new)'
          <6>. SUFFICES ASSUME NEW s \in rows', Group(s.ev) = Group(new.ev)
                        PROVE  s.at <= new.at /\ (s.at = new.at => new.id <= s.id)
            BY DEF First
          <6>1. CASE s = new
            BY <1>0, <2>2, <6>1
          <6>2. CASE s \in rows
            <7>1. s.at \in Nat /\ s.at <= history.top[g0]
              BY <2>10, <6>2, RowFacts DEF CurationInv
            <7>2. s.at < at
              BY <1>0, <2>8, <2>10, <3>1, <7>1
            <7>. QED
              BY <1>0, <2>2, <7>1, <7>2
          <6>. QED
            BY <2>4, <6>1, <6>2
        <5>3. ASSUME NEW q \in Procs, At(q, "apply")' PROVE \A d \in proc'[q].plan.del : d.id # new.id
          BY <1>0, <2>2, <2>15, <5>3
        <5>. QED
          BY <2>2, <2>5, <2>10, <3>1, <4>1, <5>1, <5>2, <5>3 DEF Newest
      <4>. QED
        BY <4>2, <4>3
    <3>2. CASE ~(g = g0 /\ at > history.top[g0])
      <4>1. top[g] = history.top[g]
        BY <2>6, <3>2
      <4>2. CASE history.top[g] = 0
        BY <2>5, <4>1, <4>2 DEF Newest
      <4>3. CASE g \in history.lost
        <5>1. g \in history'.lost
          BY <2>7, <3>2, <4>3
        <5>. QED
          BY <5>1 DEF Newest
      <4>4. CASE history.top[g] # 0 /\ g \notin history.lost
        <5>1. PICK r \in rows : /\ Group(r.ev) = g /\ r.at = history.top[g] /\ First(r)
                                /\ \A p \in Procs : At(p, "apply") =>
                                     \A d \in proc[p].plan.del : d.id # r.id
          BY <4>4 DEF CurationInv, Newest
        <5>2. CASE r \in gone
          <6>1. g \in history'.lost
            BY <2>7, <4>1, <5>1, <5>2
          <6>. QED
            BY <6>1 DEF Newest
        <5>3. CASE r \notin gone
          <6>1. r \in rows'
            BY <2>4, <5>3
          <6>2. Group(r.ev) = g0 => at <= r.at
            BY <1>0, <2>8, <2>10, <3>2, <5>1
          <6>3. First(r)'
            BY <2>11, <5>1, <6>1, <6>2
          <6>4. ASSUME NEW q \in Procs, At(q, "apply")' PROVE \A d \in proc'[q].plan.del : d.id # r.id
            BY <2>15, <5>1, <6>4
          <6>. QED
            BY <2>5, <4>1, <5>1, <6>1, <6>3, <6>4 DEF Newest
        <5>. QED
          BY <5>2, <5>3
      <4>. QED
        BY <4>2, <4>3, <4>4
    <3>. QED
      BY <3>1, <3>2
  <2>17. ASSUME NEW q \in Procs PROVE PlanOK(q)'
    <3>. SUFFICES ASSUME At(q, "apply")' PROVE PlanOK(q)'
      BY DEF PlanOK
    <3>1. /\ proc'[q] = proc[q] /\ At(q, "apply") /\ PlanOK(q)
          /\ \A d \in proc[q].plan.del : d.id \in Nat /\ d.id <= clock
          /\ \A n \in proc[q].plan.promote : n \in Nat /\ n <= clock
      BY <2>15
    <3>2. ASSUME NEW d \in proc[q].plan.del
          PROVE  /\ d.id <= clock' /\ d.ev.kind \in DOMAIN Keep
                 /\ \A s \in rows' : s.id = d.id => s.ev = d.ev
      <4>1. d.id \in Nat /\ d.id <= clock
        BY <3>1
      <4>2. d.id <= clock' /\ d.id # clock + 1
        BY <1>0, <2>4, <4>1
      <4>3. d.ev.kind \in DOMAIN Keep /\ \A r \in rows : r.id = d.id => r.ev = d.ev
        BY <3>1 DEF PlanOK
      <4>4. \A s \in rows' : s.id = d.id => s \in rows
        BY <2>2, <2>4, <4>2
      <4>. QED
        BY <4>2, <4>3, <4>4
    <3>3. ASSUME NEW n \in proc[q].plan.promote
          PROVE  n <= clock' /\ \A s \in rows' : s.id = n => Promoted(s)'
      <4>1. n \in Nat /\ n <= clock
        BY <3>1
      <4>2. n <= clock' /\ n # clock + 1
        BY <1>0, <2>4, <4>1
      <4>3. \A r \in rows : r.id = n => Promoted(r)
        BY <3>1 DEF PlanOK
      <4>4. \A s \in rows' : s.id = n => s \in rows
        BY <2>2, <2>4, <4>2
      <4>. QED
        BY <2>12, <4>2, <4>3, <4>4
    <3>. QED
      BY <3>1, <3>2, <3>3 DEF PlanOK
  <2>. QED
    BY <2>13, <2>14, <2>16, <2>17 DEF CurationInv
<1>. QED
  BY <1>2, <1>3

\* What a plan made now says.
LEMMA PlanFacts ==
  ASSUME TypeInv, NEW pl, pl = CurationPlan(rows)
  PROVE  /\ \A d \in pl.del : d \in rows /\ d.ev.kind \in DOMAIN Keep /\ ~First(d)
         /\ \A n \in pl.promote : \E r \in rows :
              r.id = n /\ (r.ev.kind \in DOMAIN Keep => First(r))
<1>. DEFINE Before(r) == {s \in rows : Group(s.ev) = Group(r.ev) /\ KeptBefore(s, r)}
            del == {r \in rows : r.ev.kind \in DOMAIN Keep /\ Cardinality(Before(r)) >= Keep[r.ev.kind]}
            high == {r \in rows \ del : r.ev.kind \in PromotionTypes /\ r.pri < PromotionPriority}
<1>1. pl = [del |-> del, promote |-> {r.id : r \in high}]
  BY DEF CurationPlan
<1>2. pl.del = del /\ pl.promote = {r.id : r \in high}
  BY <1>1
<1>3. IsFiniteSet(rows)
  BY DEF TypeInv, LedgerOK
<1>4. ASSUME NEW r \in rows
      PROVE  /\ First(r) => Before(r) = {}
             /\ Before(r) = {} => First(r)
             /\ IsFiniteSet(Before(r)) /\ Cardinality(Before(r)) \in Nat
  <2>0. \A s \in rows : s.at \in Nat /\ s.id \in Nat
    BY RowFacts
  <2>1. ASSUME First(r), NEW s \in rows, Group(s.ev) = Group(r.ev), KeptBefore(s, r) PROVE FALSE
    <3>1. s.at <= r.at /\ (s.at = r.at => r.id <= s.id)
      BY <2>1 DEF First
    <3>2. s.at > r.at \/ (s.at = r.at /\ s.id < r.id)
      BY <2>1 DEF KeptBefore
    <3>. QED
      BY <2>0, <3>1, <3>2
  <2>2. ASSUME Before(r) = {}, NEW s \in rows, Group(s.ev) = Group(r.ev)
        PROVE  s.at <= r.at /\ (s.at = r.at => r.id <= s.id)
    <3>1. ~KeptBefore(s, r)
      BY <2>2
    <3>. QED
      BY <2>0, <3>1 DEF KeptBefore
  <2>3. IsFiniteSet(Before(r))
    BY <1>3, FS_Subset
  <2>4. Cardinality(Before(r)) \in Nat
    BY <2>3, FS_CardinalityType
  <2>. QED
    BY <2>1, <2>2, <2>3, <2>4 DEF First
<1>5. \A k \in DOMAIN Keep : Keep[k] \in Nat /\ Keep[k] > 0
  BY DEF Keep
<1>6. ASSUME NEW d \in del PROVE d \in rows /\ d.ev.kind \in DOMAIN Keep /\ ~First(d)
  <2>1. d \in rows /\ d.ev.kind \in DOMAIN Keep /\ Cardinality(Before(d)) >= Keep[d.ev.kind]
    OBVIOUS
  <2>2. Cardinality(Before(d)) # 0
    <3>1. PICK c \in Nat : c = Cardinality(Before(d))
      BY <1>4, <2>1
    <3>2. PICK k \in Nat : k = Keep[d.ev.kind] /\ k > 0
      BY <1>5, <2>1
    <3>3. c >= k
      BY <2>1, <3>1, <3>2
    <3>. HIDE DEF Before
    <3>. QED
      BY <3>1, <3>2, <3>3
  <2>3. Before(d) # {}
    BY <2>2, FS_EmptySet
  <2>. QED
    BY <1>4, <2>1, <2>3
<1>7. ASSUME NEW r \in high, r.ev.kind \in DOMAIN Keep PROVE First(r)
  <2>1. r \in rows /\ r \notin del /\ r.ev.kind \in PromotionTypes
    OBVIOUS
  <2>2. r.ev.kind = "REASONING_RESULT"
    BY <1>7, <2>1 DEF PromotionTypes, Keep
  <2>3. Keep[r.ev.kind] = 1
    BY <2>2 DEF Keep
  <2>4. ~(Cardinality(Before(r)) >= 1)
    BY <1>7, <2>1, <2>3
  <2>5. Cardinality(Before(r)) = 0
    <3>1. PICK c \in Nat : c = Cardinality(Before(r))
      BY <1>4, <2>1
    <3>2. ~(c >= 1)
      BY <2>4, <3>1
    <3>. HIDE DEF Before
    <3>. QED
      BY <3>1, <3>2
  <2>6. Before(r) = {}
    BY <1>4, <2>1, <2>5, FS_EmptySet
  <2>. QED
    BY <1>4, <2>1, <2>6
<1>8. ASSUME NEW n \in pl.promote
      PROVE  \E r \in rows : r.id = n /\ (r.ev.kind \in DOMAIN Keep => First(r))
  <2>1. PICK r \in high : r.id = n
    BY <1>2
  <2>2. r \in rows
    BY <2>1
  <2>. QED
    BY <1>7, <2>1, <2>2
<1>. QED
  BY <1>2, <1>6, <1>8

\* A plan is made.
LEMMA CurationCurate ==
  ASSUME TypeInv, CurationInv, [Next]_vars, NEW p \in Procs, Curate(p)
  PROVE  CurationInv'
<1>1. UNCHANGED <<rows, clock, history>>
  BY DEF Curate
<1>2. PICK pl : pl = CurationPlan(rows)
  OBVIOUS
<1>3. proc'[p].plan = pl /\ \A q \in Procs : q # p => proc'[q] = proc[q]
  BY <1>2, CurateGoes, Moves
<1>4. /\ \A d \in pl.del : d \in rows /\ d.ev.kind \in DOMAIN Keep /\ ~First(d)
      /\ \A n \in pl.promote : \E r \in rows :
           r.id = n /\ (r.ev.kind \in DOMAIN Keep => First(r))
  BY <1>2, PlanFacts
<1>5. /\ \A r \in rows : r.id \in Nat /\ r.id <= clock
      /\ \A r, s \in rows : r.id = s.id => r = s
  <2>1. \A r \in rows : r.id \in Nat /\ r.id <= clock
    BY RowFacts
  <2>. QED
    BY <2>1 DEF TypeInv, LedgerOK
<1>6. ASSUME NEW g \in Groups PROVE Newest(g)'
  <2>1. CASE history.top[g] = 0 \/ g \in history.lost
    BY <1>1, <2>1 DEF Newest
  <2>2. CASE history.top[g] # 0 /\ g \notin history.lost
    <3>1. PICK r \in rows : /\ Group(r.ev) = g /\ r.at = history.top[g] /\ First(r)
                            /\ \A q \in Procs : At(q, "apply") =>
                                 \A d \in proc[q].plan.del : d.id # r.id
      BY <2>2 DEF CurationInv, Newest
    <3>2. \A d \in pl.del : d.id # r.id
      BY <1>4, <1>5, <3>1
    <3>3. ASSUME NEW q \in Procs, At(q, "apply")' PROVE \A d \in proc'[q].plan.del : d.id # r.id
      <4>1. CASE q = p
        BY <1>3, <3>2, <4>1
      <4>2. CASE q # p
        <5>1. proc'[q] = proc[q]
          BY <1>3, <4>2
        <5>2. At(q, "apply")
          BY <3>3, <5>1 DEF At
        <5>. QED
          BY <3>1, <5>1, <5>2
      <4>. QED
        BY <4>1, <4>2
    <3>4. First(r)'
      BY <1>1, <3>1 DEF First
    <3>. QED
      BY <1>1, <3>1, <3>3, <3>4 DEF Newest
  <2>. QED
    BY <2>1, <2>2
<1>7. ASSUME NEW r \in rows, Promoted(r) PROVE Promoted(r)'
  BY <1>1, <1>7 DEF Promoted, First, Outdone
<1>8. ASSUME NEW q \in Procs PROVE PlanOK(q)'
  <2>. SUFFICES ASSUME At(q, "apply")' PROVE PlanOK(q)'
    BY DEF PlanOK
  <2>1. CASE q = p
    <3>1. ASSUME NEW d \in pl.del
          PROVE  /\ d.id <= clock' /\ d.ev.kind \in DOMAIN Keep
                 /\ \A s \in rows' : s.id = d.id => s.ev = d.ev
      BY <1>1, <1>4, <1>5
    <3>2. ASSUME NEW n \in pl.promote
          PROVE  n <= clock' /\ \A s \in rows' : s.id = n => Promoted(s)'
      <4>1. PICK r \in rows : r.id = n /\ (r.ev.kind \in DOMAIN Keep => First(r))
        BY <1>4
      <4>2. Promoted(r)'
        BY <1>7, <4>1 DEF Promoted
      <4>3. ASSUME NEW s \in rows', s.id = n PROVE s = r
        BY <1>1, <1>5, <4>1, <4>3
      <4>. QED
        BY <1>1, <1>5, <4>1, <4>2, <4>3
    <3>. QED
      BY <1>3, <2>1, <3>1, <3>2 DEF PlanOK
  <2>2. CASE q # p
    <3>1. proc'[q] = proc[q]
      BY <1>3, <2>2
    <3>2. At(q, "apply") /\ PlanOK(q)
      BY <3>1 DEF At, CurationInv
    <3>3. ASSUME NEW d \in proc[q].plan.del
          PROVE  /\ d.id <= clock' /\ d.ev.kind \in DOMAIN Keep
                 /\ \A s \in rows' : s.id = d.id => s.ev = d.ev
      BY <1>1, <3>2 DEF PlanOK
    <3>4. ASSUME NEW n \in proc[q].plan.promote
          PROVE  n <= clock' /\ \A s \in rows' : s.id = n => Promoted(s)'
      <4>1. n <= clock /\ \A r \in rows : r.id = n => Promoted(r)
        BY <3>2 DEF PlanOK
      <4>. QED
        BY <1>1, <1>7, <4>1
    <3>. QED
      BY <3>1, <3>3, <3>4 DEF PlanOK
  <2>. QED
    BY <2>1, <2>2
<1>9. ASSUME NEW s \in rows' PROVE s.at <= history'.top[Group(s.ev)]
  BY <1>1 DEF CurationInv
<1>10. ASSUME NEW s \in rows', s.pri = PromotionPriority PROVE Promoted(s)'
  BY <1>1, <1>7, <1>10 DEF CurationInv
<1>. QED
  BY <1>6, <1>8, <1>9, <1>10 DEF CurationInv

\* Every step keeps it.
LEMMA CurationStep ==
  ASSUME TypeInv, TypeInv', CurationInv, [Next]_vars
  PROVE  CurationInv'
<1>1. CASE \E p \in Procs : Curate(p)
  BY <1>1, CurationCurate
<1>2. CASE ~\E p \in Procs : Curate(p)
  <2>1. \A q \in Procs : At(q, "apply")' => proc'[q] = proc[q]
    BY <1>2, PlansKept
  <2>2. clock <= clock'
    BY SnapSteps DEF Later
  <2>. QED
    BY <2>1, <2>2, LedgerSteps, CurationStore, CurationClear, CurationApply, CurationSame
<1>. QED
  BY <1>1, <1>2

\* Initially.
LEMMA CurationInit == Init => CurationInv
<1>. SUFFICES ASSUME Init PROVE CurationInv
  OBVIOUS
<1>1. rows = {} /\ \A g \in Groups : history.top[g] = 0
  BY DEF Init
<1>2. ASSUME NEW p \in Procs PROVE PlanOK(p)
  <2>1. proc[p] = Idle
    BY DEF Init
  <2>2. proc[p].todo = <<>>
    BY <2>1, IdleFacts
  <2>. QED
    BY <2>2 DEF PlanOK, At
<1>. QED
  BY <1>1, <1>2 DEF CurationInv, Newest

\* Curation keeps an event of every group with the newest time although it decides on a
\* list read before its transaction (compact_session_events), unless the limit took one.
THEOREM CurationKeepsTheNewest == Spec => []NewestIsKept
<1>1. CurationInv => NewestIsKept
  BY DEF CurationInv, NewestIsKept, Newest
<1>2. TypeInv /\ TypeInv' /\ CurationInv /\ [Next]_vars => CurationInv'
  BY CurationStep
<1>. QED
  BY <1>1, <1>2, CurationInit, TypeInit, TypeStep, PTL DEF Spec

\* A promoted row leaves the ledger only with its session, or for a newer one of its
\* group, or when all rows left are promoted (compact_session_events, enforce_event_limit).
THEOREM PromotedEventsSurvive == Spec => PromotedSurvive
<1>. DEFINE A == \A r \in rows :
       (/\ r.pri = PromotionPriority /\ session'
        /\ \A s \in rows' : s.id # r.id)
         => \/ /\ r.ev.kind \in DOMAIN Keep
               /\ r.at < history.top[Group(r.ev)] \/ Group(r.ev) \in history.lost
            \/ \A s \in rows' : s.pri = PromotionPriority
<1>1. TypeInv /\ TypeInv' /\ CurationInv /\ [Next]_vars => [A]_vars
  <2>. SUFFICES ASSUME TypeInv, TypeInv', CurationInv, [Next]_vars, NEW r \in rows,
                       r.pri = PromotionPriority, session', \A s \in rows' : s.id # r.id
                PROVE  \/ /\ r.ev.kind \in DOMAIN Keep
                          /\ r.at < history.top[Group(r.ev)] \/ Group(r.ev) \in history.lost
                       \/ \A s \in rows' : s.pri = PromotionPriority
    OBVIOUS
  <2>0. StateOK /\ LedgerOK /\ clock \in Nat
    BY DEF TypeInv, StateOK
  <2>1. CASE SameLedger
    BY <2>1 DEF SameLedger
  <2>2. CASE Clear
    BY <2>2 DEF Clear
  <2>3. ASSUME NEW e \in Events, NEW at \in 1..clock + 1, Store(e, at)
        PROVE  \A s \in rows' : s.pri = PromotionPriority
    <3>1. /\ rows' = IF Dup(e) THEN rows ELSE (rows \cup {NewRow(e, at)}) \ EvictedBy(e, at)
          /\ NewRow(e, at) \in Rows
      <4>1. at \in Nat
        BY <2>0
      <4>. QED
        BY <2>0, <2>3, <4>1, StoreEffect
    <3>2. ~Dup(e)
      BY <3>1
    <3>3. PICK R \in SUBSET Rows : R = rows \cup {NewRow(e, at)}
      BY <2>0, <3>1 DEF LedgerOK
    <3>4. rows' = R \ Evicted(R) /\ r \in R /\ IsFiniteSet(R)
      <4>1. IsFiniteSet(rows \cup {NewRow(e, at)})
        BY <2>0, FS_AddElement DEF LedgerOK
      <4>. QED
        BY <3>1, <3>2, <3>3, <4>1 DEF EvictedBy
    <3>5. r \in Evicted(R)
      BY <3>4
    <3>. SUFFICES ASSUME NEW s \in rows' PROVE s.pri = PromotionPriority
      OBVIOUS
    <3>6. s \in R /\ s \notin Evicted(R)
      BY <3>4
    <3>7. ~(s.pri < r.pri)
      BY <3>4, <3>5, <3>6, EvictionOrder
    <3>8. s.pri \in {s.ev.pri, PromotionPriority} /\ s.ev \in Events
      BY DEF TypeInv, LedgerOK, Rows
    <3>9. s.ev.pri \in 0..5
      BY <3>8, LedgerAssumption
    <3>. QED
      BY <3>7, <3>8, <3>9 DEF PromotionPriority
  <2>4. ASSUME NEW p \in Procs, Apply(p)
        PROVE  /\ r.ev.kind \in DOMAIN Keep
               /\ r.at < history.top[Group(r.ev)] \/ Group(r.ev) \in history.lost
    <3>1. At(p, "apply") /\ HandlerOK(p) /\ PlanOK(p)
      BY <2>4 DEF Apply, TypeInv, CurationInv
    <3>2. PICK pl \in Plans : pl = proc[p].plan
      BY <3>1 DEF HandlerOK
    <3>3. /\ rows' = ApplyPlan(rows, pl) /\ decisions' = decisions
          /\ UNCHANGED <<session, snap, clock>>
      BY <2>4, <3>2 DEF Apply, DecisionsAfter
    <3>4. (\A d \in pl.del : d.id # r.id) =>
              \E s \in rows' : s.id = r.id /\ s.ev = r.ev /\ s.at = r.at
      BY <2>0, <3>3, ApplyLedger
    <3>5. PICK d \in pl.del : d.id = r.id
      BY <3>4
    <3>6. r.ev.kind \in DOMAIN Keep
      BY <3>1, <3>2, <3>5 DEF PlanOK
    <3>7. Outdone(r) \/ First(r)
      BY <3>6 DEF CurationInv, Promoted
    <3>8. PICK g \in Groups : g = Group(r.ev)
      BY RowFacts
    <3>9. /\ r.at \in Nat /\ r.id \in Nat /\ r.at # 0 /\ history.top[g] \in Nat
          /\ r.at <= history.top[g]
      BY <3>8, RowFacts DEF CurationInv
    <3>10. ASSUME First(r), g \notin history.lost PROVE r.at < history.top[g]
      <4>1. history.top[g] # 0
        BY <3>9
      <4>2. PICK x \in rows : /\ Group(x.ev) = g /\ x.at = history.top[g] /\ First(x)
                              /\ \A q \in Procs : At(q, "apply") =>
                                   \A y \in proc[q].plan.del : y.id # x.id
        BY <3>10, <4>1 DEF CurationInv, Newest
      <4>3. x.id # r.id /\ x.id \in Nat /\ x.at \in Nat
        BY <3>1, <3>2, <3>5, <4>2, RowFacts
      <4>4. r.at = x.at => r.id <= x.id /\ x.id <= r.id
        BY <3>8, <3>10, <4>2 DEF First
      <4>5. r.at # x.at
        BY <3>9, <4>3, <4>4
      <4>. QED
        BY <3>9, <4>2, <4>5
    <3>. QED
      BY <3>6, <3>7, <3>8, <3>10 DEF Outdone
  <2>. QED
    BY <2>1, <2>2, <2>3, <2>4, LedgerSteps
<1>2. TypeInv /\ TypeInv' /\ CurationInv /\ [Next]_vars => CurationInv'
  BY CurationStep
<1>. QED
  BY <1>1, <1>2, CurationInit, TypeInit, TypeStep, PTL DEF Spec, PromotedSurvive
=============================================================================
