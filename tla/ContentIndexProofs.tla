------------------------- MODULE ContentIndexProofs -------------------------
(***************************************************************************)
(* Proofs about ContentIndex, for any processes, sources, texts, sessions, *)
(* batch size, limits and bounds.                                          *)
(***************************************************************************)
EXTENDS ContentIndex, FiniteSetTheorems, TLAPS

USE ContentAssumption

AllTexts == UNION {Cuts(s) : s \in Sources}

-----------------------------------------------------------------------------
(* The inductive invariant.                                                *)

SaveJobs ==
  [pc : {"replace", "flush", "limit", "fts", "trigram", "rows"}, op : {"save"},
   source : Sources, session : Sessions, chunks : Seq(Contents), at : Nat,
   done : Nat, victim : Sources \cup {NoSource}, hidden : SUBSET Nat]
PurgeJobs ==
  [pc : {"fts", "trigram", "rows"}, op : {"purge"}, session : Sessions, hidden : SUBSET Nat]

\* The batches of every save of a text start at the same chunks.
BatchStart(n) == \E m \in Nat : n = m * BatchSize

\* How far a process can be, with chunk ids below n given out: only a deletion
\* under way hides chunks.
JobOK(j, n) ==
  /\ j \in {Idle} \cup SaveJobs \cup PurgeJobs
  /\ j # Idle => /\ j.hidden \subseteq 1 .. n - 1
                 /\ j.pc \notin {"trigram", "rows"} => j.hidden = {}
  /\ j \in SaveJobs => /\ j.chunks \in Cuts(j.source)
                       /\ j.pc = "replace" => j.done = 0
                       /\ j.pc = "flush" => j.done < Len(j.chunks) /\ BatchStart(j.done)

\* The tables and the indexes; the clock, the bounds and the history; the processes.
TablesOK ==
  /\ src \in [Sources -> [session : Sessions, at : Nat] \cup {NoSource}]
  /\ chunks \subseteq [id : Nat, of : Sources, text : Contents, index : Nat]
  /\ IsFiniteSet(chunks)
  /\ \A c \in chunks : /\ c.id \in 1 .. nextId - 1 /\ Exists(c.of)
                       /\ c.text \in Contents /\ c.index \in 1..MaxChunks
  /\ \A c, d \in chunks : c # d => /\ c.id # d.id
                                   /\ c.of = d.of => c.text # d.text /\ c.index # d.index
  /\ entries \in [Indexes -> SUBSET [id : 1 .. nextId - 1, text : Contents]]
  /\ broken \subseteq Indexes /\ nextId \in Nat \ {0} /\ pages \in Nat /\ limit \in Limits
RestOK ==
  /\ now \in Nat /\ ops \in 0..MaxOps /\ faults \in 0..MaxFaults
  /\ history \in [acked : SUBSET Acks,
                  last : [Sources -> [session : Sessions, text : AllTexts] \cup {NoSource}],
                  torn : SUBSET Sources, stranded : SUBSET Nat, crossed : BOOLEAN]
  /\ history.stranded \subseteq 1 .. nextId - 1
JobsOK ==
  /\ job \in [Procs -> {Idle} \cup SaveJobs \cup PurgeJobs]
  /\ \A p \in Procs : JobOK(job[p], nextId)

TypeInv == TablesOK /\ RestOK /\ JobsOK

\* A chunk that a deletion has hidden and that is still there belongs to a source
\* that the deletion's last statement will remove.
HiddenIsDoomed ==
  \A p \in Procs : job[p] # Idle =>
    \A c \in chunks : c.id \in job[p].hidden => c.of \in Doomed(p)

\* While no two deletions have overlapped and none broke off: nothing is stranded,
\* and only a deletion before its last statement keeps a chunk out of the second index.
Uncrossed ==
  ~history.crossed =>
    /\ history.stranded = {}
    /\ \A c \in chunks : \/ [id |-> c.id, text |-> c.text] \in entries["trigram"]
                         \/ \E p \in Procs : job[p].pc = "rows" /\ c.id \in job[p].hidden
    /\ \A p, q \in Procs : Deleting(p) /\ Deleting(q) => p = q

SearchInv == HitsMatchTheirChunk /\ ChunksAreSearchable /\ HiddenIsDoomed
             /\ Uncrossed /\ IndexesAreIntact

Stored(s) == {c.index : c \in Rows(s)}
LastText(s) == history.last[s].text

\* The source row is that of the last save to replace it.
LastOK(s) ==
  Exists(s) => /\ history.last[s].text \in Cuts(s)
               /\ history.last[s].session = src[s].session

\* The chunks of s are chunks of its text at their places.
RowsOfText(s) ==
  \A c \in Rows(s) : c.index \in 1..Len(LastText(s)) /\ c.text = LastText(s)[c.index]

\* A batch is stored as a whole or not at all.
WholeBatches(s) ==
  \A n \in Nat, k \in Stored(s) :
    BatchStart(n) /\ n < k /\ k <= n + BatchSize =>
      \A i \in n + 1 .. Smaller(n + BatchSize, Len(LastText(s))) : i \in Stored(s)

\* For every missing chunk and every stored one before it there is a save under way
\* that has passed the stored one and will come to the missing one.
MissingIsComing(s) ==
  ~Repeats(LastText(s)) =>
    \A i \in 1..Len(LastText(s)), k \in {0} \cup Stored(s) :
      i \notin Stored(s) /\ k < i =>
        \E p \in Procs : Saving(p, s) /\ k <= job[p].done /\ job[p].done < i

Whole(s) ==
  Exists(s) /\ s \notin history.torn =>
    /\ \A p \in Procs : Saving(p, s) => job[p].chunks = history.last[s].text
    /\ RowsOfText(s) /\ WholeBatches(s) /\ MissingIsComing(s)

\* What was acknowledged and not replaced since is there.
AckedExists ==
  \A a \in history.acked :
    history.last[a.source] = [session |-> a.session, text |-> a.text] => Exists(a.source)

SaveInv == (\A s \in Sources : LastOK(s) /\ Whole(s)) /\ AckedExists

-----------------------------------------------------------------------------
(* Facts about the operators.                                              *)

\* The chunks that are kept of a text are chunks, and no more than the file's cap.
LEMMA KeptFacts ==
  ASSUME NEW s \in Sources, NEW t \in Cuts(s)
  PROVE  /\ t \in AllTexts /\ t \in Seq(Contents)
         /\ Len(t) \in Nat /\ Len(t) <= MaxChunks
<1>1. PICK u \in Texts[s], left \in RunLeft : t = Kept(u, left)
  BY DEF Cuts
<1>2. u \in Seq(Contents) /\ Len(u) \in Nat /\ left \in Nat
  OBVIOUS
<1>. DEFINE n == Smaller(Len(u), Smaller(MaxChunks, left))
<1>3. n \in 0..Len(u) /\ n <= MaxChunks
  BY <1>2 DEF Smaller
<1>4. t \in Seq(Contents) /\ Len(t) = n
  BY <1>1, <1>2, <1>3 DEF Kept
<1>. QED
  BY <1>3, <1>4 DEF AllTexts

\* What a save stores is what some save may store.
LEMMA SavedCut ==
  ASSUME NEW p \in Procs, job[p] \in SaveJobs, JobOK(job[p], nextId)
  PROVE  job[p].chunks \in AllTexts
<1>1. PICK s \in Sources : s = job[p].source
  BY DEF SaveJobs
<1>2. job[p].chunks \in Cuts(s)
  BY <1>1 DEF JobOK
<1>. QED
  BY <1>2 DEF AllTexts

\* A process that stores chunks is saving, and has chunks left.
LEMMA FlushJob ==
  ASSUME TypeInv, NEW p \in Procs, job[p].pc = "flush"
  PROVE  /\ job[p] \in SaveJobs /\ job[p] # Idle
         /\ job[p].done \in Nat /\ job[p].done < Len(job[p].chunks) /\ Len(job[p].chunks) \in Nat
         /\ Len(job[p].chunks) <= MaxChunks /\ BatchStart(job[p].done)
         /\ job[p].hidden = {} /\ job[p].chunks \in Seq(Contents)
<1>1. JobOK(job[p], nextId)
  BY DEF TypeInv, JobsOK
<1>2. job[p] # Idle
  BY DEF Idle
<1>3. job[p] \in SaveJobs
  BY <1>1, <1>2 DEF JobOK, PurgeJobs
<1>. QED
  BY <1>1, <1>2, <1>3, KeptFacts DEF JobOK, SaveJobs

\* The next batch of a save: where it ends, how many rows it has, and which.
Upto(p) == Smaller(job[p].done + BatchSize, Len(job[p].chunks))

\* A batch is never empty; its rows have ids that were never used and that the
\* sequence passes.
LEMMA BatchFacts ==
  ASSUME TypeInv, NEW p \in Procs, job[p].pc = "flush"
  PROVE  /\ Upto(p) \in Nat /\ job[p].done < Upto(p) /\ Upto(p) <= Len(job[p].chunks)
         /\ Upto(p) <= job[p].done + BatchSize
         /\ Upto(p) # Len(job[p].chunks) => Upto(p) = job[p].done + BatchSize
         /\ IsFiniteSet(Batch(p)) /\ Cardinality(Batch(p)) = Upto(p) - job[p].done
         /\ \A i \in job[p].done + 1 .. Upto(p) : \E c \in Batch(p) : c.index = i
         /\ \A c \in Batch(p) :
              /\ c \in [id : Nat, of : Sources, text : Contents, index : Nat]
              /\ c.of = job[p].source
              /\ c.index \in job[p].done + 1 .. Upto(p) /\ c.text = job[p].chunks[c.index]
              /\ c.id = nextId + c.index - job[p].done - 1
<1>. DEFINE j == job[p]
            I == j.done + 1 .. Upto(p)
            f == [i \in I |-> [id |-> FirstId + i - j.done - 1, of |-> j.source,
                               text |-> j.chunks[i], index |-> i]]
<1>1. /\ j \in SaveJobs /\ j.done \in Nat /\ j.done < Len(j.chunks) /\ Len(j.chunks) \in Nat
      /\ j.chunks \in Seq(Contents) /\ j.source \in Sources /\ nextId \in Nat
  BY FlushJob DEF SaveJobs, TypeInv, TablesOK
<1>2. /\ Upto(p) \in Nat /\ j.done < Upto(p) /\ Upto(p) <= Len(j.chunks)
      /\ Upto(p) <= j.done + BatchSize
      /\ Upto(p) # Len(j.chunks) => Upto(p) = j.done + BatchSize
  BY <1>1 DEF Upto, Smaller
<1>3. Batch(p) = {f[i] : i \in I}
  BY DEF Batch, Upto
<1>4. IsFiniteSet(I) /\ Cardinality(I) = Upto(p) - j.done
  <2>1. j.done + 1 \in Int /\ Upto(p) \in Int /\ ~(j.done + 1 > Upto(p))
    BY <1>1, <1>2
  <2>2. Cardinality(I) = Upto(p) - (j.done + 1) + 1 /\ IsFiniteSet(I)
    BY <2>1, FS_Interval
  <2>. QED
    BY <1>1, <1>2, <2>2
<1>5. \A i, k \in I : i # k => f[i] # f[k]
  OBVIOUS
<1>6. f \in Bijection(I, Batch(p))
  BY <1>3, <1>5 DEF Bijection, Injection, Surjection, IsInjective
<1>7. IsFiniteSet(Batch(p)) /\ Cardinality(Batch(p)) = Cardinality(I)
  <2>1. ExistsBijection(I, Batch(p))
    BY <1>6 DEF ExistsBijection
  <2>. QED
    BY <2>1, <1>4, FS_Bijection
<1>8. ASSUME NEW i \in I
      PROVE  j.chunks[i] \in Contents /\ nextId + i - j.done - 1 \in Nat /\ i \in Nat
  <2>1. i \in 1..Len(j.chunks) /\ i \in Nat /\ i - j.done - 1 \in Nat
    BY <1>1, <1>2
  <2>2. j.chunks[i] \in Contents
    BY <1>1, <2>1
  <2>. QED
    BY <1>1, <2>1, <2>2
<1>9. ASSUME NEW c \in Batch(p)
      PROVE  /\ c \in [id : Nat, of : Sources, text : Contents, index : Nat]
             /\ c.of = j.source /\ c.index \in I /\ c.text = j.chunks[c.index]
             /\ c.id = nextId + c.index - j.done - 1
  <2>1. PICK i \in I : c = f[i]
    BY <1>3
  <2>2. c = [id |-> nextId + i - j.done - 1, of |-> j.source, text |-> j.chunks[i], index |-> i]
    BY <2>1 DEF FirstId
  <2>. QED
    BY <1>1, <1>8, <2>2
<1>10. ASSUME NEW i \in I PROVE \E c \in Batch(p) : c.index = i
  <2>1. f[i] \in Batch(p) /\ f[i].index = i
    BY <1>3
  <2>. QED
    BY <2>1
<1>. HIDE DEF f
<1>. QED
  BY <1>2, <1>4, <1>7, <1>9, <1>10

-----------------------------------------------------------------------------
(* Types.                                                                  *)

\* TypeInv is TypeOK and what the provers have to know besides.
LEMMA TypeInvOK == TypeInv => TypeOK
<1>. SUFFICES ASSUME TypeInv PROVE TypeOK
  OBVIOUS
<1>1. \A p \in Procs : job[p].pc \in Jobs
  BY DEF TypeInv, JobsOK, Jobs, Idle, SaveJobs, PurgeJobs
<1>. QED
  BY <1>1 DEF TypeInv, TablesOK, RestOK, TypeOK

\* Ids that are given out stay given out.
LEMMA JobLater ==
  ASSUME NEW j, NEW m \in Nat, NEW n \in Nat, m <= n, JobOK(j, m)
  PROVE  JobOK(j, n)
<1>1. 1 .. m - 1 \subseteq 1 .. n - 1
  OBVIOUS
<1>. QED
  BY <1>1 DEF JobOK

\* A step of one process.
LEMMA JobChange ==
  ASSUME JobsOK, NEW p \in Procs, job' = [job EXCEPT ![p] = job'[p]],
         nextId \in Nat, nextId' \in Nat, nextId <= nextId', JobOK(job'[p], nextId')
  PROVE  JobsOK'
<1>1. job'[p] \in {Idle} \cup SaveJobs \cup PurgeJobs
  BY DEF JobOK
<1>2. job' \in [Procs -> {Idle} \cup SaveJobs \cup PurgeJobs]
  BY <1>1 DEF JobsOK
<1>3. ASSUME NEW q \in Procs PROVE JobOK(job'[q], nextId')
  <2>1. CASE q = p
    BY <2>1 DEF JobsOK
  <2>2. CASE q # p
    BY <2>2, JobLater DEF JobsOK
  <2>. QED
    BY <2>1, <2>2
<1>. QED
  BY <1>2, <1>3 DEF JobsOK

\* The store is empty at first.
LEMMA TypeInit == Init => TypeInv
<1>. SUFFICES ASSUME Init PROVE TypeInv
  OBVIOUS
<1>1. TablesOK
  BY FS_EmptySet DEF Init, TablesOK
<1>2. RestOK
  BY DEF Init, RestOK
<1>3. JobsOK
  BY DEF Init, JobsOK, JobOK, Idle, SaveJobs, PurgeJobs
<1>. QED
  BY <1>1, <1>2, <1>3 DEF TypeInv

\* A process that starts, and one that gives up, has a job of the right form.
LEMMA IdleJob == \A n : JobOK(Idle, n)
BY DEF JobOK, Idle, SaveJobs, PurgeJobs

\* A save that goes on keeps its form when it is not hiding chunks.
LEMMA SaveGoesOn ==
  ASSUME NEW n \in Nat, NEW j \in SaveJobs, JobOK(j, n), NEW k \in SaveJobs,
         k.chunks = j.chunks, k.source = j.source, k.hidden = {},
         k.pc # "replace", k.pc = "flush" => k.done < Len(k.chunks) /\ BatchStart(k.done)
  PROVE  JobOK(k, n)
BY DEF JobOK

\* Sources that go take their rows with them.
LEMMA DeleteTables ==
  ASSUME TablesOK, NEW S, DeleteSources(S), UNCHANGED <<entries, broken, nextId, pages, limit>>
  PROVE  TablesOK'
<1>1. chunks' \subseteq chunks /\ \A c \in chunks' : c.of \notin S
  BY DEF DeleteSources, Without
<1>2. IsFiniteSet(chunks')
  BY <1>1, FS_Subset DEF TablesOK
<1>3. src' \in [Sources -> [session : Sessions, at : Nat] \cup {NoSource}]
  BY DEF TablesOK, DeleteSources
<1>4. \A c \in chunks' : Exists(c.of)'
  BY <1>1 DEF TablesOK, DeleteSources, Exists
<1>. QED
  BY <1>1, <1>2, <1>3, <1>4 DEF TablesOK

\* The batch after a full one starts where batches start.
LEMMA NextStart ==
  ASSUME NEW n \in Nat, BatchStart(n)
  PROVE  BatchStart(n + BatchSize)
<1>1. PICK m \in Nat : n = m * BatchSize
  BY DEF BatchStart
<1>2. n + BatchSize = (m + 1) * BatchSize /\ m + 1 \in Nat
  BY <1>1
<1>. QED
  BY <1>2 DEF BatchStart

\* Every step of a save keeps the types.
LEMMA TypeSaves ==
  ASSUME TypeInv, NEW p \in Procs,
         \/ \E s \in Sources : StartSave(p, s)
         \/ Replace(p) \/ Flush(p) \/ FlushFails(p) \/ SaveReturns(p) \/ PickOldest(p)
  PROVE  TypeInv'
<1>. USE DEF db
<1>0. TablesOK /\ RestOK /\ JobsOK /\ nextId \in Nat /\ nextId >= 1
  BY DEF TypeInv, TablesOK
<1>1. ASSUME NEW s \in Sources, StartSave(p, s) PROVE TypeInv'
  <2>1. PICK t \in Cuts(s), n \in Sessions :
          job' = [job EXCEPT ![p] = [pc |-> "replace", op |-> "save", source |-> s, session |-> n,
                                     chunks |-> t, at |-> now,
                                     done |-> 0, victim |-> NoSource, hidden |-> {}]]
    BY <1>0, <1>1 DEF StartSave
  <2>. DEFINE j == [pc |-> "replace", op |-> "save", source |-> s, session |-> n,
                    chunks |-> t, at |-> now,
                    done |-> 0, victim |-> NoSource, hidden |-> {}]
  <2>2. j \in SaveJobs
    BY <1>0, KeptFacts DEF SaveJobs, RestOK
  <2>3. JobOK(j, nextId)
    BY <1>0, <2>2 DEF JobOK
  <2>4. /\ job' = [job EXCEPT ![p] = job'[p]] /\ job'[p] = j
        /\ nextId' = nextId
    BY <1>0, <1>1, <2>1 DEF StartSave, JobsOK
  <2>5. JobsOK'
    <3>. HIDE DEF j
    <3>. QED
      BY <1>0, <2>3, <2>4, JobChange
  <2>6. TablesOK' /\ RestOK'
    BY <1>0, <1>1 DEF StartSave, TablesOK, RestOK, Exists
  <2>. QED
    BY <2>5, <2>6 DEF TypeInv
<1>2. CASE Replace(p)
  <2>. DEFINE j == job[p]
  <2>1. j \in SaveJobs /\ JobOK(j, nextId)
    BY <1>0, <1>2 DEF Replace, JobsOK, Idle, PurgeJobs
  <2>2. /\ j.chunks \in Seq(Contents) /\ Len(j.chunks) \in Nat /\ j.done = 0 /\ j.hidden = {}
        /\ j.source \in Sources /\ j.session \in Sessions /\ j.at \in Nat
        /\ j.victim \in Sources \cup {NoSource} /\ j # Idle
    BY <1>0, <1>2, <2>1 DEF JobOK, SaveJobs, Idle, Replace
  <2>3. BatchStart(0)
    BY DEF BatchStart
  <2>. DEFINE pc == IF j.chunks = <<>> THEN "limit" ELSE "flush"
  <2>4. pc \in {"flush", "limit"} /\ (pc = "flush" => 0 < Len(j.chunks))
    BY <1>0, <2>2
  <2>5. /\ job' = [job EXCEPT ![p] = job'[p]] /\ job'[p] = [j EXCEPT !.pc = pc]
        /\ nextId' = nextId
    BY <1>0, <1>2 DEF Replace, JobsOK
  <2>6. JobOK(job'[p], nextId)
    <3>. HIDE DEF pc
    <3>1. /\ job'[p] \in SaveJobs /\ job'[p].chunks = j.chunks
          /\ job'[p].source = j.source /\ job'[p].hidden = {} /\ job'[p].pc = pc /\ job'[p].done = 0
      BY <2>1, <2>2, <2>4, <2>5 DEF SaveJobs
    <3>. QED
      BY <1>0, <2>1, <2>2, <2>3, <2>4, <3>1, SaveGoesOn
  <2>7. JobsOK'
    <3>. HIDE DEF pc, j
    <3>. QED
      BY <1>0, <2>5, <2>6, JobChange
  <2>8. TablesOK'
    <3>1. chunks' \subseteq chunks
      BY <1>0, <1>2 DEF Replace, Without
    <3>2. IsFiniteSet(chunks')
      BY <1>0, <3>1, FS_Subset DEF TablesOK
    <3>3. [session |-> j.session, at |-> j.at] \in [session : Sessions, at : Nat]
      BY <1>0, <2>2
    <3>. QED
      BY <1>0, <1>2, <2>2, <3>1, <3>2, <3>3 DEF Replace, TablesOK, Exists
  <2>9. RestOK'
    <3>1. [session |-> j.session, text |-> j.chunks] \in [session : Sessions, text : AllTexts]
      BY <1>0, <2>1, <2>2, SavedCut
    <3>. QED
      BY <1>0, <1>2, <2>2, <3>1 DEF Replace, RestOK
  <2>. QED
    BY <1>0, <2>7, <2>8, <2>9 DEF TypeInv
<1>3. CASE Flush(p)
  <2>. DEFINE j == job[p]
              n == Cardinality(Batch(p))
              pc == IF j.done + n = Len(j.chunks) THEN "limit" ELSE "flush"
  <2>1. j \in SaveJobs /\ JobOK(j, nextId) /\ j.pc = "flush"
    BY <1>0, <1>3, FlushJob DEF Flush, JobsOK
  <2>2. /\ Len(j.chunks) \in Nat /\ j.done \in Nat /\ j.hidden = {} /\ BatchStart(j.done)
        /\ j.victim \in Sources \cup {NoSource} /\ Len(j.chunks) <= MaxChunks
        /\ j.source \in Sources /\ nextId \in Nat
    BY <1>0, <2>1, FlushJob DEF SaveJobs, TablesOK
  <2>3. n \in Nat /\ n > 0 /\ j.done + n = Upto(p)
    BY <1>0, <2>1, <2>2, BatchFacts
  <2>4. pc = "flush" => j.done + n < Len(j.chunks) /\ BatchStart(j.done + n)
    <3>1. SUFFICES ASSUME j.done + n # Len(j.chunks)
                   PROVE  j.done + n < Len(j.chunks) /\ BatchStart(j.done + n)
      OBVIOUS
    <3>2. j.done + n = j.done + BatchSize /\ j.done + n < Len(j.chunks)
      BY <1>0, <2>1, <2>2, <2>3, <3>1, BatchFacts
    <3>. QED
      BY <2>2, <3>2, NextStart
  <2>5. /\ job' = [job EXCEPT ![p] = job'[p]]
        /\ job'[p] = [j EXCEPT !.done = j.done + n, !.pc = pc]
    BY <1>0, <1>3 DEF Flush, JobsOK
  <2>6. nextId' = nextId + n
    BY <1>3 DEF Flush
  <2>7. JobOK(job'[p], nextId')
    <3>1. JobOK(j, nextId')
      BY <2>1, <2>2, <2>3, <2>6, JobLater
    <3>2. pc \in {"flush", "limit"}
      OBVIOUS
    <3>. HIDE DEF pc, n
    <3>3. /\ job'[p] \in SaveJobs /\ job'[p].chunks = j.chunks
          /\ job'[p].source = j.source /\ job'[p].hidden = {} /\ job'[p].pc = pc
          /\ job'[p].done = j.done + n
      <4>1. j.done + n \in Nat
        BY <2>2, <2>3
      <4>2. job'[p] = [j EXCEPT !.done = j.done + n, !.pc = pc]
        BY <2>5
      <4>. HIDE DEF j
      <4>. QED
        BY <2>1, <2>2, <3>2, <4>1, <4>2 DEF SaveJobs
    <3>. QED
      BY <2>1, <2>2, <2>3, <2>4, <2>6, <3>1, <3>2, <3>3, SaveGoesOn
  <2>8. JobsOK'
    <3>. HIDE DEF pc, n, j
    <3>. QED
      BY <1>0, <2>3, <2>5, <2>6, <2>7, JobChange
  <2>9. TablesOK'
    <3>1. /\ IsFiniteSet(Batch(p))
          /\ \A c \in Batch(p) : /\ c \in [id : Nat, of : Sources, text : Contents, index : Nat]
                                 /\ c.of = j.source
                                 /\ c.id \in nextId .. nextId' - 1 /\ c.index \in 1..MaxChunks
                                 /\ c.text \in Contents
      <4>1. IsFiniteSet(Batch(p)) /\ Upto(p) \in Nat /\ Upto(p) <= Len(j.chunks)
        BY <2>1, BatchFacts
      <4>2. ASSUME NEW c \in Batch(p)
            PROVE  /\ c \in [id : Nat, of : Sources, text : Contents, index : Nat]
                   /\ c.of = j.source
                   /\ c.index \in j.done + 1 .. Upto(p) /\ c.id = nextId + c.index - j.done - 1
        BY <2>1, BatchFacts
      <4>3. ASSUME NEW c \in Batch(p)
            PROVE  c.id \in nextId .. nextId' - 1 /\ c.index \in 1..MaxChunks
        <5>1. c.index \in Nat /\ c.index > j.done /\ c.index <= Upto(p)
          BY <2>2, <4>1, <4>2
        <5>2. c.id \in Int /\ c.id >= nextId /\ c.id < nextId + (Upto(p) - j.done)
          BY <1>0, <2>2, <4>1, <4>2, <5>1
        <5>3. nextId' = nextId + (Upto(p) - j.done) /\ nextId' \in Nat
          BY <1>0, <2>2, <2>3, <2>6
        <5>4. c.index >= 1 /\ c.index <= MaxChunks
          BY <2>2, <4>1, <5>1
        <5>. QED
          BY <1>0, <5>1, <5>2, <5>3, <5>4
      <4>. QED
        BY <4>1, <4>2, <4>3
    <3>2. IsFiniteSet(chunks') /\ Cardinality(chunks') \in Nat
      BY <1>0, <1>3, <3>1, FS_Union, FS_CardinalityType DEF Flush, TablesOK
    <3>3. pages' \in Nat
      BY <1>0, <1>3, <3>2 DEF Flush, TablesOK, Larger
    <3>4. /\ chunks' \subseteq [id : Nat, of : Sources, text : Contents, index : Nat]
          /\ \A c \in chunks' : /\ c.id \in 1 .. nextId' - 1 /\ Exists(c.of)'
                                /\ c.text \in Contents /\ c.index \in 1..MaxChunks
      <4>1. chunks' = chunks \cup Batch(p) /\ src' = src /\ Exists(j.source)
        BY <1>3 DEF Flush, Storable
      <4>2. 1 .. nextId - 1 \subseteq 1 .. nextId' - 1 /\ nextId .. nextId' - 1 \subseteq 1 .. nextId' - 1
        <5>. HIDE DEF n
        <5>. QED
          BY <1>0, <2>3, <2>6
      <4>. QED
        BY <1>0, <3>1, <4>1, <4>2 DEF TablesOK, Exists
    <3>5. ASSUME NEW c \in chunks', NEW d \in chunks', c # d
          PROVE  c.id # d.id /\ (c.of = d.of => c.text # d.text /\ c.index # d.index)
      <4>1. CASE c \in chunks /\ d \in chunks
        BY <1>0, <3>5, <4>1 DEF TablesOK
      <4>2. CASE c \in chunks /\ d \in Batch(p)
        <5>1. c.of = d.of => c \in Rows(j.source)
          BY <3>1, <4>2 DEF Rows
        <5>2. c.of = d.of => d.text # c.text /\ d.index # c.index
          BY <1>0, <1>3, <3>5, <4>2, <5>1 DEF Flush, Storable
        <5>. QED
          BY <1>0, <2>2, <3>1, <4>2, <5>2 DEF TablesOK
      <4>3. CASE c \in Batch(p) /\ d \in chunks
        <5>1. c.of = d.of => d \in Rows(j.source)
          BY <3>1, <4>3 DEF Rows
        <5>2. c.of = d.of => d.text # c.text /\ d.index # c.index
          BY <1>0, <1>3, <3>5, <4>3, <5>1 DEF Flush, Storable
        <5>. QED
          BY <1>0, <2>2, <3>1, <4>3, <5>2 DEF TablesOK
      <4>4. CASE c \in Batch(p) /\ d \in Batch(p)
        <5>1. c.text # d.text /\ c.index # d.index
          BY <1>0, <1>3, <3>5, <4>4 DEF Flush, Storable
        <5>2. /\ c.id = nextId + c.index - j.done - 1 /\ d.id = nextId + d.index - j.done - 1
              /\ c.index \in Nat /\ d.index \in Nat
          BY <1>0, <2>1, <4>4, BatchFacts
        <5>. QED
          BY <1>0, <2>2, <5>1, <5>2
      <4>. QED
        BY <1>0, <1>3, <4>1, <4>2, <4>3, <4>4 DEF Flush
    <3>6. entries' \in [Indexes -> SUBSET [id : 1 .. nextId' - 1, text : Contents]]
      <4>1. EntriesOf(Batch(p)) \subseteq [id : 1 .. nextId' - 1, text : Contents]
        <5>1. \A c \in Batch(p) : c.id \in 1 .. nextId' - 1 /\ c.text \in Contents
          BY <1>0, <1>3, <3>4 DEF Flush
        <5>. QED
          BY <5>1 DEF EntriesOf
      <4>2. [id : 1 .. nextId - 1, text : Contents] \subseteq [id : 1 .. nextId' - 1, text : Contents]
        BY <1>0, <2>2, <2>3, <2>6
      <4>. QED
        BY <1>0, <1>3, <4>1, <4>2 DEF Flush, TablesOK
    <3>. QED
      BY <1>0, <1>3, <2>2, <2>3, <2>6, <3>2, <3>3, <3>4, <3>5, <3>6 DEF Flush, TablesOK
  <2>10. RestOK'
    BY <1>0, <1>3, <2>2, <2>3, <2>6 DEF Flush, RestOK
  <2>. QED
    BY <1>0, <2>8, <2>9, <2>10 DEF TypeInv
<1>4. CASE FlushFails(p)
  <2>1. job' = [job EXCEPT ![p] = job'[p]] /\ job'[p] = Idle /\ nextId' = nextId
    BY <1>0, <1>4 DEF FlushFails, JobsOK
  <2>2. JobsOK'
    BY <1>0, <2>1, IdleJob, JobChange
  <2>3. TablesOK' /\ RestOK'
    BY <1>0, <1>4 DEF FlushFails, TablesOK, RestOK, Exists
  <2>. QED
    BY <2>2, <2>3 DEF TypeInv
<1>5. CASE SaveReturns(p)
  <2>1. job[p] \in SaveJobs /\ JobOK(job[p], nextId)
    BY <1>0, <1>5 DEF SaveReturns, JobsOK, Idle, PurgeJobs
  <2>2. Acknowledged(p) \subseteq Acks
    BY <1>0, <2>1, SavedCut DEF Acknowledged, Acks, SaveJobs, AllTexts
  <2>3. JobsOK'
    <3>1. job' = [job EXCEPT ![p] = job'[p]] /\ job'[p] = Idle /\ nextId' = nextId
      BY <1>0, <1>5 DEF SaveReturns, JobsOK
    <3>. QED
      BY <1>0, <3>1, IdleJob, JobChange
  <2>4. TablesOK' /\ RestOK'
    BY <1>0, <1>5, <2>2 DEF SaveReturns, TablesOK, RestOK, Exists
  <2>. QED
    BY <1>0, <2>3, <2>4 DEF TypeInv
<1>6. CASE PickOldest(p)
  <2>. DEFINE j == job[p]
  <2>1. PICK v \in Sources : job' = [job EXCEPT ![p].pc = "fts", ![p].victim = v]
    BY <1>0, <1>6 DEF PickOldest
  <2>2. j \in SaveJobs /\ JobOK(j, nextId) /\ j.pc = "limit"
    <3>1. j.pc = "limit" /\ j \in {Idle} \cup SaveJobs \cup PurgeJobs /\ JobOK(j, nextId)
      BY <1>0, <1>6 DEF PickOldest, JobsOK
    <3>. QED
      BY <3>1 DEF Idle, PurgeJobs
  <2>3. j.hidden = {} /\ j # Idle
    BY <2>2 DEF JobOK, Idle
  <2>4. /\ job' = [job EXCEPT ![p] = job'[p]] /\ job'[p] = [j EXCEPT !.pc = "fts", !.victim = v]
        /\ nextId' = nextId
    BY <1>0, <1>6, <2>1 DEF PickOldest, JobsOK
  <2>5. JobOK(job'[p], nextId)
    <3>1. /\ job'[p] \in SaveJobs /\ job'[p].chunks = j.chunks
          /\ job'[p].source = j.source /\ job'[p].hidden = {} /\ job'[p].pc = "fts"
      BY <2>2, <2>3, <2>4 DEF SaveJobs
    <3>. QED
      BY <1>0, <2>2, <3>1, SaveGoesOn
  <2>6. JobsOK'
    <3>. HIDE DEF j
    <3>. QED
      BY <1>0, <2>4, <2>5, JobChange
  <2>7. TablesOK' /\ RestOK'
    BY <1>0, <1>6 DEF PickOldest, TablesOK, RestOK, Exists
  <2>. QED
    BY <1>0, <2>6, <2>7 DEF TypeInv
<1>. QED
  BY <1>1, <1>2, <1>3, <1>4, <1>5, <1>6

\* Every step of a deletion, and every fault, keeps the types.
LEMMA TypeDeletions ==
  ASSUME TypeInv, NEW p \in Procs,
         \/ \E n \in Sessions : StartPurge(p, n)
         \/ \E x \in Indexes : Unindex(p, x)
         \/ DeleteRows(p) \/ BreaksOff(p)
  PROVE  TypeInv'
<1>. USE DEF db
<1>0. TablesOK /\ RestOK /\ JobsOK /\ nextId \in Nat /\ nextId >= 1
  BY DEF TypeInv, TablesOK
<1>j. job[p] \in {Idle} \cup SaveJobs \cup PurgeJobs /\ JobOK(job[p], nextId)
  BY <1>0 DEF JobsOK
<1>1. ASSUME NEW n \in Sessions, StartPurge(p, n) PROVE TypeInv'
  <2>. DEFINE j == [pc |-> "fts", op |-> "purge", session |-> n, hidden |-> {}]
  <2>1. job' = [job EXCEPT ![p] = job'[p]] /\ job'[p] = j /\ nextId' = nextId
    BY <1>0, <1>1 DEF StartPurge, JobsOK
  <2>2. JobOK(j, nextId)
    BY DEF JobOK, PurgeJobs, SaveJobs
  <2>3. JobsOK'
    <3>. HIDE DEF j
    <3>. QED
      BY <1>0, <2>1, <2>2, JobChange
  <2>4. TablesOK' /\ RestOK'
    BY <1>0, <1>1 DEF StartPurge, TablesOK, RestOK, Exists
  <2>. QED
    BY <2>3, <2>4 DEF TypeInv
<1>2. ASSUME NEW x \in Indexes, Unindex(p, x) PROVE TypeInv'
  <2>. DEFINE j == job[p]
              old == UNION {Rows(s) : s \in Doomed(p)}
              h == j.hidden \cup {c.id : c \in old}
              pc == IF x = "fts" THEN "trigram" ELSE "rows"
  <2>1. old \subseteq chunks
    BY DEF Rows
  <2>2. /\ job' = [job EXCEPT ![p] = job'[p]]
        /\ job'[p] = [j EXCEPT !.pc = pc, !.hidden = h] /\ nextId' = nextId /\ j.pc = x
    BY <1>0, <1>2 DEF Unindex, JobsOK
  <2>3. j \in SaveJobs \cup PurgeJobs
    BY <1>2, <1>j, <2>2 DEF Idle, Indexes
  <2>4. h \subseteq 1 .. nextId - 1 /\ h \in SUBSET Nat /\ pc \in {"trigram", "rows"}
    <3>1. j.hidden \subseteq 1 .. nextId - 1
      BY <1>j, <2>3 DEF JobOK, Idle, SaveJobs, PurgeJobs
    <3>2. \A c \in old : c.id \in 1 .. nextId - 1
      BY <1>0, <2>1 DEF TablesOK
    <3>. QED
      BY <1>0, <3>1, <3>2
  <2>5. JobOK(job'[p], nextId)
    <3>. HIDE DEF h, pc, j
    <3>1. CASE j \in SaveJobs
      <4>1. /\ job'[p] \in SaveJobs /\ job'[p].chunks = j.chunks
            /\ job'[p].source = j.source /\ job'[p].hidden = h /\ job'[p].pc = pc
        BY <2>2, <2>4, <3>1 DEF SaveJobs
      <4>. QED
        BY <1>j, <2>4, <3>1, <4>1 DEF JobOK, j
    <3>2. CASE j \in PurgeJobs
      <4>1. /\ job'[p] \in PurgeJobs /\ job'[p].hidden = h /\ job'[p].pc = pc /\ job'[p].op = "purge"
        BY <2>2, <2>4, <3>2 DEF PurgeJobs
      <4>2. job'[p] \notin SaveJobs
        BY <4>1 DEF SaveJobs
      <4>. QED
        BY <2>4, <4>1, <4>2 DEF JobOK
    <3>. QED
      BY <2>3, <3>1, <3>2
  <2>6. JobsOK'
    <3>. HIDE DEF h, pc, j
    <3>. QED
      BY <1>0, <2>2, <2>5, JobChange
  <2>7. TablesOK'
    <3>1. entries' \in [Indexes -> SUBSET [id : 1 .. nextId - 1, text : Contents]]
      BY <1>0, <1>2 DEF Unindex, TablesOK
    <3>2. broken' \subseteq Indexes
      BY <1>0, <1>2 DEF Unindex, TablesOK
    <3>3. UNCHANGED <<src, chunks, nextId, pages, limit>>
      BY <1>2 DEF Unindex
    <3>. QED
      BY <1>0, <3>1, <3>2, <3>3 DEF TablesOK, Exists
  <2>8. RestOK'
    <3>1. UNCHANGED <<now, ops, faults, nextId>>
      BY <1>2 DEF Unindex
    <3>2. history' = [history EXCEPT !.crossed = @ \/ \E q \in Procs \ {p} : Deleting(q)]
      BY <1>2 DEF Unindex
    <3>3. (history.crossed \/ \E q \in Procs \ {p} : Deleting(q)) \in BOOLEAN
      OBVIOUS
    <3>. QED
      BY <1>0, <3>1, <3>2, <3>3 DEF RestOK
  <2>. QED
    BY <2>6, <2>7, <2>8 DEF TypeInv
<1>3. CASE DeleteRows(p)
  <2>. DEFINE j == job[p]
  <2>1. j \in SaveJobs \cup PurgeJobs /\ j.pc = "rows"
    BY <1>3, <1>j DEF Idle, DeleteRows
  <2>2. /\ job' = [job EXCEPT ![p] = job'[p]] /\ nextId' = nextId
        /\ job'[p] = IF j.op = "purge" THEN Idle ELSE [j EXCEPT !.pc = "limit", !.hidden = {}]
    BY <1>0, <1>3 DEF DeleteRows, JobsOK
  <2>3. JobOK(job'[p], nextId)
    <3>1. CASE j \in PurgeJobs
      BY <2>2, <3>1, IdleJob DEF PurgeJobs
    <3>2. CASE j \in SaveJobs
      <4>1. job'[p] = [j EXCEPT !.pc = "limit", !.hidden = {}]
        BY <2>2, <3>2 DEF SaveJobs
      <4>2. /\ job'[p] \in SaveJobs /\ job'[p].chunks = j.chunks
            /\ job'[p].source = j.source /\ job'[p].hidden = {} /\ job'[p].pc = "limit"
        BY <3>2, <4>1 DEF SaveJobs
      <4>. QED
        BY <1>0, <1>j, <3>2, <4>2, SaveGoesOn
    <3>. QED
      BY <2>1, <3>1, <3>2
  <2>4. JobsOK'
    <3>. HIDE DEF j
    <3>. QED
      BY <1>0, <2>2, <2>3, JobChange
  <2>5. TablesOK'
    BY <1>0, <1>3, DeleteTables DEF DeleteRows
  <2>6. RestOK'
    BY <1>0, <1>3 DEF DeleteRows, RestOK
  <2>. QED
    BY <2>4, <2>5, <2>6 DEF TypeInv
<1>4. CASE BreaksOff(p)
  <2>. DEFINE j == job[p]
  <2>1. job' = [job EXCEPT ![p] = job'[p]] /\ job'[p] = Idle /\ nextId' = nextId /\ j # Idle
    BY <1>0, <1>4 DEF BreaksOff, JobsOK
  <2>2. JobsOK'
    BY <1>0, <2>1, IdleJob, JobChange
  <2>3. TablesOK'
    BY <1>0, <1>4 DEF BreaksOff, TablesOK, Exists
  <2>4. RestOK'
    <3>1. PICK acks \in {{}} \cup (IF j.op = "save" /\ (j.pc = "limit" \/ j.victim # NoSource)
                                     THEN {Acknowledged(p)} ELSE {}) :
            history' = [history EXCEPT !.acked = @ \cup acks,
                                       !.torn = @ \cup {s \in Sources : Saving(p, s)},
                                       !.stranded = @ \cup j.hidden,
                                       !.crossed = @ \/ Deleting(p)]
      BY <1>4 DEF BreaksOff
    <3>2. acks \subseteq Acks
      <4>1. CASE acks = {}
        BY <4>1
      <4>2. CASE acks # {}
        <5>1. acks = Acknowledged(p) /\ j.op = "save"
          BY <3>1, <4>2
        <5>2. j \in SaveJobs
          BY <1>j, <2>1, <5>1 DEF PurgeJobs
        <5>. QED
          BY <1>j, <5>1, <5>2, SavedCut DEF Acknowledged, Acks, SaveJobs, AllTexts
      <4>. QED
        BY <4>1, <4>2
    <3>3. j.hidden \subseteq 1 .. nextId - 1
      BY <1>j, <2>1 DEF JobOK
    <3>4. (history.crossed \/ Deleting(p)) \in BOOLEAN
      OBVIOUS
    <3>5. UNCHANGED <<now, ops, nextId>> /\ faults < MaxFaults /\ faults' = faults + 1
      BY <1>4 DEF BreaksOff
    <3>. DEFINE torn == {s \in Sources : Saving(p, s)}
                crossed == history.crossed \/ Deleting(p)
                hidden == j.hidden
    <3>6. /\ history' = [history EXCEPT !.acked = @ \cup acks, !.torn = @ \cup torn,
                                        !.stranded = @ \cup hidden, !.crossed = crossed]
          /\ torn \subseteq Sources /\ crossed \in BOOLEAN /\ hidden \subseteq 1 .. nextId - 1
          /\ hidden \subseteq Nat
      BY <1>0, <3>1, <3>3, <3>4
    <3>7. faults' \in 0..MaxFaults
      BY <1>0, <3>5 DEF RestOK
    <3>. HIDE DEF torn, crossed, hidden
    <3>. QED
      BY <1>0, <3>2, <3>5, <3>6, <3>7 DEF RestOK
  <2>. QED
    BY <2>2, <2>3, <2>4 DEF TypeInv
<1>. QED
  BY <1>1, <1>2, <1>3, <1>4

\* So does the clean-up by age.
LEMMA TypeCleanUp ==
  ASSUME TypeInv, NEW cutoff, CleanUp(cutoff)
  PROVE  TypeInv'
<1>0. TablesOK /\ RestOK /\ JobsOK
  BY DEF TypeInv
<1>1. TablesOK'
  BY <1>0, DeleteTables DEF CleanUp
<1>2. RestOK'
  BY <1>0 DEF CleanUp, RestOK
<1>3. JobsOK'
  BY <1>0 DEF CleanUp, JobsOK
<1>. QED
  BY <1>1, <1>2, <1>3 DEF TypeInv

\* Every step keeps the types.
LEMMA TypeStep == TypeInv /\ [Next]_vars => TypeInv'
<1>1. ASSUME TypeInv, UNCHANGED vars PROVE TypeInv'
  BY <1>1 DEF vars, db, TypeInv, TablesOK, RestOK, JobsOK, Exists
<1>. QED
  BY <1>1, TypeSaves, TypeDeletions, TypeCleanUp DEF Next

\* The tables, the indexes and the processes stay of their types, and the store keeps
\* the constraints of its schema, whatever runs beside it and wherever it breaks off.
THEOREM TypeCorrect == Spec => []TypeOK
<1>1. Spec => []TypeInv
  BY TypeInit, TypeStep, PTL DEF Spec
<1>. QED
  BY <1>1, TypeInvOK, PTL

-----------------------------------------------------------------------------
(* The two indexes and the chunks.                                         *)

\* A process that is not between two statements of a deletion.
Quiet(j) == j.pc \notin {"trigram", "rows"}

\* A process that is not deleting hides nothing.
LEMMA QuietHidesNothing ==
  ASSUME JobsOK, NEW p \in Procs, Quiet(job[p]), job[p] # Idle
  PROVE  job[p].hidden = {}
BY DEF JobsOK, JobOK, Quiet

\* The indexes are empty at first.
LEMMA SearchInit == Init => SearchInv
BY DEF Init, SearchInv, HitsMatchTheirChunk, ChunksAreSearchable, HiddenIsDoomed, Uncrossed,
       IndexesAreIntact, Deleting, Idle

\* A step that leaves the indexes alone: rows may go, and processes that are not
\* deleting may do what they do.
LEMMA QuietStep ==
  ASSUME TypeInv, TypeInv', SearchInv, chunks' \subseteq chunks,
         UNCHANGED <<entries, broken, history.crossed, history.stranded>>,
         \A c \in chunks' : src'[c.of] = src[c.of],
         \A q \in Procs : job'[q] = job[q] \/ (Quiet(job[q]) /\ Quiet(job'[q]))
  PROVE  SearchInv'
<1>0. TablesOK /\ JobsOK /\ JobsOK'
  BY DEF TypeInv
<1>1. ASSUME NEW q \in Procs, NEW c \in chunks', job[q] # Idle, c.id \in job[q].hidden
      PROVE  job'[q] = job[q]
  BY <1>0, <1>1, QuietHidesNothing
<1>2. HitsMatchTheirChunk'
  BY DEF SearchInv, HitsMatchTheirChunk
<1>3. ChunksAreSearchable'
  <2>. SUFFICES ASSUME NEW c \in chunks'
                PROVE  \/ \A x \in Indexes : [id |-> c.id, text |-> c.text] \in entries'[x]
                       \/ c.id \in history'.stranded
                       \/ \E p \in Procs : job'[p] # Idle /\ c.id \in job'[p].hidden
    BY DEF ChunksAreSearchable
  <2>. QED
    BY <1>1 DEF SearchInv, ChunksAreSearchable
<1>4. HiddenIsDoomed'
  <2>. SUFFICES ASSUME NEW q \in Procs, job'[q] # Idle, NEW c \in chunks', c.id \in job'[q].hidden
                PROVE  c.of \in Doomed(q)'
    BY DEF HiddenIsDoomed
  <2>1. ~Quiet(job'[q])
    <3>1. JobOK(job'[q], nextId')
      BY <1>0 DEF JobsOK
    <3>. QED
      BY <3>1 DEF JobOK, Quiet
  <2>2. job'[q] = job[q]
    BY <2>1
  <2>3. c.of \in Doomed(q)
    BY <2>2 DEF SearchInv, HiddenIsDoomed
  <2>. QED
    BY <2>2, <2>3 DEF Doomed, Exists
<1>5. Uncrossed'
  <2>. SUFFICES ASSUME ~history'.crossed PROVE Uncrossed'
    BY DEF Uncrossed
  <2>0. Uncrossed /\ ~history.crossed
    BY DEF SearchInv
  <2>1. history'.stranded = {}
    BY <2>0 DEF Uncrossed
  <2>2. ASSUME NEW c \in chunks'
        PROVE  \/ [id |-> c.id, text |-> c.text] \in entries'["trigram"]
               \/ \E p \in Procs : job'[p].pc = "rows" /\ c.id \in job'[p].hidden
    BY <2>0 DEF Uncrossed, Quiet
  <2>3. \A p, q \in Procs : Deleting(p)' /\ Deleting(q)' => p = q
    BY <2>0 DEF Uncrossed, Quiet, Deleting
  <2>. QED
    BY <2>1, <2>2, <2>3 DEF Uncrossed
<1>6. IndexesAreIntact'
  BY DEF SearchInv, IndexesAreIntact
<1>. QED
  BY <1>2, <1>3, <1>4, <1>5, <1>6 DEF SearchInv

\* A batch: its ids are new, so no entry that was left behind is about its chunks,
\* and its own entries are.
LEMMA SearchFlush ==
  ASSUME TypeInv, TypeInv', SearchInv, NEW p \in Procs, Flush(p)
  PROVE  SearchInv'
<1>0. TablesOK /\ JobsOK /\ JobsOK' /\ nextId \in Nat
  BY DEF TypeInv, TablesOK
<1>1. /\ chunks' = chunks \cup Batch(p) /\ src' = src /\ broken' = broken /\ history' = history
      /\ \A x \in Indexes : entries'[x] = entries[x] \cup EntriesOf(Batch(p))
  BY DEF Flush
<1>2. /\ \A q \in Procs : q # p => job'[q] = job[q]
      /\ job[p].hidden = {} /\ job'[p].hidden = {} /\ Quiet(job[p]) /\ Quiet(job'[p])
  <2>1. job[p].hidden = {} /\ job[p] \in SaveJobs /\ job[p].pc = "flush"
    BY FlushJob DEF Flush
  <2>2. /\ \A q \in Procs : q # p => job'[q] = job[q]
        /\ job'[p] = [job[p] EXCEPT !.done = job'[p].done, !.pc = job'[p].pc]
        /\ job'[p].pc \in {"limit", "flush"}
    BY <1>0, <2>1 DEF Flush, JobsOK, SaveJobs
  <2>. QED
    BY <2>1, <2>2 DEF Quiet, SaveJobs
<1>3. /\ \A c \in chunks : c.id < nextId
      /\ \A x \in Indexes : \A e \in entries[x] : e.id < nextId
      /\ \A q \in Procs : job[q] # Idle => \A h \in job[q].hidden : h < nextId
  <2>1. \A x \in Indexes : \A e \in entries[x] : e.id \in 1 .. nextId - 1
    BY <1>0 DEF TablesOK
  <2>2. \A q \in Procs : job[q] # Idle => job[q].hidden \subseteq 1 .. nextId - 1
    BY <1>0 DEF JobsOK, JobOK
  <2>. QED
    BY <1>0, <2>1, <2>2 DEF TablesOK
<1>4. \A c \in Batch(p) : c.id >= nextId
  <2>1. ASSUME NEW c \in Batch(p)
        PROVE  /\ c.index \in job[p].done + 1 .. Upto(p)
               /\ c.id = nextId + c.index - job[p].done - 1
    BY BatchFacts DEF Flush
  <2>2. job[p].done \in Nat /\ Upto(p) \in Nat
    BY FlushJob, BatchFacts DEF Flush
  <2>. QED
    BY <1>0, <2>1, <2>2
<1>5. HitsMatchTheirChunk'
  <2>. SUFFICES ASSUME NEW x \in Indexes, NEW e \in entries'[x], NEW c \in chunks', e.id = c.id
                PROVE  e.text = c.text
    BY DEF HitsMatchTheirChunk
  <2>1. CASE e \in entries[x]
    BY <1>1, <1>3, <1>4, <2>1, <1>0 DEF SearchInv, HitsMatchTheirChunk, TablesOK
  <2>2. CASE e \notin entries[x]
    <3>1. PICK d \in Batch(p) : e = [id |-> d.id, text |-> d.text]
      BY <1>1, <2>2 DEF EntriesOf
    <3>2. c.id = d.id /\ d \in chunks' /\ e.text = d.text
      BY <1>1, <3>1
    <3>3. c = d
      BY <3>2 DEF TypeInv, TablesOK
    <3>. QED
      BY <3>2, <3>3
  <2>. QED
    BY <2>1, <2>2
<1>6. ASSUME NEW c \in Batch(p), NEW x \in Indexes
      PROVE  [id |-> c.id, text |-> c.text] \in entries'[x]
  BY <1>1 DEF EntriesOf
<1>7. ChunksAreSearchable'
  <2>. SUFFICES ASSUME NEW c \in chunks'
                PROVE  \/ \A x \in Indexes : [id |-> c.id, text |-> c.text] \in entries'[x]
                       \/ c.id \in history'.stranded
                       \/ \E q \in Procs : job'[q] # Idle /\ c.id \in job'[q].hidden
    BY DEF ChunksAreSearchable
  <2>1. CASE c \in Batch(p)
    BY <1>6, <2>1
  <2>2. CASE c \in chunks
    BY <1>1, <1>2, <2>2 DEF SearchInv, ChunksAreSearchable
  <2>. QED
    BY <1>1, <2>1, <2>2
<1>8. HiddenIsDoomed'
  <2>. SUFFICES ASSUME NEW q \in Procs, job'[q] # Idle, NEW c \in chunks', c.id \in job'[q].hidden
                PROVE  c.of \in Doomed(q)'
    BY DEF HiddenIsDoomed
  <2>1. q # p /\ job'[q] = job[q]
    BY <1>2
  <2>2. c \in chunks
    BY <1>0, <1>1, <1>3, <1>4, <2>1 DEF TypeInv, TablesOK
  <2>3. c.of \in Doomed(q)
    BY <2>1, <2>2 DEF SearchInv, HiddenIsDoomed
  <2>. QED
    BY <1>1, <2>1, <2>3 DEF Doomed, Exists
<1>9. Uncrossed'
  <2>. SUFFICES ASSUME ~history'.crossed PROVE Uncrossed'
    BY DEF Uncrossed
  <2>0. Uncrossed /\ ~history.crossed
    BY <1>1 DEF SearchInv
  <2>1. history'.stranded = {}
    BY <1>1, <2>0 DEF Uncrossed
  <2>2. ASSUME NEW c \in chunks'
        PROVE  \/ [id |-> c.id, text |-> c.text] \in entries'["trigram"]
               \/ \E q \in Procs : job'[q].pc = "rows" /\ c.id \in job'[q].hidden
    <3>1. CASE c \in Batch(p)
      BY <1>6, <3>1 DEF Indexes
    <3>2. CASE c \in chunks
      BY <1>1, <1>2, <2>0, <3>2 DEF Uncrossed, Quiet, Indexes
    <3>. QED
      BY <1>1, <3>1, <3>2
  <2>3. \A q, r \in Procs : Deleting(q)' /\ Deleting(r)' => q = r
    BY <1>2, <2>0 DEF Uncrossed, Quiet, Deleting
  <2>. QED
    BY <2>1, <2>2, <2>3 DEF Uncrossed
<1>10. IndexesAreIntact'
  BY <1>1 DEF SearchInv, IndexesAreIntact
<1>. QED
  BY <1>5, <1>7, <1>8, <1>9, <1>10 DEF SearchInv

\* Taking entries out of an index: the deletion hides exactly the chunks whose
\* entries it takes, and while deletions do not overlap it finds them all.
LEMMA SearchUnindex ==
  ASSUME TypeInv, TypeInv', SearchInv, NEW p \in Procs, NEW x \in Indexes, Unindex(p, x)
  PROVE  SearchInv'
<1>. DEFINE old == UNION {Rows(s) : s \in Doomed(p)}
<1>0. TablesOK /\ JobsOK /\ JobsOK' /\ RestOK /\ nextId \in Nat
  BY DEF TypeInv, TablesOK
<1>1. /\ chunks' = chunks /\ src' = src /\ nextId' = nextId
      /\ entries' = [entries EXCEPT ![x] = @ \ EntriesOf(old)]
      /\ broken' = IF EntriesOf(old) \subseteq entries[x] THEN broken ELSE broken \cup {x}
      /\ history'.stranded = history.stranded
      /\ history'.crossed = (history.crossed \/ \E q \in Procs \ {p} : Deleting(q))
  <2>1. history' = [history EXCEPT !.crossed = @ \/ \E q \in Procs \ {p} : Deleting(q)]
    BY DEF Unindex
  <2>2. history'.stranded = history.stranded
    BY <1>0, <2>1 DEF RestOK
  <2>3. history'.crossed = (history.crossed \/ \E q \in Procs \ {p} : Deleting(q))
    BY <1>0, <2>1, Zenon DEF RestOK
  <2>. QED
    BY <2>2, <2>3 DEF Unindex
<1>2. /\ job[p].pc = x /\ job[p] # Idle /\ job'[p] # Idle
      /\ job[p].hidden \subseteq job'[p].hidden
      /\ job'[p].hidden = job[p].hidden \cup {c.id : c \in old}
      /\ job'[p].pc = IF x = "fts" THEN "trigram" ELSE "rows"
      /\ job'[p].op = job[p].op
      /\ job[p].op = "purge" => job'[p].session = job[p].session
      /\ job[p].op # "purge" => job'[p].victim = job[p].victim
      /\ \A q \in Procs : q # p => job'[q] = job[q]
  <2>. DEFINE h == job[p].hidden \cup {c.id : c \in old}
              pc == IF x = "fts" THEN "trigram" ELSE "rows"
  <2>1. job[p].pc = x /\ job' = [job EXCEPT ![p] = [job[p] EXCEPT !.pc = pc, !.hidden = h]]
    BY DEF Unindex
  <2>. HIDE DEF pc, h
  <2>2. job[p] \in SaveJobs \cup PurgeJobs /\ job[p] # Idle
    <3>1. job[p] \in {Idle} \cup SaveJobs \cup PurgeJobs /\ job[p].pc # "idle"
      BY <1>0, <2>1 DEF JobsOK, Indexes
    <3>. QED
      BY <3>1 DEF Idle
  <2>3. /\ job'[p] = [job[p] EXCEPT !.pc = pc, !.hidden = h]
        /\ \A q \in Procs : q # p => job'[q] = job[q]
    BY <1>0, <2>1 DEF JobsOK
  <2>4. pc # "idle" /\ job[p].hidden \subseteq h
    BY DEF pc, h
  <2>5. CASE job[p] \in SaveJobs
    <3>1. /\ job'[p].hidden = h /\ job'[p].pc = pc /\ job[p].op = "save"
          /\ job'[p].op = job[p].op /\ job'[p].victim = job[p].victim
      BY <2>3, <2>5 DEF SaveJobs
    <3>2. job'[p] # Idle
      BY <2>4, <3>1 DEF Idle
    <3>. QED
      BY <2>1, <2>2, <2>3, <2>4, <3>1, <3>2 DEF h, pc
  <2>6. CASE job[p] \in PurgeJobs
    <3>1. /\ job'[p].hidden = h /\ job'[p].pc = pc /\ job[p].op = "purge"
          /\ job'[p].op = job[p].op /\ job'[p].session = job[p].session
      BY <2>3, <2>6 DEF PurgeJobs
    <3>2. job'[p] # Idle
      BY <2>4, <3>1 DEF Idle
    <3>. QED
      BY <2>1, <2>2, <2>3, <2>4, <3>1, <3>2 DEF h, pc
  <2>. QED
    BY <2>2, <2>5, <2>6
<1>3. \A c \in chunks : c \in old <=> c.of \in Doomed(p)
  BY DEF Rows
<1>4. \A q \in Procs : Doomed(q)' = Doomed(q)
  <2>1. Doomed(p)' = Doomed(p)
    BY <1>1, <1>2 DEF Doomed, Exists
  <2>. QED
    BY <1>1, <1>2, <2>1 DEF Doomed, Exists
<1>. HIDE DEF old
<1>5. \A y \in Indexes : entries'[y] \subseteq entries[y] /\ (y # x => entries'[y] = entries[y])
  BY <1>0, <1>1 DEF TablesOK
<1>6. ASSUME NEW c \in chunks, NEW y \in Indexes,
             [id |-> c.id, text |-> c.text] \in entries[y],
             [id |-> c.id, text |-> c.text] \notin entries'[y]
      PROVE  c \in old /\ y = x
  <2>1. y = x /\ [id |-> c.id, text |-> c.text] \in EntriesOf(old)
    BY <1>0, <1>1, <1>5, <1>6 DEF TablesOK
  <2>2. PICK d \in old : c.id = d.id
    BY <2>1 DEF EntriesOf
  <2>3. d \in chunks
    BY DEF old, Rows
  <2>4. c = d
    BY <1>0, <2>2, <2>3 DEF TablesOK
  <2>. QED
    BY <2>1, <2>4
<1>7. HitsMatchTheirChunk'
  BY <1>1, <1>5 DEF SearchInv, HitsMatchTheirChunk
<1>8. ChunksAreSearchable'
  <2>. SUFFICES ASSUME NEW c \in chunks
                PROVE  \/ \A y \in Indexes : [id |-> c.id, text |-> c.text] \in entries'[y]
                       \/ c.id \in history'.stranded
                       \/ \E q \in Procs : job'[q] # Idle /\ c.id \in job'[q].hidden
    BY <1>1 DEF ChunksAreSearchable
  <2>1. CASE c \in old
    BY <1>2, <2>1
  <2>2. CASE c \notin old
    BY <1>1, <1>2, <1>6, <2>2 DEF SearchInv, ChunksAreSearchable
  <2>. QED
    BY <2>1, <2>2
<1>9. HiddenIsDoomed'
  <2>. SUFFICES ASSUME NEW q \in Procs, job'[q] # Idle, NEW c \in chunks, c.id \in job'[q].hidden
                PROVE  c.of \in Doomed(q)
    BY <1>1, <1>4 DEF HiddenIsDoomed
  <2>1. CASE q # p \/ c.id \in job[p].hidden
    BY <1>2, <2>1 DEF SearchInv, HiddenIsDoomed
  <2>2. CASE q = p /\ c.id \notin job[p].hidden
    <3>1. PICK d \in old : c.id = d.id
      BY <1>2, <2>2
    <3>2. d \in chunks
      BY DEF old, Rows
    <3>3. c = d
      BY <1>0, <3>1, <3>2 DEF TablesOK
    <3>. QED
      BY <1>3, <2>2, <3>3
  <2>. QED
    BY <2>1, <2>2
<1>10. ASSUME ~history'.crossed
       PROVE  /\ ~history.crossed /\ history.stranded = {}
              /\ \A q \in Procs : q # p => Quiet(job[q]) /\ (job[q] # Idle => job[q].hidden = {})
              /\ \A c \in chunks : [id |-> c.id, text |-> c.text] \in entries[x]
  <2>1. ~history.crossed /\ history.stranded = {}
    BY <1>1, <1>10 DEF SearchInv, Uncrossed
  <2>2. \A q \in Procs : q # p => Quiet(job[q]) /\ (job[q] # Idle => job[q].hidden = {})
    BY <1>0, <1>1, <1>10, QuietHidesNothing DEF Quiet, Deleting
  <2>3. ASSUME NEW c \in chunks PROVE [id |-> c.id, text |-> c.text] \in entries[x]
    <3>1. CASE x = "fts"
      <4>1. job[p].hidden = {}
        BY <1>0, <1>2, <3>1, QuietHidesNothing DEF Quiet
      <4>. QED
        BY <2>1, <2>2, <4>1 DEF SearchInv, ChunksAreSearchable
    <3>2. CASE x = "trigram"
      BY <1>2, <2>1, <2>2, <3>2 DEF SearchInv, Uncrossed, Quiet
    <3>. QED
      BY <3>1, <3>2 DEF Indexes
  <2>. QED
    BY <2>1, <2>2, <2>3
<1>11. Uncrossed'
  <2>. SUFFICES ASSUME ~history'.crossed PROVE Uncrossed'
    BY DEF Uncrossed
  <2>1. history'.stranded = {}
    BY <1>1, <1>10
  <2>2. ASSUME NEW c \in chunks
        PROVE  \/ [id |-> c.id, text |-> c.text] \in entries'["trigram"]
               \/ \E q \in Procs : job'[q].pc = "rows" /\ c.id \in job'[q].hidden
    <3>1. CASE x = "fts"
      <4>1. ~(job[p].pc = "rows") /\ entries'["trigram"] = entries["trigram"]
        BY <1>2, <1>5, <3>1 DEF Indexes
      <4>2. \A q \in Procs : job[q].pc # "rows"
        BY <1>10, <4>1 DEF Quiet
      <4>. QED
        BY <1>10, <4>1, <4>2 DEF SearchInv, Uncrossed
    <3>2. CASE x = "trigram"
      <4>1. CASE c \in old
        BY <1>2, <3>2, <4>1
      <4>2. CASE c \notin old
        BY <1>6, <1>10, <3>2, <4>2
      <4>. QED
        BY <4>1, <4>2
    <3>. QED
      BY <3>1, <3>2 DEF Indexes
  <2>3. \A q, r \in Procs : Deleting(q)' /\ Deleting(r)' => q = r
    BY <1>2, <1>10 DEF Quiet, Deleting
  <2>. QED
    BY <1>1, <2>1, <2>2, <2>3 DEF Uncrossed
<1>12. IndexesAreIntact'
  <2>. SUFFICES ASSUME ~history'.crossed PROVE broken' = {}
    BY DEF IndexesAreIntact
  <2>1. EntriesOf(old) \subseteq entries[x]
    <3>1. old \subseteq chunks
      BY DEF old, Rows
    <3>. QED
      BY <1>10, <3>1 DEF EntriesOf
  <2>. QED
    BY <1>1, <1>10, <2>1 DEF SearchInv, IndexesAreIntact
<1>. QED
  BY <1>7, <1>8, <1>9, <1>11, <1>12 DEF SearchInv

\* The last statement of a deletion removes the rows of every chunk it has hidden.
LEMMA SearchDeleteRows ==
  ASSUME TypeInv, TypeInv', SearchInv, NEW p \in Procs, DeleteRows(p)
  PROVE  SearchInv'
<1>0. TablesOK /\ JobsOK /\ JobsOK' /\ RestOK
  BY DEF TypeInv
<1>1. /\ chunks' \subseteq chunks /\ \A c \in chunks' : c.of \notin Doomed(p)
      /\ entries' = entries /\ broken' = broken
      /\ \A s \in Sources : s \notin Doomed(p) => src'[s] = src[s]
  BY <1>0 DEF DeleteRows, DeleteSources, Without, TablesOK
<1>2. history'.crossed = history.crossed /\ history'.stranded = history.stranded
  BY <1>0 DEF DeleteRows, RestOK
<1>3. job[p].pc = "rows" /\ job[p] # Idle
  BY DEF DeleteRows, Idle
<1>4. \A q \in Procs : q # p => job'[q] = job[q]
  BY <1>0 DEF DeleteRows, JobsOK
<1>5. Quiet(job'[p])
  <2>1. job[p] \in SaveJobs \cup PurgeJobs
    BY <1>0, <1>3 DEF JobsOK
  <2>2. job'[p] = IF job[p].op = "purge" THEN Idle ELSE [job[p] EXCEPT !.pc = "limit", !.hidden = {}]
    BY <1>0 DEF DeleteRows, JobsOK
  <2>3. CASE job[p] \in SaveJobs
    BY <2>2, <2>3 DEF SaveJobs, Quiet, Idle
  <2>4. CASE job[p] \in PurgeJobs
    BY <2>2, <2>4 DEF PurgeJobs, Quiet, Idle
  <2>. QED
    BY <2>1, <2>3, <2>4
<1>6. \A c \in chunks' : c.id \notin job[p].hidden
  BY <1>1, <1>3 DEF SearchInv, HiddenIsDoomed
<1>7. HitsMatchTheirChunk'
  BY <1>1 DEF SearchInv, HitsMatchTheirChunk
<1>8. ChunksAreSearchable'
  <2>. SUFFICES ASSUME NEW c \in chunks'
                PROVE  \/ \A x \in Indexes : [id |-> c.id, text |-> c.text] \in entries'[x]
                       \/ c.id \in history'.stranded
                       \/ \E q \in Procs : job'[q] # Idle /\ c.id \in job'[q].hidden
    BY DEF ChunksAreSearchable
  <2>. QED
    BY <1>1, <1>2, <1>4, <1>6 DEF SearchInv, ChunksAreSearchable
<1>9. HiddenIsDoomed'
  <2>. SUFFICES ASSUME NEW q \in Procs, job'[q] # Idle, NEW c \in chunks', c.id \in job'[q].hidden
                PROVE  c.of \in Doomed(q)'
    BY DEF HiddenIsDoomed
  <2>1. q # p
    <3>1. JobOK(job'[q], nextId')
      BY <1>0 DEF JobsOK
    <3>. QED
      BY <1>5, <3>1 DEF JobOK, Quiet
  <2>2. c.of \in Doomed(q) /\ job'[q] = job[q]
    BY <1>1, <1>4, <2>1 DEF SearchInv, HiddenIsDoomed
  <2>. QED
    BY <1>1, <2>2 DEF Doomed, Exists
<1>10. Uncrossed'
  <2>. SUFFICES ASSUME ~history'.crossed PROVE Uncrossed'
    BY DEF Uncrossed
  <2>0. Uncrossed /\ ~history.crossed
    BY <1>2 DEF SearchInv
  <2>1. history'.stranded = {}
    BY <1>2, <2>0 DEF Uncrossed
  <2>2. ASSUME NEW c \in chunks'
        PROVE  \/ [id |-> c.id, text |-> c.text] \in entries'["trigram"]
               \/ \E q \in Procs : job'[q].pc = "rows" /\ c.id \in job'[q].hidden
    BY <1>1, <1>4, <1>6, <2>0 DEF Uncrossed
  <2>3. \A q, r \in Procs : Deleting(q)' /\ Deleting(r)' => q = r
    BY <1>4, <1>5, <2>0 DEF Uncrossed, Quiet, Deleting
  <2>. QED
    BY <2>1, <2>2, <2>3 DEF Uncrossed
<1>11. IndexesAreIntact'
  BY <1>1, <1>2 DEF SearchInv, IndexesAreIntact
<1>. QED
  BY <1>7, <1>8, <1>9, <1>10, <1>11 DEF SearchInv

\* A deletion that breaks off strands what it has hidden.
LEMMA SearchBreaksOff ==
  ASSUME TypeInv, TypeInv', SearchInv, NEW p \in Procs, BreaksOff(p)
  PROVE  SearchInv'
<1>0. TablesOK /\ JobsOK /\ JobsOK' /\ RestOK
  BY DEF TypeInv
<1>1. UNCHANGED <<chunks, entries, broken, src>>
  BY DEF BreaksOff, db
<1>2. /\ job[p] # Idle /\ job'[p] = Idle
      /\ \A q \in Procs : q # p => job'[q] = job[q]
  BY <1>0 DEF BreaksOff, JobsOK
<1>3. /\ history'.stranded = history.stranded \cup job[p].hidden
      /\ history'.crossed = (history.crossed \/ Deleting(p))
  <2>1. PICK acks : history' = [history EXCEPT !.acked = @ \cup acks,
                                  !.torn = @ \cup {s \in Sources : Saving(p, s)},
                                  !.stranded = @ \cup job[p].hidden,
                                  !.crossed = @ \/ Deleting(p)]
    BY DEF BreaksOff
  <2>2. history'.stranded = history.stranded \cup job[p].hidden
    BY <1>0, <2>1 DEF RestOK
  <2>3. history'.crossed = (history.crossed \/ Deleting(p))
    BY <1>0, <2>1, Zenon DEF RestOK
  <2>. QED
    BY <2>2, <2>3
<1>4. HitsMatchTheirChunk' /\ ChunksAreSearchable'
  BY <1>1, <1>2, <1>3 DEF SearchInv, HitsMatchTheirChunk, ChunksAreSearchable
<1>5. HiddenIsDoomed'
  BY <1>1, <1>2 DEF SearchInv, HiddenIsDoomed, Doomed, Exists
<1>6. Uncrossed'
  <2>. SUFFICES ASSUME ~history'.crossed PROVE Uncrossed'
    BY DEF Uncrossed
  <2>1. ~history.crossed /\ ~Deleting(p)
    BY <1>3
  <2>2. job[p].hidden = {}
    BY <1>0, <1>2, <2>1, QuietHidesNothing DEF Quiet, Deleting
  <2>3. \A q \in Procs : Deleting(q)' => Deleting(q)
    BY <1>2 DEF Deleting, Idle
  <2>. QED
    BY <1>1, <1>2, <1>3, <2>1, <2>2, <2>3 DEF SearchInv, Uncrossed
<1>7. IndexesAreIntact'
  BY <1>1, <1>3 DEF SearchInv, IndexesAreIntact
<1>. QED
  BY <1>4, <1>5, <1>6, <1>7 DEF SearchInv

\* Every step keeps the indexes and the chunks together.
LEMMA SearchStep ==
  ASSUME TypeInv, TypeInv', SearchInv, [Next]_vars
  PROVE  SearchInv'
<1>0. TablesOK /\ JobsOK /\ JobsOK' /\ RestOK
  BY DEF TypeInv
<1>. USE DEF db
<1>1. ASSUME NEW p \in Procs,
             \/ \E s \in Sources : StartSave(p, s)
             \/ FlushFails(p) \/ SaveReturns(p) \/ PickOldest(p)
             \/ \E n \in Sessions : StartPurge(p, n)
      PROVE  SearchInv'
  <2>1. UNCHANGED <<chunks, src, entries, broken>>
    BY <1>1 DEF StartSave, FlushFails, SaveReturns, PickOldest, StartPurge
  <2>2. history'.crossed = history.crossed /\ history'.stranded = history.stranded
    BY <1>0, <1>1 DEF StartSave, FlushFails, SaveReturns, PickOldest, StartPurge, RestOK
  <2>3. \A q \in Procs : q # p => job'[q] = job[q]
    BY <1>0, <1>1 DEF StartSave, FlushFails, SaveReturns, PickOldest, StartPurge, JobsOK
  <2>4. Quiet(job[p])
    BY <1>1 DEF StartSave, FlushFails, SaveReturns, PickOldest, StartPurge, Quiet, Idle
  <2>5. Quiet(job'[p])
    <3>1. CASE PickOldest(p)
      <4>1. job[p] \in SaveJobs
        BY <1>0, <3>1 DEF PickOldest, JobsOK, Idle, PurgeJobs
      <4>2. PICK v \in Sources : job' = [job EXCEPT ![p].pc = "fts", ![p].victim = v]
        BY <3>1 DEF PickOldest
      <4>3. job'[p] = [job[p] EXCEPT !.pc = "fts", !.victim = v]
        BY <1>0, <4>2 DEF JobsOK
      <4>. QED
        BY <4>1, <4>3 DEF Quiet, SaveJobs
    <3>2. CASE ~PickOldest(p)
      BY <1>0, <1>1, <3>2 DEF StartSave, FlushFails, SaveReturns, StartPurge, Quiet, Idle, JobsOK
    <3>. QED
      BY <3>1, <3>2
  <2>. QED
    BY <2>1, <2>2, <2>3, <2>4, <2>5, QuietStep
<1>2. ASSUME NEW p \in Procs, Replace(p) PROVE SearchInv'
  <2>. DEFINE s == job[p].source
  <2>1. chunks' \subseteq chunks /\ entries' = entries /\ broken' = broken
    BY <1>2 DEF Replace, Without
  <2>2. \A c \in chunks' : src'[c.of] = src[c.of]
    BY <1>0, <1>2 DEF Replace, Without, TablesOK
  <2>3. history'.crossed = history.crossed /\ history'.stranded = history.stranded
    BY <1>0, <1>2 DEF Replace, RestOK
  <2>4. \A q \in Procs : q # p => job'[q] = job[q]
    BY <1>0, <1>2 DEF Replace, JobsOK
  <2>5. Quiet(job[p]) /\ Quiet(job'[p])
    <3>1. job[p] \in SaveJobs
      BY <1>0, <1>2 DEF Replace, JobsOK, Idle, PurgeJobs
    <3>2. job'[p] = [job[p] EXCEPT !.pc = IF job[p].chunks = <<>> THEN "limit" ELSE "flush"]
      BY <1>0, <1>2 DEF JobsOK, Replace
    <3>. QED
      BY <1>2, <3>1, <3>2 DEF Quiet, SaveJobs, Replace
  <2>. QED
    BY <2>1, <2>2, <2>3, <2>4, <2>5, QuietStep
<1>3. ASSUME NEW cutoff, CleanUp(cutoff) PROVE SearchInv'
  <2>1. /\ chunks' \subseteq chunks /\ entries' = entries /\ broken' = broken /\ job' = job
        /\ \A c \in chunks' : src'[c.of] = src[c.of]
    BY <1>0, <1>3 DEF CleanUp, DeleteSources, Without, TablesOK
  <2>2. history'.crossed = history.crossed /\ history'.stranded = history.stranded
    BY <1>0, <1>3 DEF CleanUp, RestOK
  <2>. QED
    BY <2>1, <2>2, QuietStep
<1>4. CASE UNCHANGED vars
  BY <1>4, QuietStep DEF vars
<1>. QED
  BY <1>1, <1>2, <1>3, <1>4, SearchFlush, SearchUnindex, SearchDeleteRows, SearchBreaksOff DEF Next

\* The indexes, whatever saves, purges, clean-ups and faults leave in them.
LEMMA SearchAlways == Spec => []SearchInv
<1>1. Init => TypeInv /\ SearchInv
  BY TypeInit, SearchInit
<1>2. TypeInv /\ SearchInv /\ [Next]_vars => (TypeInv /\ SearchInv)'
  BY TypeStep, SearchStep
<1>. QED
  BY <1>1, <1>2, PTL DEF Spec

\* A hit in either full-text index is a chunk with the words searched for.
THEOREM HitsAreTrue == Spec => []HitsMatchTheirChunk
<1>1. SearchInv => HitsMatchTheirChunk
  BY DEF SearchInv
<1>. QED
  BY <1>1, SearchAlways, PTL

\* A stored chunk is found through both indexes unless a deletion is about to remove it
\* or broke off.
THEOREM ChunksAreFound == Spec => []ChunksAreSearchable
<1>1. SearchInv => ChunksAreSearchable
  BY DEF SearchInv
<1>. QED
  BY <1>1, SearchAlways, PTL

\* No index is told to delete an entry it does not have unless deletions overlapped or
\* one broke off.
THEOREM IndexesStayIntact == Spec => []IndexesAreIntact
<1>1. SearchInv => IndexesAreIntact
  BY DEF SearchInv
<1>. QED
  BY <1>1, SearchAlways, PTL

-----------------------------------------------------------------------------
(* Saves of one artifact beside each other.                                *)

\* Two batches that start at different chunks have no chunk in common.
LEMMA BatchesApart ==
  ASSUME NEW m \in Nat, NEW n \in Nat, BatchStart(m), BatchStart(n), m < n
  PROVE  m + BatchSize <= n
<1>1. PICK a \in Nat : m = a * BatchSize
  BY DEF BatchStart
<1>2. PICK b \in Nat : n = b * BatchSize
  BY DEF BatchStart
<1>3. a < b
  <2>1. ASSUME b <= a PROVE b * BatchSize <= a * BatchSize
    BY <2>1
  <2>. QED
    BY <1>1, <1>2, <2>1
<1>4. (a + 1) * BatchSize <= b * BatchSize
  BY <1>3
<1>5. (a + 1) * BatchSize = a * BatchSize + BatchSize
  OBVIOUS
<1>. QED
  BY <1>1, <1>2, <1>4, <1>5

\* Nothing is saved at first.
LEMMA SaveInit == Init => SaveInv
BY DEF Init, SaveInv, LastOK, Whole, AckedExists, Exists

\* A step that is not about s.
LEMMA Untouched ==
  ASSUME NEW s \in Sources, LastOK(s), Whole(s),
         src'[s] = src[s], Rows(s)' = Rows(s), history'.last[s] = history.last[s],
         s \in history.torn => s \in history'.torn,
         \A q \in Procs : Saving(q, s)' <=> Saving(q, s),
         \A q \in Procs : Saving(q, s) =>
           job'[q].done = job[q].done /\ job'[q].chunks = job[q].chunks
  PROVE  LastOK(s)' /\ Whole(s)'
<1>1. LastOK(s)'
  BY DEF LastOK, Exists
<1>2. Stored(s)' = Stored(s) /\ LastText(s)' = LastText(s)
  BY DEF Stored, LastText
<1>3. ASSUME Exists(s)', s \notin history'.torn
      PROVE  /\ \A p \in Procs : Saving(p, s)' => job'[p].chunks = history'.last[s].text
             /\ RowsOfText(s)' /\ WholeBatches(s)' /\ MissingIsComing(s)'
  <2>1. /\ \A p \in Procs : Saving(p, s) => job[p].chunks = history.last[s].text
        /\ RowsOfText(s) /\ WholeBatches(s) /\ MissingIsComing(s)
    BY <1>3 DEF Whole, Exists
  <2>2. RowsOfText(s)' /\ WholeBatches(s)'
    BY <1>2, <2>1 DEF RowsOfText, WholeBatches
  <2>3. MissingIsComing(s)'
    BY <1>2, <2>1 DEF MissingIsComing
  <2>. QED
    BY <2>1, <2>2, <2>3
<1>. QED
  BY <1>1, <1>3 DEF Whole

\* A source that is gone promises nothing.
LEMMA GoneIsWhole ==
  ASSUME NEW s \in Sources, ~Exists(s)'
  PROVE  LastOK(s)' /\ Whole(s)'
BY DEF LastOK, Whole

\* Replacing the source row: the chunks start anew, and so does this save.
LEMMA WholeReplace ==
  ASSUME TypeInv, TypeInv', SaveInv, NEW p \in Procs, Replace(p)
  PROVE  \A s \in Sources : LastOK(s)' /\ Whole(s)'
<1>. DEFINE j == job[p]
<1>0. TablesOK /\ JobsOK /\ JobsOK' /\ RestOK
  BY DEF TypeInv
<1>1. j \in SaveJobs /\ JobOK(j, nextId) /\ j.pc = "replace"
  BY <1>0 DEF JobsOK, Replace, Idle, PurgeJobs
<1>2. /\ j.source \in Sources /\ j.session \in Sessions /\ j.at \in Nat /\ j.done = 0
      /\ j.chunks \in Cuts(j.source) /\ j.chunks \in Seq(Contents)
  BY <1>1 DEF JobOK, SaveJobs
<1>3. /\ job'[p] = [j EXCEPT !.pc = IF j.chunks = <<>> THEN "limit" ELSE "flush"]
      /\ \A q \in Procs : q # p => job'[q] = job[q]
  BY <1>0 DEF Replace, JobsOK
<1>4. /\ job'[p].source = j.source /\ job'[p].chunks = j.chunks /\ job'[p].done = 0
      /\ job'[p].pc = IF j.chunks = <<>> THEN "limit" ELSE "flush"
  BY <1>1, <1>2, <1>3 DEF SaveJobs
<1>5. /\ src'[j.source] = [session |-> j.session, at |-> j.at]
      /\ \A s \in Sources : s # j.source => src'[s] = src[s]
      /\ chunks' = {c \in chunks : c.of # j.source}
  BY <1>0, <1>2 DEF Replace, Without, TablesOK
<1>6. /\ history'.last[j.source] = [session |-> j.session, text |-> j.chunks]
      /\ \A s \in Sources : s # j.source => history'.last[s] = history.last[s]
      /\ history'.torn = IF \E q \in Procs : Saving(q, j.source) /\ job[q].chunks # j.chunks
                           THEN history.torn \cup {j.source} ELSE history.torn \ {j.source}
  BY <1>0, <1>2 DEF Replace, RestOK
<1>7. ASSUME NEW s \in Sources, s # j.source
      PROVE  LastOK(s)' /\ Whole(s)'
  <2>1. Rows(s)' = Rows(s)
    BY <1>5, <1>7 DEF Rows
  <2>2. \A q \in Procs : Saving(q, s)' <=> Saving(q, s)
    BY <1>1, <1>3, <1>4, <1>7 DEF Saving
  <2>3. \A q \in Procs : Saving(q, s) => job'[q].done = job[q].done /\ job'[q].chunks = job[q].chunks
    BY <1>1, <1>3 DEF Saving
  <2>4. s \in history.torn => s \in history'.torn
    BY <1>6, <1>7
  <2>. QED
    BY <1>5, <1>6, <1>7, <2>1, <2>2, <2>3, <2>4, Untouched DEF SaveInv
<1>8. ASSUME NEW s \in Sources, s = j.source
      PROVE  LastOK(s)' /\ Whole(s)'
  <2>1. LastOK(s)'
    BY <1>2, <1>5, <1>6, <1>8 DEF LastOK
  <2>. SUFFICES ASSUME s \notin history'.torn
                PROVE  /\ \A q \in Procs : Saving(q, s)' => job'[q].chunks = history'.last[s].text
                       /\ RowsOfText(s)' /\ WholeBatches(s)' /\ MissingIsComing(s)'
    BY <2>1 DEF Whole
  <2>2. \A q \in Procs : Saving(q, s)' => job'[q].chunks = history'.last[s].text
    <3>1. ~\E q \in Procs : Saving(q, s) /\ job[q].chunks # j.chunks
      BY <1>6, <1>8
    <3>2. history'.last[s].text = j.chunks
      BY <1>6, <1>8
    <3>3. ASSUME NEW q \in Procs, q # p, Saving(q, s)' PROVE job'[q].chunks = j.chunks
      BY <1>3, <3>1, <3>3 DEF Saving
    <3>. QED
      BY <1>4, <3>2, <3>3
  <2>3. Rows(s)' = {} /\ Stored(s)' = {}
    BY <1>5, <1>8 DEF Rows, Stored
  <2>4. RowsOfText(s)' /\ WholeBatches(s)'
    BY <2>3 DEF RowsOfText, WholeBatches
  <2>5. MissingIsComing(s)'
    <3>1. LastText(s)' = j.chunks
      BY <1>2, <1>6, <1>8 DEF LastText
    <3>2. ASSUME NEW i \in 1..Len(j.chunks)
          PROVE  Saving(p, s)' /\ 0 <= job'[p].done /\ job'[p].done < i
      <4>1. j.chunks # <<>>
        BY <1>2, <3>2
      <4>. QED
        BY <1>4, <1>8, <4>1 DEF Saving
    <3>. QED
      BY <2>3, <3>1, <3>2 DEF MissingIsComing
  <2>. QED
    BY <2>2, <2>4, <2>5
<1>. QED
  BY <1>7, <1>8

\* A batch that is stored: it is whole, and its save goes on behind it.
LEMMA WholeFlush ==
  ASSUME TypeInv, TypeInv', SaveInv, NEW p \in Procs, Flush(p)
  PROVE  \A s \in Sources : LastOK(s)' /\ Whole(s)'
<1>. DEFINE j == job[p]
<1>0. TablesOK /\ JobsOK
  BY DEF TypeInv
<1>1. /\ j \in SaveJobs /\ j.pc = "flush" /\ j.done \in Nat /\ Len(j.chunks) \in Nat
      /\ BatchStart(j.done) /\ j.source \in Sources
  <2>1. j.pc = "flush" /\ JobOK(j, nextId)
    BY <1>0 DEF Flush, JobsOK
  <2>. QED
    BY <2>1, FlushJob DEF JobOK, SaveJobs
<1>2. /\ Upto(p) \in Nat /\ j.done < Upto(p) /\ Upto(p) <= Len(j.chunks)
      /\ Upto(p) <= j.done + BatchSize /\ j.done + Cardinality(Batch(p)) = Upto(p)
  BY <1>1, BatchFacts
<1>3. /\ \A i \in j.done + 1 .. Upto(p) : \E c \in Batch(p) : c.index = i
      /\ \A c \in Batch(p) : /\ c.of = j.source /\ c.index \in j.done + 1 .. Upto(p)
                             /\ c.text = j.chunks[c.index]
  BY <1>1, BatchFacts
<1>4. /\ \A q \in Procs : q # p => job'[q] = job[q]
      /\ job'[p].source = j.source /\ job'[p].chunks = j.chunks /\ job'[p].done = Upto(p)
      /\ job'[p].pc = IF Upto(p) = Len(j.chunks) THEN "limit" ELSE "flush"
  <2>1. job' = [job EXCEPT ![p] = [j EXCEPT !.done = Upto(p),
                              !.pc = IF Upto(p) = Len(j.chunks) THEN "limit" ELSE "flush"]]
    BY <1>2 DEF Flush
  <2>2. job'[p] = [j EXCEPT !.done = Upto(p),
                            !.pc = IF Upto(p) = Len(j.chunks) THEN "limit" ELSE "flush"]
    BY <1>0, <2>1 DEF JobsOK
  <2>. QED
    BY <1>0, <1>1, <2>1, <2>2 DEF SaveJobs, JobsOK
<1>5. src' = src /\ history' = history /\ chunks' = chunks \cup Batch(p) /\ Exists(j.source)
  BY DEF Flush, Storable
<1>6. ASSUME NEW s \in Sources, s # j.source
      PROVE  LastOK(s)' /\ Whole(s)'
  <2>1. Rows(s)' = Rows(s)
    BY <1>3, <1>5, <1>6 DEF Rows
  <2>2. \A q \in Procs : Saving(q, s)' <=> Saving(q, s)
    BY <1>1, <1>4, <1>6 DEF Saving
  <2>3. \A q \in Procs : Saving(q, s) => job'[q].done = job[q].done /\ job'[q].chunks = job[q].chunks
    BY <1>4, <1>6 DEF Saving
  <2>. QED
    BY <1>5, <1>6, <2>1, <2>2, <2>3, Untouched DEF SaveInv
<1>7. ASSUME NEW s \in Sources, s = j.source
      PROVE  LastOK(s)' /\ Whole(s)'
  <2>. DEFINE t == LastText(s)
  <2>1. LastOK(s)'
    BY <1>5, <1>7 DEF SaveInv, LastOK, Exists
  <2>. SUFFICES ASSUME s \notin history.torn
                PROVE  /\ \A q \in Procs : Saving(q, s)' => job'[q].chunks = history'.last[s].text
                       /\ RowsOfText(s)' /\ WholeBatches(s)' /\ MissingIsComing(s)'
    BY <1>5, <2>1 DEF Whole
  <2>2. /\ \A q \in Procs : Saving(q, s) => job[q].chunks = history.last[s].text
        /\ RowsOfText(s) /\ WholeBatches(s) /\ MissingIsComing(s)
    BY <1>5, <1>7 DEF SaveInv, Whole
  <2>3. Saving(p, s) /\ t = j.chunks /\ LastText(s)' = t
    BY <1>1, <1>5, <1>7, <2>2 DEF Saving, LastText
  <2>4. \A q \in Procs : Saving(q, s)' => job'[q].chunks = history'.last[s].text
    BY <1>4, <1>5, <2>2, <2>3 DEF Saving
  <2>5. Rows(s)' = Rows(s) \cup Batch(p)
    BY <1>3, <1>5, <1>7 DEF Rows
  <2>6. RowsOfText(s)'
    <3>1. \A c \in Batch(p) : c.index \in 1..Len(t) /\ c.text = t[c.index]
      BY <1>1, <1>2, <1>3, <2>3
    <3>. QED
      BY <2>2, <2>3, <2>5, <3>1 DEF RowsOfText
  <2>7. \A i : i \in Stored(s)' <=> i \in Stored(s) \/ i \in j.done + 1 .. Upto(p)
    BY <1>3, <2>5 DEF Stored
  <2>8. \A i \in Stored(s) : i \in Nat
    BY <1>0 DEF Stored, Rows, TablesOK
  <2>. HIDE DEF t, j
  <2>9. WholeBatches(s)'
    <3>. SUFFICES ASSUME NEW n \in Nat, NEW k \in Stored(s)', BatchStart(n), n < k,
                         k <= n + BatchSize,
                         NEW i \in n + 1 .. Smaller(n + BatchSize, Len(t))
                  PROVE  i \in Stored(s)'
      BY <2>3 DEF WholeBatches
    <3>1. CASE k \in Stored(s)
      <4>1. i \in Stored(s)
        BY <2>2, <3>1 DEF WholeBatches, t
      <4>. QED
        BY <2>7, <4>1
    <3>2. CASE k \in j.done + 1 .. Upto(p)
      <4>1. ~(n < j.done)
        BY <1>1, <1>2, <3>2, BatchesApart
      <4>2. ~(j.done < n)
        BY <1>1, <1>2, <3>2, BatchesApart
      <4>3. n = j.done
        BY <1>1, <4>1, <4>2
      <4>4. Smaller(n + BatchSize, Len(t)) = Upto(p)
        BY <2>3, <4>3 DEF Upto, j
      <4>. QED
        BY <2>7, <4>3, <4>4
    <3>. QED
      BY <2>7, <3>1, <3>2
  <2>10. MissingIsComing(s)'
    <3>. SUFFICES ASSUME ~Repeats(t), NEW i \in 1..Len(t), NEW k \in {0} \cup Stored(s)',
                         i \notin Stored(s)', k < i
                  PROVE  \E q \in Procs : Saving(q, s)' /\ k <= job'[q].done /\ job'[q].done < i
      BY <2>3 DEF MissingIsComing
    <3>0. Len(t) \in Nat /\ i \in Nat /\ k \in Nat
      BY <1>1, <1>2, <2>3, <2>7, <2>8 DEF j
    <3>1. ASSUME j.done < i, k <= Upto(p)
          PROVE  Saving(p, s)' /\ k <= job'[p].done /\ job'[p].done < i
      <4>1. Upto(p) < i
        BY <1>1, <1>2, <2>7, <3>0, <3>1
      <4>2. Upto(p) # Len(j.chunks)
        BY <1>2, <2>3, <3>0, <4>1
      <4>. QED
        BY <1>4, <1>7, <3>1, <4>1, <4>2 DEF Saving, j
    <3>2. CASE k \in {0} \cup Stored(s)
      <4>1. PICK q \in Procs : Saving(q, s) /\ k <= job[q].done /\ job[q].done < i
        BY <2>2, <2>7, <3>2 DEF MissingIsComing, t
      <4>2. CASE q = p
        BY <1>1, <1>2, <3>0, <3>1, <4>1, <4>2 DEF j
      <4>3. CASE q # p
        BY <1>4, <4>1, <4>3 DEF Saving
      <4>. QED
        BY <4>2, <4>3
    <3>3. CASE k \in j.done + 1 .. Upto(p)
      BY <1>1, <1>2, <3>0, <3>1, <3>3
    <3>. QED
      BY <2>7, <3>2, <3>3
  <2>. QED
    BY <2>4, <2>6, <2>9, <2>10
<1>. QED
  BY <1>6, <1>7

\* A batch that is refused: its chunks are there already, so another save has passed
\* them and brings what follows.
LEMMA WholeFlushFails ==
  ASSUME TypeInv, TypeInv', SaveInv, NEW p \in Procs, FlushFails(p)
  PROVE  \A s \in Sources : LastOK(s)' /\ Whole(s)'
<1>. DEFINE j == job[p]
<1>0. TablesOK /\ JobsOK
  BY DEF TypeInv
<1>1. /\ j \in SaveJobs /\ j.pc = "flush" /\ j.done \in Nat /\ Len(j.chunks) \in Nat
      /\ BatchStart(j.done) /\ j.source \in Sources
  <2>1. j.pc = "flush" /\ JobOK(j, nextId)
    BY <1>0 DEF FlushFails, JobsOK
  <2>. QED
    BY <2>1, FlushJob DEF JobOK, SaveJobs
<1>2. /\ Upto(p) \in Nat /\ j.done < Upto(p) /\ Upto(p) <= Len(j.chunks)
      /\ Upto(p) <= j.done + BatchSize
  BY <1>1, BatchFacts
<1>3. \A c \in Batch(p) : /\ c.of = j.source /\ c.index \in j.done + 1 .. Upto(p)
                          /\ c.text = j.chunks[c.index]
  BY <1>1, BatchFacts
<1>4. /\ \A q \in Procs : q # p => job'[q] = job[q]
      /\ job'[p] = Idle /\ ~Storable(p)
  BY <1>0 DEF FlushFails, JobsOK
<1>5. src' = src /\ history' = history /\ chunks' = chunks
  BY DEF FlushFails, db
<1>6. ASSUME NEW s \in Sources, s # j.source
      PROVE  LastOK(s)' /\ Whole(s)'
  <2>1. \A q \in Procs : Saving(q, s)' <=> Saving(q, s)
    BY <1>4, <1>6 DEF Saving, Idle
  <2>2. \A q \in Procs : Saving(q, s) => job'[q].done = job[q].done /\ job'[q].chunks = job[q].chunks
    BY <1>4, <1>6 DEF Saving
  <2>3. Rows(s)' = Rows(s)
    BY <1>5 DEF Rows
  <2>. QED
    BY <1>5, <1>6, <2>1, <2>2, <2>3, Untouched DEF SaveInv
<1>7. ASSUME NEW s \in Sources, s = j.source
      PROVE  LastOK(s)' /\ Whole(s)'
  <2>. DEFINE t == LastText(s)
  <2>1. LastOK(s)'
    BY <1>5, <1>7 DEF SaveInv, LastOK, Exists
  <2>. SUFFICES ASSUME s \notin history.torn, Exists(s)
                PROVE  /\ \A q \in Procs : Saving(q, s)' => job'[q].chunks = history'.last[s].text
                       /\ RowsOfText(s)' /\ WholeBatches(s)' /\ MissingIsComing(s)'
    BY <1>5, <2>1 DEF Whole, Exists
  <2>2. /\ \A q \in Procs : Saving(q, s) => job[q].chunks = history.last[s].text
        /\ RowsOfText(s) /\ WholeBatches(s) /\ MissingIsComing(s)
    BY <1>7 DEF SaveInv, Whole
  <2>3. /\ Saving(p, s) /\ t = j.chunks /\ LastText(s)' = t
        /\ Rows(s)' = Rows(s) /\ Stored(s)' = Stored(s)
    BY <1>1, <1>5, <1>7, <2>2 DEF Saving, LastText, Rows, Stored
  <2>4. \A q \in Procs : Saving(q, s)' => job'[q].chunks = history'.last[s].text
    BY <1>4, <1>5, <2>2 DEF Saving, Idle
  <2>5. RowsOfText(s)' /\ WholeBatches(s)'
    BY <2>2, <2>3 DEF RowsOfText, WholeBatches
  <2>6. ASSUME ~Repeats(t)
        PROVE  \E k \in Stored(s) : k \in j.done + 1 .. Upto(p)
    <3>0. PICK c \in Batch(p) : \E d \in (Rows(s) \cup Batch(p)) \ {c} :
                                ~(c.text # d.text /\ c.index # d.index)
      BY <1>4, <1>7 DEF Storable
    <3>1. PICK d \in (Rows(s) \cup Batch(p)) \ {c} : ~(c.text # d.text /\ c.index # d.index)
      BY <3>0
    <3>2. c.index \in 1..Len(t) /\ c.text = t[c.index]
      BY <1>1, <1>2, <1>3, <2>3
    <3>3. d.index \in 1..Len(t) /\ d.text = t[d.index]
      <4>1. CASE d \in Rows(s)
        BY <2>2, <4>1 DEF RowsOfText
      <4>2. CASE d \in Batch(p)
        BY <1>1, <1>2, <1>3, <2>3, <4>2
      <4>. QED
        BY <4>1, <4>2
    <3>4. c.index = d.index
      BY <2>6, <3>1, <3>2, <3>3 DEF Repeats
    <3>5. d \in Rows(s)
      <4>1. ASSUME d \in Batch(p) PROVE c = d
        <5>1. /\ c \in [id : Nat, of : Sources, text : Contents, index : Nat]
              /\ c.of = j.source /\ c.id = nextId + c.index - j.done - 1
          BY <1>1, BatchFacts
        <5>2. /\ d \in [id : Nat, of : Sources, text : Contents, index : Nat]
              /\ d.of = j.source /\ d.id = nextId + d.index - j.done - 1
          BY <1>1, <4>1, BatchFacts
        <5>3. c.text = d.text
          BY <3>2, <3>3, <3>4
        <5>. QED
          BY <3>4, <5>1, <5>2, <5>3
      <4>. QED
        BY <3>1, <4>1
    <3>. QED
      BY <1>3, <3>4, <3>5 DEF Stored
  <2>7. MissingIsComing(s)'
    <3>. SUFFICES ASSUME ~Repeats(t), NEW i \in 1..Len(t), NEW k \in {0} \cup Stored(s),
                         i \notin Stored(s), k < i
                  PROVE  \E q \in Procs : Saving(q, s)' /\ k <= job'[q].done /\ job'[q].done < i
      BY <2>3 DEF MissingIsComing
    <3>0. Len(t) \in Nat /\ i \in Nat /\ k \in Nat
      BY <1>0, <1>1, <2>3 DEF Stored, Rows, TablesOK
    <3>1. PICK q \in Procs : Saving(q, s) /\ k <= job[q].done /\ job[q].done < i
      BY <2>2 DEF MissingIsComing
    <3>2. CASE q # p
      BY <1>4, <3>1, <3>2 DEF Saving
    <3>3. CASE q = p
      <4>1. PICK m \in Stored(s) : m \in j.done + 1 .. Upto(p)
        BY <2>6
      <4>2. \A n \in j.done + 1 .. Upto(p) : n \in Stored(s)
        BY <1>1, <1>2, <2>2, <2>3, <4>1 DEF WholeBatches, Upto
      <4>3. m < i
        BY <1>1, <1>2, <3>0, <3>1, <3>3, <4>1, <4>2
      <4>4. PICK r \in Procs : Saving(r, s) /\ m <= job[r].done /\ job[r].done < i
        BY <2>2, <4>3 DEF MissingIsComing
      <4>5. r # p /\ k <= job[r].done
        <5>1. job[r].done \in Nat
          BY <4>4, FlushJob DEF Saving
        <5>. QED
          BY <1>1, <1>2, <3>0, <3>1, <3>3, <4>1, <4>4, <5>1
      <4>. QED
        BY <1>4, <4>4, <4>5 DEF Saving
    <3>. QED
      BY <3>2, <3>3
  <2>. QED
    BY <2>4, <2>5, <2>7
<1>. QED
  BY <1>6, <1>7

\* The other steps do not add to a source: they remove it, declare a save of it
\* broken off, or are not about its chunks.
LEMMA WholeOthers ==
  ASSUME TypeInv, TypeInv', SaveInv, [Next]_vars,
         \A p \in Procs : ~Replace(p) /\ ~Flush(p) /\ ~FlushFails(p)
  PROVE  \A s \in Sources : LastOK(s)' /\ Whole(s)'
<1>. USE DEF db
<1>0. TablesOK /\ JobsOK /\ RestOK
  BY DEF TypeInv
<1>1. ASSUME NEW p \in Procs,
             \/ \E s \in Sources : StartSave(p, s)
             \/ SaveReturns(p) \/ PickOldest(p)
             \/ \E n \in Sessions : StartPurge(p, n)
             \/ \E x \in Indexes : Unindex(p, x)
      PROVE  \A s \in Sources : LastOK(s)' /\ Whole(s)'
  <2>1. chunks' = chunks /\ src' = src
    BY <1>1 DEF StartSave, SaveReturns, PickOldest, StartPurge, Unindex
  <2>2. history'.last = history.last /\ history'.torn = history.torn
    BY <1>0, <1>1 DEF StartSave, SaveReturns, PickOldest, StartPurge, Unindex, RestOK
  <2>3. \A q \in Procs : q # p => job'[q] = job[q]
    BY <1>0, <1>1 DEF StartSave, SaveReturns, PickOldest, StartPurge, Unindex, JobsOK
  <2>4. job[p].pc # "flush"
    BY <1>1 DEF StartSave, SaveReturns, PickOldest, StartPurge, Unindex, Idle, Indexes
  <2>5. job'[p].pc # "flush"
    <3>1. job[p] \in {Idle} \cup SaveJobs \cup PurgeJobs
      BY <1>0 DEF JobsOK
    <3>2. ASSUME NEW s \in Sources, StartSave(p, s) PROVE job'[p].pc # "flush"
      BY <1>0, <3>2 DEF StartSave, JobsOK
    <3>3. CASE SaveReturns(p) \/ \E n \in Sessions : StartPurge(p, n)
      BY <1>0, <3>3 DEF SaveReturns, StartPurge, JobsOK, Idle
    <3>4. CASE PickOldest(p)
      <4>1. job[p] \in SaveJobs
        BY <3>1, <3>4 DEF PickOldest, Idle, PurgeJobs
      <4>2. PICK v \in Sources : job' = [job EXCEPT ![p].pc = "fts", ![p].victim = v]
        BY <3>4 DEF PickOldest
      <4>3. job'[p] = [job[p] EXCEPT !.pc = "fts", !.victim = v]
        BY <1>0, <4>2 DEF JobsOK
      <4>. QED
        BY <4>1, <4>3 DEF SaveJobs
    <3>5. ASSUME NEW x \in Indexes, Unindex(p, x) PROVE job'[p].pc # "flush"
      <4>. DEFINE h == job[p].hidden \cup {c.id : c \in UNION {Rows(s) : s \in Doomed(p)}}
                  pc == IF x = "fts" THEN "trigram" ELSE "rows"
      <4>1. job'[p] = [job[p] EXCEPT !.pc = pc, !.hidden = h] /\ job[p].pc = x
        BY <1>0, <3>5 DEF Unindex, JobsOK
      <4>2. pc # "flush" /\ job[p] \in SaveJobs \cup PurgeJobs
        BY <3>1, <4>1 DEF Idle, Indexes
      <4>. HIDE DEF h, pc
      <4>. QED
        BY <4>1, <4>2 DEF SaveJobs, PurgeJobs
    <3>. QED
      BY <1>1, <3>2, <3>3, <3>4, <3>5
  <2>6. ASSUME NEW s \in Sources PROVE LastOK(s)' /\ Whole(s)'
    <3>1. \A q \in Procs : Saving(q, s)' <=> Saving(q, s)
      BY <2>3, <2>4, <2>5 DEF Saving
    <3>2. \A q \in Procs : Saving(q, s) => job'[q].done = job[q].done /\ job'[q].chunks = job[q].chunks
      BY <2>3, <2>4 DEF Saving
    <3>3. Rows(s)' = Rows(s)
      BY <2>1 DEF Rows
    <3>. QED
      BY <2>1, <2>2, <3>1, <3>2, <3>3, Untouched DEF SaveInv
  <2>. QED
    BY <2>6
<1>2. ASSUME NEW S, DeleteSources(S), history'.last = history.last, history'.torn = history.torn,
             \A q \in Procs : job'[q] = job[q] \/ (job[q].pc # "flush" /\ job'[q].pc # "flush")
      PROVE  \A s \in Sources : LastOK(s)' /\ Whole(s)'
  <2>1. ASSUME NEW s \in Sources, s \in S PROVE LastOK(s)' /\ Whole(s)'
    BY <1>2, <2>1, GoneIsWhole DEF DeleteSources, Exists
  <2>2. ASSUME NEW s \in Sources, s \notin S PROVE LastOK(s)' /\ Whole(s)'
    <3>1. \A q \in Procs : Saving(q, s)' <=> Saving(q, s)
      BY <1>2 DEF Saving
    <3>2. \A q \in Procs : Saving(q, s) => job'[q].done = job[q].done /\ job'[q].chunks = job[q].chunks
      BY <1>2 DEF Saving
    <3>3. Rows(s)' = Rows(s) /\ src'[s] = src[s]
      BY <1>2, <2>2 DEF DeleteSources, Without, Rows
    <3>. QED
      BY <1>2, <3>1, <3>2, <3>3, Untouched DEF SaveInv
  <2>. QED
    BY <2>1, <2>2
<1>3. ASSUME NEW p \in Procs, DeleteRows(p)
      PROVE  \A s \in Sources : LastOK(s)' /\ Whole(s)'
  <2>1. DeleteSources(Doomed(p)) /\ job[p].pc = "rows"
    BY <1>3 DEF DeleteRows
  <2>2. history'.last = history.last /\ history'.torn = history.torn
    BY <1>0, <1>3 DEF DeleteRows, RestOK
  <2>3. \A q \in Procs : q # p => job'[q] = job[q]
    BY <1>0, <1>3 DEF DeleteRows, JobsOK
  <2>4. job'[p].pc # "flush"
    <3>1. job'[p] = IF job[p].op = "purge" THEN Idle
                                           ELSE [job[p] EXCEPT !.pc = "limit", !.hidden = {}]
      BY <1>0, <1>3 DEF DeleteRows, JobsOK
    <3>2. job[p] \in SaveJobs \cup PurgeJobs
      BY <1>0, <2>1 DEF JobsOK, Idle
    <3>3. CASE job[p] \in SaveJobs
      BY <3>1, <3>3 DEF SaveJobs, Idle
    <3>4. CASE job[p] \in PurgeJobs
      BY <3>1, <3>4 DEF PurgeJobs, Idle
    <3>. QED
      BY <3>2, <3>3, <3>4
  <2>. QED
    BY <1>2, <2>1, <2>2, <2>3, <2>4
<1>4. ASSUME NEW cutoff, CleanUp(cutoff)
      PROVE  \A s \in Sources : LastOK(s)' /\ Whole(s)'
  <2>1. history'.last = history.last /\ history'.torn = history.torn /\ job' = job
    BY <1>0, <1>4 DEF CleanUp, RestOK
  <2>. QED
    BY <1>2, <1>4, <2>1 DEF CleanUp
<1>5. ASSUME NEW p \in Procs, BreaksOff(p), NEW s \in Sources
      PROVE  LastOK(s)' /\ Whole(s)'
  <2>1. src' = src /\ chunks' = chunks
    BY <1>5 DEF BreaksOff
  <2>2. /\ history'.last = history.last
        /\ history'.torn = history.torn \cup {r \in Sources : Saving(p, r)}
    BY <1>0, <1>5 DEF BreaksOff, RestOK
  <2>3. job'[p] = Idle /\ \A q \in Procs : q # p => job'[q] = job[q]
    BY <1>0, <1>5 DEF BreaksOff, JobsOK
  <2>4. LastOK(s)'
    BY <2>1, <2>2 DEF SaveInv, LastOK, Exists
  <2>5. CASE Saving(p, s)
    BY <2>2, <2>4, <2>5 DEF Whole
  <2>6. CASE ~Saving(p, s)
    <3>1. \A q \in Procs : Saving(q, s)' <=> Saving(q, s)
      BY <2>3, <2>6 DEF Saving, Idle
    <3>2. \A q \in Procs : Saving(q, s) => job'[q].done = job[q].done /\ job'[q].chunks = job[q].chunks
      BY <2>3, <2>6 DEF Saving
    <3>3. Rows(s)' = Rows(s)
      BY <2>1 DEF Rows
    <3>. QED
      BY <2>1, <2>2, <3>1, <3>2, <3>3, Untouched DEF SaveInv
  <2>. QED
    BY <2>5, <2>6
<1>6. CASE UNCHANGED vars
  BY <1>6 DEF vars, SaveInv, LastOK, Whole, RowsOfText, WholeBatches, MissingIsComing, Stored,
              LastText, Rows, Saving, Exists
<1>. QED
  BY <1>1, <1>3, <1>4, <1>5, <1>6 DEF Next

\* What is acknowledged is there, and whoever removes it takes the promise back.
LEMMA AckedStep ==
  ASSUME TypeInv, TypeInv', SaveInv, [Next]_vars
  PROVE  AckedExists'
<1>. USE DEF db
<1>0. TablesOK /\ JobsOK /\ RestOK /\ AckedExists
  BY DEF TypeInv, SaveInv
<1>1. ASSUME src' = src, history'.last = history.last, history'.acked = history.acked
      PROVE  AckedExists'
  BY <1>0, <1>1 DEF AckedExists, Exists
<1>2. ASSUME NEW p \in Procs,
             \/ \E s \in Sources : StartSave(p, s)
             \/ Flush(p) \/ FlushFails(p) \/ PickOldest(p)
             \/ \E n \in Sessions : StartPurge(p, n)
             \/ \E x \in Indexes : Unindex(p, x)
      PROVE  AckedExists'
  <2>1. src' = src
    BY <1>2 DEF StartSave, Flush, FlushFails, PickOldest, StartPurge, Unindex
  <2>2. history'.last = history.last /\ history'.acked = history.acked
    BY <1>0, <1>2 DEF StartSave, Flush, FlushFails, PickOldest, StartPurge, Unindex, RestOK
  <2>. QED
    BY <1>1, <2>1, <2>2
<1>3. ASSUME NEW p \in Procs, NEW acks, acks = {} \/ acks = Acknowledged(p), src' = src,
             history'.last = history.last, history'.acked = history.acked \cup acks
      PROVE  AckedExists'
  <2>1. \A a \in acks : Exists(a.source)
    BY <1>3 DEF Acknowledged
  <2>. QED
    BY <1>0, <1>3, <2>1 DEF AckedExists, Exists
<1>4. ASSUME NEW p \in Procs, SaveReturns(p) PROVE AckedExists'
  <2>1. /\ src' = src /\ history'.last = history.last
        /\ history'.acked = history.acked \cup Acknowledged(p)
    BY <1>0, <1>4 DEF SaveReturns, RestOK
  <2>. QED
    BY <1>3, <2>1
<1>5. ASSUME NEW p \in Procs, BreaksOff(p) PROVE AckedExists'
  <2>1. PICK acks \in {{}} \cup (IF job[p].op = "save" /\ (job[p].pc = "limit" \/ job[p].victim # NoSource)
                                   THEN {Acknowledged(p)} ELSE {}) :
          history' = [history EXCEPT !.acked = @ \cup acks,
                                     !.torn = @ \cup {s \in Sources : Saving(p, s)},
                                     !.stranded = @ \cup job[p].hidden,
                                     !.crossed = @ \/ Deleting(p)]
    BY <1>5 DEF BreaksOff
  <2>2. history'.last = history.last /\ history'.acked = history.acked \cup acks
    BY <1>0, <2>1 DEF RestOK
  <2>3. src' = src /\ (acks = {} \/ acks = Acknowledged(p))
    BY <1>5, <2>1 DEF BreaksOff
  <2>. QED
    BY <1>3, <2>2, <2>3
<1>6. ASSUME NEW p \in Procs, Replace(p) PROVE AckedExists'
  <2>1. job[p] \in SaveJobs
    BY <1>0, <1>6 DEF JobsOK, Replace, Idle, PurgeJobs
  <2>2. job[p].source \in Sources /\ job[p].session \in Sessions /\ job[p].at \in Nat
    BY <2>1 DEF SaveJobs
  <2>3. /\ src'[job[p].source] \in [session : Sessions, at : Nat]
        /\ \A s \in Sources : s # job[p].source => src'[s] = src[s]
    BY <1>0, <1>6, <2>2 DEF Replace, TablesOK
  <2>4. /\ history'.acked = history.acked
        /\ \A s \in Sources : s # job[p].source => history'.last[s] = history.last[s]
    BY <1>0, <1>6 DEF Replace, RestOK
  <2>5. \A a \in history.acked : a.source \in Sources
    BY <1>0 DEF RestOK, Acks
  <2>. QED
    BY <1>0, <2>3, <2>4, <2>5 DEF AckedExists, Exists
<1>7. ASSUME NEW p \in Procs, DeleteRows(p) PROVE AckedExists'
  <2>1. history'.last = history.last
    BY <1>0, <1>7 DEF DeleteRows, RestOK
  <2>2. \A s \in Sources : s \notin Doomed(p) => src'[s] = src[s]
    BY <1>7 DEF DeleteRows, DeleteSources
  <2>3. ASSUME NEW a \in history'.acked,
               history.last[a.source] = [session |-> a.session, text |-> a.text]
        PROVE  Exists(a.source)'
    <3>1. /\ a \in history.acked
          /\ a.source \notin Doomed(p) \/ (job[p].op = "purge" /\ a.session # job[p].session)
      BY <1>0, <1>7 DEF DeleteRows, RestOK
    <3>2. a.source \in Sources /\ Exists(a.source)
      BY <1>0, <2>3, <3>1 DEF RestOK, Acks, AckedExists
    <3>3. a.session = src[a.source].session
      BY <2>3, <3>2 DEF SaveInv, LastOK
    <3>4. a.source \notin Doomed(p)
      BY <3>1, <3>3 DEF Doomed
    <3>. QED
      BY <2>2, <3>2, <3>4 DEF Exists
  <2>. QED
    BY <2>1, <2>3 DEF AckedExists
<1>8. ASSUME NEW cutoff, CleanUp(cutoff) PROVE AckedExists'
  <2>. DEFINE old == {s \in Sources : Exists(s) /\ src[s].at < cutoff}
  <2>1. history'.last = history.last /\ history'.acked = {a \in history.acked : a.source \notin old}
    BY <1>0, <1>8 DEF CleanUp, RestOK
  <2>2. \A s \in Sources : s \notin old => src'[s] = src[s]
    BY <1>8 DEF CleanUp, DeleteSources
  <2>3. \A a \in history.acked : a.source \in Sources
    BY <1>0 DEF RestOK, Acks
  <2>. HIDE DEF old
  <2>. QED
    BY <1>0, <2>1, <2>2, <2>3 DEF AckedExists, Exists
<1>9. CASE UNCHANGED vars
  BY <1>1, <1>9 DEF vars
<1>. QED
  BY <1>2, <1>4, <1>5, <1>6, <1>7, <1>8, <1>9 DEF Next

\* Every step keeps what the saves promise.
LEMMA SaveStep ==
  ASSUME TypeInv, TypeInv', SaveInv, [Next]_vars
  PROVE  SaveInv'
<1>1. \A s \in Sources : LastOK(s)' /\ Whole(s)'
  BY WholeReplace, WholeFlush, WholeFlushFails, WholeOthers
<1>. QED
  BY <1>1, AckedStep DEF SaveInv

\* The promise is the one the run checks: with no save under way nothing is missing.
LEMMA SaveInvWhole == TypeInv /\ SaveInv => AckedIsWhole
<1>. SUFFICES ASSUME TypeInv, SaveInv, NEW a \in history.acked,
                     ~Repeats(a.text), a.source \notin history.torn,
                     ~\E p \in Procs : Saving(p, a.source),
                     history.last[a.source] = [session |-> a.session, text |-> a.text]
              PROVE  /\ Exists(a.source)
                     /\ {<<c.index, c.text>> : c \in Rows(a.source)}
                          = {<<i, a.text[i]>> : i \in 1..Len(a.text)}
  BY DEF AckedIsWhole
<1>. DEFINE s == a.source
            t == a.text
<1>1. Exists(s) /\ s \in Sources
  BY DEF SaveInv, AckedExists, TypeInv, RestOK, Acks
<1>2. LastText(s) = t
  BY DEF LastText
<1>3. RowsOfText(s) /\ MissingIsComing(s)
  BY <1>1 DEF SaveInv, Whole
<1>4. \A c \in Rows(s) : c.index \in 1..Len(t) /\ c.text = t[c.index]
  BY <1>2, <1>3 DEF RowsOfText
<1>5. ASSUME NEW i \in 1..Len(t) PROVE \E c \in Rows(s) : c.index = i
  <2>0. Len(t) \in Nat
    BY <1>1, <1>2, KeptFacts DEF SaveInv, LastOK
  <2>1. i \in Stored(s)
    BY <1>2, <1>3, <2>0 DEF MissingIsComing
  <2>. QED
    BY <2>1 DEF Stored
<1>. HIDE DEF s, t
<1>6. {<<c.index, c.text>> : c \in Rows(s)} = {<<i, t[i]>> : i \in 1..Len(t)}
  BY <1>4, <1>5
<1>. QED
  BY <1>1, <1>6 DEF s, t

\* Whoever got the id of a saved artifact finds all of its chunks, for every batch size
\* and any number of saves of it beside each other, with the exceptions AckedIsWhole names.
THEOREM SavesAreWhole == Spec => []AckedIsWhole
<1>1. Init => TypeInv /\ SaveInv
  BY TypeInit, SaveInit
<1>2. TypeInv /\ SaveInv /\ [Next]_vars => (TypeInv /\ SaveInv)'
  BY TypeStep, SaveStep
<1>. QED
  BY <1>1, <1>2, SaveInvWhole, PTL DEF Spec
=============================================================================
