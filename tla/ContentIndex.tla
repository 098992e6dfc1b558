---------------------------- MODULE ContentIndex ----------------------------
(***************************************************************************)
(* The content store (packages/atlas-contentstore), context.db: the        *)
(* artifacts that hooks, tools and bridge files save, their chunks, the    *)
(* two full-text indexes over the chunks, and what removes artifacts: the  *)
(* purge of a session, the clean-up by age and the size limit.             *)
(*                                                                         *)
(* Every caller opens a connection of its own, and one SQLite transaction  *)
(* is one step: a save replaces the source row, then stores the chunks     *)
(* batch by batch; a deletion empties the two indexes and then deletes the *)
(* rows, in three transactions.  A process may be killed, and a            *)
(* transaction may fail, between any two.                                  *)
(*                                                                         *)
(* A source id is a hash of the label and the first 64 KB of the text, so  *)
(* a save with the same id has the same text unless it is longer than      *)
(* that: Texts gives the texts of an id, each as the sequence of its       *)
(* chunks.  The chunk_id is the chunk's text.  The vocabulary and the      *)
(* counters of retrieval_index_state only grow and are left out, and so    *)
(* are begin_indexing and finish_indexing, which only tests call.          *)
(***************************************************************************)
EXTENDS Integers, Sequences, FiniteSets

CONSTANTS Procs,      \* connections
          Sources,    \* source ids
          Texts,      \* source id -> the texts with that id, as chunks in order
          Sessions,   \* sessions that save and purge artifacts, for all of their agents
          BatchSize,  \* retrieval_batch_size
          MaxChunks,  \* max_chunks_per_file
          RunLeft,    \* what max_chunks_per_index_run may leave a save: a connection
                      \* that stores several artifacts uses it up
          Limits,     \* values of max_db_bytes, in pages
          Unlimited,  \* max_db_bytes is None
          NoSource,   \* there is no such row
          MaxOps,     \* bound: saves, purges and clean-ups
          MaxFaults   \* bound: kills and failed transactions

VARIABLES src,      \* the sources table: source -> [session, at] or NoSource
          chunks,   \* the chunks table: rows [id, of, text, index]
          entries,  \* full-text index -> its entries [id, text]
          broken,   \* the indexes told to delete an entry they did not have
          nextId,   \* the AUTOINCREMENT sequence of chunks
          pages,    \* page_count, with one page for a chunk
          limit,    \* max_db_bytes, from the configuration
          now,      \* the clock of created_at: counts the saves
          job,      \* process -> what it does
          history,  \* what happened so far; read by the properties only
          ops, faults

db == <<src, chunks, entries, broken, nextId, pages, limit>>
vars == <<db, now, job, history, ops, faults>>

Indexes == {"fts", "trigram"}
Contents == UNION {UNION {{t[i] : i \in 1..Len(t)} : t \in Texts[s]} : s \in Sources}

ASSUME ContentAssumption ==
  /\ BatchSize \in Nat \ {0} /\ MaxChunks \in Nat /\ RunLeft \subseteq Nat
  /\ MaxOps \in Nat /\ MaxFaults \in Nat
  /\ Limits \subseteq Nat \cup {Unlimited} /\ Unlimited \notin Nat
  /\ \A s \in Sources : \A t \in Texts[s] : t \in Seq(Contents)
  /\ NoSource \notin [session : Sessions, at : Nat]

Smaller(m, n) == IF m < n THEN m ELSE n
Larger(m, n) == IF m < n THEN n ELSE m

\* chunk_text and the two caps under partial_with_warning, the policy every caller
\* has: the chunks after the file's cap and what is left of the run's are dropped.
\* (The other two, which only tests choose, return before the first write.)
Kept(t, left) == SubSeq(t, 1, Smaller(Len(t), Smaller(MaxChunks, left)))
\* What a save of s may store.
Cuts(s) == {Kept(t, left) : t \in Texts[s], left \in RunLeft}

Exists(s) == src[s] # NoSource
Rows(s) == {c \in chunks : c.of = s}
\* The rows of every source but those in S: ON DELETE CASCADE.
Without(S) == {c \in chunks : c.of \notin S}
EntriesOf(rows) == {[id |-> c.id, text |-> c.text] : c \in rows}

Idle == [pc |-> "idle"]
\* An acknowledged save: who saved which chunks under which id.
Acks == [session : Sessions, source : Sources, text : UNION {Cuts(s) : s \in Sources}]

-----------------------------------------------------------------------------
(* Saving an artifact: route_output and index_artifact.                    *)

\* p is storing the chunks of s.
Saving(p, s) == job[p].pc = "flush" /\ job[p].source = s

\* Everything before the first write, with the time that becomes created_at.
\* An output small enough to be returned raw is not stored.
StartSave(p, s) ==
  /\ job[p] = Idle /\ ops < MaxOps
  /\ \E t \in Cuts(s), n \in Sessions :
       job' = [job EXCEPT ![p] = [pc |-> "replace", op |-> "save", source |-> s, session |-> n,
                                  chunks |-> t, at |-> now,
                                  done |-> 0, victim |-> NoSource, hidden |-> {}]]
  /\ now' = now + 1 /\ ops' = ops + 1
  /\ UNCHANGED <<db, history, faults>>

\* INSERT OR REPLACE deletes the old row of the source, and with it, since
\* foreign keys are on, its chunks: the query for existing chunks in the same
\* transaction finds none, so no entry of them leaves an index and no chunk is
\* reused.
Replace(p) ==
  LET j == job[p] IN
  /\ j.pc = "replace"
  /\ src' = [src EXCEPT ![j.source] = [session |-> j.session, at |-> j.at]]
  /\ chunks' = Without({j.source})
  /\ job' = [job EXCEPT ![p].pc = IF j.chunks = <<>> THEN "limit" ELSE "flush"]
  /\ history' = [history EXCEPT
       !.last[j.source] = [session |-> j.session, text |-> j.chunks],
       !.torn = IF \E q \in Procs : Saving(q, j.source) /\ job[q].chunks # j.chunks
                  THEN @ \cup {j.source} ELSE @ \ {j.source}]
  /\ UNCHANGED <<entries, broken, nextId, pages, limit, now, ops, faults>>

\* Mutant: ids are reused, as without AUTOINCREMENT.
FirstFreeId ==
  CHOOSE n \in 1..nextId : /\ \A c \in chunks : c.id < n
                           /\ n = 1 \/ \E c \in chunks : c.id = n - 1

\* chunks.id is INTEGER PRIMARY KEY AUTOINCREMENT: an id is never used again.
FirstId == nextId

\* The rows of the next batch of chunks.
Batch(p) ==
  LET j == job[p] IN
  {[id |-> FirstId + i - j.done - 1, of |-> j.source, text |-> j.chunks[i], index |-> i] :
     i \in j.done + 1 .. Smaller(j.done + BatchSize, Len(j.chunks))}

\* The source exists, and chunk ids and indexes are unique within it.
Storable(p) ==
  /\ Exists(job[p].source)
  /\ \A c \in Batch(p) : \A d \in (Rows(job[p].source) \cup Batch(p)) \ {c} :
       c.text # d.text /\ c.index # d.index

\* Mutant: a chunk is put into the keyword index only.
FlushKeywordsOnly(p) ==
  /\ job[p].pc = "flush" /\ Storable(p)
  /\ chunks' = chunks \cup Batch(p)
  /\ entries' = [entries EXCEPT !["fts"] = @ \cup EntriesOf(Batch(p))]
  /\ nextId' = nextId + Cardinality(Batch(p))
  /\ pages' = Larger(pages, Cardinality(chunks'))
  /\ LET done == job[p].done + Cardinality(Batch(p)) IN
     job' = [job EXCEPT ![p].done = done,
                        ![p].pc = IF done = Len(job[p].chunks) THEN "limit" ELSE "flush"]
  /\ UNCHANGED <<src, broken, limit, now, history, ops, faults>>

\* One transaction stores a batch: the rows and their entries in both indexes.
Flush(p) ==
  /\ job[p].pc = "flush" /\ Storable(p)
  /\ chunks' = chunks \cup Batch(p)
  /\ entries' = [x \in Indexes |-> entries[x] \cup EntriesOf(Batch(p))]
  /\ nextId' = nextId + Cardinality(Batch(p))
  /\ pages' = Larger(pages, Cardinality(chunks'))
  /\ LET done == job[p].done + Cardinality(Batch(p)) IN
     job' = [job EXCEPT ![p].done = done,
                        ![p].pc = IF done = Len(job[p].chunks) THEN "limit" ELSE "flush"]
  /\ UNCHANGED <<src, broken, limit, now, history, ops, faults>>

\* A text with two equal chunks, a concurrent save of the same source or its
\* deletion: the batch is rolled back and the error is returned.
FlushFails(p) ==
  /\ job[p].pc = "flush" /\ ~Storable(p)
  /\ job' = [job EXCEPT ![p] = Idle]
  /\ UNCHANGED <<db, now, history, ops, faults>>

\* What the save of p acknowledges, unless somebody has removed it already.
Acknowledged(p) ==
  IF Exists(job[p].source)
    THEN {[session |-> job[p].session, source |-> job[p].source, text |-> job[p].chunks]}
    ELSE {}

\* enforce_size_limit compares page_count with the limit, if there is one.
OverLimit == limit # Unlimited /\ pages > limit

\* The size limit is off, kept, or there is nothing left to remove: the caller
\* gets the source id.
SaveReturns(p) ==
  /\ job[p].pc = "limit"
  /\ ~(OverLimit /\ \E s \in Sources : Exists(s))
  /\ history' = [history EXCEPT !.acked = @ \cup Acknowledged(p)]
  /\ job' = [job EXCEPT ![p] = Idle]
  /\ UNCHANGED <<db, now, ops, faults>>

\* enforce_size_limit: the source with the oldest created_at goes next.  A
\* deletion does not make page_count smaller.
PickOldest(p) ==
  /\ job[p].pc = "limit" /\ OverLimit
  /\ \E v \in Sources :
       /\ Exists(v) /\ \A s \in Sources : Exists(s) => src[v].at <= src[s].at
       /\ job' = [job EXCEPT ![p].pc = "fts", ![p].victim = v]
  /\ UNCHANGED <<db, now, history, ops, faults>>

-----------------------------------------------------------------------------
(* Removing artifacts.                                                     *)

\* delete_session_sources, from purge_saved_context.
StartPurge(p, n) ==
  /\ job[p] = Idle /\ ops < MaxOps
  /\ job' = [job EXCEPT ![p] = [pc |-> "fts", op |-> "purge", session |-> n, hidden |-> {}]]
  /\ ops' = ops + 1
  /\ UNCHANGED <<db, now, history, faults>>

\* Mutant: the WHERE clause on the session is missing.
AllSources(p) ==
  {s \in Sources : Exists(s) /\ (job[p].op = "purge" \/ s = job[p].victim)}

\* The sources a statement of p's deletion is about.
Doomed(p) ==
  {s \in Sources : Exists(s) /\ IF job[p].op = "purge" THEN src[s].session = job[p].session
                                                       ELSE s = job[p].victim}

\* A process that has taken entries out of an index and not yet deleted the rows.
Deleting(p) == job[p].pc \in {"trigram", "rows"}

\* The first and second statement: an index is told to delete the entries of the
\* chunks.  An external-content index does not check that it has them.
Unindex(p, x) ==
  LET old == UNION {Rows(s) : s \in Doomed(p)} IN
  /\ job[p].pc = x
  /\ entries' = [entries EXCEPT ![x] = @ \ EntriesOf(old)]
  /\ broken' = IF EntriesOf(old) \subseteq entries[x] THEN broken ELSE broken \cup {x}
  /\ job' = [job EXCEPT ![p].pc = IF x = "fts" THEN "trigram" ELSE "rows",
                        ![p].hidden = @ \cup {c.id : c \in old}]
  /\ history' = [history EXCEPT !.crossed = @ \/ \E q \in Procs \ {p} : Deleting(q)]
  /\ UNCHANGED <<src, chunks, nextId, pages, limit, now, ops, faults>>

\* Mutant: foreign keys are off, and the chunks stay.
RemoveSources(S) ==
  /\ src' = [s \in Sources |-> IF s \in S THEN NoSource ELSE src[s]]
  /\ chunks' = chunks

\* DELETE FROM sources, with the cascade.
DeleteSources(S) ==
  /\ src' = [s \in Sources |-> IF s \in S THEN NoSource ELSE src[s]]
  /\ chunks' = Without(S)

\* Mutant: the third statement selects by an agent that no row has.
RowsStay(p) ==
  /\ job[p].pc = "rows"
  /\ job' = IF job[p].op = "purge" THEN [job EXCEPT ![p] = Idle]
                                   ELSE [job EXCEPT ![p].pc = "limit", ![p].hidden = {}]
  /\ UNCHANGED <<db, now, history, ops, faults>>

\* The third statement.  A purge is meant for the artifacts of its session, the
\* size limit for whatever is oldest.
DeleteRows(p) ==
  /\ job[p].pc = "rows"
  /\ DeleteSources(Doomed(p))
  /\ history' = [history EXCEPT !.acked = {a \in @ : a.source \notin Doomed(p) \/
                                             (job[p].op = "purge" /\ a.session # job[p].session)}]
  /\ job' = IF job[p].op = "purge" THEN [job EXCEPT ![p] = Idle]
                                   ELSE [job EXCEPT ![p].pc = "limit", ![p].hidden = {}]
  /\ UNCHANGED <<entries, broken, nextId, pages, limit, now, ops, faults>>

\* cleanup: the sources older than the cutoff go in one statement, and their
\* entries stay in the indexes.
CleanUp(cutoff) ==
  LET old == {s \in Sources : Exists(s) /\ src[s].at < cutoff} IN
  /\ ops < MaxOps /\ old # {}
  /\ DeleteSources(old)
  /\ history' = [history EXCEPT !.acked = {a \in @ : a.source \notin old}]
  /\ ops' = ops + 1
  /\ UNCHANGED <<entries, broken, nextId, pages, limit, now, job, faults>>

-----------------------------------------------------------------------------
(* Faults.                                                                 *)

\* The process is killed, or its next transaction fails: nothing that it has
\* done is undone.  An error of enforce_size_limit is not reported.
BreaksOff(p) ==
  LET j == job[p] IN
  /\ j # Idle /\ faults < MaxFaults
  /\ job' = [job EXCEPT ![p] = Idle]
  /\ faults' = faults + 1
  /\ \E acks \in {{}} \cup (IF j.op = "save" /\ (j.pc = "limit" \/ j.victim # NoSource)
                              THEN {Acknowledged(p)} ELSE {}) :
       history' = [history EXCEPT !.acked = @ \cup acks,
                                  !.torn = @ \cup {s \in Sources : Saving(p, s)},
                                  !.stranded = @ \cup j.hidden,
                                  !.crossed = @ \/ Deleting(p)]
  /\ UNCHANGED <<db, now, ops>>

-----------------------------------------------------------------------------
Init ==
  /\ src = [s \in Sources |-> NoSource]
  /\ chunks = {} /\ entries = [x \in Indexes |-> {}] /\ broken = {}
  /\ nextId = 1 /\ pages = 0 /\ limit \in Limits /\ now = 1
  /\ job = [p \in Procs |-> Idle]
  /\ history = [acked |-> {}, last |-> [s \in Sources |-> NoSource],
                torn |-> {}, stranded |-> {}, crossed |-> FALSE]
  /\ ops = 0 /\ faults = 0

Next ==
  \/ \E p \in Procs :
       \/ \E s \in Sources : StartSave(p, s)
       \/ Replace(p) \/ Flush(p) \/ FlushFails(p)
       \/ SaveReturns(p) \/ PickOldest(p)
       \/ \E n \in Sessions : StartPurge(p, n)
       \/ \E x \in Indexes : Unindex(p, x)
       \/ DeleteRows(p) \/ BreaksOff(p)
  \/ \E cutoff \in 1..now : CleanUp(cutoff)

Spec == Init /\ [][Next]_vars

-----------------------------------------------------------------------------
(* Properties.                                                             *)

Jobs == {"idle", "replace", "flush", "limit", "fts", "trigram", "rows"}

\* The shape of the state, and the constraints of the schema: a chunk belongs to
\* a source, and chunk ids and indexes are unique within it.
TypeOK ==
  /\ src \in [Sources -> [session : Sessions, at : Nat] \cup {NoSource}]
  /\ \A c \in chunks : /\ c.id \in 1 .. nextId - 1 /\ Exists(c.of)
                       /\ c.text \in Contents /\ c.index \in 1..MaxChunks
  /\ \A c, d \in chunks : c # d => /\ c.id # d.id
                                   /\ c.of = d.of => c.text # d.text /\ c.index # d.index
  /\ \A x \in Indexes : entries[x] \subseteq [id : 1 .. nextId - 1, text : Contents]
  /\ broken \subseteq Indexes /\ nextId \in Nat /\ pages \in Nat /\ limit \in Limits /\ now \in Nat
  /\ \A p \in Procs : job[p].pc \in Jobs
  /\ history.acked \subseteq Acks /\ history.torn \subseteq Sources
  /\ history.stranded \subseteq 1 .. nextId - 1 /\ history.crossed \in BOOLEAN
  /\ ops \in 0..MaxOps /\ faults \in 0..MaxFaults

\* A hit of a search is a chunk with the words searched for: the entries that
\* replaced sources, cleaned-up sources and interrupted deletions leave behind
\* never lead to the text of another chunk.
HitsMatchTheirChunk ==
  \A x \in Indexes : \A e \in entries[x] : \A c \in chunks : e.id = c.id => e.text = c.text

\* A stored chunk can be found through both indexes, unless a deletion that is
\* about to remove it is under way or broke off.
ChunksAreSearchable ==
  \A c \in chunks :
    \/ \A x \in Indexes : [id |-> c.id, text |-> c.text] \in entries[x]
    \/ c.id \in history.stranded \/ \E p \in Procs : job[p] # Idle /\ c.id \in job[p].hidden

\* An index is told to delete an entry it does not have, which SQLite answers with
\* "database disk image is malformed" sooner or later, only after two deletions
\* overlapped or one broke off.
IndexesAreIntact == broken = {} \/ history.crossed

Repeats(t) == \E i, k \in 1..Len(t) : i # k /\ t[i] = t[k]

\* Whoever got the id of a saved artifact finds all of its chunks (up to the caps)
\* there until they are asked to be removed, although saves of the same artifact may
\* overlap, and fail on each other's chunks: unless the text repeats a chunk, a save
\* of it broke off half-way, saves that keep different chunks under the same id
\* overlapped, or the artifact was saved again for another session or with others.
AckedIsWhole ==
  \A a \in history.acked :
    LET s == a.source  t == a.text IN
    \/ Repeats(t) \/ s \in history.torn \/ \E p \in Procs : Saving(p, s)
    \/ history.last[s] # [session |-> a.session, text |-> a.text]
    \/ /\ Exists(s)
       /\ {<<c.index, c.text>> : c \in Rows(s)} = {<<i, t[i]>> : i \in 1..Len(t)}
=============================================================================
