---------------------------- MODULE SessionLedger ----------------------------
(***************************************************************************)
(* One session of the session store (packages/atlas-session): its event    *)
(* ledger with the retention limit, curation, the decision memory fed by   *)
(* the ledger and the resume snapshot, together with what calls them: the  *)
(* agent hooks (packages/atlas-agent-events), the session tools and        *)
(* commands, and the bridge files (packages/atlas-adapters) that carry the *)
(* events of a hook that cannot reach the store.                           *)
(*                                                                         *)
(* Every hook is a process of its own, two windows on one repository share *)
(* a session, and one SQLite transaction is one step: what a handler reads *)
(* in one transaction it uses in a later one.  A process may be killed     *)
(* between any two.                                                        *)
(*                                                                         *)
(* An event is [kind, key, pri, n]: its type, the path, command, source or *)
(* target curation groups it by, its priority and the rest of its payload. *)
(* The event is its own event_hash.  The key of a decision is what its     *)
(* decision_id is a hash of: summary, conclusion, query, files and         *)
(* symbols, or "" when the payload has no summary.  The clock counts       *)
(* stored or written events: it gives the row ids and created_at.          *)
(***************************************************************************)
EXTENDS Naturals, Sequences, FiniteSets, Functions

CONSTANTS Procs,       \* hooks, tools and commands working on the session
          HookEvents,  \* the events the hooks and tools record
          Files,       \* names of bridge files
          FileEvents,  \* file -> the events it carries, in order
          MaxEvents,   \* max_events_per_session
          MaxOps,      \* bound: handlers started
          None         \* no resume snapshot, no plan, no event, no file

VARIABLES session,   \* whether the session_meta row exists
          rows,      \* the session_events rows [id, ev, pri, at]
          decisions, \* the decision_memory rows: the event each was last written from
          snap,      \* the session_resume row [ver, consumed], or None
          bridge,    \* bridge directory: file -> [state, at]
          clock, ops,
          proc,      \* process -> the handler it runs
          history    \* what happened so far; read by the properties only

vars == <<session, rows, decisions, snap, bridge, clock, ops, proc, history>>

\* The event resume_session itself records.
ResumeEvent == [kind |-> "SESSION_RESUME", key |-> "", pri |-> 1, n |-> 0]

Events == HookEvents \cup {ResumeEvent} \cup UNION {Range(FileEvents[f]) : f \in Files}

ASSUME LedgerAssumption ==
  /\ MaxEvents \in Nat \ {0} /\ MaxOps \in Nat
  /\ FileEvents \in [Files -> Seq(Events)]
  /\ \A e \in Events : e.pri \in 0..5

\* Rows kept by curation for one group of each kind it groups.  GRAPH stands
\* for GRAPH_BUILD and GRAPH_UPDATE, which form one group.
Keep == [FILE_READ |-> 3, GRAPH |-> 1, COMMAND_RUN |-> 3,
         REASONING_RESULT |-> 1, CONTEXT_REQUEST |-> 2]

PromotionTypes == {"DECISION", "USER_INTENT", "REASONING_RESULT"}
PromotionPriority == 90

Group(e) == <<e.kind, e.key>>
Groups == {Group(e) : e \in Events}

-----------------------------------------------------------------------------
(***************************************************************************)
(* The store.                                                              *)
(***************************************************************************)

\* Mutant: the oldest row goes first, whatever its priority.
EvictedOldestFirst(r, s) == r.at < s.at \/ (r.at = s.at /\ r.id < s.id)

\* ORDER BY priority ASC, created_at ASC, id ASC
EvictedBefore(r, s) ==
  \/ r.pri < s.pri
  \/ r.pri = s.pri /\ r.at < s.at
  \/ r.pri = s.pri /\ r.at = s.at /\ r.id < s.id

\* Mutant: the limit is enforced as if the new row were not counted.
EvictedBeyondNew(R) ==
  {r \in R : Cardinality({s \in R : EvictedBefore(s, r)}) + MaxEvents + 1 < Cardinality(R)}

\* The rows enforce_event_limit deletes from the table R.
Evicted(R) ==
  {r \in R : Cardinality({s \in R : EvictedBefore(s, r)}) + MaxEvents < Cardinality(R)}

\* The order in which curation keeps the rows of one group: the newest
\* first, and rows of one created_at as they were listed.
KeptBefore(r, s) == r.at > s.at \/ (r.at = s.at /\ r.id < s.id)

\* What compact_session_events decides from the rows L it listed: the rows to
\* delete and the ids to promote.
CurationPlan(L) ==
  LET del == {r \in L : /\ r.ev.kind \in DOMAIN Keep
                        /\ Cardinality({s \in L : Group(s.ev) = Group(r.ev) /\ KeptBefore(s, r)})
                             >= Keep[r.ev.kind]}
      high == {r \in L \ del : r.ev.kind \in PromotionTypes /\ r.pri < PromotionPriority}
  IN [del |-> del, promote |-> {r.id : r \in high}]

\* Mutant: a row is found again by its event, not by its id.
WithoutEvents(R, gone) == {r \in R : \A d \in gone : d.ev # r.ev}

\* DELETE ... WHERE id = ?
Without(R, gone) == {r \in R : \A d \in gone : d.id # r.id}

\* The table after the transaction of compact_session_events.
ApplyPlan(R, plan) ==
  {[r EXCEPT !.pri = IF r.id \in plan.promote THEN PromotionPriority ELSE @] :
     r \in Without(R, plan.del)}

\* Mutant: decision_memory rows go with the event rows they came from.
ForgetEvicted(D, gone) == D \ {r.ev : r \in gone}

\* decision_memory after event rows are deleted: the rows stay, event_id is
\* set to NULL.
DecisionsAfter(D, gone) == D

\* DecisionDraft::from_payload finds a summary.
IsDecision(e) == e.kind = "DECISION" /\ e.key # ""

\* ON CONFLICT(decision_id) DO UPDATE: a later event of the same decision replaces
\* the rationale, sources and evidence of the row.
Upsert(D, e) == {d \in D : d.key # e.key} \cup {e}

\* The transaction of append_event on an existing session, for an event
\* created at the time at: INSERT OR IGNORE, the limit, the decision memory,
\* whose failure is logged and leaves the event.
Store(e, at) ==
  LET new  == [id |-> clock + 1, ev |-> e, pri |-> e.pri, at |-> at]
      dup  == \E r \in rows : r.ev = e
      gone == IF dup THEN {} ELSE Evicted(rows \cup {new})
      kept == ~dup /\ new \notin gone
      g    == Group(e)
      newest == ~dup /\ at > history.top[g]
      left == DecisionsAfter(decisions, gone)
  IN \E ok \in IF kept /\ IsDecision(e) THEN BOOLEAN ELSE {TRUE} :
     /\ rows' = IF dup THEN rows ELSE (rows \cup {new}) \ gone
     /\ decisions' = IF ok /\ kept /\ IsDecision(e) THEN Upsert(left, e) ELSE left
     /\ clock' = IF dup THEN clock ELSE clock + 1
     /\ history' = [history EXCEPT
          !.top[g] = IF newest THEN at ELSE @,
          !.lost = LET top == [history.top EXCEPT ![g] = IF newest THEN at ELSE @]
                   IN (IF newest THEN @ \ {g} ELSE @)
                        \cup {Group(r.ev) : r \in {d \in gone : d.at = top[Group(d.ev)]}},
          !.kept = IF kept /\ ok THEN @ \cup {e} ELSE @,
          !.settled = @ \cup {e}]

-----------------------------------------------------------------------------
(***************************************************************************)
(* Handlers: each is a program of steps, a step is one transaction.        *)
(***************************************************************************)
Idle == [todo |-> <<>>, ev |-> None, plan |-> None, ver |-> 0, file |-> None]

BuildResume == <<"curate", "apply", "snapshot">>

\* The programs that begin by registering the session and recording an event:
\* an ordinary hook or tool, a stop or session-end hook, a session-start hook.
HookPrograms == {<<"append">>,
                 <<"append">> \o BuildResume \o <<"handoff">>,
                 <<"append", "load", "mark">>}

\* The programs of the session tools and commands: compact_session,
\* resume_session with and without mark_consumed.
ToolPrograms == {<<"curate", "apply">>,
                 <<"get_or_build", "view", "mark", "record">>,
                 <<"get_or_build", "view", "record">>}

Init ==
  /\ session = FALSE /\ rows = {} /\ decisions = {} /\ snap = None
  /\ bridge = [f \in Files |-> [state |-> "none", at |-> 0]]
  /\ clock = 0 /\ ops = 0
  /\ proc = [p \in Procs |-> Idle]
  /\ history = [top |-> [g \in Groups |-> 0], lost |-> {}, kept |-> {}, settled |-> {},
                shown |-> {}, overtaken |-> {}, written |-> {}]

Begin(p, h) ==
  /\ proc[p] = Idle /\ ops < MaxOps
  /\ ops' = ops + 1
  /\ proc' = [proc EXCEPT ![p] = h]

At(p, step) == proc[p].todo # <<>> /\ Head(proc[p].todo) = step

\* Process p goes on after its step, or is done.
After(h) == IF Len(h.todo) = 1 THEN Idle ELSE [h EXCEPT !.todo = Tail(@)]
Step(p) == proc' = [proc EXCEPT ![p] = After(@)]

\* Process p returns an error.
Fail(p) == proc' = [proc EXCEPT ![p] = Idle]

\* upsert_session_meta
StartHook(p) ==
  /\ \E prog \in HookPrograms, e \in HookEvents :
        Begin(p, [Idle EXCEPT !.todo = prog, !.ev = e])
  /\ session' = TRUE
  /\ UNCHANGED <<rows, decisions, snap, bridge, clock, history>>

StartTool(p) ==
  /\ \E prog \in ToolPrograms : Begin(p, [Idle EXCEPT !.todo = prog])
  /\ session' = TRUE
  /\ UNCHANGED <<rows, decisions, snap, bridge, clock, history>>

\* atlas session resume: no snapshot, nothing to do.
StartSessionResume(p) ==
  /\ Begin(p, [Idle EXCEPT !.todo = <<"load", "mark">>])
  /\ UNCHANGED <<session, rows, decisions, snap, bridge, clock, history>>

\* append_event with the default configuration (no deduplication window): an
\* event of a session deleted since fails the foreign key.
AppendEvent(p) ==
  /\ At(p, "append")
  /\ IF session
     THEN Store(proc[p].ev, clock + 1) /\ Step(p)
     ELSE Fail(p) /\ UNCHANGED <<rows, decisions, clock, history>>
  /\ UNCHANGED <<session, snap, bridge, ops>>

\* resume_session ignores the error of its own event.
RecordResume(p) ==
  /\ At(p, "record")
  /\ IF session
     THEN Store(ResumeEvent, clock + 1)
     ELSE UNCHANGED <<rows, decisions, clock, history>>
  /\ Step(p)
  /\ UNCHANGED <<session, snap, bridge, ops>>

\* compact_session_events lists the events and decides.
Curate(p) ==
  /\ At(p, "curate")
  /\ proc' = [proc EXCEPT ![p].plan = CurationPlan(rows), ![p].todo = Tail(@)]
  /\ UNCHANGED <<session, rows, decisions, snap, bridge, clock, ops, history>>

\* ... and applies what it decided in a transaction.
Apply(p) ==
  /\ At(p, "apply")
  /\ LET gone == rows \ Without(rows, proc[p].plan.del)
     IN /\ rows' = ApplyPlan(rows, proc[p].plan)
        /\ decisions' = DecisionsAfter(decisions, gone)
  /\ proc' = [proc EXCEPT ![p] = After([@ EXCEPT !.plan = None])]
  /\ UNCHANGED <<session, snap, bridge, clock, ops, history>>

\* build_resume goes on when the curation before it fails.
CurationFails(p) ==
  /\ At(p, "apply") /\ Len(proc[p].todo) > 1
  /\ proc' = [proc EXCEPT ![p].plan = None, ![p].todo = Tail(@)]
  /\ UNCHANGED <<session, rows, decisions, snap, bridge, clock, ops, history>>

\* Mutant: the conflict clause leaves the consumed column alone.
PutKeepsConsumed(v) ==
  snap' = [ver |-> v, consumed |-> IF snap = None THEN FALSE ELSE snap.consumed]

\* put_resume_snapshot with consumed = false.
Put(v) == snap' = [ver |-> v, consumed |-> FALSE]

\* build_resume_snapshot; without the session_meta row it fails.  The tool that
\* built one on demand has it in hand.
Snapshot(p) ==
  /\ At(p, "snapshot")
  /\ IF session
     THEN /\ Put(clock + 1) /\ clock' = clock + 1
          /\ proc' = [proc EXCEPT ![p] = After([@ EXCEPT !.ver = clock + 1])]
          /\ history' = [history EXCEPT
               !.shown = IF proc[p].ev = None THEN @ \cup {clock + 1} ELSE @]
     ELSE Fail(p) /\ UNCHANGED <<snap, clock, history>>
  /\ UNCHANGED <<session, rows, decisions, bridge, ops>>

\* persist_handoff_artifact reads the snapshot, and builds one when a clear
\* came in between.
Handoff(p) ==
  /\ At(p, "handoff")
  /\ IF snap # None THEN Step(p)
     ELSE proc' = [proc EXCEPT ![p].todo = BuildResume]
  /\ UNCHANGED <<session, rows, decisions, snap, bridge, clock, ops, history>>

\* The reader has version v in hand and goes on.
Show(p, v) ==
  /\ proc' = [proc EXCEPT ![p].ver = v, ![p].todo = Tail(@)]
  /\ history' = [history EXCEPT !.shown = @ \cup {v}]

\* load_restore_state and atlas session resume: only a snapshot that is there,
\* and for the former still pending, will be marked.
Load(p) ==
  /\ At(p, "load")
  /\ IF snap # None /\ (~snap.consumed \/ proc[p].ev = None) THEN Show(p, snap.ver)
     ELSE Fail(p) /\ UNCHANGED history
  /\ UNCHANGED <<session, rows, decisions, snap, bridge, clock, ops>>

\* tool_resume_session builds a snapshot on demand.
GetOrBuild(p) ==
  /\ At(p, "get_or_build")
  /\ IF snap # None THEN Show(p, snap.ver)
     ELSE /\ proc' = [proc EXCEPT ![p].todo = BuildResume \o Tail(@)]
          /\ UNCHANGED history
  /\ UNCHANGED <<session, rows, decisions, snap, bridge, clock, ops>>

\* build_resume_view fails without the session_meta row.
View(p) ==
  /\ At(p, "view")
  /\ IF session THEN Step(p) ELSE Fail(p)
  /\ UNCHANGED <<session, rows, decisions, snap, bridge, clock, ops, history>>

\* mark_resume_consumed marks whatever snapshot the session has by now.
Mark(p) ==
  /\ At(p, "mark")
  /\ IF snap = None THEN UNCHANGED <<snap, history>>
     ELSE /\ snap' = [snap EXCEPT !.consumed = TRUE]
          /\ history' = [history EXCEPT
               !.overtaken = IF snap.ver > proc[p].ver THEN @ \cup {snap.ver} ELSE @]
  /\ Step(p)
  /\ UNCHANGED <<session, rows, decisions, bridge, clock, ops>>

\* delete_session and cleanup_stale_sessions: the rows of the session's tables
\* go with its session_meta row.
Clear ==
  /\ session /\ ops < MaxOps
  /\ ops' = ops + 1
  /\ session' = FALSE /\ rows' = {} /\ decisions' = {} /\ snap' = None
  /\ history' = [history EXCEPT !.top = [g \in Groups |-> 0], !.lost = {}, !.kept = {}]
  /\ UNCHANGED <<bridge, clock, proc>>

-----------------------------------------------------------------------------
(***************************************************************************)
(* Bridge files.                                                           *)
(***************************************************************************)

\* write_bridge_file: create the file ...
StartWrite(p) ==
  /\ \E f \in Files :
       /\ bridge[f] = [state |-> "none", at |-> 0]
       /\ Begin(p, [Idle EXCEPT !.todo = <<"write">>, !.file = f])
       /\ bridge' = [bridge EXCEPT ![f] = [state |-> "partial", at |-> clock + 1]]
  /\ clock' = clock + 1
  /\ UNCHANGED <<session, rows, decisions, snap, history>>

\* ... and write it; the directory entry may be gone by then.
FinishWrite(p) ==
  /\ At(p, "write")
  /\ bridge' = [bridge EXCEPT ![proc[p].file].state = IF @ = "partial" THEN "whole" ELSE @]
  /\ history' = [history EXCEPT !.written = @ \cup {proc[p].file}]
  /\ Step(p)
  /\ UNCHANGED <<session, rows, decisions, snap, clock, ops>>

\* ingest_pending_bridge_files has listed the file.
StartIngest(p) ==
  /\ \E f \in Files :
       /\ bridge[f].state \in {"partial", "whole"}
       /\ Begin(p, [Idle EXCEPT !.todo = <<"read">>, !.file = f])
  /\ UNCHANGED <<session, rows, decisions, snap, bridge, clock, history>>

\* The file leaves the directory; its name is not used again.
Remove(f) == bridge' = [bridge EXCEPT ![f].state = "none"]

\* The events of f will not be stored.
GiveUp(f) == history' = [history EXCEPT !.settled = @ \cup Range(FileEvents[f])]

\* Mutant: the file is removed once it has been read.
IngestReadRemoves(p) ==
  LET f == proc[p].file IN
  /\ At(p, "read")
  /\ Remove(f)
  /\ IF bridge[f].state = "whole"
     THEN /\ session' = TRUE
          /\ proc' = [proc EXCEPT ![p].todo = [i \in 1..Len(FileEvents[f]) |-> "deliver"] \o <<"remove">>]
          /\ UNCHANGED history
     ELSE Fail(p) /\ GiveUp(f) /\ UNCHANGED session
  /\ UNCHANGED <<rows, decisions, snap, clock, ops>>

\* ingest_bridge_file reads the file: one that is gone, or not fully written,
\* is removed, for a whole one the session is registered.
IngestRead(p) ==
  LET f == proc[p].file IN
  /\ At(p, "read")
  /\ IF bridge[f].state = "whole"
     THEN /\ session' = TRUE
          /\ proc' = [proc EXCEPT ![p].todo = [i \in 1..Len(FileEvents[f]) |-> "deliver"] \o <<"remove">>]
          /\ UNCHANGED <<bridge, history>>
     ELSE /\ Remove(f) /\ Fail(p)
          /\ IF bridge[f].state = "partial" THEN GiveUp(f) ELSE UNCHANGED history
          /\ UNCHANGED session
  /\ UNCHANGED <<rows, decisions, snap, clock, ops>>

\* One append of the loop; the loop goes on after an error.
Deliver(p) ==
  LET f == proc[p].file
      e == FileEvents[f][Len(FileEvents[f]) + 2 - Len(proc[p].todo)]
  IN /\ At(p, "deliver")
     /\ IF session THEN Store(e, bridge[f].at)
        ELSE /\ history' = [history EXCEPT !.settled = @ \cup {e}]
             /\ UNCHANGED <<rows, decisions, clock>>
     /\ Step(p)
     /\ UNCHANGED <<session, snap, bridge, ops>>

IngestRemove(p) ==
  /\ At(p, "remove")
  /\ Remove(proc[p].file)
  /\ Step(p)
  /\ UNCHANGED <<session, rows, decisions, snap, clock, ops, history>>

\* purge_all_bridge_files and cleanup_stale_bridge_files.
Purge ==
  \E f \in Files :
    /\ bridge[f].state \in {"partial", "whole"} /\ ops < MaxOps
    /\ ops' = ops + 1
    /\ Remove(f) /\ GiveUp(f)
    /\ UNCHANGED <<session, rows, decisions, snap, clock, proc>>

\* The process is killed between two steps, or returns early with an error of
\* the store, the content store or the file system.
Crash(p) ==
  /\ proc[p] # Idle
  /\ Fail(p)
  /\ UNCHANGED <<session, rows, decisions, snap, bridge, clock, ops, history>>

Next ==
  \/ Clear \/ Purge
  \/ \E p \in Procs :
       \/ StartHook(p) \/ StartTool(p) \/ StartSessionResume(p)
       \/ AppendEvent(p) \/ RecordResume(p) \/ Curate(p) \/ Apply(p) \/ CurationFails(p)
       \/ Snapshot(p) \/ Handoff(p) \/ Load(p) \/ GetOrBuild(p) \/ View(p) \/ Mark(p)
       \/ StartWrite(p) \/ FinishWrite(p)
       \/ StartIngest(p) \/ IngestRead(p) \/ Deliver(p) \/ IngestRemove(p)
       \/ Crash(p)

Spec == Init /\ [][Next]_vars

-----------------------------------------------------------------------------
(***************************************************************************)
(* Properties.                                                             *)
(***************************************************************************)

\* Types, the retention limit of append_event and one row per event hash:
\* whatever hooks, curations, restarts and repeated ingestions overlap, the
\* ledger never holds more than max_events_per_session rows, no event twice
\* and no row without its session.
TypeOK ==
  /\ session \in BOOLEAN
  /\ \A r \in rows : /\ r.id \in 1..clock /\ r.at \in 1..clock /\ r.ev \in Events
                     /\ r.pri \in {r.ev.pri, PromotionPriority}
  /\ Cardinality(rows) <= MaxEvents
  /\ \A r, s \in rows : (r.id = s.id \/ r.ev = s.ev) => r = s
  /\ snap # None => snap.consumed \in BOOLEAN /\ snap.ver \in 1..clock
  /\ ~session => rows = {} /\ decisions = {} /\ snap = None
  /\ \A f \in Files : bridge[f].state \in {"none", "partial", "whole"}

\* "Promote high-value events ... so they survive future eviction cycles"
\* (curation.rs): a promoted row leaves the ledger only with its session, or
\* because curation saw a newer result of its source (or one of the same time
\* that the limit took since), or when every row left in the ledger is promoted.
PromotedSurvive ==
  [][\A r \in rows :
       (/\ r.pri = PromotionPriority /\ session'
        /\ \A s \in rows' : s.id # r.id)
         => \/ /\ r.ev.kind \in DOMAIN Keep
               /\ r.at < history.top[Group(r.ev)] \/ Group(r.ev) \in history.lost
            \/ \A s \in rows' : s.pri = PromotionPriority]_vars

\* Curation "merges repeated actions of the same type into the most-recent
\* representative" although it decides on a list read before its transaction:
\* an event of every group with the newest time is in the ledger, unless the
\* retention limit evicted one (the events of a bridge file have one time).
NewestIsKept ==
  \A g \in Groups :
    \/ history.top[g] = 0 \/ g \in history.lost
    \/ \E r \in rows : Group(r.ev) = g /\ r.at = history.top[g]

\* An event with a decision that made it into the ledger, by a transaction in which
\* the decision memory did not fail, has a decision_memory row with its decision_id
\* until the session is cleared: also after the event, or a later one that was
\* merged into the same row, was evicted.
DecisionOutlivesItsEvent ==
  \A e \in history.kept : IsDecision(e) => \E d \in decisions : d.key = e.key

\* The events of a bridge file that was written are in the file until each
\* has been stored, or given up: discarded with a file read before it was
\* complete, purged, or refused by the store.  No crash of an ingesting
\* process and no second one loses them.
BridgeEventsArrive ==
  \A f \in history.written :
    bridge[f].state = "whole" \/ Range(FileEvents[f]) \subseteq history.settled

\* "Mark consumed so next `session start` knows it was loaded" (session.rs):
\* a consumed snapshot was read by someone, unless it replaced the one the
\* reader had read before the reader marked it.
ConsumedWasLoaded ==
  (snap # None /\ snap.consumed) => snap.ver \in history.shown \cup history.overtaken
=============================================================================
