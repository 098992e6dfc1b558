----------------------------- MODULE WatchMode -----------------------------
(***************************************************************************)
(* Watch mode: file-system notifications become batches of changes that    *)
(* update the code graph.                                                  *)
(*   packages/atlas-engine/src/watch.rs, update.rs (batch target)          *)
(*   packages/atlas-store-sqlite/src/store/mutation.rs (stable rename)     *)
(*                                                                         *)
(* The user edits files; the platform reports raw events, one callback     *)
(* each, into a bounded queue; the watcher drains, normalizes, debounces,  *)
(* drains again, coalesces and updates.  The graph was built before.       *)
(*                                                                         *)
(* A slice is modelled by its files row (the hash) and its nodes.  A node  *)
(* is named by the path it was first parsed under: qualified names start   *)
(* with that path, are unique, and a stable rename does not change them.   *)
(* Every content declares the same symbols.                                *)
(***************************************************************************)
EXTENDS Integers, Sequences, FiniteSets

CONSTANTS
  Paths,       \* supported files of one package, none ignored
  NoPath,
  Contents,
  Absent,      \* no such file, no row
  Platforms,   \* "inotify": a rename is From, To, Both; "pairs": Remove, Create
  Capacity,    \* WATCH_EVENT_BUFFER_CAPACITY
  MaxOps       \* bound: edits, events of no interest and failed updates

Values == Contents \cup {Absent}

ASSUME WatchAssumption ==
  /\ NoPath \notin Paths /\ Absent \notin Contents
  /\ Platforms \subseteq {"inotify", "pairs"}
  /\ Capacity \in Nat \ {0}
  /\ MaxOps \in Nat

VARIABLES
  os,          \* the platform
  disk,        \* the working tree
  base,        \* the commit the graph was built from, also its last_indexed_ref
  hash,        \* files rows
  node,        \* by the path in its name: file_path and content, or NoNode
  wire,        \* raw events the platform has yet to report
  queue,       \* the bounded channel
  dropped,     \* dropped_events
  pc,          \* where WatchRunner::run is
  events,      \* normalized events of the batch
  plan,        \* the planned update
  moves,       \* to_rename: pairs of the old and the new path
  stale,       \* to_delete
  parse,       \* to_parse_paths
  gone,        \* history: the file deleted last, if nothing was reported since
  links,       \* history: renames since the watcher was last at rest, and what
               \* it can take for one
  tangled,     \* history: paths of a rename one of which was touched again, and
               \* paths that came and went too often at once
  missed,      \* history: paths of a failed update, unknown to git in a rescan, or
               \* moved away under inotify
  mixed,       \* history: paths whose nodes were mixed with another file's
  ops          \* counter for the bound

graph == <<hash, node>>
work == <<moves, stale, parse>>
ghosts == <<gone, links, tangled, missed, mixed>>
vars == <<os, disk, base, hash, node, wire, queue, dropped, pc, events, plan,
          moves, stale, parse, gone, links, tangled, missed, mixed, ops>>

-----------------------------------------------------------------------------
(* Raw events, normalized events and changes. *)

Raw(kind, p, q) == [kind |-> kind, path |-> p, to |-> q]
Mentions(ev, p) == p \in {ev.path, ev.to}

\* What normalize passes over without a look at pending_remove.
Silent == {"error", "other"}

\* A pending Remove at i that the Create at j takes.
Paired(raw, i, j) ==
  /\ i < j /\ raw[i].kind = "remove" /\ raw[j].kind = "create"
  /\ \A k \in (i + 1) .. (j - 1) : raw[k].kind \in Silent

\* WatchEvent, and at the same time the key of normalize's `seen` set.
Event(kind, p, old) == [kind |-> kind, path |-> p, old |-> old]
NoEvent == Event("none", NoPath, NoPath)

\* What a raw event becomes; a Remove no Create takes is a deletion, whether it is
\* flushed by the next event or at the end.
EventAt(raw, j) ==
  CASE raw[j].kind = "create" ->
         IF \E i \in DOMAIN raw : Paired(raw, i, j)
           THEN Event("renamed", raw[j].path,
                      raw[CHOOSE i \in DOMAIN raw : Paired(raw, i, j)].path)
           ELSE Event("created", raw[j].path, NoPath)
    [] raw[j].kind = "both"   -> Event("renamed", raw[j].to, raw[j].path)
    [] raw[j].kind = "modify" -> Event("modified", raw[j].path, NoPath)
    [] raw[j].kind = "remove" ->
         IF \E k \in DOMAIN raw : Paired(raw, j, k) THEN NoEvent
         ELSE Event("deleted", raw[j].path, NoPath)
    [] OTHER -> NoEvent

\* Mutant: a Remove at the end of the batch is forgotten.
NormalizeWithoutFlush(raw) ==
  [j \in DOMAIN raw |->
     IF \/ \E i \in DOMAIN raw : i < j /\ EventAt(raw, i) = EventAt(raw, j)
        \/ j = Len(raw) /\ raw[j].kind = "remove"
       THEN NoEvent ELSE EventAt(raw, j)]

\* normalize: the events in order, each the first time.  NoEvent fills the gaps.
Normalize(raw) ==
  [j \in DOMAIN raw |->
     IF \E i \in DOMAIN raw : i < j /\ EventAt(raw, i) = EventAt(raw, j)
       THEN NoEvent ELSE EventAt(raw, j)]

NoChange == [type |-> "none", old |-> NoPath]
NoChanges == [p \in Paths |-> NoChange]
NoPlan == [rescan |-> FALSE, changes |-> NoChanges]

\* An event sets the entry of its path and, a rename, removes that of the old one.
Touches(e, p) == p \in {e.path, e.old}
LastTouch(evs, p, k) ==
  Touches(evs[k], p) /\ \A l \in DOMAIN evs : l > k => ~Touches(evs[l], p)

ChangeOf(e) ==
  [type |-> IF e.kind \in {"created", "modified"} THEN "modified" ELSE e.kind, old |-> e.old]

\* events_to_changes: one change per destination path, the last one.
EventsToChanges(evs) ==
  [p \in Paths |->
     IF \E k \in DOMAIN evs : LastTouch(evs, p, k) /\ evs[k].path = p
       THEN ChangeOf(evs[CHOOSE k \in DOMAIN evs : LastTouch(evs, p, k)])
       ELSE NoChange]

\* git diff against the recorded commit: what it tracks and differs.
Reported(p) == base[p] # Absent /\ disk[p] # base[p]
WorkingTreeChanges ==
  [p \in Paths |->
     IF ~Reported(p) THEN NoChange
     ELSE [type |-> IF disk[p] = Absent THEN "deleted" ELSE "modified", old |-> NoPath]]

-----------------------------------------------------------------------------
(* The user and the platform. *)

NodesAt(p) == {o \in Paths : node[o].at = p}

\* The nodes of the path are those of its files row.
Consistent(p) ==
  /\ {node[o].of : o \in NodesAt(p)} = {hash[p]} \ {Absent}
  /\ \A o, m \in NodesAt(p) : o = m

\* The slice of the path is that of its file, or gone with it.
Current(p) == hash[p] = disk[p] /\ Consistent(p)

AtRest == wire = <<>> /\ queue = <<>> /\ pc = "idle" /\ dropped = 0

\* What is known of the past when the user acts: at rest it only matters what
\* it has left behind.
Past(S) == IF AtRest THEN {p \in S : ~Current(p)} ELSE S
PastLinks == IF AtRest THEN {} ELSE links

\* The links that touch a path of S come apart: the change of one of its paths
\* can replace the other's.
Torn(ls, S) == UNION {{l[1], l[2]} : l \in {k \in ls : {k[1], k[2]} \cap S # {}}}

\* The paths that came or went three times in a series of raw events: normalize
\* keeps the first of equal events, so the last one kept can be any of them.
Turn(ev, p) == ev.kind \in {"create", "remove", "both"} /\ Mentions(ev, p)
Spinning(raw) ==
  {p \in Paths : \E i, j, k \in DOMAIN raw :
     i < j /\ j < k /\ Turn(raw[i], p) /\ Turn(raw[j], p) /\ Turn(raw[k], p)}

\* The user does something, reported as raw: it touches the paths of S, while the
\* links of torn count, makes the links of new, and does not tell of the paths lost.
UserStep(raw, S, torn, new, deleted, lost) ==
  /\ ops < MaxOps /\ ops' = ops + 1
  /\ wire' = wire \o raw
  /\ links' = PastLinks \cup new
  /\ tangled' = Past(tangled) \cup Torn(torn, S) \cup Spinning(queue \o wire \o raw)
  /\ gone' = deleted
  /\ missed' = Past(missed) \cup lost /\ mixed' = Past(mixed)
  /\ UNCHANGED <<os, base, graph, queue, dropped, pc, events, plan, work>>

Write(p, v) ==
  /\ disk[p] # Absent /\ v \in Contents \ {disk[p]}
  /\ disk' = [disk EXCEPT ![p] = v]
  /\ UserStep(<<Raw("modify", p, NoPath)>>, {p}, PastLinks, {}, NoPath, {})

\* After a deletion the watcher can take it for a rename.
Create(p, v) ==
  LET pair == IF AtRest \/ gone \in {NoPath, p} THEN {} ELSE {<<gone, p>>} IN
  /\ disk[p] = Absent /\ v \in Contents
  /\ disk' = [disk EXCEPT ![p] = v]
  /\ IF os = "inotify"
       THEN UserStep(<<Raw("create", p, NoPath), Raw("modify", p, NoPath)>>, {p},
                     PastLinks \cup pair, pair, NoPath, {})
       ELSE UserStep(<<Raw("create", p, NoPath)>>, {p}, PastLinks, pair, NoPath, {})

Delete(p) ==
  /\ disk[p] # Absent
  /\ disk' = [disk EXCEPT ![p] = Absent]
  /\ UserStep(<<Raw("remove", p, NoPath)>>, {p}, PastLinks, {}, p, {})

\* A file is moved, to a free path or over another file.
Rename(p, q) ==
  /\ disk[p] # Absent /\ p # q
  /\ disk' = [disk EXCEPT ![p] = Absent, ![q] = disk[p]]
  /\ UserStep(
       IF os = "inotify"
         THEN <<Raw("modify", p, NoPath), Raw("modify", q, NoPath), Raw("both", p, q)>>
         ELSE <<Raw("remove", p, NoPath), Raw("create", q, NoPath)>>,
       {p, q}, PastLinks, {<<p, q>>}, NoPath, {})

\* A file is moved out of the repository, or into a build directory.  inotify's From
\* is an event of the file like a write: it is to be parsed, and is gone.  The To and
\* Both of an ignored path are then Noise; on the other platforms this is a Delete
\* and the Noise of an ignored Create.
MoveOut(p) ==
  /\ os = "inotify" /\ disk[p] # Absent
  /\ disk' = [disk EXCEPT ![p] = Absent]
  /\ UserStep(<<Raw("modify", p, NoPath)>>, {p}, PastLinks, {}, NoPath, {p})

\* A build directory is written, the watcher has an error, or a file is read.
Noise(kind) ==
  /\ ops < MaxOps /\ ops' = ops + 1
  /\ wire' = Append(wire, Raw(kind, NoPath, NoPath))
  /\ gone' = IF kind = "ignored" THEN NoPath ELSE gone
  /\ UNCHANGED <<os, disk, base, graph, queue, dropped, pc, events, plan, work,
                 links, tangled, missed, mixed>>

\* Mutant: one event too many.
HasRoomOffByOne == Len(queue) <= Capacity
HasRoom == Len(queue) < Capacity

\* The callback: try_send, or count the event as dropped.
Deliver ==
  /\ wire # <<>>
  /\ wire' = Tail(wire)
  /\ IF HasRoom THEN queue' = Append(queue, Head(wire)) /\ UNCHANGED dropped
                ELSE dropped' = dropped + 1 /\ UNCHANGED queue
  /\ UNCHANGED <<os, disk, base, graph, pc, events, plan, work, ghosts, ops>>

-----------------------------------------------------------------------------
(* WatchRunner::run. *)

\* drain: an error as the first event ends it at once; nothing relevant, and the
\* loop starts again without a look at the overflow.
Drain ==
  /\ pc = "idle" /\ queue # <<>>
  /\ IF Head(queue).kind = "error"
       THEN queue' = Tail(queue) /\ UNCHANGED <<pc, events>>
       ELSE /\ queue' = <<>>
            /\ IF \E j \in DOMAIN queue : Normalize(queue)[j] # NoEvent
                 THEN events' = Normalize(queue) /\ pc' = "debounce"
                 ELSE UNCHANGED <<pc, events>>
  /\ UNCHANGED <<os, disk, base, graph, wire, dropped, plan, work, ghosts, ops>>

\* drain_buffered, after the debounce: normalized on its own.
DrainBuffered ==
  /\ pc = "debounce"
  /\ events' = events \o Normalize(queue)
  /\ queue' = <<>>
  /\ pc' = "plan"
  /\ UNCHANGED <<os, disk, base, graph, wire, dropped, plan, work, ghosts, ops>>

\* plan_batch.
Plan(evs, n) ==
  [rescan |-> n > 0, changes |-> IF n > 0 THEN NoChanges ELSE EventsToChanges(evs)]

\* take_overflow_stats and plan_batch.  Events queued since the drain stay for the
\* next batch, which trusts them although later ones may have been dropped.
PlanBatch ==
  /\ pc = "plan"
  /\ missed' = IF dropped = 0 THEN missed
               ELSE missed \cup {p \in Paths : \E i \in DOMAIN queue : Mentions(queue[i], p)}
  /\ plan' = Plan(events, dropped)
  /\ dropped' = 0
  /\ events' = <<>>
  /\ pc' = "apply"
  /\ UNCHANGED <<os, disk, base, graph, wire, queue, work, gone, links, tangled, mixed, ops>>

-----------------------------------------------------------------------------
(* update_graph for a batch or the working tree. *)

NoNode == [at |-> NoPath, of |-> Absent]

\* Renames whose content is the stored one move the slice.
StableRenames(c) ==
  {p \in Paths : c[p].type = "renamed" /\ disk[p] # Absent /\ hash[c[p].old] = disk[p]}
ToDelete(c) ==
  {p \in Paths : c[p].type = "deleted"} \cup
  {c[p].old : p \in {q \in Paths : c[q].type = "renamed"} \ StableRenames(c)}
ToParse(c) ==
  {p \in Paths : c[p].type \in {"modified", "renamed"}} \ StableRenames(c)

\* The changes are detected and sorted by what they call for.
Classify ==
  LET c == IF plan.rescan THEN WorkingTreeChanges ELSE plan.changes IN
  /\ pc = "apply"
  /\ moves' = {<<c[p].old, p>> : p \in StableRenames(c)}
  /\ stale' = ToDelete(c)
  /\ parse' = ToParse(c)
  /\ missed' = IF plan.rescan THEN missed \cup {p \in Paths : ~Reported(p)} ELSE missed
  /\ plan' = NoPlan
  /\ pc' = "update"
  /\ UNCHANGED <<os, disk, base, graph, wire, queue, dropped, events, gone, links, tangled,
                 mixed, ops>>

\* rename_file_graph_for_repo: nodes, edges and files row of old become new's.
RenameFileGraph(old, new) ==
  /\ hash' = [hash EXCEPT ![old] = Absent,
                          ![new] = IF hash[old] = Absent THEN hash[new] ELSE hash[old]]
  /\ node' = [o \in Paths |-> IF node[o].at = old THEN [node[o] EXCEPT !.at = new]
                              ELSE node[o]]

\* A rename, in the order of a hash map.  The path takes over nodes beside its own,
\* or a slice that may be wrong.
RenameStable ==
  /\ pc = "update"
  /\ \E m \in moves :
       /\ moves' = moves \ {m}
       /\ IF m[1] = m[2] THEN UNCHANGED <<graph, mixed>>
          ELSE /\ RenameFileGraph(m[1], m[2])
               /\ mixed' = IF NodesAt(m[2]) # {} \/ m[1] \in tangled \cup missed \cup mixed
                             THEN mixed \cup {m[2]} ELSE mixed
  /\ UNCHANGED <<os, disk, base, wire, queue, dropped, pc, events, plan, stale, parse,
                 gone, links, tangled, missed, ops>>

\* delete_existing_file_graphs.
DeleteFileGraphs(S) ==
  /\ hash' = [p \in Paths |-> IF p \in S THEN Absent ELSE hash[p]]
  /\ node' = [o \in Paths |-> IF node[o].at \in S THEN NoNode ELSE node[o]]

DeleteStale ==
  /\ pc = "update" /\ moves = {}
  /\ DeleteFileGraphs(stale)
  /\ stale' = {}
  /\ pc' = "write"
  /\ UNCHANGED <<os, disk, base, wire, queue, dropped, events, plan, moves, parse, ghosts, ops>>

\* replace_files_transactional_for_repo: the nodes of the path go, the new ones
\* replace those of the same qualified name wherever they are: that path loses
\* them.  A file that is gone is an error, and its slice stays.
ReplaceFiles(S) ==
  LET parsed == {p \in S : disk[p] # Absent} IN
  /\ hash' = [p \in Paths |-> IF p \in parsed THEN disk[p] ELSE hash[p]]
  /\ node' = [o \in Paths |-> IF o \in parsed THEN [at |-> o, of |-> disk[o]]
                              ELSE IF node[o].at \in parsed THEN NoNode ELSE node[o]]
  /\ mixed' = mixed \cup ({node[o].at : o \in parsed} \ (parsed \cup {NoPath}))

Replace ==
  /\ pc = "write"
  /\ ReplaceFiles(parse)
  /\ parse' = {}
  /\ pc' = "idle"
  /\ UNCHANGED <<os, disk, base, wire, queue, dropped, events, plan, moves, stale,
                 gone, links, tangled, missed, ops>>

\* An error of update_graph, before it wrote anything or after some of the renames,
\* deletions or chunks of files, is logged and counted; the batch is gone.
UpdateFails ==
  /\ ops < MaxOps /\ ops' = ops + 1
  /\ \/ pc = "apply" /\ UNCHANGED <<graph, mixed>>
     \/ pc = "update" /\ moves # {} /\ UNCHANGED <<graph, mixed>>
     \/ pc = "update" /\ moves = {} /\ UNCHANGED mixed
        /\ \E S \in SUBSET stale : DeleteFileGraphs(S)
     \/ pc = "write" /\ \E S \in SUBSET parse : ReplaceFiles(S)
  /\ missed' = missed \cup stale \cup parse \cup {m[1] : m \in moves} \cup {m[2] : m \in moves} \cup
       {p \in Paths : \/ plan.rescan
                      \/ plan.changes[p] # NoChange
                      \/ \E q \in Paths : plan.changes[q].old = p}
  /\ moves' = {} /\ stale' = {} /\ parse' = {} /\ plan' = NoPlan
  /\ pc' = "idle"
  /\ UNCHANGED <<os, disk, base, wire, queue, dropped, events, gone, links, tangled>>

-----------------------------------------------------------------------------
\* After a build; untracked files are in the graph too.
Init ==
  /\ os \in Platforms
  /\ base \in [Paths -> Values]
  /\ disk = base
  /\ hash = disk
  /\ node = [p \in Paths |-> IF disk[p] = Absent THEN NoNode ELSE [at |-> p, of |-> disk[p]]]
  /\ wire = <<>> /\ queue = <<>> /\ dropped = 0
  /\ pc = "idle" /\ events = <<>> /\ plan = NoPlan
  /\ moves = {} /\ stale = {} /\ parse = {}
  /\ gone = NoPath /\ links = {} /\ tangled = {} /\ missed = {} /\ mixed = {}
  /\ ops = 0

User ==
  \/ \E p \in Paths : Delete(p) \/ MoveOut(p) \/ \E v \in Contents : Write(p, v) \/ Create(p, v)
  \/ \E p, q \in Paths : Rename(p, q)
  \/ \E kind \in {"ignored"} \cup Silent : Noise(kind)

Update == Classify \/ RenameStable \/ DeleteStale \/ Replace \/ UpdateFails
Watcher == Drain \/ DrainBuffered \/ PlanBatch \/ Update

Next == User \/ Deliver \/ Watcher

Spec == Init /\ [][Next]_vars

-----------------------------------------------------------------------------
(* Properties. *)

RawEvents == [kind : {"create", "modify", "both", "remove", "ignored"} \cup Silent,
              path : Paths \cup {NoPath}, to : Paths \cup {NoPath}]
WatchEvents == [kind : {"created", "modified", "deleted", "renamed", "none"},
                path : Paths \cup {NoPath}, old : Paths \cup {NoPath}]
PlannedChanges == [Paths -> [type : {"none", "modified", "deleted", "renamed"},
                             old : Paths \cup {NoPath}]]

\* The shape of the state; the channel never holds more than its capacity.
TypeOK ==
  /\ os \in Platforms
  /\ disk \in [Paths -> Values] /\ base \in [Paths -> Values] /\ hash \in [Paths -> Values]
  /\ node \in [Paths -> [at : Paths \cup {NoPath}, of : Values]]
  /\ wire \in Seq(RawEvents) /\ queue \in Seq(RawEvents)
  /\ Len(queue) <= Capacity /\ dropped \in Nat
  /\ pc \in {"idle", "debounce", "plan", "apply", "update", "write"}
  /\ events \in Seq(WatchEvents)
  /\ plan \in [rescan : BOOLEAN, changes : PlannedChanges]
  /\ moves \subseteq Paths \X Paths /\ stale \subseteq Paths /\ parse \subseteq Paths
  /\ gone \in Paths \cup {NoPath} /\ links \subseteq Paths \X Paths
  /\ tangled \subseteq Paths /\ missed \subseteq Paths /\ mixed \subseteq Paths
  /\ ops \in 0 .. MaxOps

\* When everything reported has been applied, however the reports were cut into
\* drains and batches, deduplicated and paired, the slices are those of the
\* files: except for a rename one side of which was touched again before the
\* watcher came to rest, a path that came or went three times before its events
\* were drained, a failed update, a path git does not report to the rescan after
\* an overflow, a file that inotify saw moved out of the watched files, and one
\* that lost nodes to a file at its old path.
WatchedIsCurrent ==
  AtRest => \A p \in Paths : Current(p) \/ p \in tangled \cup missed \cup mixed
=============================================================================
