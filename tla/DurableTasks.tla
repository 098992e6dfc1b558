---------------------------- MODULE DurableTasks ----------------------------
(***************************************************************************)
(* Durable MCP tasks: packages/atlas-mcp/src/tasks.rs over the table       *)
(* durable_tasks of packages/atlas-session/src/store/mod.rs.               *)
(*                                                                         *)
(* A tools/call runs on three kinds of threads that share a SQLite row:    *)
(* the request thread (execute_tool_call_with_worker_threads), the worker  *)
(* thread it spawns (run_task_worker), and the threads that serve          *)
(* tasks/update and tasks/cancel.  Every store call opens its own          *)
(* connection and is one SQL statement, so each is one atomic step, and a  *)
(* read followed by a write is two steps other threads may come between.   *)
(*                                                                         *)
(* A process may die and be restarted (Crash): the rows survive, the       *)
(* threads, LIVE_TASKS and TASK_ID_COUNTER do not.  A task id is the       *)
(* request id, the tool name and the counter, so a later process can issue *)
(* an id again.  "by" (created_at in the code) is the process that created *)
(* the row, "result" the process whose tool computed the stored result.    *)
(***************************************************************************)
EXTENDS Naturals, FiniteSets

CONSTANTS
  TaskIds,     \* the ids new_task_id can issue
  NoTask,      \* not a task id
  Clients,     \* each stands for one tasks/update or tasks/cancel request
  Modes,       \* subset of {"explicit", "auto"}: how calls ask for a task
  Ops,         \* subset of {"update", "cancel"}: what the clients request
  MaxReports,  \* bound: progress reports of one tool run
  MaxCrashes,  \* bound: process restarts
  Faults       \* whether store calls may fail

ASSUME DurableTasksAssumption ==
  /\ NoTask \notin TaskIds
  /\ Modes \subseteq {"explicit", "auto"}
  /\ Ops \subseteq {"update", "cancel"}
  /\ MaxReports \in Nat
  /\ MaxCrashes \in Nat
  /\ Faults \in BOOLEAN

VARIABLES
  row,      \* the durable_tasks table
  req,      \* program counter of the request thread of each task id
  mode,     \* whether the call carried params.task.ttl ("explicit") or not
  wk,       \* program counter of the worker thread
  outcome,  \* what the tool returned to the worker
  seen,     \* the status in the worker's "current" record
  sent,     \* the completion channel holds the worker's result
  live,     \* LIVE_TASKS has an entry for the task
  flag,     \* the task's cancel_flag
  reports,  \* progress reports made so far (bounded)
  known,    \* a client has learned the id from a task handle
  cl,       \* the client requests
  epoch     \* which process is running

vars == <<row, req, mode, wk, outcome, seen, sent, live, flag, reports, known,
          cl, epoch>>

-----------------------------------------------------------------------------
Terminal == {"completed", "failed", "cancelled"}
Statuses == Terminal \cup {"working", "input_required"}
Outcomes == {"ok", "aborted", "input", "err"}
Epochs == 0..MaxCrashes
Never == MaxCrashes + 1   \* "no value" for the epoch-valued fields

NoRow == [status |-> "absent", result |-> Never, error |-> FALSE,
          cancelRequested |-> FALSE, by |-> Never]
Rows == [status : Statuses \cup {"absent"}, result : Epochs \cup {Never},
         error : BOOLEAN, cancelRequested : BOOLEAN, by : Epochs \cup {Never}]

\* The request thread has returned to its caller with one of these.
Replied == {"handle", "inline", "error"}
ReqPcs == {"idle", "create", "register", "reply", "waiting", "defer"} \cup Replied
WkPcs == {"none", "tool", "read", "write", "send", "remove", "done", "panicked"}
ClientPcs == {"idle", "flag", "write", "done"}
ClientStates == [pc : ClientPcs, op : {"update", "cancel", "none"},
                 task : TaskIds \cup {NoTask}, saw : Statuses \cup {"absent"}]
IdleClient == [pc |-> "idle", op |-> "none", task |-> NoTask, saw |-> "absent"]

Present(t) == row[t].status # "absent"

Init ==
  /\ row = [t \in TaskIds |-> NoRow]
  /\ req = [t \in TaskIds |-> "idle"]
  /\ mode = [t \in TaskIds |-> "none"]
  /\ wk = [t \in TaskIds |-> "none"]
  /\ outcome = [t \in TaskIds |-> "ok"]
  /\ seen = [t \in TaskIds |-> "absent"]
  /\ sent = [t \in TaskIds |-> FALSE]
  /\ live = [t \in TaskIds |-> FALSE]
  /\ flag = [t \in TaskIds |-> FALSE]
  /\ reports = [t \in TaskIds |-> 0]
  /\ known = [t \in TaskIds |-> FALSE]
  /\ cl = [c \in Clients |-> IdleClient]
  /\ epoch = 0

-----------------------------------------------------------------------------
(* The store: one SQL statement each.                                      *)

\* create_durable_task: INSERT with task_id as primary key.
CreateRow(t) ==
  row' = [row EXCEPT ![t] = [status |-> "working", result |-> Never, error |-> FALSE,
                             cancelRequested |-> FALSE, by |-> epoch]]

\* Mutant: an upsert in place of the UPDATE.
UpsertRow(t, newRow) == row' = [row EXCEPT ![t] = newRow]

\* update_durable_task: UPDATE ... SET col = COALESCE(?, col) WHERE task_id = ?.
\* It does not look at the stored status, and touches nothing without a row.
UpdateRow(t, newRow) ==
  row' = IF Present(t) THEN [row EXCEPT ![t] = newRow] ELSE row

-----------------------------------------------------------------------------
(* The request thread.                                                     *)

\* Mutant: the row is created before the wait in both modes.
StartCallAlwaysCreates(t, m) ==
  /\ req[t] = "idle"
  /\ mode' = [mode EXCEPT ![t] = m]
  /\ req' = [req EXCEPT ![t] = "create"]
  /\ UNCHANGED <<row, wk, outcome, seen, sent, live, flag, reports, known, cl, epoch>>

\* A tools/call that becomes a task: new_task_id.  An explicit request creates
\* the row before the worker exists; an auto-deferred one does not.
StartCall(t, m) ==
  /\ req[t] = "idle"
  /\ mode' = [mode EXCEPT ![t] = m]
  /\ req' = [req EXCEPT ![t] = IF m = "explicit" THEN "create" ELSE "register"]
  /\ UNCHANGED <<row, wk, outcome, seen, sent, live, flag, reports, known,
                 cl, epoch>>

\* create_task_record failing (a row with this id exists, or the store is not
\* available) ends the call with an error; when it is the reload that fails, the row
\* has been inserted and stays.
CreateExplicit(t) ==
  /\ req[t] = "create"
  /\ \/ /\ ~Present(t)
        /\ CreateRow(t)
        /\ \/ req' = [req EXCEPT ![t] = "register"]
           \/ Faults /\ req' = [req EXCEPT ![t] = "error"]
     \/ /\ Present(t) \/ Faults
        /\ req' = [req EXCEPT ![t] = "error"]
        /\ UNCHANGED row
  /\ UNCHANGED <<mode, wk, outcome, seen, sent, live, flag, reports, known, cl, epoch>>

\* Mutant: the worker is spawned but not entered in LIVE_TASKS.
RegisterUnlisted(t) ==
  /\ req[t] = "register"
  /\ wk' = [wk EXCEPT ![t] = "tool"]
  /\ req' = [req EXCEPT ![t] = IF mode[t] = "explicit" THEN "reply" ELSE "waiting"]
  /\ UNCHANGED <<row, mode, outcome, seen, sent, live, flag, reports, known, cl, epoch>>

\* LIVE_TASKS.insert and thread spawn.  The entry is not visible to the worker
\* and a cancel that comes in between finds the same flag either way.  When no
\* thread can be spawned the call fails, with the entry and an explicit row left.
Register(t) ==
  /\ req[t] = "register"
  /\ live' = [live EXCEPT ![t] = TRUE]
  /\ \/ /\ wk' = [wk EXCEPT ![t] = "tool"]
        /\ req' = [req EXCEPT ![t] = IF mode[t] = "explicit" THEN "reply" ELSE "waiting"]
     \/ Faults /\ req' = [req EXCEPT ![t] = "error"] /\ UNCHANGED wk
  /\ UNCHANGED <<row, mode, outcome, seen, sent, flag, reports, known, cl, epoch>>

ReplyHandle(t) ==
  /\ req[t] = "reply"
  /\ req' = [req EXCEPT ![t] = "handle"]
  /\ known' = [known EXCEPT ![t] = TRUE]
  /\ UNCHANGED <<row, mode, wk, outcome, seen, sent, live, flag, reports, cl, epoch>>

\* completion_rx.recv_timeout(defer_threshold) = Ok(result)
RecvResult(t) ==
  /\ req[t] = "waiting" /\ sent[t]
  /\ req' = [req EXCEPT ![t] = IF outcome[t] = "err" THEN "error" ELSE "inline"]
  /\ UNCHANGED <<row, mode, wk, outcome, seen, sent, live, flag, reports, known,
                 cl, epoch>>

\* Err(Timeout): the threshold passed with nothing in the channel.
RecvTimeout(t) ==
  /\ req[t] = "waiting" /\ ~sent[t] /\ wk[t] # "panicked"
  /\ req' = [req EXCEPT ![t] = "defer"]
  /\ UNCHANGED <<row, mode, wk, outcome, seen, sent, live, flag, reports, known,
                 cl, epoch>>

\* Mutant: a closed channel is not told apart from an empty one.
RecvIgnoresDisconnect(t) == FALSE /\ UNCHANGED vars

\* Err(Disconnected): the worker died and dropped its sender.
RecvDisconnected(t) ==
  /\ req[t] = "waiting" /\ ~sent[t] /\ wk[t] = "panicked"
  /\ req' = [req EXCEPT ![t] = "error"]
  /\ UNCHANGED <<row, mode, wk, outcome, seen, sent, live, flag, reports, known,
                 cl, epoch>>

\* Mutant: INSERT OR IGNORE, the existing row is taken for the new task's.
CreateDeferredOrIgnore(t) ==
  /\ req[t] = "defer"
  /\ IF Present(t) THEN UNCHANGED row ELSE CreateRow(t)
  /\ req' = [req EXCEPT ![t] = "handle"]
  /\ known' = [known EXCEPT ![t] = TRUE]
  /\ UNCHANGED <<mode, wk, outcome, seen, sent, live, flag, reports, cl, epoch>>

\* The Timeout arm: only now is the row of an auto-deferred call created.
CreateDeferred(t) ==
  /\ req[t] = "defer"
  /\ \/ /\ ~Present(t)
        /\ CreateRow(t)
        /\ \/ /\ req' = [req EXCEPT ![t] = "handle"]
              /\ known' = [known EXCEPT ![t] = TRUE]
           \/ Faults /\ req' = [req EXCEPT ![t] = "error"] /\ UNCHANGED known
     \/ /\ Present(t) \/ Faults
        /\ req' = [req EXCEPT ![t] = "error"]
        /\ UNCHANGED <<row, known>>
  /\ UNCHANGED <<mode, wk, outcome, seen, sent, live, flag, reports, cl, epoch>>

-----------------------------------------------------------------------------
(* The worker thread.                                                      *)

\* The reporter closure: set the row to Working with a progress snapshot, and
\* ignore how that went ("let _ =").  The notification that follows changes
\* nothing: the server installs a notifier that drops it (rmcp_server.rs:560).
Report(t) ==
  /\ wk[t] = "tool" /\ reports[t] < MaxReports
  /\ reports' = [reports EXCEPT ![t] = @ + 1]
  /\ \/ UpdateRow(t, [row[t] EXCEPT !.status = "working"])
     \/ Faults /\ UNCHANGED row
  /\ UNCHANGED <<req, mode, wk, outcome, seen, sent, live, flag, known, cl, epoch>>

\* tools::call_with_worker_threads returns.  "aborted" is the early return of a
\* tool that polled is_canceled; like every tool error it is normalised to an Ok
\* result.  "err" remains only where building that result fails.
ToolReturns(t, o) ==
  /\ wk[t] = "tool"
  /\ o = "aborted" => flag[t]
  /\ o = "err" => Faults
  /\ outcome' = [outcome EXCEPT ![t] = o]
  /\ wk' = [wk EXCEPT ![t] = "read"]
  /\ UNCHANGED <<row, req, mode, seen, sent, live, flag, reports, known, cl, epoch>>

\* A panic in the tool unwinds the thread: nothing after the tool call runs.
ToolPanics(t) ==
  /\ wk[t] = "tool"
  /\ wk' = [wk EXCEPT ![t] = "panicked"]
  /\ UNCHANGED <<row, req, mode, outcome, seen, sent, live, flag, reports, known,
                 cl, epoch>>

\* The match on (result, current): which update the worker will make, if any.
WorkerWillWrite(status) == status \notin {"absent", "cancelled"}

\* let current = open_task_record(..)?
WorkerReads(t) ==
  /\ wk[t] = "read"
  /\ \/ /\ seen' = [seen EXCEPT ![t] = row[t].status]
        /\ wk' = [wk EXCEPT ![t] = IF WorkerWillWrite(row[t].status)
                                    THEN "write" ELSE "send"]
        /\ UNCHANGED outcome
     \/ /\ Faults
        /\ wk' = [wk EXCEPT ![t] = "send"]
        /\ outcome' = [outcome EXCEPT ![t] = "err"]
        /\ UNCHANGED seen
  /\ UNCHANGED <<row, req, mode, sent, live, flag, reports, known, cl, epoch>>

\* Mutants: the result is not stored; input_required is not persisted.
FinalRowNoResult(t) ==
  CASE outcome[t] = "input" -> [row[t] EXCEPT !.status = "input_required"]
    [] outcome[t] = "err"   -> [row[t] EXCEPT !.status = "failed", !.error = TRUE]
    [] OTHER -> [row[t] EXCEPT !.status = "completed"]
FinalRowNoInput(t) ==
  CASE outcome[t] = "input" -> row[t]
    [] outcome[t] = "err"   -> [row[t] EXCEPT !.status = "failed", !.error = TRUE]
    [] OTHER -> [row[t] EXCEPT !.status = "completed", !.result = epoch]

\* The update each arm of the match makes.
FinalRow(t) ==
  CASE outcome[t] = "input" -> [row[t] EXCEPT !.status = "input_required"]
    [] outcome[t] = "err"   -> [row[t] EXCEPT !.status = "failed", !.error = TRUE]
    [] OTHER -> [row[t] EXCEPT !.status = "completed", !.result = epoch]

\* update_task_store(..)? and the notification.  A failing "?" (the store, or
\* persisted_input_requests_from_atlas_tool_result) leaves the row as it is; one of
\* the reload that follows comes after the row has been written.
WorkerWrites(t) ==
  /\ wk[t] = "write"
  /\ wk' = [wk EXCEPT ![t] = "send"]
  /\ \/ UpdateRow(t, FinalRow(t)) /\ UNCHANGED outcome
     \/ /\ Faults
        /\ UpdateRow(t, FinalRow(t)) \/ UNCHANGED row
        /\ outcome' = [outcome EXCEPT ![t] = "err"]
  /\ UNCHANGED <<req, mode, seen, sent, live, flag, reports, known, cl, epoch>>

\* let _ = completion_tx.send(result)
WorkerSends(t) ==
  /\ wk[t] = "send"
  /\ sent' = [sent EXCEPT ![t] = TRUE]
  /\ wk' = [wk EXCEPT ![t] = "remove"]
  /\ UNCHANGED <<row, req, mode, outcome, seen, live, flag, reports, known, cl, epoch>>

\* live_tasks().remove(task_id)
WorkerRemoves(t) ==
  /\ wk[t] = "remove"
  /\ live' = [live EXCEPT ![t] = FALSE]
  /\ wk' = [wk EXCEPT ![t] = "done"]
  /\ UNCHANGED <<row, req, mode, outcome, seen, sent, flag, reports, known, cl, epoch>>

-----------------------------------------------------------------------------
(* tasks/update and tasks/cancel.                                          *)

\* Mutant: the guard forgets Cancelled.
AcceptsUnlessDone(status) == status \in {"working", "input_required", "cancelled"}

AcceptsRequests(status) == status \in {"working", "input_required"}

\* Both start by reading the record: an unknown id and a terminal status are
\* rejected, and what follows uses this copy of the record.
ClientReads(c, op, t) ==
  /\ cl[c].pc = "idle" /\ known[t]
  /\ cl' = [cl EXCEPT ![c] =
              [pc |-> CASE ~AcceptsRequests(row[t].status) -> "done"
                        [] AcceptsRequests(row[t].status) /\ op = "cancel" -> "flag"
                        [] OTHER -> "write",
               op |-> op, task |-> t, saw |-> row[t].status]]
  /\ UNCHANGED <<row, req, mode, wk, outcome, seen, sent, live, flag, reports,
                 known, epoch>>

\* tasks_cancel: cancel_flag.store(true) if the task is in LIVE_TASKS.
CancelFlag(c) ==
  LET t == cl[c].task IN
  /\ cl[c].pc = "flag"
  /\ flag' = [flag EXCEPT ![t] = @ \/ live[t]]
  /\ cl' = [cl EXCEPT ![c].pc = "write"]
  /\ UNCHANGED <<row, req, mode, wk, outcome, seen, sent, live, reports, known, epoch>>

\* The final update_task_store of tasks_cancel and of tasks_update.
ClientRow(t, op) ==
  IF op = "cancel"
  THEN [row[t] EXCEPT !.status = "cancelled", !.cancelRequested = TRUE]
  ELSE [row[t] EXCEPT !.status = "working"]

ClientWrites(c) ==
  LET t == cl[c].task IN
  /\ cl[c].pc = "write"
  /\ \/ UpdateRow(t, ClientRow(t, cl[c].op))
     \/ Faults /\ UNCHANGED row
  /\ cl' = [cl EXCEPT ![c].pc = "done"]
  /\ UNCHANGED <<req, mode, wk, outcome, seen, sent, live, flag, reports, known, epoch>>

-----------------------------------------------------------------------------
\* The process dies and is started again.  Requests in flight are lost, and
\* the counter of new_task_id starts over.
Crash ==
  /\ epoch < MaxCrashes
  /\ epoch' = epoch + 1
  /\ req' = [t \in TaskIds |-> "idle"]
  /\ mode' = [t \in TaskIds |-> "none"]
  /\ wk' = [t \in TaskIds |-> "none"]
  /\ outcome' = [t \in TaskIds |-> "ok"]
  /\ seen' = [t \in TaskIds |-> "absent"]
  /\ sent' = [t \in TaskIds |-> FALSE]
  /\ live' = [t \in TaskIds |-> FALSE]
  /\ flag' = [t \in TaskIds |-> FALSE]
  /\ reports' = [t \in TaskIds |-> 0]
  /\ cl' = [c \in Clients |->
              IF cl[c].pc = "idle" THEN cl[c] ELSE [cl[c] EXCEPT !.pc = "done"]]
  /\ UNCHANGED <<row, known>>

RequestStep(t) ==
  \/ CreateExplicit(t) \/ Register(t) \/ ReplyHandle(t) \/ RecvResult(t)
  \/ RecvTimeout(t) \/ RecvDisconnected(t) \/ CreateDeferred(t)
ToolEnds(t) == (\E o \in Outcomes : ToolReturns(t, o)) \/ ToolPanics(t)
WorkerStep(t) ==
  \/ WorkerReads(t) \/ WorkerWrites(t) \/ WorkerSends(t)
  \/ WorkerRemoves(t)
ClientStep(c) == CancelFlag(c) \/ ClientWrites(c)

Next ==
  \/ \E t \in TaskIds : \/ \E m \in Modes : StartCall(t, m)
                        \/ RequestStep(t) \/ Report(t) \/ ToolEnds(t) \/ WorkerStep(t)
  \/ \E c \in Clients : \/ \E op \in Ops, t \in TaskIds : ClientReads(c, op, t)
                        \/ ClientStep(c)
  \/ Crash

Spec == Init /\ [][Next]_vars

\* Threads that have started keep running: the operating system schedules the
\* request, worker and client threads.  Nothing obliges a client to make a call
\* or a tool to report progress or even to return, and a crash is never required.
FairSpec ==
  /\ Spec
  /\ \A t \in TaskIds : WF_vars(RequestStep(t)) /\ WF_vars(WorkerStep(t))
  /\ \A c \in Clients : WF_vars(ClientStep(c))

-----------------------------------------------------------------------------
(* Properties.                                                             *)

\* A table of rows: the ones there are have a creator.
RowsOK ==
  /\ row \in [TaskIds -> Rows]
  /\ \A t \in TaskIds : Present(t) <=> row[t].by # Never

\* Every variable keeps its type, and an update never makes a row that no
\* create_durable_task inserted.
TypeOK ==
  /\ RowsOK
  /\ req \in [TaskIds -> ReqPcs]
  /\ mode \in [TaskIds -> {"explicit", "auto", "none"}]
  /\ wk \in [TaskIds -> WkPcs]
  /\ outcome \in [TaskIds -> Outcomes]
  /\ seen \in [TaskIds -> Statuses \cup {"absent"}]
  /\ sent \in [TaskIds -> BOOLEAN]
  /\ live \in [TaskIds -> BOOLEAN]
  /\ flag \in [TaskIds -> BOOLEAN]
  /\ reports \in [TaskIds -> 0..MaxReports]
  /\ known \in [TaskIds -> BOOLEAN]
  /\ cl \in [Clients -> ClientStates]
  /\ epoch \in Epochs

\* The row of t was created by the running process.
Current(t) == Present(t) /\ row[t].by = epoch

\* A call answered inline, with its result, has left no row behind in this
\* process: the timeout arm that creates one and the arm that returns the result
\* exclude each other (test implicit_auto_defer_short_run_skips_task_persistence).
InlineLeavesNoRow == \A t \in TaskIds : req[t] = "inline" => ~Current(t)

\* A handle given to a client names a row of its own call, also when a process
\* that died had issued the same id: the primary key makes the second INSERT
\* fail, and the caller gets an error rather than another call's task.
HandleHasRow == \A t \in TaskIds : req[t] = "handle" => Current(t)

\* In one process, a task whose row says that cancellation was requested and
\* whose tool still runs has its cancel flag set: the flag is raised before the
\* row is written and the worker is registered before its id is known.
CancelReachesTool ==
  \A t \in TaskIds :
    epoch = 0 /\ row[t].cancelRequested /\ wk[t] = "tool" => flag[t]

\* What a reader of a settled row gets: a completed task has its result, a
\* failed one its error, whoever else wrote to the row before.
SettledRowHasPayload ==
  \A t \in TaskIds :
    /\ row[t].status = "completed" => row[t].result # Never
    /\ row[t].status = "failed" => row[t].error

\* A row that the running process made terminal changes status only by a writer
\* that could not know: the progress reporter of the task's own running tool, or
\* a thread whose own copy of the record is older than the terminal status.  A
\* request that arrives after the task has settled never changes it.
OnlyStaleWritersUnsettle ==
  [][\A t \in TaskIds :
       Current(t) /\ row[t].status \in Terminal /\ row'[t].status # row[t].status =>
         \/ reports'[t] # reports[t]
         \/ wk[t] = "write" /\ seen[t] \notin Terminal
         \/ \E c \in Clients : /\ cl[c].task = t /\ cl[c].pc = "write"
                               /\ cl[c].saw \notin Terminal
                               /\ cl'[c].pc = "done"]_vars

\* The inductive invariant behind the properties above.
\* A row is created once per call: not while the call may still be answered
\* inline, and always before its handle is given out.
RowLifecycle(t) ==
  /\ row[t].by = Never \/ row[t].by <= epoch
  /\ (req[t] \in {"idle", "create", "waiting", "defer", "inline"} => ~Current(t))
  /\ (req[t] = "create" => mode[t] = "explicit")
  /\ (req[t] = "register" => (mode[t] = "explicit" <=> Current(t)))
  /\ (req[t] \in {"reply", "handle"} => Current(t))
\* The worker exists from Register on, and is listed until it is done.
WorkerLifecycle(t) ==
  /\ (req[t] \in {"idle", "create", "register"} => wk[t] = "none")
  /\ (wk[t] = "none" => req[t] \in {"idle", "create", "register", "error"})
  /\ (wk[t] \in {"tool", "read", "write", "send", "remove"} => live[t])
  /\ (wk[t] = "write" => Present(t))
\* Only the worker's last write makes a row completed or failed.
WorkerSettles(t) ==
  Current(t) =>
    /\ wk[t] \in {"none", "tool", "read"} => row[t].status \notin {"completed", "failed"}
    /\ wk[t] = "write" => seen[t] \notin Terminal
\* In the first process an id is known only after its worker is registered.
KnownAfterRegister(t) ==
  epoch = 0 =>
    /\ (known[t] => wk[t] # "none")
    /\ (row[t].cancelRequested => wk[t] # "none")
\* What a client request past its check has established.
ClientProgress(c) ==
  /\ (cl[c].pc \in {"flag", "write"} =>
        /\ cl[c].task \in TaskIds
        /\ AcceptsRequests(cl[c].saw)
        /\ (epoch = 0 => wk[cl[c].task] # "none"))
  /\ (cl[c].pc = "write" /\ cl[c].op = "cancel" /\ epoch = 0 =>
        (wk[cl[c].task] = "tool" => flag[cl[c].task]))

IndInv ==
  /\ TypeOK
  /\ \A t \in TaskIds : /\ RowLifecycle(t) /\ WorkerLifecycle(t)
                        /\ WorkerSettles(t) /\ KnownAfterRegister(t)
  /\ \A c \in Clients : ClientProgress(c)
  /\ CancelReachesTool
  /\ SettledRowHasPayload

\* Every call that becomes a task is answered, with a handle, a result or an
\* error, whatever the worker does (it may outlive the threshold, or panic).
RequestIsAnswered == \A t \in TaskIds : req[t] # "idle" ~> req[t] \in Replied

\* The row says how the task ended, or asks for input.
Settled(t) == row[t].status \in Terminal \cup {"input_required"}

\* A task whose row exists by the time its tool has returned, because it was asked
\* for or because the call was deferred in time, settles for good, even if clients
\* try to cancel it at any moment and progress reports revived a cancelled row.
TaskSettles ==
  \A t \in TaskIds :
    (mode[t] = "explicit" \/ req[t] = "handle") /\ wk[t] = "read" ~> []Settled(t)

\* The tool of t has come to an end without a panic.
Returned(t) == wk[t] \in {"read", "write", "send", "remove", "done"}

\* SHIPPED.md: "polling, deferred result retrieval"; the test
\* implicit_auto_defer_returns_task_handle_after_threshold polls the handle of an
\* auto-deferred call until the task completes, which it does once its tool has.
DeferredTaskSettles ==
  \A t \in TaskIds : mode[t] = "auto" /\ req[t] = "handle" /\ Returned(t) ~> []Settled(t)

=============================================================================
