------------------------- MODULE DurableTasksProofs -------------------------
(***************************************************************************)
(* Proofs about DurableTasks, for every set of task ids and clients and    *)
(* every bound: IndInv is inductive, and the safety properties follow.     *)
(***************************************************************************)
EXTENDS DurableTasks, TLAPS

\* IndInv without the types, in two parts: what it says of a task and its row,
\* and what it says of the client requests and the cancel flag.
TaskInv(t) ==
  /\ RowLifecycle(t) /\ WorkerLifecycle(t)
  /\ WorkerSettles(t) /\ KnownAfterRegister(t)
  /\ (row[t].status = "completed" => row[t].result # Never)
  /\ (row[t].status = "failed" => row[t].error)
CancelInv ==
  /\ \A c \in Clients : ClientProgress(c)
  /\ CancelReachesTool

\* The initial state, with nothing running and no row, satisfies IndInv.
LEMMA InitIndInv == Init => IndInv
<1> SUFFICES ASSUME Init PROVE IndInv
  OBVIOUS
<1> USE DurableTasksAssumption DEF Init, Epochs, Never, NoRow, Rows, Statuses,
        Terminal, Present, Current
<1>1. TypeOK
  BY DEF TypeOK, RowsOK, ReqPcs, WkPcs, Outcomes, ClientStates, ClientPcs, IdleClient, Replied
<1>2. \A t \in TaskIds : /\ RowLifecycle(t) /\ WorkerLifecycle(t)
                         /\ WorkerSettles(t) /\ KnownAfterRegister(t)
  BY DEF RowLifecycle, WorkerLifecycle, WorkerSettles, KnownAfterRegister
<1>3. \A c \in Clients : ClientProgress(c)
  BY DEF ClientProgress, IdleClient
<1>4. CancelReachesTool /\ SettledRowHasPayload
  BY DEF CancelReachesTool, SettledRowHasPayload
<1> QED BY <1>1, <1>2, <1>3, <1>4 DEF IndInv

-----------------------------------------------------------------------------
(* The store.                                                              *)

\* INSERT gives a table of rows.
LEMMA CreateRowOK ==
  ASSUME RowsOK, epoch \in Epochs, NEW t \in TaskIds, CreateRow(t)
  PROVE  RowsOK'
<1> DEFINE r == [status |-> "working", result |-> Never, error |-> FALSE,
                 cancelRequested |-> FALSE, by |-> epoch]
<1>1. r \in Rows /\ r.status # "absent" /\ r.by # Never
  BY DurableTasksAssumption DEF Rows, Statuses, Epochs, Never
<1>2. row' = [row EXCEPT ![t] = r]
  BY DEF CreateRow
<1> HIDE DEF r
<1>3. row' \in [TaskIds -> Rows]
  BY <1>1, <1>2 DEF RowsOK
<1>4. ASSUME NEW u \in TaskIds PROVE Present(u)' <=> row'[u].by # Never
  BY <1>1, <1>2 DEF RowsOK, Present
<1> QED BY <1>3, <1>4 DEF RowsOK

\* UPDATE with a row of the same creator gives a table of rows.
LEMMA UpdateRowOK ==
  ASSUME RowsOK, NEW t \in TaskIds, NEW r \in Rows,
         r.status # "absent", r.by = row[t].by, UpdateRow(t, r)
  PROVE  RowsOK'
<1>1. CASE Present(t)
  <2>1. row' = [row EXCEPT ![t] = r]
    BY <1>1 DEF UpdateRow
  <2>2. row' \in [TaskIds -> Rows]
    BY <2>1 DEF RowsOK
  <2>3. ASSUME NEW u \in TaskIds PROVE Present(u)' <=> row'[u].by # Never
    <3>1. CASE u = t
      BY <1>1, <2>1, <3>1 DEF RowsOK, Present
    <3>2. CASE u # t
      BY <2>1, <3>2 DEF RowsOK, Present
    <3> QED BY <3>1, <3>2
  <2> QED BY <2>2, <2>3 DEF RowsOK
<1>2. CASE ~Present(t)
  BY <1>2 DEF UpdateRow, RowsOK, Present
<1> QED BY <1>1, <1>2

\* The rows the threads write are rows, not absent, with the stored creator.
LEMMA WrittenRows ==
  ASSUME RowsOK, epoch \in Epochs, NEW t \in TaskIds
  PROVE  /\ LET r == [row[t] EXCEPT !.status = "working"]
            IN  r \in Rows /\ r.status # "absent" /\ r.by = row[t].by
         /\ LET r == FinalRow(t)
            IN  r \in Rows /\ r.status # "absent" /\ r.by = row[t].by
         /\ \A op : LET r == ClientRow(t, op)
                    IN  r \in Rows /\ r.status # "absent" /\ r.by = row[t].by
<1> USE DEF Rows, Statuses, Terminal
<1>1. row[t] \in Rows
  BY DEF RowsOK
<1>2. LET r == [row[t] EXCEPT !.status = "working"]
      IN  r \in Rows /\ r.status # "absent" /\ r.by = row[t].by
  BY <1>1
<1>3. LET r == FinalRow(t)
      IN  r \in Rows /\ r.status # "absent" /\ r.by = row[t].by
  <2>1. CASE outcome[t] = "input"
    BY <1>1, <2>1 DEF FinalRow
  <2>2. CASE outcome[t] = "err"
    BY <1>1, <2>2 DEF FinalRow
  <2>3. CASE outcome[t] \notin {"input", "err"}
    BY <1>1, <2>3 DEF FinalRow
  <2> QED BY <2>1, <2>2, <2>3
<1>4. ASSUME NEW op
      PROVE LET r == ClientRow(t, op)
            IN  r \in Rows /\ r.status # "absent" /\ r.by = row[t].by
  BY <1>1 DEF ClientRow
<1> QED BY <1>2, <1>3, <1>4

-----------------------------------------------------------------------------
(* Types.                                                                  *)

\* A step that leaves the table alone leaves it well formed.
LEMMA RowsUnchanged == RowsOK /\ row' = row => RowsOK'
  BY DEF RowsOK, Present

\* Every step of every thread, and a crash, keeps the types.
LEMMA TypeStep == TypeOK /\ [Next]_vars => TypeOK'
<1> SUFFICES ASSUME TypeOK, [Next]_vars PROVE TypeOK'
  OBVIOUS
<1>0. RowsOK /\ epoch \in Epochs
  BY DEF TypeOK
<1> USE DurableTasksAssumption
    DEF TypeOK, ReqPcs, WkPcs, Outcomes, ClientPcs, Replied
<1>1. ASSUME NEW t \in TaskIds, NEW m \in Modes, StartCall(t, m) PROVE TypeOK'
  BY <1>0, <1>1, RowsUnchanged DEF StartCall
<1>2. ASSUME NEW t \in TaskIds, CreateExplicit(t) PROVE TypeOK'
  <2>1. RowsOK'
    BY <1>0, <1>2, CreateRowOK, RowsUnchanged DEF CreateExplicit
  <2> QED BY <2>1, <1>2 DEF CreateExplicit
<1>3. ASSUME NEW t \in TaskIds, Register(t) PROVE TypeOK'
  BY <1>0, <1>3, RowsUnchanged DEF Register
<1>4. ASSUME NEW t \in TaskIds, ReplyHandle(t) PROVE TypeOK'
  BY <1>0, <1>4, RowsUnchanged DEF ReplyHandle
<1>5. ASSUME NEW t \in TaskIds, RecvResult(t) PROVE TypeOK'
  BY <1>0, <1>5, RowsUnchanged DEF RecvResult
<1>6. ASSUME NEW t \in TaskIds, RecvTimeout(t) PROVE TypeOK'
  BY <1>0, <1>6, RowsUnchanged DEF RecvTimeout
<1>7. ASSUME NEW t \in TaskIds, RecvDisconnected(t) PROVE TypeOK'
  BY <1>0, <1>7, RowsUnchanged DEF RecvDisconnected
<1>8. ASSUME NEW t \in TaskIds, CreateDeferred(t) PROVE TypeOK'
  <2>1. RowsOK'
    BY <1>0, <1>8, CreateRowOK, RowsUnchanged DEF CreateDeferred
  <2> QED BY <2>1, <1>8 DEF CreateDeferred
<1>9. ASSUME NEW t \in TaskIds, Report(t) PROVE TypeOK'
  <2>1. RowsOK'
    BY <1>0, <1>9, UpdateRowOK, WrittenRows, RowsUnchanged DEF Report
  <2> QED BY <2>1, <1>9 DEF Report
<1>10. ASSUME NEW t \in TaskIds, NEW o \in Outcomes, ToolReturns(t, o) PROVE TypeOK'
  BY <1>0, <1>10, RowsUnchanged DEF ToolReturns
<1>11. ASSUME NEW t \in TaskIds, ToolPanics(t) PROVE TypeOK'
  BY <1>0, <1>11, RowsUnchanged DEF ToolPanics
<1>12. ASSUME NEW t \in TaskIds, WorkerReads(t) PROVE TypeOK'
  <2>1. row[t].status \in Statuses \cup {"absent"}
    BY <1>0 DEF RowsOK, Rows
  <2> QED BY <2>1, <1>0, <1>12, RowsUnchanged DEF WorkerReads
<1>13. ASSUME NEW t \in TaskIds, WorkerWrites(t) PROVE TypeOK'
  <2>1. RowsOK'
    BY <1>0, <1>13, UpdateRowOK, WrittenRows, RowsUnchanged DEF WorkerWrites
  <2> QED BY <2>1, <1>13 DEF WorkerWrites
<1>14. ASSUME NEW t \in TaskIds, WorkerSends(t) PROVE TypeOK'
  BY <1>0, <1>14, RowsUnchanged DEF WorkerSends
<1>15. ASSUME NEW t \in TaskIds, WorkerRemoves(t) PROVE TypeOK'
  BY <1>0, <1>15, RowsUnchanged DEF WorkerRemoves
<1>16. ASSUME NEW c \in Clients, NEW op \in Ops, NEW t \in TaskIds, ClientReads(c, op, t)
       PROVE  TypeOK'
  <2>1. row[t].status \in Statuses \cup {"absent"}
    BY <1>0 DEF RowsOK, Rows
  <2>2. cl' \in [Clients -> ClientStates]
    BY <2>1, <1>16 DEF ClientReads, ClientStates
  <2> QED BY <2>2, <1>0, <1>16, RowsUnchanged DEF ClientReads
<1>17. ASSUME NEW c \in Clients, CancelFlag(c) PROVE TypeOK'
  <2>1. cl' \in [Clients -> ClientStates]
    BY <1>17 DEF CancelFlag, ClientStates
  <2>2. flag' \in [TaskIds -> BOOLEAN]
    BY <1>17 DEF CancelFlag
  <2> QED BY <2>1, <2>2, <1>0, <1>17, RowsUnchanged DEF CancelFlag
<1>18. ASSUME NEW c \in Clients, ClientWrites(c) PROVE TypeOK'
  <2>1. cl' \in [Clients -> ClientStates]
    BY <1>18 DEF ClientWrites, ClientStates
  <2>2. RowsOK'
    <3>1. CASE cl[c].task \in TaskIds
      <4> DEFINE t == cl[c].task
                 r == ClientRow(t, cl[c].op)
      <4>1. UpdateRow(t, r) \/ row' = row
        BY <1>18 DEF ClientWrites
      <4>2. r \in Rows /\ r.status # "absent" /\ r.by = row[t].by
        BY <3>1, <1>0, WrittenRows
      <4> HIDE DEF t, r
      <4> QED BY <3>1, <4>1, <4>2, <1>0, UpdateRowOK, RowsUnchanged DEF t
    <3>2. CASE cl[c].task \notin TaskIds
      <4>1. row' = row
        BY <3>2, <1>0, <1>18 DEF ClientWrites, UpdateRow, RowsOK
      <4> QED BY <4>1, <1>0, RowsUnchanged
    <3> QED BY <3>1, <3>2
  <2> QED BY <2>1, <2>2, <1>18 DEF ClientWrites
<1>19. CASE Crash
  <2>1. cl' \in [Clients -> ClientStates]
    <3>1. ASSUME NEW c \in Clients PROVE cl'[c] \in ClientStates
      <4>1. cl[c] \in ClientStates
        OBVIOUS
      <4>2. [cl[c] EXCEPT !.pc = "done"] \in ClientStates
        BY <4>1 DEF ClientStates
      <4> QED BY <4>1, <4>2, <1>19 DEF Crash
    <3> QED BY <3>1, <1>19 DEF Crash
  <2>2. epoch' \in Epochs
    BY <1>19 DEF Crash, Epochs
  <2>3. seen' \in [TaskIds -> Statuses \cup {"absent"}]
    BY <1>19 DEF Crash
  <2> QED BY <2>1, <2>2, <2>3, <1>0, <1>19, RowsUnchanged DEF Crash
<1>20. CASE UNCHANGED vars
  BY <1>0, <1>20, RowsUnchanged DEF vars
<1> HIDE DEF TypeOK, Outcomes
<1>21. CASE \E t \in TaskIds : RequestStep(t) \/ Report(t) \/ ToolEnds(t) \/ WorkerStep(t)
  BY <1>21, <1>2, <1>3, <1>4, <1>5, <1>6, <1>7, <1>8, <1>9, <1>10, <1>11, <1>12,
     <1>13, <1>14, <1>15 DEF RequestStep, ToolEnds, WorkerStep
<1> QED
  BY <1>1, <1>16, <1>17, <1>18, <1>19, <1>20, <1>21 DEF Next, ClientStep
-----------------------------------------------------------------------------
(* The rest of the invariant.                                              *)

\* What the steps preserve of each task.
LEMMA TaskStep ==
  ASSUME IndInv, [Next]_vars
  PROVE  \A u \in TaskIds : TaskInv(u)'
<1> SUFFICES ASSUME NEW u \in TaskIds PROVE TaskInv(u)'
  OBVIOUS
<1>0. TypeOK /\ RowsOK /\ TaskInv(u) /\ row[u] \in Rows /\ epoch \in Epochs
  BY DEF IndInv, TypeOK, TaskInv, SettledRowHasPayload, RowsOK
<1> USE DurableTasksAssumption, <1>0
    DEF TypeOK, RowsOK, TaskInv, RowLifecycle, WorkerLifecycle, WorkerSettles, KnownAfterRegister,
        Current, Present, Terminal, Rows, Epochs, Never
<1>1. ASSUME NEW t \in TaskIds, NEW m \in Modes, StartCall(t, m) PROVE TaskInv(u)'
  BY <1>1 DEF StartCall
<1>2. ASSUME NEW t \in TaskIds, CreateExplicit(t) PROVE TaskInv(u)'
  <2>1. CASE ~Present(t) /\ CreateRow(t)
    <3>1. CASE u = t
      BY <1>2, <2>1, <3>1 DEF CreateExplicit, CreateRow
    <3>2. CASE u # t
      BY <1>2, <2>1, <3>2 DEF CreateExplicit, CreateRow
    <3> QED BY <3>1, <3>2
  <2>2. CASE row' = row /\ req' = [req EXCEPT ![t] = "error"]
    BY <1>2, <2>2 DEF CreateExplicit
  <2> QED BY <1>2, <2>1, <2>2 DEF CreateExplicit
<1>3. ASSUME NEW t \in TaskIds, Register(t) PROVE TaskInv(u)'
  BY <1>3 DEF Register
<1>4. ASSUME NEW t \in TaskIds, ReplyHandle(t) PROVE TaskInv(u)'
  BY <1>4 DEF ReplyHandle
<1>5. ASSUME NEW t \in TaskIds, RecvResult(t) PROVE TaskInv(u)'
  BY <1>5 DEF RecvResult
<1>6. ASSUME NEW t \in TaskIds, RecvTimeout(t) PROVE TaskInv(u)'
  BY <1>6 DEF RecvTimeout
<1>7. ASSUME NEW t \in TaskIds, RecvDisconnected(t) PROVE TaskInv(u)'
  BY <1>7 DEF RecvDisconnected
<1>8. ASSUME NEW t \in TaskIds, CreateDeferred(t) PROVE TaskInv(u)'
  <2>1. CASE ~Present(t) /\ CreateRow(t)
    <3>1. CASE u = t
      BY <1>8, <2>1, <3>1 DEF CreateDeferred, CreateRow
    <3>2. CASE u # t
      BY <1>8, <2>1, <3>2 DEF CreateDeferred, CreateRow
    <3> QED BY <3>1, <3>2
  <2>2. CASE row' = row /\ req' = [req EXCEPT ![t] = "error"]
    BY <1>8, <2>2 DEF CreateDeferred
  <2> QED BY <1>8, <2>1, <2>2 DEF CreateDeferred
<1>9. ASSUME NEW t \in TaskIds, Report(t) PROVE TaskInv(u)'
  BY <1>9 DEF Report, UpdateRow
<1>10. ASSUME NEW t \in TaskIds, NEW o \in Outcomes, ToolReturns(t, o) PROVE TaskInv(u)'
  BY <1>10 DEF ToolReturns
<1>11. ASSUME NEW t \in TaskIds, ToolPanics(t) PROVE TaskInv(u)'
  BY <1>11 DEF ToolPanics
<1>12. ASSUME NEW t \in TaskIds, WorkerReads(t) PROVE TaskInv(u)'
  BY <1>12 DEF WorkerReads, WorkerWillWrite
<1>13. ASSUME NEW t \in TaskIds, WorkerWrites(t) PROVE TaskInv(u)'
  <2>1. CASE u # t
    BY <1>13, <2>1 DEF WorkerWrites, UpdateRow
  <2>2. CASE u = t /\ row' = row
    BY <1>13, <2>2 DEF WorkerWrites
  <2>3. CASE u = t /\ row' = [row EXCEPT ![t] = FinalRow(t)]
    <3>1. CASE outcome[t] = "input"
      BY <1>13, <2>3, <3>1 DEF WorkerWrites, FinalRow
    <3>2. CASE outcome[t] = "err"
      BY <1>13, <2>3, <3>2 DEF WorkerWrites, FinalRow
    <3>3. CASE outcome[t] \notin {"input", "err"}
      BY <1>13, <2>3, <3>3 DEF WorkerWrites, FinalRow
    <3> QED BY <3>1, <3>2, <3>3
  <2> QED BY <1>13, <2>1, <2>2, <2>3 DEF WorkerWrites, UpdateRow
<1>14. ASSUME NEW t \in TaskIds, WorkerSends(t) PROVE TaskInv(u)'
  BY <1>14 DEF WorkerSends
<1>15. ASSUME NEW t \in TaskIds, WorkerRemoves(t) PROVE TaskInv(u)'
  BY <1>15 DEF WorkerRemoves
<1>16. ASSUME NEW c \in Clients, NEW op \in Ops, NEW t \in TaskIds, ClientReads(c, op, t)
       PROVE  TaskInv(u)'
  BY <1>16 DEF ClientReads
<1>17. ASSUME NEW c \in Clients, CancelFlag(c) PROVE TaskInv(u)'
  BY <1>17 DEF CancelFlag
<1>18. ASSUME NEW c \in Clients, ClientWrites(c) PROVE TaskInv(u)'
  <2> DEFINE t == cl[c].task
  <2>1. t \in TaskIds /\ (epoch = 0 => wk[t] # "none")
    BY <1>18 DEF IndInv, ClientProgress, ClientWrites
  <2>2. UNCHANGED <<req, mode, wk, seen, live, known, epoch>>
    BY <1>18 DEF ClientWrites
  <2>3. row' = row \/ row' = [row EXCEPT ![t] = ClientRow(t, cl[c].op)]
    BY <1>18 DEF ClientWrites, UpdateRow
  <2> HIDE DEF t
  <2>4. CASE row' = row \/ u # t
    BY <2>1, <2>2, <2>3, <2>4
  <2>5. CASE u = t /\ row' = [row EXCEPT ![t] = ClientRow(t, cl[c].op)] /\ Present(t)
    <3>1. CASE cl[c].op = "cancel"
      BY <2>1, <2>2, <2>5, <3>1 DEF ClientRow
    <3>2. CASE cl[c].op # "cancel"
      BY <2>1, <2>2, <2>5, <3>2 DEF ClientRow
    <3> QED BY <3>1, <3>2
  <2>6. Present(t) \/ row' = row
    BY <1>18 DEF ClientWrites, UpdateRow, t
  <2> QED BY <2>3, <2>4, <2>5, <2>6
<1>19. CASE Crash
  BY <1>19 DEF Crash
<1>20. CASE UNCHANGED vars
  BY <1>20 DEF vars
<1> HIDE DEF TaskInv
<1>21. CASE \E t \in TaskIds : RequestStep(t) \/ Report(t) \/ ToolEnds(t) \/ WorkerStep(t)
  BY <1>21, <1>2, <1>3, <1>4, <1>5, <1>6, <1>7, <1>8, <1>9, <1>10, <1>11, <1>12,
     <1>13, <1>14, <1>15 DEF RequestStep, ToolEnds, WorkerStep
<1> QED
  BY <1>1, <1>16, <1>17, <1>18, <1>19, <1>20, <1>21 DEF Next, ClientStep
\* Only a tasks/cancel writes cancel_requested.
LEMMA CancelColumn ==
  ASSUME RowsOK, NEW u \in TaskIds, NEW t \in TaskIds,
         \/ row' = row
         \/ CreateRow(t)
         \/ UpdateRow(t, [row[t] EXCEPT !.status = "working"])
         \/ UpdateRow(t, FinalRow(t))
  PROVE  row'[u].cancelRequested => row[u].cancelRequested
<1> USE DEF RowsOK, Rows
<1>1. CASE row' = row \/ CreateRow(t)
  BY <1>1 DEF CreateRow
<1>2. CASE UpdateRow(t, [row[t] EXCEPT !.status = "working"])
  BY <1>2 DEF UpdateRow
<1>3. CASE UpdateRow(t, FinalRow(t))
  <2>1. CASE outcome[t] = "input"
    BY <1>3, <2>1 DEF UpdateRow, FinalRow
  <2>2. CASE outcome[t] = "err"
    BY <1>3, <2>2 DEF UpdateRow, FinalRow
  <2>3. CASE outcome[t] \notin {"input", "err"}
    BY <1>3, <2>3 DEF UpdateRow, FinalRow
  <2> QED BY <2>1, <2>2, <2>3
<1> QED BY <1>1, <1>2, <1>3

\* What the steps of the request and worker threads change of what CancelInv
\* speaks of: no worker is un-registered, a worker that begins its tool has had
\* no request against it yet, and the flags and the requests stay.
LEMMA ThreadFrame ==
  ASSUME IndInv, NEW t \in TaskIds,
         \/ \E m \in Modes : StartCall(t, m)
         \/ RequestStep(t) \/ Report(t) \/ ToolEnds(t) \/ WorkerStep(t)
  PROVE  /\ UNCHANGED <<cl, flag, epoch>>
         /\ \A u \in TaskIds :
              /\ wk'[u] = "none" => wk[u] = "none"
              /\ wk'[u] = "tool" => wk[u] \in {"none", "tool"}
              /\ row'[u].cancelRequested => row[u].cancelRequested
<1>0. TypeOK /\ RowsOK
  BY DEF IndInv, TypeOK
<1>1. /\ UNCHANGED <<cl, flag, epoch>>
      /\ \/ row' = row
         \/ CreateRow(t)
         \/ UpdateRow(t, [row[t] EXCEPT !.status = "working"])
         \/ UpdateRow(t, FinalRow(t))
  BY DEF RequestStep, ToolEnds, WorkerStep, StartCall, CreateExplicit, Register,
     ReplyHandle, RecvResult, RecvTimeout, RecvDisconnected, CreateDeferred, Report,
     ToolReturns, ToolPanics, WorkerReads, WorkerWrites, WorkerSends, WorkerRemoves
<1>2. \A u \in TaskIds : row'[u].cancelRequested => row[u].cancelRequested
  BY <1>0, <1>1, CancelColumn
<1>3. \A u \in TaskIds : /\ wk'[u] = "none" => wk[u] = "none"
                         /\ wk'[u] = "tool" => wk[u] \in {"none", "tool"}
  <2>1. \/ wk' = wk
        \/ \E x \in {"read", "write", "send", "remove", "done", "panicked"} :
             wk' = [wk EXCEPT ![t] = x]
        \/ req[t] = "register" /\ wk' = [wk EXCEPT ![t] = "tool"]
    BY Zenon DEF RequestStep, ToolEnds, WorkerStep, StartCall, CreateExplicit, Register,
       ReplyHandle, RecvResult, RecvTimeout, RecvDisconnected, CreateDeferred, Report,
       ToolReturns, ToolPanics, WorkerReads, WorkerWrites, WorkerSends, WorkerRemoves
  <2>2. req[t] = "register" => wk[t] = "none"
    BY DEF IndInv, WorkerLifecycle
  <2> QED BY <1>0, <2>1, <2>2 DEF TypeOK
<1> QED BY <1>1, <1>2, <1>3

\* What the steps preserve of the client requests and the cancel flag.
LEMMA CancelStep ==
  ASSUME IndInv, [Next]_vars
  PROVE  CancelInv'
<1>0. /\ TypeOK /\ RowsOK /\ CancelInv
      /\ \A t \in TaskIds : row[t] \in Rows /\ WorkerLifecycle(t) /\ KnownAfterRegister(t)
  BY DEF IndInv, TypeOK, CancelInv, RowsOK
<1>1. ASSUME NEW t \in TaskIds,
             \/ \E m \in Modes : StartCall(t, m)
             \/ RequestStep(t) \/ Report(t) \/ ToolEnds(t) \/ WorkerStep(t)
      PROVE  CancelInv'
  <2>1. /\ UNCHANGED <<cl, flag, epoch>>
        /\ \A u \in TaskIds :
             /\ wk'[u] = "none" => wk[u] = "none"
             /\ wk'[u] = "tool" => wk[u] \in {"none", "tool"}
             /\ row'[u].cancelRequested => row[u].cancelRequested
    BY <1>1, ThreadFrame
  <2>2. \A c \in Clients : ClientProgress(c)'
    BY <1>0, <2>1 DEF CancelInv, ClientProgress
  <2>3. CancelReachesTool'
    BY <1>0, <2>1 DEF CancelInv, CancelReachesTool, KnownAfterRegister
  <2> QED BY <2>2, <2>3 DEF CancelInv
<1>2. ASSUME NEW c \in Clients, NEW op \in Ops, NEW t \in TaskIds, ClientReads(c, op, t)
      PROVE  CancelInv'
  <2>1. ASSUME NEW d \in Clients PROVE ClientProgress(d)'
    <3>1. CASE d # c
      BY <1>0, <1>2, <3>1 DEF CancelInv, ClientReads, ClientProgress, TypeOK
    <3>2. CASE d = c
      BY <1>0, <1>2, <3>2, DurableTasksAssumption
      DEF CancelInv, ClientReads, ClientProgress, TypeOK, KnownAfterRegister
    <3> QED BY <3>1, <3>2
  <2>2. CancelReachesTool'
    BY <1>0, <1>2 DEF CancelInv, CancelReachesTool, ClientReads
  <2> QED BY <2>1, <2>2 DEF CancelInv
<1>3. ASSUME NEW c \in Clients, CancelFlag(c) PROVE CancelInv'
  <2> DEFINE t == cl[c].task
  <2>1. /\ t \in TaskIds /\ UNCHANGED <<wk, row, epoch>>
        /\ flag' = [flag EXCEPT ![t] = flag[t] \/ live[t]]
        /\ cl' = [cl EXCEPT ![c].pc = "write"]
        /\ AcceptsRequests(cl[c].saw) /\ (epoch = 0 => wk[t] # "none")
    BY <1>0, <1>3 DEF CancelInv, ClientProgress, CancelFlag
  <2>2. \A u \in TaskIds : flag[u] => flag'[u]
    BY <2>1, <1>0 DEF TypeOK
  <2>3. wk[t] = "tool" => flag'[t]
    BY <2>1, <1>0 DEF TypeOK, WorkerLifecycle
  <2>4. cl[c] \in ClientStates /\ cl'[c] = [cl[c] EXCEPT !.pc = "write"]
        /\ \A d \in Clients : d # c => cl'[d] = cl[d]
    BY <2>1, <1>0 DEF TypeOK
  <2> HIDE DEF t
  <2>5. ASSUME NEW d \in Clients PROVE ClientProgress(d)'
    <3>1. CASE d # c
      BY <1>0, <2>1, <2>2, <2>4, <3>1 DEF CancelInv, ClientProgress
    <3>2. CASE d = c
      <4>1. cl'[c].task = t /\ cl'[c].saw = cl[c].saw
        BY <2>4 DEF ClientStates, t
      <4> QED BY <1>0, <2>1, <2>3, <4>1, <3>2 DEF ClientProgress
    <3> QED BY <3>1, <3>2
  <2>6. CancelReachesTool'
    BY <1>0, <2>1, <2>2 DEF CancelInv, CancelReachesTool
  <2> QED BY <2>5, <2>6 DEF CancelInv
<1>4. ASSUME NEW c \in Clients, ClientWrites(c) PROVE CancelInv'
  <2> DEFINE t == cl[c].task
  <2>1. /\ UNCHANGED <<wk, flag, epoch>>
        /\ cl[c].pc = "write"
        /\ cl' = [cl EXCEPT ![c].pc = "done"]
        /\ row' = row \/ row' = [row EXCEPT ![t] = ClientRow(t, cl[c].op)]
    BY <1>4 DEF ClientWrites, UpdateRow
  <2>2. t \in TaskIds /\ (cl[c].op = "cancel" /\ epoch = 0 => (wk[t] = "tool" => flag[t]))
    BY <1>0, <2>1 DEF CancelInv, ClientProgress
  <2>3. ASSUME NEW d \in Clients PROVE ClientProgress(d)'
    BY <1>0, <2>1 DEF CancelInv, ClientProgress, TypeOK, ClientStates
  <2> HIDE DEF t
  <2>4. CancelReachesTool'
    <3>1. CASE row' = row
      BY <1>0, <2>1, <3>1 DEF CancelInv, CancelReachesTool
    <3>2. CASE row' = [row EXCEPT ![t] = ClientRow(t, cl[c].op)] /\ cl[c].op = "cancel"
      BY <1>0, <2>1, <2>2, <3>2 DEF CancelInv, CancelReachesTool, ClientRow, RowsOK
    <3>3. CASE row' = [row EXCEPT ![t] = ClientRow(t, cl[c].op)] /\ cl[c].op # "cancel"
      BY <1>0, <2>1, <2>2, <3>3 DEF CancelInv, CancelReachesTool, ClientRow, RowsOK, Rows
    <3> QED BY <2>1, <3>1, <3>2, <3>3
  <2> QED BY <2>3, <2>4 DEF CancelInv
<1>5. CASE Crash
  <2>1. epoch' # 0
    BY <1>0, <1>5, DurableTasksAssumption DEF Crash, TypeOK, Epochs
  <2>2. \A c \in Clients : cl'[c].pc \notin {"flag", "write"}
    BY <1>0, <1>5 DEF Crash, TypeOK, ClientStates
  <2> QED BY <2>1, <2>2 DEF CancelInv, ClientProgress, CancelReachesTool
<1>6. CASE UNCHANGED vars
  BY <1>0, <1>6 DEF vars, CancelInv, ClientProgress, CancelReachesTool
<1> QED
  BY <1>1, <1>2, <1>3, <1>4, <1>5, <1>6 DEF Next, ClientStep

-----------------------------------------------------------------------------
(* The theorems.                                                           *)

\* Every step keeps the inductive invariant.
LEMMA IndInvStep == IndInv /\ [Next]_vars => IndInv'
<1> SUFFICES ASSUME IndInv, [Next]_vars PROVE IndInv'
  OBVIOUS
<1>1. TypeOK'
  BY TypeStep DEF IndInv
<1>2. \A t \in TaskIds : TaskInv(t)'
  BY TaskStep
<1>3. CancelInv'
  BY CancelStep
<1> QED BY <1>1, <1>2, <1>3 DEF IndInv, TaskInv, CancelInv, SettledRowHasPayload

\* The inductive invariant holds in every reachable state of Spec, for any sets of
\* ids and clients, any number of reports and restarts, with or without faults.
THEOREM IndInvHolds == Spec => []IndInv
<1>1. Init => IndInv
  BY InitIndInv
<1>2. IndInv /\ [Next]_vars => IndInv'
  BY IndInvStep
<1> QED BY <1>1, <1>2, PTL DEF Spec

\* Every variable keeps its type, and update_durable_task never invents a row.
THEOREM TypeCorrect == Spec => []TypeOK
<1>1. IndInv => TypeOK
  BY DEF IndInv
<1> QED BY <1>1, IndInvHolds, PTL

\* A call answered inline leaves no durable task behind.
THEOREM InlineCallsLeaveNoRow == Spec => []InlineLeavesNoRow
<1>1. IndInv => InlineLeavesNoRow
  BY DEF IndInv, InlineLeavesNoRow, RowLifecycle
<1> QED BY <1>1, IndInvHolds, PTL

\* A handle names a row of its own call, also after ids are issued again.
THEOREM HandlesHaveRows == Spec => []HandleHasRow
<1>1. IndInv => HandleHasRow
  BY DEF IndInv, HandleHasRow, RowLifecycle
<1> QED BY <1>1, IndInvHolds, PTL

\* A cancellation that is recorded while the tool runs has raised its flag.
THEOREM CancellationReachesTool == Spec => []CancelReachesTool
<1>1. IndInv => CancelReachesTool
  BY DEF IndInv
<1> QED BY <1>1, IndInvHolds, PTL

\* A settled row carries its payload.
THEOREM SettledRowsHavePayload == Spec => []SettledRowHasPayload
<1>1. IndInv => SettledRowHasPayload
  BY DEF IndInv
<1> QED BY <1>1, IndInvHolds, PTL
\* A step that changes the status of a terminal row of this process is a progress
\* report, the worker's last write or a client's write, and the last two rest on
\* a copy of the record that is not terminal.
LEMMA UnsettleStep ==
  ASSUME IndInv, [Next]_vars, NEW u \in TaskIds,
         Current(u), row[u].status \in Terminal, row'[u].status # row[u].status
  PROVE  \/ reports'[u] # reports[u]
         \/ wk[u] = "write" /\ seen[u] \notin Terminal
         \/ \E c \in Clients : /\ cl[c].task = u /\ cl[c].pc = "write"
                               /\ cl[c].saw \notin Terminal
                               /\ cl'[c].pc = "done"
<1>0. TypeOK /\ RowsOK
  BY DEF IndInv, TypeOK
<1>1. ASSUME NEW t \in TaskIds, CreateRow(t), ~Present(t) PROVE FALSE
  BY <1>0, <1>1 DEF CreateRow, RowsOK, Current
<1>2. ASSUME NEW t \in TaskIds, Report(t) PROVE reports'[u] # reports[u]
  <2>1. u = t
    BY <1>0, <1>2 DEF Report, UpdateRow, RowsOK
  <2> QED BY <1>0, <1>2, <2>1, DurableTasksAssumption DEF Report, TypeOK
<1>3. ASSUME NEW t \in TaskIds, WorkerWrites(t)
      PROVE  wk[u] = "write" /\ seen[u] \notin Terminal
  <2>1. u = t
    BY <1>0, <1>3 DEF WorkerWrites, UpdateRow, RowsOK
  <2> QED BY <1>3, <2>1 DEF WorkerWrites, IndInv, WorkerSettles
<1>4. ASSUME NEW c \in Clients, ClientWrites(c)
      PROVE  /\ cl[c].task = u /\ cl[c].pc = "write"
             /\ cl[c].saw \notin Terminal
             /\ cl'[c].pc = "done"
  <2>1. cl[c].task = u
    BY <1>0, <1>4 DEF ClientWrites, UpdateRow, RowsOK
  <2>2. cl[c].pc = "write" /\ cl'[c].pc = "done"
    BY <1>0, <1>4 DEF ClientWrites, TypeOK, ClientStates
  <2>3. AcceptsRequests(cl[c].saw)
    BY <2>2 DEF IndInv, ClientProgress
  <2> QED BY <2>1, <2>2, <2>3 DEF AcceptsRequests, Terminal
<1>5. \/ \E t \in TaskIds : CreateRow(t) /\ ~Present(t)
      \/ \E t \in TaskIds : Report(t) \/ WorkerWrites(t)
      \/ \E c \in Clients : ClientWrites(c)
  <2>1. row' # row
    OBVIOUS
  <2> QED
    BY <2>1
    DEF Next, RequestStep, ToolEnds, WorkerStep, ClientStep, StartCall, CreateExplicit,
        Register, ReplyHandle, RecvResult, RecvTimeout, RecvDisconnected, CreateDeferred,
        ToolReturns, ToolPanics, WorkerReads, WorkerSends, WorkerRemoves, ClientReads,
        CancelFlag, Crash, vars
<1> QED BY <1>1, <1>2, <1>3, <1>4, <1>5

\* No request that arrives after a task has settled changes its status.
THEOREM SettledTasksResist == Spec => OnlyStaleWritersUnsettle
<1>1. IndInv /\ [Next]_vars =>
        [\A t \in TaskIds :
           Current(t) /\ row[t].status \in Terminal /\ row'[t].status # row[t].status =>
             \/ reports'[t] # reports[t]
             \/ wk[t] = "write" /\ seen[t] \notin Terminal
             \/ \E c \in Clients : /\ cl[c].task = t /\ cl[c].pc = "write"
                                   /\ cl[c].saw \notin Terminal
                                   /\ cl'[c].pc = "done"]_vars
  BY UnsettleStep
<1> QED BY <1>1, IndInvHolds, PTL DEF Spec, OnlyStaleWritersUnsettle
=============================================================================
