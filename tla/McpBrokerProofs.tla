--------------------------- MODULE McpBrokerProofs ---------------------------
(***************************************************************************)
(* What holds of the brokers and daemons of one instance for any number of *)
(* brokers, process ids, faults and timeouts.                              *)
(***************************************************************************)
EXTENDS McpBroker, TLAPS

USE McpBrokerAssumption

\* The program counters, spelled out for the provers.
LEMMA Pcs ==
  /\ BrokerPcs = {"lock", "relay", "join", "leave", "delay", "inspect", "clearMeta", "clearSock",
                  "spawn", "wait", "dial", "attach", "done", "failed"}
  /\ DaemonPcs = {"unborn", "clearMeta", "clearSock", "install", "dead", "unlink", "remove",
                  "bind", "secure", "publish", "write", "serving", "exitMeta", "exitSock"}
BY DEF BrokerPcs, Starting, Ended, DaemonPcs, Handling, Listening, Closing

\* The first broker finds no files and no daemon.
LEMMA InitInd == Init => IndInv
<1>. SUFFICES ASSUME Init PROVE IndInv
  OBVIOUS
<1>1. TypeOK
  <2>1. clash \in BOOLEAN /\ stop \in [Brokers -> BOOLEAN] /\ term \in [Daemons -> BOOLEAN]
    BY DEF Init
  <2>2. /\ reconnects \in [Brokers -> 0 .. MAX_DAEMON_RECONNECTS + 1]
        /\ \A i \in Brokers : b[i] # "failed" => reconnects[i] <= MAX_DAEMON_RECONNECTS
    BY DEF Init
  <2>. QED
    BY <2>1, <2>2, Pcs DEF Init, TypeOK
<1>2. CalmInv
  BY DEF Init, CalmInv, CalmDaemons, OnlyDaemon, NoDaemonNoFiles, SpawnerWaits, CalmBrokers,
         BrokerStage, FilesOf, Alive, Starting, Closing
<1>. QED
  BY <1>1, <1>2 DEF IndInv

\* Every step keeps the types and the reconnect bound.
LEMMA TypeStep ==
  ASSUME TypeOK, [Next]_vars
  PROVE  TypeOK'
<1>. USE Pcs DEF RemoveMeta, TypeOK, metafile, files, brokers, daemons, Goto, Release, DaemonGoto
<1>1. ASSUME NEW i \in Brokers, BrokerStep(i) \/ BrokerFault(i) \/ BrokerInput(i)
      PROVE  TypeOK'
  <2>1. CASE AcquireLock(i)
    BY <2>1 DEF AcquireLock
  <2>2. CASE Inspect(i)
    BY <2>2 DEF Inspect
  <2>3. CASE ClearMeta(i)
    BY <2>3 DEF ClearMeta
  <2>4. CASE ClearSock(i)
    BY <2>4 DEF ClearSock
  <2>5. CASE Spawn(i)
    BY <2>5 DEF Spawn
  <2>6. CASE WaitReads(i)
    BY <2>6 DEF WaitReads
  <2>7. CASE Connect(i)
    BY <2>7 DEF Connect, Reachable
  <2>8. CASE Attached(i)
    BY <2>8 DEF Attached
  <2>9. CASE ConnectFails(i)
    BY <2>9 DEF ConnectFails
  <2>10. CASE WaitTimesOut(i)
    BY <2>10 DEF WaitTimesOut
  <2>11. CASE DaemonDied(i)
    BY <2>11 DEF DaemonDied
  <2>12. CASE DelayEnds(i)
    BY <2>12 DEF DelayEnds
  <2>13. CASE StopSeen(i)
    BY <2>13 DEF StopSeen
  <2>14. CASE BrokerSignalled(i)
    BY <2>14 DEF BrokerSignalled
  <2>15. CASE BrokerKilled(i)
    BY <2>15 DEF BrokerKilled, Ended
  <2>16. CASE StdinCloses(i)
    BY <2>16 DEF StdinCloses
  <2>17. CASE StdinThreadJoined(i)
    BY <2>17 DEF StdinThreadJoined
  <2>18. CASE LeaveJoined(i)
    BY <2>18 DEF LeaveJoined
  <2>. QED
    BY <1>1, <2>1, <2>2, <2>3, <2>4, <2>5, <2>6, <2>7, <2>8, <2>9, <2>10, <2>11, <2>12,
       <2>13, <2>14, <2>15, <2>16, <2>17, <2>18 DEF BrokerStep, BrokerFault, BrokerInput
<1>2. ASSUME NEW x \in Daemons, DaemonStep(x) \/ DaemonFault(x)
      PROVE  TypeOK'
  <2>1. CASE DaemonClearMeta(x)
    BY <2>1 DEF DaemonClearMeta
  <2>2. CASE DaemonClearSock(x)
    BY <2>2 DEF DaemonClearSock
  <2>3. CASE InstallSignals(x)
    BY <2>3 DEF InstallSignals
  <2>4. CASE Unlink(x)
    BY <2>4 DEF Unlink
  <2>5. CASE Bind(x)
    BY <2>5 DEF Bind
  <2>6. CASE Publish(x)
    BY <2>6 DEF Publish
  <2>7. CASE WriteMeta(x)
    BY <2>7 DEF WriteMeta
  <2>8. CASE StopServing(x)
    BY <2>8 DEF StopServing
  <2>9. CASE ExitClearMeta(x)
    BY <2>9 DEF ExitClearMeta
  <2>10. CASE ExitClearSock(x)
    BY <2>10 DEF ExitClearSock
  <2>11. CASE DaemonSignalled(x)
    <3>1. CASE d[x] \in Handling \cup Closing
      <4>1. /\ term' = [term EXCEPT ![x] = TRUE] /\ d' = d
            /\ faults < MaxFaults /\ faults' = faults + 1
            /\ UNCHANGED <<lock, meta, draft, sock, b, conn, reconnects, stop, clash>>
        BY <2>11, <3>1 DEF DaemonSignalled
      <4>. QED
        BY <4>1
    <3>2. CASE d[x] \notin Handling \cup Closing
      BY <2>11, <3>2 DEF DaemonSignalled
    <3>. QED
      BY <3>1, <3>2
  <2>12. CASE DaemonKilled(x)
    BY <2>12 DEF DaemonKilled
  <2>13. CASE RemoveStale(x)
    BY <2>13 DEF RemoveStale
  <2>14. CASE SecureSocket(x)
    BY <2>14 DEF SecureSocket
  <2>. QED
    BY <1>2, <2>1, <2>2, <2>3, <2>4, <2>5, <2>6, <2>7, <2>8, <2>9, <2>10, <2>11, <2>12, <2>13,
       <2>14 DEF DaemonStep, DaemonFault
<1>3. CASE UNCHANGED vars
  BY <1>3 DEF vars
<1>. QED
  BY <1>1, <1>2, <1>3 DEF Next

\* While nothing fails, no step of a broker breaks the protocol of the files.
LEMMA CalmBrokerStep ==
  ASSUME TypeOK, TypeOK', Calm, CalmInv, Calm', NEW i \in Brokers,
         BrokerStep(i) \/ BrokerFault(i) \/ BrokerInput(i)
  PROVE  CalmInv'
<1>. USE Pcs DEF RemoveMeta, TypeOK, Calm, metafile, files, brokers, daemons, Goto, Release, CalmInv, CalmDaemons, OnlyDaemon, NoDaemonNoFiles, SpawnerWaits, CalmBrokers, BrokerStage, FilesOf, Alive, Starting, Closing
<1>1. CASE AcquireLock(i)
  BY <1>1 DEF AcquireLock
<1>2. CASE Inspect(i)
  BY <1>2 DEF Inspect
<1>3. CASE ClearMeta(i)
  BY <1>3 DEF ClearMeta
<1>4. CASE ClearSock(i)
  BY <1>4 DEF ClearSock
<1>5. CASE Spawn(i)
  BY <1>5 DEF Spawn
<1>6. CASE WaitReads(i)
  BY <1>6 DEF WaitReads
<1>7. CASE Connect(i)
  BY <1>7 DEF Connect
<1>8. CASE Attached(i)
  BY <1>8 DEF Attached
<1>9. CASE ConnectFails(i)
  <2>1. PICK x \in Daemons : d[x] = "serving"
    BY <1>9 DEF ConnectFails
  <2>2. sock = x /\ Reachable
    BY <2>1 DEF Reachable, Listening
  <2>3. conn[i] # None => Open(conn[i])
    BY DEF Open, Listening
  <2>. QED
    BY <1>9, <2>2, <2>3 DEF ConnectFails
<1>10. CASE WaitTimesOut(i)
  BY <1>10 DEF WaitTimesOut
<1>11. CASE DaemonDied(i)
  <2>1. b[i] = "relay" => Open(conn[i])
    BY DEF Open, Listening
  <2>. QED
    BY <1>11, <2>1 DEF DaemonDied
<1>12. CASE DelayEnds(i)
  BY <1>12 DEF DelayEnds
<1>13. CASE StopSeen(i)
  BY <1>13 DEF StopSeen
<1>14. CASE BrokerSignalled(i)
  BY <1>14 DEF BrokerSignalled
<1>15. CASE BrokerKilled(i)
  BY <1>15 DEF BrokerKilled
<1>16. CASE StdinCloses(i)
  BY <1>16 DEF StdinCloses
<1>17. CASE StdinThreadJoined(i)
  BY <1>17 DEF StdinThreadJoined
<1>18. CASE LeaveJoined(i)
  BY <1>18 DEF LeaveJoined
<1>. QED
  BY <1>1, <1>2, <1>3, <1>4, <1>5, <1>6, <1>7, <1>8, <1>9, <1>10, <1>11, <1>12, <1>13, <1>14,
     <1>15, <1>16, <1>17, <1>18 DEF BrokerStep, BrokerFault, BrokerInput

\* Nor does a step of a daemon.
LEMMA CalmDaemonStep ==
  ASSUME TypeOK, TypeOK', Calm, CalmInv, Calm', NEW x \in Daemons,
         DaemonStep(x) \/ DaemonFault(x)
  PROVE  CalmInv'
<1>. USE Pcs DEF RemoveMeta, TypeOK, Calm, metafile, files, brokers, daemons, DaemonGoto, CalmInv, CalmDaemons, OnlyDaemon, NoDaemonNoFiles, SpawnerWaits, CalmBrokers, BrokerStage, FilesOf, Alive, Starting, Closing
<1>1. CASE DaemonClearMeta(x)
  BY <1>1 DEF DaemonClearMeta
<1>2. CASE DaemonClearSock(x)
  BY <1>2 DEF DaemonClearSock
<1>3. CASE InstallSignals(x)
  BY <1>3 DEF InstallSignals
<1>4. CASE Unlink(x)
  BY <1>4 DEF Unlink
<1>5. CASE Bind(x)
  BY <1>5 DEF Bind
<1>6. CASE Publish(x)
  BY <1>6 DEF Publish
<1>7. CASE WriteMeta(x)
  BY <1>7 DEF WriteMeta
<1>8. CASE StopServing(x)
  BY <1>8 DEF StopServing
<1>9. CASE ExitClearMeta(x)
  BY <1>9 DEF ExitClearMeta
<1>10. CASE ExitClearSock(x)
  BY <1>10 DEF ExitClearSock
<1>11. CASE DaemonSignalled(x)
  BY <1>11 DEF DaemonSignalled
<1>12. CASE DaemonKilled(x)
  BY <1>12 DEF DaemonKilled
<1>13. CASE RemoveStale(x)
  BY <1>13 DEF RemoveStale
<1>14. CASE SecureSocket(x)
  BY <1>14 DEF SecureSocket
<1>. QED
  BY <1>1, <1>2, <1>3, <1>4, <1>5, <1>6, <1>7, <1>8, <1>9, <1>10, <1>11, <1>12, <1>13,
     <1>14 DEF DaemonStep, DaemonFault

\* Calm looks backwards: a fault is never undone, so a calm state was reached
\* through calm states and CalmInv is needed of those only.
LEMMA IndInvStep == IndInv /\ [Next]_vars => IndInv'
<1>. SUFFICES ASSUME IndInv, [Next]_vars PROVE IndInv'
  OBVIOUS
<1>1. TypeOK /\ TypeOK'
  BY TypeStep DEF IndInv
<1>2. Calm' => Calm
  <2>1. faults' \in {faults, faults + 1}
    BY DEF Next, vars, BrokerStep, DaemonStep, BrokerFault, BrokerInput, LeaveJoined, DaemonFault,
         AcquireLock, Inspect, ClearMeta, ClearSock, Spawn, WaitReads, Connect, Attached,
         ConnectFails, WaitTimesOut, DaemonDied, DelayEnds, StopSeen, StdinCloses,
         StdinThreadJoined, BrokerSignalled, BrokerKilled, DaemonClearMeta, DaemonClearSock,
         InstallSignals, Unlink, RemoveStale, Bind, SecureSocket, Publish, WriteMeta, StopServing, ExitClearMeta,
         ExitClearSock, DaemonSignalled, DaemonKilled
  <2>2. ASSUME NEW j \in Brokers, b[j] = "failed" PROVE b'[j] = "failed"
    BY <1>1, <2>2 DEF TypeOK, Goto, Ended, brokers, Next, vars, BrokerStep, DaemonStep, BrokerFault, BrokerInput, LeaveJoined, DaemonFault,
         AcquireLock, Inspect, ClearMeta, ClearSock, Spawn, WaitReads, Connect, Attached,
         ConnectFails, WaitTimesOut, DaemonDied, DelayEnds, StopSeen, StdinCloses,
         StdinThreadJoined, BrokerSignalled, BrokerKilled, DaemonClearMeta, DaemonClearSock,
         InstallSignals, Unlink, RemoveStale, Bind, SecureSocket, Publish, WriteMeta, StopServing, ExitClearMeta,
         ExitClearSock, DaemonSignalled, DaemonKilled
  <2>. QED
    BY <1>1, <2>1, <2>2 DEF Calm, TypeOK
<1>3. ASSUME Calm' PROVE CalmInv'
  <2>1. Calm /\ CalmInv
    BY <1>2, <1>3 DEF IndInv
  <2>2. CASE UNCHANGED vars
    BY <2>1, <2>2 DEF vars, CalmInv, CalmDaemons, OnlyDaemon, NoDaemonNoFiles, SpawnerWaits,
         CalmBrokers, BrokerStage, FilesOf, Alive
  <2>3. CASE Next
    BY <1>1, <1>3, <2>1, <2>3, CalmBrokerStep, CalmDaemonStep DEF Next
  <2>. QED
    BY <2>2, <2>3
<1>. QED
  BY <1>1, <1>3 DEF IndInv

\* The inductive invariant of run_stdio_broker and run_socket_daemon.
THEOREM IndInvHolds == Spec => []IndInv
BY InitInd, IndInvStep, PTL DEF Spec

\* Every variable keeps its type; in particular a broker reconnects at most
\* MAX_DAEMON_RECONNECTS times before run_stdio_broker gives up.
THEOREM TypeCorrect == Spec => []TypeOK
<1>1. IndInv => TypeOK
  BY DEF IndInv
<1>. QED
  BY IndInvHolds, <1>1, PTL

\* Any number of brokers that run_stdio_broker starts at the same time share one
\* daemon, as long as nothing fails: the lock, held from inspect_metadata until the
\* handshake, makes whoever gets it next find the daemon that serves.
THEOREM StartupShares == Spec => []StartupSharesOneDaemon
<1>1. IndInv => StartupSharesOneDaemon
  BY DEF IndInv, Calm, CalmInv, OnlyDaemon, CalmBrokers, BrokerStage, StartupSharesOneDaemon
<1>. QED
  BY IndInvHolds, <1>1, PTL

\* Faults, signals, timeouts and cleanups included, the metadata never names a
\* daemon that is still starting: on_ready is called after the handler is installed.
LEMMA PublishedStep ==
  ASSUME TypeOK, TypeOK', PublishedDaemonHandlesSignals, [Next]_vars
  PROVE  PublishedDaemonHandlesSignals'
<1>. USE DEF TypeOK, PublishedDaemonHandlesSignals, metafile, files, RemoveMeta, brokers, daemons, DaemonGoto
<1>1. ASSUME NEW i \in Brokers, BrokerStep(i) \/ BrokerFault(i) \/ BrokerInput(i)
      PROVE  PublishedDaemonHandlesSignals'
  <2>1. CASE Spawn(i)
    BY <2>1 DEF Spawn
  <2>2. CASE ClearMeta(i)
    BY <2>2 DEF ClearMeta
  <2>3. CASE ~Spawn(i) /\ ~ClearMeta(i)
    <3>1. UNCHANGED <<meta, d>>
      BY <1>1, <2>3 DEF BrokerStep, BrokerFault, BrokerInput, LeaveJoined, AcquireLock, Inspect, ClearSock, WaitReads,
           Connect, Attached, ConnectFails, WaitTimesOut, DaemonDied, DelayEnds, StopSeen,
           StdinCloses, StdinThreadJoined, BrokerSignalled, BrokerKilled
    <3>. QED
      BY <3>1
  <2>. QED
    BY <2>1, <2>2, <2>3
<1>2. ASSUME NEW x \in Daemons, DaemonStep(x) \/ DaemonFault(x)
      PROVE  PublishedDaemonHandlesSignals'
  <2>1. CASE DaemonStep(x)
    BY <2>1 DEF DaemonStep, DaemonClearMeta, DaemonClearSock, InstallSignals, Unlink, RemoveStale, Bind,
         SecureSocket, Publish, WriteMeta, StopServing, ExitClearMeta, ExitClearSock
  <2>2. CASE DaemonFault(x)
    <3>1. meta' = meta /\ (d' = d \/ d' = [d EXCEPT ![x] = "dead"])
      BY <2>2 DEF DaemonFault, DaemonSignalled, DaemonKilled
    <3>. QED
      BY <3>1
  <2>. QED
    BY <1>2, <2>1, <2>2
<1>3. CASE UNCHANGED vars
  BY <1>3 DEF vars
<1>. QED
  BY <1>1, <1>2, <1>3 DEF Next

\* "readiness observers can never signal a process that is not yet handling
\* signals" (socket.rs), for any number of processes and faults.
THEOREM PublishedDaemonsHandleSignals == Spec => []PublishedDaemonHandlesSignals
<1>1. Init => PublishedDaemonHandlesSignals
  BY DEF Init, PublishedDaemonHandlesSignals
<1>2. TypeOK /\ TypeOK' /\ PublishedDaemonHandlesSignals /\ [Next]_vars
        => PublishedDaemonHandlesSignals'
  BY PublishedStep
<1>. QED
  BY TypeCorrect, <1>1, <1>2, PTL DEF Spec

-----------------------------------------------------------------------------
(* One backend, whatever fails, unless the files were used behind a back.  *)

\* The stages of a daemon's start, spelled out.
LEMMA RisingPcs ==
  Rising = {"clearMeta", "clearSock", "install", "unlink", "remove", "bind", "secure",
            "publish", "write"}
BY Pcs DEF Rising, Closing

\* Steps of a broker: it clears the files and spawns when no daemon is left.
LEMMA OrderlyBrokerStep ==
  ASSUME TypeOK, TypeOK', Orderly, ~clash, ~clash', NEW i \in Brokers,
         BrokerStep(i) \/ BrokerFault(i) \/ BrokerInput(i)
  PROVE  Orderly'
<1>. USE Pcs, RisingPcs DEF TypeOK, metafile, files, brokers, daemons, Goto, Release, RemoveMeta,
       Orderly, OneFresh, FreshFiles, BrokerWork, Starting
<1>1. CASE Spawn(i)
  <2>1. b[i] = "spawn" /\ \A x \in Daemons : ~Fresh(x)
    BY <1>1 DEF Spawn
  <2>2. CASE d' = d
    BY <1>1, <2>1, <2>2 DEF Spawn, Fresh
  <2>3. CASE d' # d
    <3>1. PICK y \in Daemons : d' = [d EXCEPT ![y] = "clearMeta"]
      BY <1>1, <2>3 DEF Spawn
    <3>2. /\ b' = [b EXCEPT ![i] = "wait"] /\ term' = term
          /\ UNCHANGED <<lock, meta, sock, draft, conn, reconnects>>
      BY <1>1, <2>3 DEF Spawn
    <3>3. \A x \in Daemons : Fresh(x)' => x = y
      BY <2>1, <3>1, <3>2 DEF Fresh
    <3>. QED
      BY <2>1, <3>1, <3>2, <3>3 DEF Listening
  <2>. QED
    BY <2>2, <2>3
<1>2. CASE ~Spawn(i)
  <2>1. UNCHANGED <<d, term>>
    BY <1>2 DEF BrokerStep, BrokerFault, BrokerInput, LeaveJoined, AcquireLock, Inspect, ClearMeta,
         ClearSock, WaitReads, Connect, Attached, ConnectFails, WaitTimesOut, DaemonDied,
         DelayEnds, StopSeen, StdinCloses, StdinThreadJoined, BrokerSignalled, BrokerKilled
  <2>2. \A x \in Daemons : Fresh(x)' = Fresh(x)
    BY <2>1 DEF Fresh
  <2>3. OneFresh'
    BY <2>2
  <2>4. \A x \in Daemons : Fresh(x) => UNCHANGED <<meta, sock, draft>>
    BY <1>2 DEF BrokerStep, BrokerFault, BrokerInput, LeaveJoined, AcquireLock, Inspect, ClearMeta,
         ClearSock, WaitReads, Connect, Attached, ConnectFails, WaitTimesOut, DaemonDied,
         DelayEnds, StopSeen, StdinCloses, StdinThreadJoined, BrokerSignalled, BrokerKilled
  <2>5. \A x \in Daemons : Fresh(x)' => FreshFiles(x)'
    BY <2>1, <2>2, <2>4
  <2>6. \A j \in Brokers : BrokerWork(j)'
    <3>. HIDE DEF OneFresh, FreshFiles
    <3>1. CASE AcquireLock(i)
      BY <2>1, <2>2, <3>1 DEF AcquireLock
    <3>2. CASE Inspect(i)
      <4>1. /\ b[i] = "inspect" /\ lock = i
            /\ ~Orphaned /\ \A j \in Brokers : ~Reconnecting(j)
            /\ UNCHANGED <<lock, conn, reconnects>>
        BY <3>2 DEF Inspect
      <4>2. \A j \in Brokers : b[j] \in Starting => j = i
        BY <4>1 DEF Reconnecting
      <4>3. \A x \in Daemons : Fresh(x) => d[x] = "serving"
        BY <4>1, <4>2 DEF Orphaned, Fresh
      <4>4. PICK pc \in {"spawn", "attach", "clearMeta"} : b' = [b EXCEPT ![i] = pc]
        BY <3>2 DEF Inspect
      <4>5. ASSUME NEW x \in Daemons, Fresh(x) PROVE b'[i] = "attach"
        <5>1. meta = x /\ sock = x /\ Alive(x)
          BY <4>3, <4>5 DEF FreshFiles, Listening, Alive
        <5>. QED
          BY <3>2, <5>1 DEF Inspect
      <4>6. BrokerWork(i)'
        BY <2>1, <2>2, <4>1, <4>2, <4>3, <4>4, <4>5
      <4>. QED
        BY <2>1, <2>2, <4>1, <4>2, <4>4, <4>6
    <3>3. CASE ClearMeta(i)
      BY <2>1, <2>2, <3>3 DEF ClearMeta
    <3>4. CASE ClearSock(i)
      BY <2>1, <2>2, <3>4 DEF ClearSock
    <3>5. CASE WaitReads(i)
      BY <2>1, <2>2, <3>5 DEF WaitReads
    <3>6. CASE Connect(i)
      BY <2>1, <2>2, <3>6 DEF Connect, FreshFiles, Listening
    <3>7. CASE Attached(i)
      BY <2>1, <2>2, <3>7 DEF Attached
    <3>8. CASE ConnectFails(i)
      <4>1. b[i] = "attach" => \A x \in Daemons : ~Fresh(x)
        BY <3>8 DEF ConnectFails, Reachable, Open, Listening, FreshFiles, Fresh
      <4>. QED
        BY <2>1, <2>2, <3>8, <4>1 DEF ConnectFails
    <3>9. CASE WaitTimesOut(i)
      BY <2>1, <2>2, <3>9 DEF WaitTimesOut
    <3>10. CASE DaemonDied(i)
      BY <2>1, <2>2, <3>10 DEF DaemonDied
    <3>11. CASE DelayEnds(i)
      <4>1. CASE stop[i]
        BY <2>1, <2>2, <3>11, <4>1 DEF DelayEnds
      <4>2. CASE ~stop[i]
        <5>1. /\ b[i] = "delay" /\ b' = [b EXCEPT ![i] = "clearMeta"]
              /\ ~InUse /\ UNCHANGED <<lock, conn, reconnects>>
          BY <3>11, <4>2 DEF DelayEnds
        <5>2. /\ \A x \in Daemons : ~Fresh(x)
              /\ \A j \in Brokers : b[j] \notin Starting
          BY <5>1 DEF InUse
        <5>. QED
          BY <2>1, <2>2, <5>1, <5>2
      <4>. QED
        BY <4>1, <4>2
    <3>12. CASE StopSeen(i)
      BY <2>1, <2>2, <3>12 DEF StopSeen
    <3>13. CASE BrokerSignalled(i)
      BY <2>1, <2>2, <3>13 DEF BrokerSignalled
    <3>14. CASE BrokerKilled(i)
      BY <2>1, <2>2, <3>14 DEF BrokerKilled
    <3>15. CASE StdinCloses(i)
      BY <2>1, <2>2, <3>15 DEF StdinCloses
    <3>16. CASE StdinThreadJoined(i)
      BY <2>1, <2>2, <3>16 DEF StdinThreadJoined
    <3>17. CASE LeaveJoined(i)
      BY <2>1, <2>2, <3>17 DEF LeaveJoined
    <3>. QED
      BY <1>2, <3>1, <3>2, <3>3, <3>4, <3>5, <3>6, <3>7, <3>8, <3>9, <3>10, <3>11, <3>12, <3>13,
         <3>14, <3>15, <3>16, <3>17 DEF BrokerStep, BrokerFault, BrokerInput
  <2>. QED
    BY <2>3, <2>5, <2>6
<1>. QED
  BY <1>1, <1>2

\* Steps of a daemon: one that starts or accepts sessions was so before or was
\* spawned, and only the cleanup of one that ends can reach another's files.
LEMMA OrderlyDaemonStep ==
  ASSUME TypeOK, TypeOK', Orderly, ~clash, ~clash', NEW x \in Daemons,
         DaemonStep(x) \/ DaemonFault(x)
  PROVE  Orderly'
<1>. USE Pcs, RisingPcs DEF TypeOK, metafile, files, brokers, daemons, DaemonGoto, RemoveMeta
<1>1. UNCHANGED <<lock, b, conn, reconnects>>
  BY DEF DaemonStep, DaemonFault, DaemonClearMeta, DaemonClearSock, InstallSignals, Unlink,
       RemoveStale, Bind, SecureSocket, Publish, WriteMeta, StopServing, ExitClearMeta,
       ExitClearSock, DaemonSignalled, DaemonKilled
<1>2. /\ \A y \in Daemons : y # x => d'[y] = d[y] /\ term'[y] = term[y]
      /\ Fresh(x)' => Fresh(x)
      /\ d[x] = "serving" /\ Fresh(x)' => d'[x] = "serving"
  <2>1. CASE DaemonStep(x)
    BY <2>1 DEF DaemonStep, DaemonClearMeta, DaemonClearSock, InstallSignals, Unlink,
       RemoveStale, Bind, SecureSocket, Publish, WriteMeta, StopServing, ExitClearMeta,
       ExitClearSock, Fresh
  <2>2. CASE DaemonSignalled(x)
    <3>1. CASE d[x] \in Handling \cup Closing
      <4>1. d' = d /\ term' = [term EXCEPT ![x] = TRUE]
        BY <2>2, <3>1 DEF DaemonSignalled
      <4>. QED
        BY <4>1 DEF Fresh
    <3>2. CASE d[x] \notin Handling \cup Closing
      <4>1. term' = term /\ d' = [d EXCEPT ![x] = "dead"]
        BY <2>2, <3>2 DEF DaemonSignalled
      <4>. QED
        BY <4>1 DEF Fresh
    <3>. QED
      BY <3>1, <3>2
  <2>3. CASE DaemonKilled(x)
    BY <2>3 DEF DaemonKilled, Fresh
  <2>. QED
    BY <2>1, <2>2, <2>3 DEF DaemonFault
<1>3. \A y \in Daemons : Fresh(y)' => Fresh(y)
  BY <1>2 DEF Fresh
<1>4. OneFresh'
  BY <1>3 DEF Orderly, OneFresh
<1>5. \A i \in Brokers : BrokerWork(i)'
  BY <1>1, <1>2, <1>3 DEF Orderly, BrokerWork
<1>6. ASSUME NEW y \in Daemons, Fresh(y)' PROVE FreshFiles(y)'
  <2>1. Fresh(y) /\ FreshFiles(y) /\ (Fresh(x) => x = y)
    BY <1>3, <1>6 DEF Orderly, OneFresh
  <2>2. CASE DaemonFault(x)
    <3>1. UNCHANGED <<meta, sock, draft>>
      BY <2>2 DEF DaemonFault, DaemonSignalled, DaemonKilled
    <3>2. d'[y] = d[y]
      BY <1>6, <2>2 DEF DaemonFault, DaemonSignalled, DaemonKilled, Fresh
    <3>. QED
      BY <2>1, <3>1, <3>2 DEF FreshFiles
  <2>3. CASE DaemonStep(x) /\ x = y
    <3>. USE DEF FreshFiles, Listening
    <3>1. CASE DaemonClearMeta(x)
      BY <2>1, <2>3, <3>1 DEF DaemonClearMeta
    <3>2. CASE DaemonClearSock(x)
      BY <2>1, <2>3, <3>2 DEF DaemonClearSock
    <3>3. CASE InstallSignals(x)
      BY <2>1, <2>3, <3>3 DEF InstallSignals
    <3>4. CASE Unlink(x)
      BY <2>1, <2>3, <3>4 DEF Unlink
    <3>5. CASE RemoveStale(x)
      BY <2>1, <2>3, <3>5 DEF RemoveStale
    <3>6. CASE Bind(x)
      BY <2>1, <2>3, <3>6 DEF Bind
    <3>7. CASE SecureSocket(x)
      BY <2>1, <2>3, <3>7 DEF SecureSocket
    <3>8. CASE Publish(x)
      BY <2>1, <2>3, <3>8 DEF Publish
    <3>9. CASE WriteMeta(x)
      BY <2>1, <2>3, <3>9 DEF WriteMeta
    <3>10. CASE StopServing(x) \/ ExitClearMeta(x) \/ ExitClearSock(x)
      BY <1>6, <2>3, <3>10 DEF StopServing, ExitClearMeta, ExitClearSock, Fresh
    <3>. QED
      BY <2>3, <3>1, <3>2, <3>3, <3>4, <3>5, <3>6, <3>7, <3>8, <3>9, <3>10 DEF DaemonStep
  <2>4. CASE DaemonStep(x) /\ x # y
    <3>1. ~Fresh(x) /\ d'[y] = d[y]
      BY <1>2, <2>1, <2>4
    <3>2. StopServing(x) \/ ExitClearMeta(x) \/ ExitClearSock(x)
      BY <2>4, <3>1 DEF DaemonStep, DaemonClearMeta, DaemonClearSock, InstallSignals, Unlink,
         RemoveStale, Bind, SecureSocket, Publish, WriteMeta, Fresh
    <3>3. CASE StopServing(x)
      BY <2>1, <3>1, <3>3 DEF StopServing, FreshFiles
    <3>4. CASE ExitClearMeta(x)
      <4>1. d[y] \notin {"write", "serving"} /\ meta' = None /\ UNCHANGED <<sock>>
        BY <2>1, <3>4 DEF ExitClearMeta
      <4>. QED
        BY <2>1, <3>1, <4>1 DEF FreshFiles
    <3>5. CASE ExitClearSock(x)
      <4>1. sock # y /\ sock' = None /\ UNCHANGED <<meta, draft>>
        BY <2>1, <3>5 DEF ExitClearSock
      <4>. QED
        BY <2>1, <3>1, <4>1 DEF FreshFiles
    <3>. QED
      BY <3>2, <3>3, <3>4, <3>5
  <2>. QED
    BY <2>2, <2>3, <2>4
<1>. QED
  BY <1>4, <1>5, <1>6 DEF Orderly

\* The history variable only ever goes up.
LEMMA ClashStays == TypeOK /\ [Next]_vars => (clash => clash')
BY DEF TypeOK, Next, vars, BrokerStep, DaemonStep, BrokerFault, BrokerInput, DaemonFault,
       AcquireLock, Inspect, ClearMeta, ClearSock, Spawn, WaitReads, Connect, Attached,
       ConnectFails, WaitTimesOut, DaemonDied, DelayEnds, StopSeen, StdinCloses, LeaveJoined,
       StdinThreadJoined, BrokerSignalled, BrokerKilled, DaemonClearMeta, DaemonClearSock,
       InstallSignals, Unlink, RemoveStale, Bind, SecureSocket, Publish, WriteMeta, StopServing,
       ExitClearMeta, ExitClearSock, DaemonSignalled, DaemonKilled

\* README.md's "same repo plus same DB reuses one backend", for any number of brokers
\* and daemons and whatever is killed, signalled or times out: run_stdio_broker and
\* run_socket_daemon never have two daemons accept sessions unless a broker looked at
\* the files beside a daemon nobody waits for, a broker reconnected without the lock
\* while they were in use, or DaemonCleanup took the files of another daemon.
THEOREM BrokersShareOneBackend == Spec => []OneBackend
<1>1. Init => OneBackendInv
  BY DEF Init, OneBackendInv, Orderly, OneFresh, FreshFiles, BrokerWork, Fresh, Starting, Rising,
         DaemonPcs
<1>2. TypeOK /\ TypeOK' /\ OneBackendInv /\ [Next]_vars => OneBackendInv'
  <2>. SUFFICES ASSUME TypeOK, TypeOK', OneBackendInv, [Next]_vars, ~clash' PROVE Orderly'
    BY DEF OneBackendInv
  <2>1. ~clash /\ Orderly
    BY ClashStays DEF OneBackendInv
  <2>2. CASE UNCHANGED vars
    BY <2>1, <2>2 DEF vars, Orderly, OneFresh, FreshFiles, BrokerWork, Fresh
  <2>3. CASE Next
    BY <2>1, <2>3, OrderlyBrokerStep, OrderlyDaemonStep DEF Next
  <2>. QED
    BY <2>2, <2>3
<1>3. OneBackendInv => OneBackend
  BY DEF OneBackendInv, Orderly, OneFresh, OneBackend, Open, Fresh
<1>. QED
  BY TypeCorrect, <1>1, <1>2, <1>3, PTL DEF Spec
=============================================================================
