------------------------------ MODULE McpBroker ------------------------------
(***************************************************************************)
(* The stdio brokers (atlas serve) and the repo-scoped daemons (atlas      *)
(* serve-daemon) of one MCP instance, on Unix:                             *)
(*   packages/atlas-cli/src/commands/platform/broker.rs                    *)
(*   packages/atlas-cli/src/commands/platform.rs                           *)
(*   packages/atlas-cli/src/mcp_instance.rs                                *)
(*   packages/atlas-mcp/src/transport/socket.rs                            *)
(*                                                                         *)
(* They are separate processes that meet in three files: the lock file     *)
(* (flock), the metadata file that says which daemon serves, and the       *)
(* socket.  Each removal, write, bind or read of one of them is a step.    *)
(* All of them use one instance, so the repo, database and protocol checks *)
(* of the metadata and the handshake always agree and are left out.        *)
(***************************************************************************)
EXTENDS Naturals

CONSTANTS
  Brokers,     \* broker processes
  Daemons,     \* process ids a daemon can be started with, each used once
  None,        \* no broker, no daemon, no file
  Torn,        \* metadata that does not parse: created and not yet written, or garbled
  Victims,     \* the processes that may be killed or told to terminate
  MaxFaults,   \* bound: how often that happens
  Timeouts,    \* whether the 5 s of wait_for_daemon_ready may run out
  MAX_DAEMON_RECONNECTS   \* reconnects before a broker gives up (3 in broker.rs)

ASSUME McpBrokerAssumption ==
  /\ None \notin Brokers \cup Daemons
  /\ Torn \notin Daemons \cup {None}
  /\ Victims \subseteq Brokers \cup Daemons
  /\ MaxFaults \in Nat
  /\ Timeouts \in BOOLEAN
  /\ MAX_DAEMON_RECONNECTS \in Nat

VARIABLES
  lock,        \* the broker that holds the coordination lock
  meta,        \* mcp.instance.json: the pid in it
  draft,       \* the daemons whose open metadata file is the one at the path
  sock,        \* the socket file: the daemon that bound it
  b,           \* program counter of each broker
  conn,        \* the daemon at the other end of a broker's stream
  reconnects,  \* the broker's reconnect counter
  stop,        \* BrokerShutdown: a signal asked the broker to stop
  d,           \* program counter of each daemon
  term,        \* the daemon's shutdown flag
  faults,      \* processes killed or told to terminate so far (bounded)
  clash        \* history: a broker or daemon acted on the files behind another's back

vars == <<lock, meta, draft, sock, b, conn, reconnects, stop, d, term, faults, clash>>
metafile == <<meta, draft>>
files == <<lock, metafile, sock>>
brokers == <<b, conn, reconnects, stop>>
daemons == <<d, term>>

-----------------------------------------------------------------------------
\* Broker program counters.  From "inspect" to "attach" the broker starts up or,
\* after its daemon died, reconnects.
Ended == {"done", "failed"}
Starting == {"inspect", "clearMeta", "clearSock", "spawn", "wait", "dial", "attach"}
BrokerPcs == {"lock", "relay", "join", "leave", "delay"} \cup Starting \cup Ended

\* Daemon program counters, in the order a daemon goes through them.
Listening == {"secure", "publish", "write", "serving"}
Handling == {"unlink", "remove", "bind"} \cup Listening
Closing == {"exitMeta", "exitSock"}
DaemonPcs == {"unborn", "clearMeta", "clearSock", "install", "dead"}
             \cup Handling \cup Closing
Rising == DaemonPcs \ ({"unborn", "dead", "serving"} \cup Closing)

\* A stream to x is open: x listens, and no signal has made it close the streams
\* it accepted (it accepts none before it serves).
Open(x) == d[x] \in Listening /\ (d[x] = "serving" => ~term[x])
\* Something listens behind the socket path.
Reachable == sock # None /\ d[sock] \in Listening
Alive(x) == d[x] \notin {"unborn", "dead"}

\* x starts, or accepts sessions.
Fresh(x) == d[x] \in Rising \/ (d[x] = "serving" /\ ~term[x])
\* j clears the files, spawns or waits without the lock.
Reconnecting(j) == b[j] \in Starting /\ reconnects[j] > 0
\* A daemon is starting that no broker waits for: whoever spawned it timed out,
\* was stopped or was killed.
Orphaned == /\ \E x \in Daemons : d[x] \in Rising
            /\ \A j \in Brokers : b[j] \notin {"wait", "dial"}
\* A daemon or a broker makes use of the files.
InUse == (\E x \in Daemons : Fresh(x)) \/ (\E j \in Brokers : b[j] \in Starting)

Init ==
  /\ lock = None /\ meta = None /\ draft = {} /\ sock = None
  /\ b = [i \in Brokers |-> "lock"]
  /\ conn = [i \in Brokers |-> None]
  /\ reconnects = [i \in Brokers |-> 0]
  /\ stop = [i \in Brokers |-> FALSE]
  /\ d = [x \in Daemons |-> "unborn"]
  /\ term = [x \in Daemons |-> FALSE]
  /\ faults = 0
  /\ clash = FALSE

-----------------------------------------------------------------------------
(* The broker.                                                             *)

\* The lock guard is dropped when run_stdio_broker attaches or returns.
Release(i) == lock' = IF lock = i THEN None ELSE lock

Goto(i, pc) == b' = [b EXCEPT ![i] = pc]

\* Mutant: the lock is not taken exclusively.
AcquireShared(i) ==
  /\ b[i] = "lock"
  /\ lock' = i
  /\ Goto(i, "inspect")
  /\ UNCHANGED <<metafile, sock, conn, reconnects, stop, daemons, faults, clash>>

\* acquire_lock_blocking
AcquireLock(i) ==
  /\ b[i] = "lock" /\ lock = None
  /\ lock' = i
  /\ Goto(i, "inspect")
  /\ UNCHANGED <<metafile, sock, conn, reconnects, stop, daemons, faults, clash>>

\* inspect_metadata: Missing, Ready or Stale.  process_exists looks for the pid
\* in the process table: it is there while the daemon lives, and may be there
\* afterwards (a child nobody waited for, or another process with that pid).
Inspect(i) ==
  /\ b[i] = "inspect"
  /\ \E processExists \in BOOLEAN :
       /\ meta \in Daemons /\ Alive(meta) => processExists
       /\ LET ready == meta \in Daemons /\ sock # None /\ processExists
          IN  Goto(i, CASE meta = None -> "spawn"
                        [] meta # None /\ ready -> "attach"
                        [] OTHER -> "clearMeta")
  /\ clash' = (clash \/ Orphaned \/ \E j \in Brokers : Reconnecting(j))
  /\ UNCHANGED <<files, conn, reconnects, stop, daemons, faults>>

\* A daemon that has the removed file open writes to nothing.
RemoveMeta == meta' = None /\ draft' = {}

\* clear_runtime_state, two removals.
ClearMeta(i) ==
  /\ b[i] = "clearMeta"
  /\ RemoveMeta
  /\ Goto(i, "clearSock")
  /\ UNCHANGED <<lock, sock, conn, reconnects, stop, daemons, faults, clash>>

ClearSock(i) ==
  /\ b[i] = "clearSock"
  /\ sock' = None
  /\ Goto(i, "spawn")
  /\ UNCHANGED <<lock, metafile, conn, reconnects, stop, daemons, faults, clash>>

\* Mutant: the lock is dropped when the daemon is spawned, before it is ready.
SpawnAndRelease(i) ==
  /\ b[i] = "spawn"
  /\ \E x \in Daemons : /\ d[x] = "unborn"
                         /\ d' = [d EXCEPT ![x] = "clearMeta"]
  /\ Goto(i, "wait") /\ Release(i)
  /\ UNCHANGED <<metafile, sock, conn, reconnects, stop, term, faults, clash>>

\* spawn_daemon_process: a detached child; without a free process it fails.
Spawn(i) ==
  /\ b[i] = "spawn"
  /\ \/ \E x \in Daemons : /\ d[x] = "unborn"
                           /\ d' = [d EXCEPT ![x] = "clearMeta"]
        /\ Goto(i, "wait") /\ UNCHANGED lock
     \/ /\ \A x \in Daemons : d[x] # "unborn"
        /\ Goto(i, "failed") /\ Release(i) /\ UNCHANGED d
  /\ UNCHANGED <<metafile, sock, conn, reconnects, stop, term, faults, clash>>

\* One turn of wait_for_daemon_ready: with metadata that parses, connect.
WaitReads(i) ==
  /\ b[i] = "wait" /\ ~stop[i]
  /\ meta \in Daemons
  /\ Goto(i, "dial")
  /\ UNCHANGED <<files, conn, reconnects, stop, daemons, faults, clash>>

\* UnixStream::connect on the socket path: whoever bound it, if it still listens.
Connect(i) ==
  /\ b[i] \in {"attach", "dial"} /\ conn[i] = None
  /\ Reachable
  /\ conn' = [conn EXCEPT ![i] = sock]
  /\ UNCHANGED <<files, b, reconnects, stop, daemons, faults, clash>>

\* The handshake reply: the daemon's accept loop must be running.
Attached(i) ==
  /\ b[i] \in {"attach", "dial"} /\ conn[i] # None
  /\ d[conn[i]] = "serving" /\ Open(conn[i])
  /\ Goto(i, "relay") /\ Release(i)
  /\ UNCHANGED <<metafile, sock, conn, reconnects, stop, daemons, faults, clash>>

\* connect_to_daemon fails: nothing listens at the path, or the stream closes
\* before a reply.  At start-up that means stale state; the wait loop retries.
ConnectFails(i) ==
  /\ b[i] \in {"attach", "dial"}
  /\ \/ conn[i] = None /\ ~Reachable
     \/ conn[i] # None /\ ~Open(conn[i])
  /\ conn' = [conn EXCEPT ![i] = None]
  /\ Goto(i, IF b[i] = "attach" THEN "clearMeta" ELSE "wait")
  /\ UNCHANGED <<files, reconnects, stop, daemons, faults, clash>>

\* Mutant: the wait loop has no deadline.
WaitForever(i) == FALSE /\ UNCHANGED vars

\* The deadline of wait_for_daemon_ready passes: run_stdio_broker returns the
\* error.  The daemon it spawned is left alone.
WaitTimesOut(i) ==
  /\ Timeouts
  /\ b[i] = "wait"
  /\ Goto(i, "failed") /\ Release(i)
  /\ UNCHANGED <<metafile, sock, conn, reconnects, stop, daemons, faults, clash>>

\* relay_stdio ends with Clean: stdin reached end of file.
StdinCloses(i) ==
  /\ b[i] = "relay" /\ Open(conn[i])
  /\ Goto(i, "done")
  /\ conn' = [conn EXCEPT ![i] = None]
  /\ UNCHANGED <<files, reconnects, stop, daemons, faults, clash>>

\* The daemon's end of the stream closed: DaemonDied.  relay_stdio then joins the
\* thread that reads stdin.
DaemonDied(i) ==
  /\ b[i] = "relay" /\ ~Open(conn[i]) /\ ~stop[i]
  /\ Goto(i, "join")
  /\ conn' = [conn EXCEPT ![i] = None]
  /\ UNCHANGED <<files, reconnects, stop, daemons, faults, clash>>

\* Mutant: one reconnect too many.
StdinThreadJoinedLate(i) ==
  /\ b[i] = "join"
  /\ reconnects' = [reconnects EXCEPT ![i] = @ + 1]
  /\ Goto(i, CASE reconnects[i] > MAX_DAEMON_RECONNECTS -> "failed"
               [] stop[i] /\ reconnects[i] <= MAX_DAEMON_RECONNECTS -> "done"
               [] OTHER -> "delay")
  /\ UNCHANGED <<files, conn, stop, daemons, faults, clash>>

\* That thread blocks in a read of stdin, which closing the socket does not
\* interrupt: it returns when the client sends something (or closes stdin).
StdinThreadJoined(i) ==
  /\ b[i] = "join"
  /\ reconnects' = [reconnects EXCEPT ![i] = @ + 1]
  /\ Goto(i, CASE reconnects[i] >= MAX_DAEMON_RECONNECTS -> "failed"
               [] stop[i] /\ reconnects[i] < MAX_DAEMON_RECONNECTS -> "done"
               [] OTHER -> "delay")
  /\ UNCHANGED <<files, conn, stop, daemons, faults, clash>>

\* broker_reconnect_delay has passed.  Reconnecting does not take the lock.
DelayEnds(i) ==
  /\ b[i] = "delay"
  /\ Goto(i, IF stop[i] THEN "done" ELSE "clearMeta")
  /\ clash' = (clash \/ (~stop[i] /\ InUse))
  /\ UNCHANGED <<files, conn, reconnects, stop, daemons, faults>>

\* A signal: the relay's copy loop is interrupted at once, the wait loop and the
\* delay look at the flag.
BrokerSignalled(i) ==
  /\ b[i] \notin Ended /\ ~stop[i] /\ i \in Victims /\ faults < MaxFaults
  /\ faults' = faults + 1
  /\ stop' = [stop EXCEPT ![i] = TRUE]
  /\ UNCHANGED <<files, b, conn, reconnects, daemons, clash>>

StopSeen(i) ==
  /\ stop[i] /\ b[i] \in {"relay", "wait"}
  /\ \/ Goto(i, "done")
     \/ b[i] = "relay" /\ Goto(i, "leave")
  /\ Release(i)
  /\ conn' = [conn EXCEPT ![i] = None]
  /\ UNCHANGED <<metafile, sock, reconnects, stop, daemons, faults, clash>>

\* A relay that was under way joins its stdin thread first; the handler closes
\* descriptor 0, which leaves a read that already blocks where it is.
LeaveJoined(i) ==
  /\ b[i] = "leave"
  /\ Goto(i, "done")
  /\ UNCHANGED <<files, conn, reconnects, stop, daemons, faults, clash>>

\* The broker is killed.  The operating system drops its lock.
BrokerKilled(i) ==
  /\ b[i] \notin Ended /\ i \in Victims /\ faults < MaxFaults
  /\ faults' = faults + 1
  /\ Goto(i, "failed") /\ Release(i)
  /\ conn' = [conn EXCEPT ![i] = None]
  /\ UNCHANGED <<metafile, sock, reconnects, stop, daemons, clash>>

-----------------------------------------------------------------------------
(* The daemon.                                                             *)

DaemonGoto(x, from, to) == d[x] = from /\ d' = [d EXCEPT ![x] = to]

\* run_socket_daemon: clear_runtime_state, whoever the files belong to.
DaemonClearMeta(x) ==
  /\ DaemonGoto(x, "clearMeta", "clearSock")
  /\ RemoveMeta
  /\ UNCHANGED <<lock, sock, brokers, term, faults, clash>>

\* Mutant: the metadata is written before the server runs.
DaemonPublishesEarly(x) ==
  /\ DaemonGoto(x, "clearSock", "install")
  /\ sock' = None /\ meta' = x
  /\ UNCHANGED <<lock, draft, brokers, term, faults, clash>>

DaemonClearSock(x) ==
  /\ DaemonGoto(x, "clearSock", "install")
  /\ sock' = None
  /\ UNCHANGED <<lock, metafile, brokers, term, faults, clash>>

\* install_socket_shutdown_handler, before the socket is visible.
InstallSignals(x) ==
  /\ DaemonGoto(x, "install", "unlink")
  /\ UNCHANGED <<files, brokers, term, faults, clash>>

\* A socket file that is there is removed; if it is gone by then, remove_file fails
\* and the server returns the error, which still runs DaemonCleanup.
Unlink(x) ==
  /\ DaemonGoto(x, "unlink", IF sock = None THEN "bind" ELSE "remove")
  /\ UNCHANGED <<files, brokers, term, faults, clash>>

RemoveStale(x) ==
  /\ DaemonGoto(x, "remove", IF sock = None THEN "exitMeta" ELSE "bind")
  /\ sock' = None
  /\ UNCHANGED <<lock, metafile, brokers, term, faults, clash>>

\* UnixListener::bind fails when a socket file is there.
Bind(x) ==
  /\ \/ sock = None /\ DaemonGoto(x, "bind", "secure") /\ sock' = x
     \/ sock # None /\ DaemonGoto(x, "bind", "exitMeta") /\ UNCHANGED sock
  /\ UNCHANGED <<lock, metafile, brokers, term, faults, clash>>

\* secure_socket_path: the permissions of whatever is at the path, if anything is.
SecureSocket(x) ==
  /\ DaemonGoto(x, "secure", IF sock = None THEN "exitMeta" ELSE "publish")
  /\ UNCHANGED <<files, brokers, term, faults, clash>>

\* on_ready: fs::write of the metadata, create or truncate and then fill.
Publish(x) ==
  /\ DaemonGoto(x, "publish", "write")
  /\ meta' = Torn /\ draft' = draft \cup {x}
  /\ UNCHANGED <<lock, sock, brokers, term, faults, clash>>

\* Over what another daemon wrote since, the text may end in the rest of it.
WriteMeta(x) ==
  /\ DaemonGoto(x, "write", "serving")
  /\ IF x \in draft THEN meta' = x \/ (meta # Torn /\ meta' = Torn) ELSE UNCHANGED meta
  /\ draft' = draft \ {x}
  /\ UNCHANGED <<lock, sock, brokers, term, faults, clash>>

\* The accept loop sees the shutdown flag and returns.
StopServing(x) ==
  /\ term[x] /\ DaemonGoto(x, "serving", "exitMeta")
  /\ UNCHANGED <<files, brokers, term, faults, clash>>

\* DaemonCleanup: clear_runtime_state again, whoever the files belong to now.
ExitClearMeta(x) ==
  /\ DaemonGoto(x, "exitMeta", "exitSock")
  /\ RemoveMeta
  /\ clash' = (clash \/ \E y \in Daemons : Fresh(y) /\ d[y] \in {"write", "serving"})
  /\ UNCHANGED <<lock, sock, brokers, term, faults>>

ExitClearSock(x) ==
  /\ DaemonGoto(x, "exitSock", "dead")
  /\ sock' = None
  /\ clash' = (clash \/ (sock # None /\ Fresh(sock)))
  /\ UNCHANGED <<lock, metafile, brokers, term, faults>>

\* SIGTERM or SIGINT: before the handler is installed the default action ends
\* the process; afterwards the handler sets the flag and closes the streams.
DaemonSignalled(x) ==
  /\ Alive(x) /\ ~term[x] /\ x \in Victims /\ faults < MaxFaults
  /\ faults' = faults + 1
  /\ IF d[x] \in Handling \cup Closing
     THEN term' = [term EXCEPT ![x] = TRUE] /\ UNCHANGED d
     ELSE d' = [d EXCEPT ![x] = "dead"] /\ UNCHANGED term
  /\ UNCHANGED <<files, brokers, clash>>

\* The daemon crashes or is killed: the files stay behind.
DaemonKilled(x) ==
  /\ Alive(x) /\ x \in Victims /\ faults < MaxFaults
  /\ faults' = faults + 1
  /\ d' = [d EXCEPT ![x] = "dead"]
  /\ UNCHANGED <<files, brokers, term, clash>>

-----------------------------------------------------------------------------
BrokerStep(i) ==
  \/ AcquireLock(i) \/ Inspect(i) \/ ClearMeta(i) \/ ClearSock(i) \/ Spawn(i)
  \/ WaitReads(i) \/ Connect(i) \/ Attached(i) \/ ConnectFails(i) \/ WaitTimesOut(i)
  \/ DaemonDied(i) \/ DelayEnds(i) \/ StopSeen(i)
DaemonStep(x) ==
  \/ DaemonClearMeta(x) \/ DaemonClearSock(x) \/ InstallSignals(x) \/ Unlink(x)
  \/ RemoveStale(x) \/ Bind(x) \/ SecureSocket(x) \/ Publish(x) \/ WriteMeta(x) \/ StopServing(x)
  \/ ExitClearMeta(x) \/ ExitClearSock(x)
BrokerInput(i) == StdinCloses(i) \/ StdinThreadJoined(i) \/ LeaveJoined(i)
BrokerFault(i) == BrokerSignalled(i) \/ BrokerKilled(i)
DaemonFault(x) == DaemonSignalled(x) \/ DaemonKilled(x)

Next ==
  \/ \E i \in Brokers : BrokerStep(i) \/ BrokerInput(i) \/ BrokerFault(i)
  \/ \E x \in Daemons : DaemonStep(x) \/ DaemonFault(x)

Spec == Init /\ [][Next]_vars

\* Processes that run keep running, flock is granted to whoever keeps asking, and
\* the 5 s of the wait loop pass.  The client of a broker need not send anything
\* or close stdin, and no process has to fail.
FairSpec ==
  /\ Spec
  /\ \A i \in Brokers : /\ WF_vars(BrokerStep(i))
                         /\ SF_vars(AcquireLock(i)) /\ SF_vars(WaitTimesOut(i))
  /\ \A x \in Daemons : WF_vars(DaemonStep(x))

-----------------------------------------------------------------------------
(* Properties.                                                             *)

\* Every variable keeps its type, and a broker whose daemons died more than
\* MAX_DAEMON_RECONNECTS times has given up.
TypeOK ==
  /\ lock \in Brokers \cup {None}
  /\ meta \in Daemons \cup {None, Torn}
  /\ draft \subseteq Daemons
  /\ sock \in Daemons \cup {None}
  /\ b \in [Brokers -> BrokerPcs]
  /\ conn \in [Brokers -> Daemons \cup {None}]
  /\ reconnects \in [Brokers -> 0 .. MAX_DAEMON_RECONNECTS + 1]
  /\ stop \in [Brokers -> BOOLEAN]
  /\ d \in [Daemons -> DaemonPcs]
  /\ term \in [Daemons -> BOOLEAN]
  /\ faults \in 0..MaxFaults
  /\ clash \in BOOLEAN
  /\ \A i \in Brokers : b[i] # "failed" => reconnects[i] <= MAX_DAEMON_RECONNECTS

\* README.md: "same repo plus same DB reuses one backend".  However many brokers
\* start, reconnect, time out, are stopped or killed and whatever daemons are killed
\* or told to terminate, no two daemons accept sessions at a time, unless one of
\* three things went before (clash):
\*  - a broker looked at the files while a daemon was starting that the broker
\*    which spawned it no longer waited for;
\*  - a broker reconnected, which it does without the lock, while a daemon was
\*    starting or accepting sessions or another broker was between its own look at
\*    the files and its attachment, or another broker looked while it was at it;
\*  - the cleanup of a daemon that ended took a file of one that accepts sessions
\*    or is about to.
OneBackend ==
  ~clash =>
    \A x, y \in Daemons :
      d[x] = "serving" /\ Open(x) /\ d[y] = "serving" /\ Open(y) => x = y

\* Brokers that start up together, however they interleave, attach to one daemon
\* and start no other: while no process was killed or signalled and no broker has
\* given up, at most one daemon process exists and every relay goes to it.
StartupSharesOneDaemon ==
  faults = 0 /\ (\A i \in Brokers : b[i] # "failed") =>
    /\ \A x, y \in Daemons : Alive(x) /\ Alive(y) => x = y
    /\ \A i \in Brokers : b[i] = "relay" => d[conn[i]] = "serving"

\* What socket.rs says of on_ready: "readiness observers can never signal a
\* process that is not yet handling signals".  Whoever is in the metadata serves,
\* is on its way out and about to remove the file, or was killed; it is never a
\* daemon that is still starting or that has finished its own cleanup.
PublishedDaemonHandlesSignals ==
  meta \in Daemons => d[meta] \in {"serving", "exitMeta", "dead"}

\* A broker that starts or reconnects gets somewhere: no broker waits for the
\* lock for ever, since whoever holds it attaches, fails, times out, is stopped or
\* is killed, and then lets go; and no files left behind by killed processes make
\* it go round in circles.
StartupEnds ==
  \A i \in Brokers :
    b[i] \in {"lock", "delay"} ~> b[i] \in {"relay", "join", "leave"} \cup Ended

-----------------------------------------------------------------------------
(* The inductive invariant behind StartupSharesOneDaemon.                  *)

Calm == faults = 0 /\ \A i \in Brokers : b[i] # "failed"

\* What the files hold at each stage of the only daemon's start.
FilesOf(x) ==
  /\ d[x] \in {"clearMeta", "clearSock", "install", "unlink", "bind"} =>
       meta = None /\ sock = None
  /\ d[x] # "remove"
  /\ d[x] \in {"secure", "publish"} => meta = None /\ sock = x
  /\ d[x] = "write" => meta = Torn /\ x \in draft /\ sock = x
  /\ d[x] = "serving" => meta = x /\ sock = x

\* Where the brokers can be, and what each stage has established.
BrokerStage(i) ==
  /\ b[i] \notin {"clearMeta", "clearSock", "join", "leave", "delay"}
  /\ b[i] \in Starting => lock = i
  /\ b[i] = "spawn" => \A x \in Daemons : d[x] = "unborn"
  /\ b[i] = "wait" => \E x \in Daemons : Alive(x)
  /\ b[i] \in {"dial", "attach"} => \E x \in Daemons : d[x] = "serving"
  /\ conn[i] # None => d[conn[i]] = "serving"
  /\ b[i] = "relay" => conn[i] # None

\* A daemon never leaves its start-up sequence.
CalmDaemons ==
  \A x \in Daemons : ~term[x] /\ d[x] \notin Closing \cup {"dead"} /\ FilesOf(x)

OnlyDaemon == \A x, y \in Daemons : Alive(x) /\ Alive(y) => x = y

NoDaemonNoFiles == (\A x \in Daemons : d[x] = "unborn") => meta = None /\ sock = None

\* Whoever started a daemon waits, with the lock, until it serves.
SpawnerWaits ==
  \A x \in Daemons : Alive(x) /\ d[x] # "serving" => \E i \in Brokers : b[i] = "wait"

CalmBrokers == \A i \in Brokers : ~stop[i] /\ BrokerStage(i)

CalmInv == CalmDaemons /\ OnlyDaemon /\ NoDaemonNoFiles /\ SpawnerWaits /\ CalmBrokers

IndInv == TypeOK /\ (Calm => CalmInv)

-----------------------------------------------------------------------------
(* The inductive invariant behind OneBackend.                              *)

\* At most one daemon starts or accepts sessions.
OneFresh == \A x, y \in Daemons : Fresh(x) /\ Fresh(y) => x = y

\* The files that daemon leaves behind, stage by stage.
FreshFiles(x) ==
  /\ d[x] \in {"clearSock", "install", "unlink", "remove", "bind", "secure", "publish"} =>
       meta = None
  /\ d[x] = "bind" => sock = None
  /\ d[x] = "write" => meta = Torn /\ x \in draft
  /\ d[x] = "serving" => meta = x
  /\ d[x] \in Listening => sock = x

\* A broker that has not reconnected starts up with the lock; past its look at the
\* files one broker is at work at a time; it clears the files and spawns when no
\* daemon is left, and attaches to the one that is there.
BrokerWork(i) ==
  /\ b[i] \in Starting /\ reconnects[i] = 0 => lock = i
  /\ b[i] \in {"lock", "inspect"} => reconnects[i] = 0 /\ conn[i] = None
  /\ b[i] = "delay" => reconnects[i] > 0
  /\ b[i] \in Starting \ {"inspect"} =>
       \A j \in Brokers : b[j] \in Starting \ {"inspect"} => i = j
  /\ b[i] \in {"clearMeta", "clearSock", "spawn"} => \A x \in Daemons : ~Fresh(x)
  /\ b[i] = "attach" =>
       \A x \in Daemons : Fresh(x) => d[x] = "serving" /\ conn[i] \in {None, x}

Orderly ==
  /\ OneFresh
  /\ \A x \in Daemons : Fresh(x) => FreshFiles(x)
  /\ \A i \in Brokers : BrokerWork(i)

OneBackendInv == ~clash => Orderly
=============================================================================
