----------------------------- MODULE NudgeLifecycle -----------------------------
(***************************************************************************)
(* Who starts nudge's daemon, and who stops it: commands that ping it,     *)
(* start one that is not there and wait for it (app.rs, ensure_daemon),    *)
(* the service manager it may be registered with (register/), the lock     *)
(* that admits one daemon (daemon.rs) and the exits that let go of it.     *)
(*                                                                         *)
(* All have the same state directory and runtime directory (paths.rs).     *)
(* Each client runs one command, which pings, then asks.  A user installs  *)
(* and uninstalls the service.  What a daemon does with a request, and     *)
(* with jobs, is NudgeDaemon's.                                            *)
(***************************************************************************)
EXTENDS NudgeServer

CONSTANTS
  BuildOf,     \* the build of each client; of the registered binary under "unit"
  Managers,    \* the service managers to consider: "Systemd", "Launchd"
  MaxPolls,    \* bound: how often a started daemon is looked for (5 s, every 100 ms)
  MaxWaits,    \* bound: how often uninstall looks for the one it stopped
  MaxAdmin,    \* bound: install and uninstall commands
  MaxFaults    \* bound: kills, refused threads, errors, slow answers

ASSUME LifecycleConstants ==
  /\ MaxPolls \in Nat /\ MaxWaits \in Nat /\ MaxAdmin \in Nat /\ MaxFaults \in Nat
  /\ Managers \subseteq {"Systemd", "Launchd"}

VARIABLES
  main,      \* where each daemon's main thread is: off, lock, load or run
  lock,      \* who holds nudge.lock
  unit,      \* the registered service: its daemon, and what the manager does with it
  manager,   \* which manager this machine has
  cmd,       \* each client's command
  admin,     \* the install or uninstall under way
  faults     \* how many there were

lifeVars == <<main, lock, unit, cmd, admin, faults, manager>>
vars     == <<serverVars, lifeVars>>

Init ==
  /\ IpcInit
  /\ main = [d \in Daemons |-> "off"] /\ lock = None
  /\ build = [d \in Daemons |-> None]
  /\ manager \in Managers
  /\ unit = [loaded |-> FALSE, state |-> "inactive", runs |-> None, dying |-> FALSE]
  /\ cmd = [c \in Clients |-> [pc |-> "idle", polls |-> MaxPolls]]
  /\ admin = [pc |-> "idle", waits |-> 0, count |-> 0,
              late |-> FALSE, answered |-> 0, noted |-> FALSE]
  /\ faults = 0

Fault == faults < MaxFaults /\ faults' = faults + 1

\* Told to end: it takes no step of its own any more, but is not gone yet.
Dying(d) == unit.runs = d /\ unit.dying

-----------------------------------------------------------------------------
(***************************************************************************)
(* A daemon's life.                                                        *)
(***************************************************************************)
Off == {d \in Daemons : main[d] = "off"}

\* The next free process.
Free(d) == d \in Off /\ \A e \in Off : d <= e

Starts(d, b) ==
  /\ Free(d)
  /\ main' = [main EXCEPT ![d] = "lock"] /\ build' = [build EXCEPT ![d] = b]

\* What of u's connection is left when `d` is gone.
Severed(u, d) ==
  IF In(u, d, {"backlog", "worker", "inline"}) THEN [conn[u] EXCEPT !.at = "lost"] ELSE conn[u]

\* The system closes what a process had open.
Ends(d) ==
  /\ main' = [main EXCEPT ![d] = "off"]
  /\ lock' = IF lock = d THEN None ELSE lock
  /\ socket' = Unheard(d)
  /\ ipc' = [ipc EXCEPT ![d] = "none"] /\ live' = [live EXCEPT ![d] = 0]
  /\ conn' = [u \in Users |-> Severed(u, d)]
  /\ UNCHANGED build

\* Restart=on-failure, KeepAlive.SuccessfulExit = false: what fails is started
\* again, unless it was told to end.
UnitEnds(d, failed) ==
  unit' = IF unit.runs # d THEN unit
          ELSE [unit EXCEPT !.runs = None, !.dying = FALSE,
                            !.state = IF failed /\ ~unit.dying THEN "failed" ELSE "inactive"]

\* process::exit: systemd and launchd take 0 for success.
Exit(d, code) == Ends(d) /\ UnitEnds(d, code # 0) /\ UNCHANGED <<cmd, admin, manager>>

\* A plausible slip: the lock is let go of as soon as it is had.
BugAcquire(d) ==
  /\ lock = None /\ lock' = None
  /\ main' = [main EXCEPT ![d] = "load"]
  /\ UNCHANGED <<serverVars, unit, cmd, admin, manager>>

Acquire(d) ==
  /\ lock = None /\ lock' = d
  /\ main' = [main EXCEPT ![d] = "load"]
  /\ UNCHANGED <<serverVars, unit, cmd, admin, manager>>

\* A plausible slip: losing the lock is a failure.
BugWouldBlock(d) == lock # None /\ Exit(d, 1)

\* Another has it, which lib::run does not count as a failure.
WouldBlock(d) == lock # None /\ Exit(d, 0)

acquire_singleton_lock(d) ==
  /\ main[d] = "lock" /\ ~Dying(d)
  /\ Acquire(d) \/ WouldBlock(d)
  /\ UNCHANGED faults

\* The queue is read, and the IPC thread and the loop begin.
Load(d) ==
  /\ main[d] = "load" /\ ~Dying(d)
  /\ main' = [main EXCEPT ![d] = "run"] /\ ipc' = [ipc EXCEPT ![d] = "probe"]
  /\ UNCHANGED <<socket, conn, live, build, lock, unit, cmd, admin, manager, faults>>

LoadFails(d) == main[d] = "load" /\ ~Dying(d) /\ Fault /\ Exit(d, 1)

\* A plausible slip: it is only logged.
BugOnServeExit(d) ==
  /\ ipc[d] = "returned" /\ ipc' = [ipc EXCEPT ![d] = "gone"]
  /\ UNCHANGED <<socket, conn, live, build, lifeVars>>

on_serve_exit(d) == ipc[d] = "returned" /\ ~Dying(d) /\ Exit(d, 1) /\ UNCHANGED faults

\* SIGTERM (pkill) is a clean end to systemd, and no success to launchd.
Killed(d) ==
  /\ main[d] # "off" /\ Fault
  /\ \E signal \in {"TERM", "KILL"} :
       Ends(d) /\ UnitEnds(d, signal = "KILL" \/ manager = "Launchd")
  /\ UNCHANGED <<cmd, admin, manager>>

Dies(d) == Dying(d) /\ Exit(d, 0) /\ UNCHANGED faults

Server(d) ==
  /\ ~Dying(d)
  /\ Binding(d) \/ \E u \in Users : Serving(d, u)
  /\ UNCHANGED lifeVars

ServerFault(d) ==
  /\ ~Dying(d) /\ Fault
  /\ AcceptFatal(d) \/ \E u \in Users : SpawnRefused(d, u)
  /\ UNCHANGED <<main, lock, unit, cmd, admin, manager>>

Daemon(d) ==
  \/ acquire_singleton_lock(d) \/ Load(d) \/ on_serve_exit(d) \/ Dies(d) \/ Server(d)

-----------------------------------------------------------------------------
(***************************************************************************)
(* A command's life.                                                       *)
(***************************************************************************)
Becomes(c, pc) == cmd' = [cmd EXCEPT ![c].pc = pc]

Connects(c, pc) ==
  /\ Listening /\ connect(c) /\ Becomes(c, pc)
  /\ UNCHANGED <<socket, ipc, live, build, main, lock, unit, admin, manager, faults>>

\* Nobody listens (NotFound, ConnectionRefused): a daemon is started.
spawn_daemon(c) ==
  /\ cmd[c].pc = "idle" /\ ~Listening
  /\ Becomes(c, "polling")
  /\ \E d \in Daemons : Starts(d, BuildOf[c])
  /\ UNCHANGED <<socket, ipc, conn, live, lock, unit, admin, manager, faults>>

Ping(c) == cmd[c].pc = "idle" /\ Connects(c, "pinging")

\* One more look taken.
Looked(c) ==
  LET left == cmd[c].polls
  IN cmd' = [cmd EXCEPT ![c] = IF left = 0 THEN [pc |-> "down", polls |-> 0]
                               ELSE [pc |-> "polling", polls |-> left - 1]]

Poll(c) ==
  /\ cmd[c].pc = "polling"
  /\ \/ cmd[c].polls > 0 /\ Connects(c, "polled")
     \/ /\ ~Listening \/ cmd[c].polls = 0
        /\ Looked(c)
        /\ UNCHANGED <<serverVars, main, lock, unit, admin, manager, faults>>

\* check_handshake: another build is told of, and not used.
check_handshake(c) == Becomes(c, IF conn[c].says = BuildOf[c] THEN "ready" ELSE "stale")

Hears(c) ==
  /\ conn[c].at = "replied"
  /\ IF cmd[c].pc = "asking" THEN Becomes(c, "done") ELSE check_handshake(c)
  /\ conn' = [conn EXCEPT ![c] = NoConn]
  /\ UNCHANGED <<socket, ipc, live, build, main, lock, unit, admin, manager, faults>>

\* An exchange that failed: another look, if it was one; else another build is
\* blamed, whatever happened.
Fails(c) == IF cmd[c].pc = "polled" THEN Looked(c) ELSE Becomes(c, "stale")

HearsNothing(c) ==
  /\ conn[c].at = "lost" /\ Fails(c)
  /\ conn' = [conn EXCEPT ![c] = NoConn]
  /\ UNCHANGED <<socket, ipc, live, build, main, lock, unit, admin, manager, faults>>

\* The client's own timeout; whoever has the connection reads its end.
GivesUp(c) ==
  /\ conn[c].at \in {"backlog", "worker", "inline"} /\ Fault /\ Fails(c)
  /\ conn' = [conn EXCEPT ![c] = NoConn]
  /\ Leave(c)
  /\ UNCHANGED <<socket, build, main, lock, unit, admin, manager>>

request(c) ==
  /\ cmd[c].pc = "ready"
  /\ \/ Connects(c, "asking")
     \/ ~Listening /\ Becomes(c, "failed")
        /\ UNCHANGED <<serverVars, main, lock, unit, admin, manager, faults>>

Client(c) ==
  Ping(c) \/ spawn_daemon(c) \/ Poll(c) \/ Hears(c) \/ HearsNothing(c) \/ request(c)

-----------------------------------------------------------------------------
(***************************************************************************)
(* The service manager, and the commands that register with it.            *)
(***************************************************************************)
\* It starts the registered binary.
UnitStarts ==
  /\ unit.runs = None
  /\ \E d \in Daemons :
       /\ Starts(d, BuildOf["unit"])
       /\ unit' = [unit EXCEPT !.loaded = TRUE, !.state = "active", !.runs = d]
  /\ UNCHANGED <<socket, ipc, conn, live, lock, cmd, manager, faults>>

Restart == unit.state = "failed" /\ unit.loaded /\ UnitStarts /\ UNCHANGED admin

\* systemd knows whether the process runs, launchd whether the label is loaded.
managed_daemon_is_active ==
  IF manager = "Systemd" THEN unit.state = "active" ELSE unit.loaded

Admin(pc) == admin' = [admin EXCEPT !.pc = pc]

OnlyAdmin == UNCHANGED <<serverVars, main, lock, unit, cmd, manager, faults>>

\* For the property only: `late` is whether the daemon was on its way out before
\* the command began, `answered` how many looks found the one being stopped, and
\* `noted` whether the note was about it.
Begins(pc) ==
  /\ admin.pc = "idle" /\ admin.count < MaxAdmin
  /\ admin' = [admin EXCEPT !.pc = pc, !.count = @ + 1, !.waits = MaxWaits,
                            !.late = unit.dying, !.answered = 0, !.noted = FALSE]

\* A daemon that answers must be the managed one.
Install       == Begins(IF Listening THEN "install: active?" ELSE "install: write") /\ OnlyAdmin
InstallActive ==
  /\ admin.pc = "install: active?"
  /\ Admin(IF managed_daemon_is_active THEN "install: write" ELSE "idle")
  /\ OnlyAdmin

\* bootout: launchd unloads the label and ends its process in its own time.
BootedOut ==
  unit' = IF unit.runs = None THEN [unit EXCEPT !.loaded = FALSE, !.state = "inactive"]
          ELSE [unit EXCEPT !.loaded = FALSE, !.dying = TRUE]

InstallWrite ==
  /\ admin.pc = "install: write" /\ Admin("install: enable")
  /\ IF manager = "Launchd" THEN BootedOut ELSE UNCHANGED unit
  /\ UNCHANGED <<serverVars, main, lock, cmd, manager, faults>>

NoneStarted == unit.runs # None /\ UNCHANGED <<serverVars, main, lock, unit, cmd, manager, faults>>

\* A running unit is left alone.
enable_now == manager = "Systemd" /\ (UnitStarts \/ NoneStarted)

\* While the old process is going it fails, and the label stays unloaded.
bootstrap == manager = "Launchd" /\ (UnitStarts \/ NoneStarted)

InstallEnable ==
  /\ admin.pc = "install: enable" /\ Admin("idle")
  /\ enable_now \/ bootstrap

\* managed_was_active decides whether to wait.
Uninstall ==
  /\ Begins(IF managed_daemon_is_active THEN "uninstall: stop" ELSE "uninstall: stop only")
  /\ OnlyAdmin

Stopping == {"uninstall: stop", "uninstall: stop only"}

\* disable --now returns when the process is gone.
Stop ==
  /\ admin.pc \in Stopping
  /\ Admin(IF admin.pc = "uninstall: stop" THEN "uninstall: wait" ELSE "uninstall: note")
  /\ IF manager = "Systemd" /\ unit.runs # None
     THEN /\ Ends(unit.runs)
          /\ unit' = [unit EXCEPT !.loaded = FALSE, !.state = "inactive", !.runs = None]
     ELSE BootedOut /\ UNCHANGED <<serverVars, main, lock>>
  /\ UNCHANGED <<cmd, manager, faults>>

\* A plausible slip: the process is taken to be gone.
BugWait ==
  /\ admin.pc = "uninstall: wait" /\ Admin("uninstall: note")
  /\ OnlyAdmin

\* The one being stopped still answers.
StillAnswers == Listening /\ socket = unit.runs

\* One look after another until none answers or all are taken; then the note,
\* whoever it is that answers by now.
Wait ==
  /\ admin.pc = "uninstall: wait"
  /\ IF Listening /\ admin.waits > 0
     THEN admin' = [admin EXCEPT !.waits = @ - 1,
                                 !.answered = IF StillAnswers THEN @ + 1 ELSE @]
     ELSE Admin("uninstall: note")
  /\ OnlyAdmin

\* The note: a daemon still runs, and was not started by the registration.
Note ==
  /\ admin.pc = "uninstall: note"
  /\ admin' = [admin EXCEPT !.pc = "idle", !.noted = StillAnswers]
  /\ OnlyAdmin

Service == Restart \/ InstallActive \/ InstallWrite \/ InstallEnable \/ Stop \/ Wait \/ Note

-----------------------------------------------------------------------------
Faulty(d) == LoadFails(d) \/ Killed(d) \/ ServerFault(d)

Next ==
  \/ \E d \in Daemons : Daemon(d) \/ Faulty(d)
  \/ \E c \in Clients : Client(c) \/ GivesUp(c)
  \/ \E p \in Peers : Stall(p) /\ UNCHANGED lifeVars
  \/ Service \/ Install \/ Uninstall

Spec == Init /\ [][Next]_vars

\* The system runs the daemons' threads and the manager; whether a command is
\* given, and how soon it looks again, is up to its user.
FairSpec ==
  /\ Spec
  /\ \A d \in Daemons : WF_vars(acquire_singleton_lock(d)) /\ WF_vars(Load(d))
                        /\ WF_vars(on_serve_exit(d)) /\ WF_vars(Dies(d))
                        /\ WF_vars(~Dying(d) /\ Binding(d) /\ UNCHANGED lifeVars)
  /\ \A d \in Daemons, u \in Users :
       WF_vars(~Dying(d) /\ Serving(d, u) /\ UNCHANGED lifeVars)
  /\ WF_vars(Restart)

-----------------------------------------------------------------------------
(***************************************************************************)
(* Properties.                                                             *)
(***************************************************************************)
TypeOK ==
  /\ socket \in Daemons \cup {None, Stale} /\ lock \in Daemons \cup {None}
  /\ ipc \in [Daemons -> {"none", "probe", "remove", "bind", "accept", "inline", "returned"}]
  /\ live \in [Daemons -> 0 .. MAX_WORKERS]
  /\ main \in [Daemons -> {"off", "lock", "load", "run"}]
  /\ unit.runs \in Daemons \cup {None} /\ unit.state \in {"inactive", "active", "failed"}
  /\ faults \in 0 .. MaxFaults

\* Two daemons never hold the queue at once, however many commands and the
\* manager start them (run_with: "two schedulers on one queue.json double-fire
\* jobs").
OneScheduler == \A d, e \in Daemons : {main[d], main[e]} \subseteq {"load", "run"} => d = e

\* While a daemon accepts connections the path leads to it: no other takes the
\* socket from under it, though the test, the removal and the bind are three
\* steps (serve: "never steals one another daemon is actively listening on").
SocketKept == \A d \in Daemons : ipc[d] \in {"accept", "inline"} => socket = d

\* The worker count is the number of workers, whether they answered, were
\* reaped, lost their client or were never started, so that the cap neither
\* shrinks nor grows (WorkerSlot).
SlotsAreWorkers ==
  \A d \in Daemons : live[d] = Cardinality({u \in Users : In(u, d, {"worker"})})

\* The daemon uninstall says the registration did not start is the one it has
\* just stopped only where its wait timed out on that daemon, which answered each
\* of the looks (uninstall: "anything still answering is a genuine ad-hoc
\* daemon"), or where a reinstall had booted that daemon out before, and nothing
\* was registered to wait for.
NoteIsTrue == admin.noted => admin.answered = MaxWaits \/ admin.late

\* A daemon with the queue comes to answer at the socket, or ends: none stays
\* that fires jobs and cannot be asked (on_serve_exit).
ReachableOrGone ==
  \A d \in Daemons : main[d] = "run" ~> (socket = d \/ main[d] = "off")

\* The manager stops starting the daemon again: one that finds another at work
\* has not failed (lib::run, the comment on WouldBlock).
RestartsEnd == <>[](unit.state # "failed")

\* A stalled peer holds up the others until it is timed out and no longer, with
\* every worker taken as well: each connection is accepted, or its daemon ends.
NoneWaitsForever ==
  \A u \in Users : conn[u].at = "backlog" ~> conn[u].at # "backlog"
=============================================================================
