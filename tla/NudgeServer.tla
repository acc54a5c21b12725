------------------------------ MODULE NudgeServer ------------------------------
(***************************************************************************)
(* The IPC threads of nudge's daemons (ipc/server.rs): how one takes the   *)
(* socket's path, and how it serves connections: on workers up to a cap,   *)
(* and itself when the cap is reached or the system refuses a thread.      *)
(*                                                                         *)
(* A connection is made while a listener answers at the path.  A client    *)
(* sends its request with it; a stalled peer sends nothing and is reaped   *)
(* by the I/O timeout.  An accept that is interrupted, or finds no         *)
(* descriptor left, is tried again: it changes nothing here.               *)
(***************************************************************************)
EXTENDS Integers, FiniteSets

CONSTANTS
  None, Stale,
  Daemons,     \* processes that may be daemons, numbered
  Clients,     \* nudge commands
  Peers,       \* connections that stall
  MAX_WORKERS

ASSUME ServerConstants ==
  /\ Daemons \subseteq Nat /\ None \notin Daemons /\ Stale \notin Daemons
  /\ None # Stale /\ None \notin Clients \cup Peers
  /\ Clients \cap Peers = {} /\ IsFiniteSet(Clients \cup Peers)
  /\ MAX_WORKERS \in Nat \ {0}

VARIABLES
  socket,   \* the path: None, the daemon whose listener answers, or Stale
  ipc,      \* where each daemon's IPC thread is
  conn,     \* each user's connection
  live,     \* per daemon, the worker count
  build     \* the build each daemon is of

serverVars == <<socket, ipc, conn, live, build>>

Users == Clients \cup Peers

NoConn == [to |-> None, at |-> "none", says |-> None]

Listening == socket \in Daemons

connect(u) == conn' = [conn EXCEPT ![u] = [to |-> socket, at |-> "backlog", says |-> None]]

IpcInit ==
  /\ socket = None /\ conn = [u \in Users |-> NoConn]
  /\ ipc = [d \in Daemons |-> "none"] /\ live = [d \in Daemons |-> 0]

-----------------------------------------------------------------------------
(***************************************************************************)
(* serve_with, up to its listener.                                         *)
(***************************************************************************)
At(d, from, to) == ipc[d] = from /\ ipc' = [ipc EXCEPT ![d] = to]

\* What `d` leaves behind of its listener when that is closed.
Unheard(d) == IF socket = d THEN Stale ELSE socket

\* serve returned, whatever it was doing.
Returns(d, from) ==
  /\ At(d, from, "returned")
  /\ socket' = Unheard(d)
  /\ UNCHANGED <<conn, live, build>>

Probe(d) ==
  \/ Listening /\ Returns(d, "probe")
  \/ /\ ~Listening
     /\ At(d, "probe", IF socket = None THEN "bind" ELSE "remove")
     /\ UNCHANGED <<socket, conn, live, build>>

Remove(d) ==
  \/ socket = None /\ Returns(d, "remove")
  \/ socket # None /\ At(d, "remove", "bind") /\ socket' = None /\ UNCHANGED <<conn, live, build>>

Bind(d) ==
  \/ socket # None /\ Returns(d, "bind")
  \/ socket = None /\ At(d, "bind", "accept") /\ socket' = d /\ UNCHANGED <<conn, live, build>>

-----------------------------------------------------------------------------
(***************************************************************************)
(* Its accept loop and the workers.                                        *)
(***************************************************************************)
\* A plausible slip: the cap is checked one too late.
BugFull(n) == n > MAX_WORKERS

Full(n) == n >= MAX_WORKERS

Taken(n) == n + 1

\* A plausible slip: a slot that is not released.
BugDropped(n) == n

\* WorkerSlot.
Dropped(n) == n - 1

In(u, d, where) == conn[u].to = d /\ conn[u].at \in where

Put(u, where) == conn' = [conn EXCEPT ![u].at = where]

AcceptInline(d, u) ==
  /\ In(u, d, {"backlog"}) /\ Full(live[d])
  /\ At(d, "accept", "inline") /\ Put(u, "inline")
  /\ UNCHANGED <<socket, live, build>>

Spawn(d, u) ==
  /\ In(u, d, {"backlog"}) /\ ~Full(live[d]) /\ ipc[d] = "accept"
  /\ live' = [live EXCEPT ![d] = Taken(@)] /\ Put(u, "worker")
  /\ UNCHANGED <<socket, ipc, build>>

\* The system refuses the thread: its closure is dropped, and the slot with it.
SpawnRefused(d, u) ==
  /\ In(u, d, {"backlog"}) /\ ~Full(live[d])
  /\ live' = [live EXCEPT ![d] = Dropped(Taken(@))]
  /\ At(d, "accept", "inline") /\ Put(u, "inline")
  /\ UNCHANGED <<socket, build>>

AcceptFatal(d) == Returns(d, "accept")

\* Whoever served u's connection is done with it.
Leave(u) ==
  LET d == conn[u].to IN
  CASE conn[u].at = "worker"  -> live' = [live EXCEPT ![d] = Dropped(@)] /\ UNCHANGED ipc
    [] conn[u].at = "inline"  -> ipc' = [ipc EXCEPT ![d] = "accept"] /\ UNCHANGED live
    [] conn[u].at = "backlog" -> UNCHANGED <<ipc, live>>

\* A reply, with the build a Pong carries.
Serve(d, u) ==
  /\ u \in Clients /\ In(u, d, {"worker", "inline"})
  /\ conn' = [conn EXCEPT ![u] = [to |-> d, at |-> "replied", says |-> build[d]]]
  /\ Leave(u)
  /\ UNCHANGED <<socket, build>>

\* A plausible slip: only a worker times its peer out.
BugReap(d, u) ==
  /\ u \in Peers /\ In(u, d, {"worker"})
  /\ Put(u, "lost") /\ Leave(u)
  /\ UNCHANGED <<socket, build>>

\* IO_TIMEOUT.
Reap(d, u) ==
  /\ u \in Peers /\ In(u, d, {"worker", "inline"})
  /\ Put(u, "lost") /\ Leave(u)
  /\ UNCHANGED <<socket, build>>

\* A peer connects, once, and sends nothing.
Stall(u) ==
  /\ u \in Peers /\ conn[u] = NoConn /\ Listening
  /\ connect(u)
  /\ UNCHANGED <<socket, ipc, live, build>>

Binding(d) == Probe(d) \/ Remove(d) \/ Bind(d)

Serving(d, u) == AcceptInline(d, u) \/ Spawn(d, u) \/ Serve(d, u) \/ Reap(d, u)
=============================================================================
