------------------------- MODULE NudgeLifecycle_proofs -------------------------
(***************************************************************************)
(* Proofs about NudgeLifecycle, for any number of processes, commands and  *)
(* peers, any cap, builds, managers and bounds: two daemons never have the *)
(* queue at once, the socket is never taken from one that serves, the      *)
(* worker count is the number of workers, and the note of uninstall is     *)
(* true.                                                                   *)
(*                                                                         *)
(* What a step does to the daemons is one of a few things, whoever takes   *)
(* it: one is started, takes the lock, begins to serve, moves on in its    *)
(* IPC thread, or ends; a connection is made or closed.  Core is kept by   *)
(* each of these; the commands (Owned) and the service (ServiceInv) keep   *)
(* what they rely on.                                                      *)
(***************************************************************************)
EXTENDS NudgeLifecycle, FiniteSetTheorems, TLAPS

-----------------------------------------------------------------------------
(***************************************************************************)
(* The inductive invariant.                                                *)
(***************************************************************************)
Active  == {"backlog", "worker", "inline"}
ConnAt  == {"none", "replied", "lost"} \cup Active
IpcAt   == {"none", "probe", "remove", "bind", "accept", "inline", "returned"}
MainAt  == {"off", "lock", "load", "run"}
AnyBuild == {None} \cup {BuildOf[w] : w \in Clients \cup {"unit"}}
Conn    == [to : Daemons \cup {None, Stale}, at : ConnAt, says : AnyBuild]

coreVars == <<serverVars, main, lock>>

CoreTypes ==
  /\ socket \in Daemons \cup {None, Stale} /\ lock \in Daemons \cup {None}
  /\ ipc \in [Daemons -> IpcAt] /\ main \in [Daemons -> MainAt]
  /\ live \in [Daemons -> Int] /\ build \in [Daemons -> AnyBuild]
  /\ conn \in [Users -> Conn]

\* Who is past the lock has it, and only they have an IPC thread.
LockHeld ==
  /\ \A d \in Daemons : main[d] \in {"load", "run"} <=> lock = d
  /\ \A d \in Daemons : ipc[d] # "none" => main[d] = "run"

\* An IPC thread that serves a connection itself serves that one and no other.
InlineHeld ==
  /\ \A d \in Daemons, u \in Users : In(u, d, {"inline"}) => ipc[d] = "inline"
  /\ \A d \in Daemons : \A u, v \in Users : In(u, d, {"inline"}) /\ In(v, d, {"inline"}) => u = v

Directed == \A u \in Users : conn[u].at \in Active => conn[u].to \in Daemons

Capped == \A d \in Daemons : live[d] <= MAX_WORKERS

Core == CoreTypes /\ LockHeld /\ InlineHeld /\ Directed /\ Capped /\ SocketKept /\ SlotsAreWorkers

-----------------------------------------------------------------------------
(***************************************************************************)
(* The sets of workers.                                                    *)
(***************************************************************************)
Workers(d) == {u \in Users : In(u, d, {"worker"})}

LEMMA UsersFinite == IsFiniteSet(Users) /\ MAX_WORKERS \in Nat \ {0}
BY ServerConstants DEF Users

LEMMA NamesDiffer == None \notin Daemons /\ Stale \notin Daemons /\ None # Stale
BY ServerConstants

LEMMA WorkersFinite ==
  ASSUME NEW d
  PROVE  IsFiniteSet(Workers(d)) /\ Cardinality(Workers(d)) \in Nat
<1>1. Workers(d) \subseteq Users
  BY DEF Workers
<1>2. IsFiniteSet(Workers(d))
  BY <1>1, UsersFinite, FS_Subset
<1> QED
  BY <1>2, FS_CardinalityType

\* Cardinalities are compared by comparing sets.
LEMMA SlotsKept ==
  ASSUME SlotsAreWorkers, live' = live, \A d \in Daemons : Workers(d)' = Workers(d)
  PROVE  SlotsAreWorkers'
BY DEF SlotsAreWorkers, Workers

-----------------------------------------------------------------------------
(***************************************************************************)
(* Core is kept by everything that can happen to a daemon.                 *)
(***************************************************************************)
LEMMA StartsKeepsCore ==
  ASSUME Core, NEW d \in Daemons, NEW b \in AnyBuild, Starts(d, b),
         UNCHANGED <<socket, ipc, conn, live, lock>>
  PROVE  Core'
<1>1. main' = [main EXCEPT ![d] = "lock"] /\ build' = [build EXCEPT ![d] = b] /\ main[d] = "off"
  BY DEF Starts, Free, Off
<1>2. CoreTypes'
  BY <1>1 DEF Core, CoreTypes, MainAt
<1>3. LockHeld'
  BY <1>1 DEF Core, CoreTypes, LockHeld, MainAt
<1>4. InlineHeld' /\ Directed' /\ Capped' /\ SocketKept'
  BY DEF Core, InlineHeld, In, Directed, Capped, SocketKept
<1>5. SlotsAreWorkers'
  BY SlotsKept DEF Core, Workers, In
<1> QED
  BY <1>2, <1>3, <1>4, <1>5 DEF Core

LEMMA AcquireKeepsCore ==
  ASSUME Core, NEW d \in Daemons, main[d] = "lock", lock = None, lock' = d,
         main' = [main EXCEPT ![d] = "load"], UNCHANGED serverVars
  PROVE  Core'
<1>1. CoreTypes'
  BY DEF Core, CoreTypes, MainAt, serverVars
<1>2. LockHeld'
  BY NamesDiffer DEF Core, CoreTypes, LockHeld, MainAt, serverVars
<1>3. InlineHeld' /\ Directed' /\ Capped' /\ SocketKept'
  BY DEF Core, InlineHeld, In, Directed, Capped, SocketKept, serverVars
<1>4. SlotsAreWorkers'
  BY SlotsKept DEF Core, Workers, In, serverVars
<1> QED
  BY <1>1, <1>2, <1>3, <1>4 DEF Core

LEMMA LoadKeepsCore ==
  ASSUME Core, NEW d \in Daemons, main[d] = "load",
         main' = [main EXCEPT ![d] = "run"], ipc' = [ipc EXCEPT ![d] = "probe"],
         UNCHANGED <<socket, conn, live, build, lock>>
  PROVE  Core'
<1>1. CoreTypes'
  BY DEF Core, CoreTypes, MainAt, IpcAt
<1>2. LockHeld'
  BY DEF Core, CoreTypes, LockHeld, MainAt, IpcAt
<1>3. ipc[d] = "none"
  BY DEF Core, CoreTypes, LockHeld
<1>4. InlineHeld'
  BY <1>3 DEF Core, CoreTypes, InlineHeld, In
<1>5. Directed' /\ Capped' /\ SocketKept'
  BY DEF Core, CoreTypes, Directed, Capped, SocketKept
<1>6. SlotsAreWorkers'
  BY SlotsKept DEF Core, Workers, In
<1> QED
  BY <1>1, <1>2, <1>4, <1>5, <1>6 DEF Core

\* What a daemon had open is closed when it ends.
LEMMA EndsKeepsCore ==
  ASSUME Core, NEW d \in Daemons, Ends(d)
  PROVE  Core'
<1>1. /\ main' = [main EXCEPT ![d] = "off"] /\ ipc' = [ipc EXCEPT ![d] = "none"]
      /\ live' = [live EXCEPT ![d] = 0] /\ build' = build
      /\ lock' = (IF lock = d THEN None ELSE lock)
      /\ socket' = (IF socket = d THEN Stale ELSE socket)
  BY DEF Ends, Unheard
<1>2. /\ conn' \in [Users -> Conn]
      /\ \A u \in Users : /\ conn'[u].to = conn[u].to
                          /\ conn'[u].at = IF conn[u].to = d /\ conn[u].at \in Active
                                           THEN "lost" ELSE conn[u].at
  <2>1. conn' = [u \in Users |-> Severed(u, d)]
    BY DEF Ends
  <2>2. ASSUME NEW u \in Users
        PROVE  /\ Severed(u, d) \in Conn /\ Severed(u, d).to = conn[u].to
               /\ Severed(u, d).at = IF conn[u].to = d /\ conn[u].at \in Active
                                     THEN "lost" ELSE conn[u].at
    BY DEF Core, CoreTypes, Severed, In, Active, Conn, ConnAt
  <2> QED
    BY <2>1, <2>2
<1>3. CoreTypes'
  BY <1>1, <1>2 DEF Core, CoreTypes, MainAt, IpcAt
<1>4. LockHeld'
  BY <1>1, NamesDiffer DEF Core, CoreTypes, LockHeld, MainAt
<1>5. InlineHeld'
  <2>1. \A u \in Users, e \in Daemons : In(u, e, {"inline"})' => e # d /\ In(u, e, {"inline"})
    BY <1>2 DEF In, Active
  <2> QED
    BY <1>1, <2>1 DEF Core, CoreTypes, InlineHeld
<1>6. Directed'
  BY <1>2 DEF Core, Directed, Active
<1>7. Capped'
  BY <1>1, UsersFinite DEF Core, CoreTypes, Capped
<1>8. SocketKept'
  BY <1>1 DEF Core, CoreTypes, SocketKept
<1>9. SlotsAreWorkers'
  <2>1. Workers(d)' = {}
    BY <1>2 DEF Workers, In, Active
  <2>2. \A e \in Daemons \ {d} : Workers(e)' = Workers(e)
    BY <1>2 DEF Workers, In, Active
  <2>3. live'[d] = Cardinality(Workers(d)')
    BY <1>1, <2>1, FS_EmptySet DEF Core, CoreTypes
  <2>4. \A e \in Daemons \ {d} : live'[e] = Cardinality(Workers(e)')
    BY <1>1, <2>2 DEF Core, CoreTypes, SlotsAreWorkers, Workers
  <2> QED
    BY <2>3, <2>4 DEF SlotsAreWorkers, Workers
<1> QED
  BY <1>3, <1>4, <1>5, <1>6, <1>7, <1>8, <1>9 DEF Core

\* Nobody else serves while d has an IPC thread.
LEMMA OneServes ==
  ASSUME Core, NEW d \in Daemons, ipc[d] # "none", NEW e \in Daemons, ipc[e] # "none"
  PROVE  d = e
BY DEF Core, CoreTypes, LockHeld

\* The steps of an IPC thread that leave connections alone.
LEMMA ThreadKeepsCore ==
  ASSUME Core, NEW d \in Daemons, NEW to \in IpcAt \ {"inline"},
         ipc[d] \notin {"none", "inline"}, ipc' = [ipc EXCEPT ![d] = to],
         socket' \in Daemons \cup {None, Stale}, to \in {"accept", "inline"} => socket' = d,
         UNCHANGED <<conn, live, build, main, lock>>
  PROVE  Core'
<1>1. CoreTypes'
  BY DEF Core, CoreTypes
<1>2. LockHeld'
  BY DEF Core, CoreTypes, LockHeld
<1>3. InlineHeld'
  BY DEF Core, CoreTypes, InlineHeld, In
<1>4. Directed' /\ Capped'
  BY DEF Core, Directed, Capped
<1>5. SocketKept'
  <2>1. \A e \in Daemons : ipc[e] # "none" => e = d
    BY OneServes
  <2>2. \A e \in Daemons \ {d} : ipc'[e] = ipc[e] /\ ipc[e] = "none"
    BY <2>1 DEF Core, CoreTypes
  <2>3. ipc'[d] = to
    BY DEF Core, CoreTypes
  <2> QED
    BY <2>2, <2>3 DEF SocketKept
<1>6. SlotsAreWorkers'
  BY SlotsKept DEF Core, Workers, In
<1> QED
  BY <1>1, <1>2, <1>3, <1>4, <1>5, <1>6 DEF Core

LEMMA ReturnsKeepsCore ==
  ASSUME Core, NEW d \in Daemons, NEW from \in {"probe", "remove", "bind", "accept"},
         Returns(d, from), UNCHANGED <<main, lock>>
  PROVE  Core'
<1>1. socket' \in Daemons \cup {None, Stale}
  BY DEF Core, CoreTypes, Returns, Unheard
<1>2. ipc[d] = from /\ ipc' = [ipc EXCEPT ![d] = "returned"] /\ UNCHANGED <<conn, live, build>>
  BY DEF Returns, At
<1> QED
  BY <1>1, <1>2, ThreadKeepsCore DEF IpcAt

LEMMA BindingKeepsCore ==
  ASSUME Core, NEW d \in Daemons, Binding(d), UNCHANGED <<main, lock>>
  PROVE  Core'
<1>1. CASE Probe(d)
  <2>1. CASE Returns(d, "probe")
    BY <2>1, ReturnsKeepsCore
  <2>2. CASE ~Returns(d, "probe")
    <3> DEFINE to == IF socket = None THEN "bind" ELSE "remove"
    <3>1. /\ ipc[d] = "probe" /\ ipc' = [ipc EXCEPT ![d] = to]
          /\ UNCHANGED <<socket, conn, live, build>>
      BY <1>1, <2>2 DEF Probe, At
    <3>2. to \in IpcAt \ {"inline", "accept"}
      BY DEF IpcAt
    <3>3. socket' \in Daemons \cup {None, Stale}
      BY <3>1 DEF Core, CoreTypes
    <3> HIDE DEF to
    <3> QED
      BY <3>1, <3>2, <3>3, ThreadKeepsCore
  <2> QED
    BY <2>1, <2>2
<1>2. CASE Remove(d)
  <2>1. CASE Returns(d, "remove")
    BY <2>1, ReturnsKeepsCore
  <2>2. CASE ~Returns(d, "remove")
    <3>1. /\ ipc[d] = "remove" /\ ipc' = [ipc EXCEPT ![d] = "bind"] /\ socket' = None
          /\ UNCHANGED <<conn, live, build>>
      BY <1>2, <2>2 DEF Remove, At
    <3> QED
      BY <3>1, ThreadKeepsCore DEF IpcAt
  <2> QED
    BY <2>1, <2>2
<1>3. CASE Bind(d)
  <2>1. CASE Returns(d, "bind")
    BY <2>1, ReturnsKeepsCore
  <2>2. CASE ~Returns(d, "bind")
    <3>1. /\ ipc[d] = "bind" /\ ipc' = [ipc EXCEPT ![d] = "accept"] /\ socket' = d
          /\ UNCHANGED <<conn, live, build>>
      BY <1>3, <2>2 DEF Bind, At
    <3> QED
      BY <3>1, ThreadKeepsCore DEF IpcAt
  <2> QED
    BY <2>1, <2>2
<1> QED
  BY <1>1, <1>2, <1>3 DEF Binding

\* A connection is served by the IPC thread itself.
LEMMA InlineKeepsCore ==
  ASSUME Core, NEW d \in Daemons, NEW u \in Users, In(u, d, {"backlog"}), live' = live,
         At(d, "accept", "inline"), Put(u, "inline"), UNCHANGED <<socket, build, main, lock>>
  PROVE  Core'
<1>1. /\ ipc[d] = "accept" /\ ipc' = [ipc EXCEPT ![d] = "inline"]
      /\ conn' = [conn EXCEPT ![u].at = "inline"]
  BY DEF At, Put
<1>2. conn[u] \in Conn /\ conn[u].to = d /\ conn[u].at = "backlog"
  BY DEF Core, CoreTypes, In
<1>3. /\ conn' \in [Users -> Conn] /\ conn'[u].to = d /\ conn'[u].at = "inline"
      /\ \A v \in Users \ {u} : conn'[v] = conn[v]
  BY <1>1, <1>2 DEF Core, CoreTypes, Conn, ConnAt, Active
<1>4. CoreTypes'
  BY <1>1, <1>3 DEF Core, CoreTypes, IpcAt
<1>5. LockHeld'
  BY <1>1 DEF Core, CoreTypes, LockHeld
<1>6. InlineHeld'
  BY <1>1, <1>2, <1>3 DEF Core, CoreTypes, InlineHeld, In
<1>7. Directed' /\ Capped'
  BY <1>2, <1>3 DEF Core, Directed, Capped, Active
<1>8. SocketKept'
  BY <1>1 DEF Core, CoreTypes, SocketKept
<1>9. SlotsAreWorkers'
  <2>1. \A e \in Daemons : Workers(e)' = Workers(e)
    BY <1>2, <1>3 DEF Workers, In
  <2> QED
    BY <2>1, SlotsKept DEF Core
<1> QED
  BY <1>4, <1>5, <1>6, <1>7, <1>8, <1>9 DEF Core

\* A worker is started for a connection.
LEMMA SpawnKeepsCore ==
  ASSUME Core, NEW d \in Daemons, NEW u \in Users, Spawn(d, u), UNCHANGED <<main, lock>>
  PROVE  Core'
<1>1. /\ live' = [live EXCEPT ![d] = live[d] + 1] /\ live[d] < MAX_WORKERS
      /\ conn' = [conn EXCEPT ![u].at = "worker"] /\ UNCHANGED <<socket, ipc, build>>
  BY UsersFinite DEF Spawn, Full, Taken, Put, Core, CoreTypes
<1>2. conn[u] \in Conn /\ conn[u].to = d /\ conn[u].at = "backlog"
  BY DEF Core, CoreTypes, Spawn, In
<1>3. /\ conn' \in [Users -> Conn] /\ conn'[u].to = d /\ conn'[u].at = "worker"
      /\ \A v \in Users \ {u} : conn'[v] = conn[v]
  BY <1>1, <1>2 DEF Core, CoreTypes, Conn, ConnAt, Active
<1>4. CoreTypes'
  BY <1>1, <1>3 DEF Core, CoreTypes
<1>5. LockHeld' /\ SocketKept'
  BY <1>1 DEF Core, CoreTypes, LockHeld, SocketKept
<1>6. InlineHeld'
  BY <1>1, <1>2, <1>3 DEF Core, CoreTypes, InlineHeld, In
<1>7. Directed'
  BY <1>2, <1>3 DEF Core, Directed, Active
<1>8. Capped'
  BY <1>1, UsersFinite DEF Core, CoreTypes, Capped
<1>9. SlotsAreWorkers'
  <2>1. Workers(d)' = Workers(d) \cup {u} /\ u \notin Workers(d)
    BY <1>2, <1>3 DEF Workers, In
  <2>2. \A e \in Daemons \ {d} : Workers(e)' = Workers(e)
    BY <1>2, <1>3 DEF Workers, In
  <2>3. Cardinality(Workers(d) \cup {u}) = Cardinality(Workers(d)) + 1
    BY <2>1, WorkersFinite, FS_AddElement
  <2>4. \A e \in Daemons : live[e] = Cardinality(Workers(e))
    BY DEF Core, SlotsAreWorkers, Workers
  <2>5. \A e \in Daemons : live'[e] = Cardinality(Workers(e)')
    BY <1>1, <2>1, <2>2, <2>3, <2>4 DEF Core, CoreTypes
  <2> QED
    BY <2>5 DEF SlotsAreWorkers, Workers
<1> QED
  BY <1>4, <1>5, <1>6, <1>7, <1>8, <1>9 DEF Core

\* A connection comes to its end, and whoever served it is free.
LEMMA LeaveKeepsCore ==
  ASSUME Core, NEW u \in Users, conn[u].at \in Active, Leave(u),
         conn' \in [Users -> Conn], conn'[u].at \notin Active,
         \A v \in Users \ {u} : conn'[v] = conn[v],
         UNCHANGED <<socket, build, main, lock>>
  PROVE  Core'
<1>1. PICK d \in Daemons : d = conn[u].to
  BY DEF Core, Directed
<1>2. CASE conn[u].at = "worker"
  <2>1. live' = [live EXCEPT ![d] = live[d] - 1] /\ ipc' = ipc
    BY <1>1, <1>2 DEF Leave, Dropped, Core, CoreTypes
  <2>2. CoreTypes'
    BY <1>1, <2>1 DEF Core, CoreTypes
  <2>3. LockHeld' /\ SocketKept'
    BY <2>1 DEF Core, CoreTypes, LockHeld, SocketKept
  <2>4. InlineHeld' /\ Directed'
    BY <2>1 DEF Core, CoreTypes, InlineHeld, In, Directed, Active
  <2>5. Capped'
    BY <1>1, <2>1, UsersFinite DEF Core, CoreTypes, Capped
  <2>6. SlotsAreWorkers'
    <3>1. Workers(d)' = Workers(d) \ {u} /\ u \in Workers(d)
      BY <1>1, <1>2 DEF Workers, In, Active
    <3>2. \A e \in Daemons \ {d} : Workers(e)' = Workers(e)
      BY <1>1, <1>2 DEF Workers, In, Active
    <3>3. Cardinality(Workers(d) \ {u}) = Cardinality(Workers(d)) - 1
      BY <3>1, WorkersFinite, FS_RemoveElement
    <3>4. \A e \in Daemons : live[e] = Cardinality(Workers(e))
      BY DEF Core, SlotsAreWorkers, Workers
    <3>5. \A e \in Daemons : live'[e] = Cardinality(Workers(e)')
      BY <1>1, <2>1, <3>1, <3>2, <3>3, <3>4 DEF Core, CoreTypes
    <3> QED
      BY <3>5 DEF SlotsAreWorkers, Workers
  <2> QED
    BY <2>2, <2>3, <2>4, <2>5, <2>6 DEF Core
<1>3. CASE conn[u].at = "inline"
  <2>1. ipc' = [ipc EXCEPT ![d] = "accept"] /\ live' = live
    BY <1>1, <1>3 DEF Leave
  <2>2. ipc[d] = "inline"
    BY <1>1, <1>3 DEF Core, InlineHeld, In
  <2>3. CoreTypes'
    BY <1>1, <2>1 DEF Core, CoreTypes, IpcAt
  <2>4. LockHeld' /\ SocketKept'
    BY <1>1, <2>1, <2>2 DEF Core, CoreTypes, LockHeld, SocketKept
  <2>5. InlineHeld'
    <3>1. ASSUME NEW v \in Users, NEW e \in Daemons, In(v, e, {"inline"})'
          PROVE  e # d /\ In(v, e, {"inline"})
      <4>1. v # u /\ In(v, e, {"inline"})
        BY <3>1 DEF In, Active
      <4>2. In(u, d, {"inline"})
        BY <1>1, <1>3 DEF In
      <4> QED
        BY <1>1, <4>1, <4>2 DEF Core, InlineHeld
    <3> QED
      BY <2>1, <3>1 DEF Core, CoreTypes, InlineHeld
  <2>6. Directed' /\ Capped'
    BY <2>1 DEF Core, Directed, Active, Capped
  <2>7. SlotsAreWorkers'
    <3>1. \A e \in Daemons : Workers(e)' = Workers(e)
      BY <1>1, <1>3 DEF Workers, In, Active
    <3> QED
      BY <2>1, <3>1, SlotsKept DEF Core
  <2> QED
    BY <2>3, <2>4, <2>5, <2>6, <2>7 DEF Core
<1>4. CASE conn[u].at = "backlog"
  <2>1. ipc' = ipc /\ live' = live
    BY <1>1, <1>4 DEF Leave
  <2>2. CoreTypes' /\ LockHeld' /\ SocketKept' /\ Capped'
    BY <2>1 DEF Core, CoreTypes, LockHeld, SocketKept, Capped
  <2>3. InlineHeld' /\ Directed'
    BY <2>1 DEF Core, InlineHeld, In, Directed, Active
  <2>4. SlotsAreWorkers'
    <3>1. \A e \in Daemons : Workers(e)' = Workers(e)
      BY <1>4 DEF Workers, In, Active
    <3> QED
      BY <2>1, <3>1, SlotsKept DEF Core
  <2> QED
    BY <2>2, <2>3, <2>4 DEF Core
<1> QED
  BY <1>2, <1>3, <1>4 DEF Active

\* A connection is made, or forgotten, by a user that has none under way.
LEMMA ConnKeepsCore ==
  ASSUME Core, NEW u \in Users, conn[u].at \notin Active, NEW x \in Conn,
         x.at \notin {"worker", "inline"}, x.at = "backlog" => x.to \in Daemons,
         conn' = [conn EXCEPT ![u] = x], UNCHANGED <<socket, ipc, live, build, main, lock>>
  PROVE  Core'
<1>1. conn' \in [Users -> Conn] /\ conn'[u] = x /\ \A v \in Users \ {u} : conn'[v] = conn[v]
  BY DEF Core, CoreTypes
<1>2. CoreTypes' /\ LockHeld' /\ SocketKept' /\ Capped'
  BY <1>1 DEF Core, CoreTypes, LockHeld, SocketKept, Capped
<1>3. InlineHeld' /\ Directed'
  BY <1>1 DEF Core, InlineHeld, In, Directed, Active
<1>4. SlotsAreWorkers'
  <2>1. \A e \in Daemons : Workers(e)' = Workers(e)
    BY <1>1 DEF Workers, In, Active
  <2> QED
    BY <2>1, SlotsKept DEF Core
<1> QED
  BY <1>2, <1>3, <1>4 DEF Core

-----------------------------------------------------------------------------
(***************************************************************************)
(* The commands: each has at most one connection.                          *)
(***************************************************************************)
Waiting == {"pinging", "polled", "asking"}
CmdAt   == {"idle", "polling", "ready", "done", "stale", "failed", "down"} \cup Waiting
Cmd     == [pc : CmdAt, polls : Nat]

Owned ==
  /\ cmd \in [Clients -> Cmd]
  /\ \A c \in Clients : cmd[c].pc \notin Waiting => conn[c].at = "none"

LEMMA OwnedKept ==
  ASSUME Owned, cmd' = cmd,
         \A c \in Clients : conn[c].at = "none" => conn'[c].at = "none"
  PROVE  Owned'
BY DEF Owned

-----------------------------------------------------------------------------
(***************************************************************************)
(* The service: what runs is active, and loaded unless it was told to end; *)
(* once uninstall has stopped it, it is not started again, and when the    *)
(* note is due its listener is gone.                                       *)
(***************************************************************************)
AdminAt == {"idle", "install: active?", "install: write", "install: enable",
            "uninstall: stop", "uninstall: stop only", "uninstall: wait", "uninstall: note"}

AdminRecord == [pc : AdminAt, waits : Nat, count : Nat,
                late : BOOLEAN, answered : Nat, noted : BOOLEAN]

ServiceTypes ==
  /\ unit \in [loaded : BOOLEAN, state : {"inactive", "active", "failed"},
               runs : Daemons \cup {None}, dying : BOOLEAN]
  /\ manager \in {"Systemd", "Launchd"}
  /\ admin \in AdminRecord

UnitInv ==
  /\ unit.dying => unit.runs # None /\ manager = "Launchd"
  /\ unit.runs # None => unit.state = "active" /\ (unit.loaded \/ unit.dying)

StopInv ==
  /\ admin.pc = "uninstall: stop only" /\ manager = "Launchd" =>
       ~unit.loaded /\ (unit.runs # None => admin.late)
  /\ admin.pc \in {"uninstall: wait", "uninstall: note"} =>
       ~unit.loaded /\ (unit.runs # None => unit.dying)

\* While the daemon being stopped has the socket, every look so far found it.
StillThere == unit.runs # None /\ socket = unit.runs

LookInv ==
  /\ admin.pc \in Stopping => admin.waits = MaxWaits /\ admin.answered = 0
  /\ admin.pc = "uninstall: wait" /\ StillThere => admin.answered + admin.waits = MaxWaits
  /\ admin.pc = "uninstall: note" /\ StillThere => admin.answered = MaxWaits \/ admin.late
  /\ admin.noted => admin.pc = "idle"

ServiceInv == ServiceTypes /\ UnitInv /\ StopInv /\ LookInv /\ NoteIsTrue

LEMMA ServiceKept ==
  ASSUME ServiceInv, UNCHANGED <<unit, admin, manager>>,
         socket' = unit.runs => socket' = socket \/ ~unit.dying
  PROVE  ServiceInv'
BY DEF ServiceInv, ServiceTypes, UnitInv, StopInv, LookInv, StillThere, NoteIsTrue

\* The inductive invariant.
IInv == Core /\ Owned /\ ServiceInv /\ faults \in 0 .. MaxFaults

-----------------------------------------------------------------------------
(***************************************************************************)
(* The daemons' steps.                                                     *)
(***************************************************************************)
LEMMA ExitKeepsInv ==
  ASSUME IInv, NEW d \in Daemons, NEW failed \in BOOLEAN, Ends(d), UnitEnds(d, failed),
         UNCHANGED <<cmd, admin, manager>>, faults' \in 0 .. MaxFaults
  PROVE  IInv'
<1>1. Core'
  BY EndsKeepsCore DEF IInv
<1>2. Owned'
  <2>1. ASSUME NEW c \in Clients, conn[c].at = "none"
        PROVE  conn'[c] = conn[c]
    BY <2>1 DEF Ends, Severed, In, Users
  <2> QED
    BY <2>1, OwnedKept DEF IInv
<1>3. ServiceInv'
  <2>1. socket' = socket \/ socket' = Stale
    BY DEF Ends, Unheard
  <2>2. CASE unit.runs # d
    <3>1. unit' = unit
      BY <2>2 DEF UnitEnds
    <3>2. unit.runs # Stale
      BY NamesDiffer DEF IInv, ServiceInv, ServiceTypes
    <3> QED
      BY <2>1, <3>1, <3>2, ServiceKept DEF IInv
  <2>3. CASE unit.runs = d
    <3>1. /\ unit' \in [loaded : BOOLEAN, state : {"inactive", "active", "failed"},
                        runs : Daemons \cup {None}, dying : BOOLEAN]
          /\ unit'.runs = None /\ ~unit'.dying /\ unit'.loaded = unit.loaded
      BY <2>3 DEF UnitEnds, IInv, ServiceInv, ServiceTypes
    <3> QED
      BY <3>1 DEF IInv, ServiceInv, ServiceTypes, UnitInv, StopInv, LookInv, StillThere, NoteIsTrue
  <2> QED
    BY <2>2, <2>3
<1> QED
  BY <1>1, <1>2, <1>3 DEF IInv

LEMMA FaultCounts ==
  ASSUME IInv, Fault
  PROVE  faults' \in 0 .. MaxFaults
BY LifecycleConstants DEF IInv, Fault

\* Served connections, and the listener.
LEMMA ServerKeepsInv ==
  ASSUME IInv, NEW d \in Daemons, Server(d) \/ ServerFault(d)
  PROVE  IInv'
<1>1. /\ ~Dying(d) /\ UNCHANGED <<main, lock, unit, cmd, admin, manager>>
      /\ faults' \in 0 .. MaxFaults
  BY FaultCounts DEF IInv, Server, ServerFault, lifeVars
<1>2. CASE Binding(d) \/ AcceptFatal(d)
  <2>1. Core'
    BY <1>1, <1>2, BindingKeepsCore, ReturnsKeepsCore DEF IInv, AcceptFatal
  <2>2. conn' = conn /\ (socket' \in {socket, None, Stale} \/ socket' = d)
    BY <1>2 DEF Binding, AcceptFatal, Probe, Remove, Bind, Returns, At, Unheard
  <2>3. Owned'
    BY <1>1, <2>2, OwnedKept DEF IInv
  <2>4. socket' = unit.runs => socket' = socket \/ ~unit.dying
    BY <1>1, <2>2, NamesDiffer DEF Dying, IInv, ServiceInv, ServiceTypes, UnitInv
  <2>5. ServiceInv'
    BY <1>1, <2>4, ServiceKept DEF IInv
  <2> QED
    BY <1>1, <2>1, <2>3, <2>5 DEF IInv
<1>3. ASSUME NEW u \in Users, Serving(d, u) \/ SpawnRefused(d, u)
      PROVE  IInv'
  <2>1. /\ socket' = socket /\ conn[u].at \in Active /\ conn[u] \in Conn
        /\ build \in [Daemons -> AnyBuild] /\ conn \in [Users -> Conn]
    BY <1>3 DEF Serving, AcceptInline, Spawn, SpawnRefused, Serve, Reap, In, Active,
                IInv, Core, CoreTypes
  <2>2. ASSUME Serve(d, u) \/ Reap(d, u)
        PROVE  Core'
    <3>1. PICK at \in {"replied", "lost"}, says \in AnyBuild :
            conn' = [conn EXCEPT ![u] = [to |-> conn[u].to, at |-> at, says |-> says]]
      <4>1. CASE Serve(d, u)
        <5>1. conn' = [conn EXCEPT ![u] = [to |-> d, at |-> "replied", says |-> build[d]]]
          BY <4>1 DEF Serve
        <5>2. conn[u].to = d /\ build[d] \in AnyBuild
          BY <2>1, <4>1 DEF Serve, In
        <5> QED
          BY <5>1, <5>2
      <4>2. CASE Reap(d, u)
        <5>1. conn' = [conn EXCEPT ![u] = [conn[u] EXCEPT !.at = "lost"]]
          BY <4>2 DEF Reap, Put
        <5>2. [conn[u] EXCEPT !.at = "lost"] = [to |-> conn[u].to, at |-> "lost", says |-> conn[u].says]
          BY <2>1 DEF Conn
        <5>3. conn' = [conn EXCEPT ![u] = [to |-> conn[u].to, at |-> "lost", says |-> conn[u].says]]
          BY <5>1, <5>2
        <5>4. conn[u].says \in AnyBuild
          BY <2>1 DEF Conn
        <5> QED
          BY <5>3, <5>4
      <4> QED
        BY <2>2, <4>1, <4>2
    <3>2. [to |-> conn[u].to, at |-> at, says |-> says] \in Conn
      BY <2>1 DEF Conn, ConnAt
    <3>3. /\ conn' \in [Users -> Conn] /\ conn'[u].at \notin Active
          /\ \A v \in Users \ {u} : conn'[v] = conn[v]
      BY <2>1, <3>1, <3>2 DEF Active
    <3>4. Leave(u) /\ UNCHANGED <<socket, build>>
      BY <2>2 DEF Serve, Reap
    <3> QED
      BY <1>1, <2>1, <3>3, <3>4, LeaveKeepsCore DEF IInv
  <2>3. ASSUME SpawnRefused(d, u)
        PROVE  Core'
    <3>1. live' = live
      BY <2>3 DEF SpawnRefused, Dropped, Taken, IInv, Core, CoreTypes
    <3> QED
      BY <1>1, <2>3, <3>1, InlineKeepsCore DEF IInv, SpawnRefused
  <2>4. Core'
    <3>1. CASE AcceptInline(d, u)
      BY <1>1, <3>1, InlineKeepsCore DEF IInv, AcceptInline
    <3>2. CASE Spawn(d, u)
      BY <1>1, <3>2, SpawnKeepsCore DEF IInv
    <3> QED
      BY <1>3, <2>2, <2>3, <3>1, <3>2 DEF Serving
  <2>5. \A v \in Users : conn[v].at = "none" => conn'[v] = conn[v]
    BY <1>3, <2>1 DEF Serving, AcceptInline, Spawn, SpawnRefused, Serve, Reap, Put, Active
  <2>6. Owned'
    BY <1>1, <2>5, OwnedKept DEF IInv, Users
  <2>7. ServiceInv'
    BY <1>1, <2>1, ServiceKept DEF IInv
  <2> QED
    BY <1>1, <2>4, <2>6, <2>7 DEF IInv
<1> QED
  BY <1>2, <1>3 DEF Server, ServerFault

LEMMA DaemonKeepsInv ==
  ASSUME IInv, NEW d \in Daemons, Daemon(d) \/ Faulty(d)
  PROVE  IInv'
<1>1. ASSUME acquire_singleton_lock(d)
      PROVE  IInv'
  <2>1. faults' \in 0 .. MaxFaults /\ main[d] = "lock"
    BY <1>1 DEF acquire_singleton_lock, IInv
  <2>2. CASE WouldBlock(d)
    BY <2>1, <2>2, ExitKeepsInv DEF WouldBlock, Exit
  <2>3. CASE Acquire(d)
    <3>1. Core'
      BY <2>1, <2>3, AcquireKeepsCore DEF IInv, Acquire
    <3>2. Owned'
      BY <2>3, OwnedKept DEF IInv, Acquire, serverVars
    <3>3. ServiceInv'
      BY <2>3, ServiceKept DEF IInv, Acquire, serverVars
    <3> QED
      BY <2>1, <3>1, <3>2, <3>3 DEF IInv
  <2> QED
    BY <1>1, <2>2, <2>3 DEF acquire_singleton_lock
<1>2. ASSUME Load(d)
      PROVE  IInv'
  <2>1. Core'
    BY <1>2, LoadKeepsCore DEF IInv, Load
  <2>2. Owned'
    BY <1>2, OwnedKept DEF IInv, Load
  <2>3. ServiceInv'
    BY <1>2, ServiceKept DEF IInv, Load
  <2> QED
    BY <1>2, <2>1, <2>2, <2>3 DEF IInv, Load
<1>3. ASSUME on_serve_exit(d) \/ Dies(d) \/ LoadFails(d)
      PROVE  IInv'
  <2>1. faults' \in 0 .. MaxFaults
    BY <1>3, FaultCounts DEF on_serve_exit, Dies, LoadFails, IInv
  <2>2. \E code \in {0, 1} : Exit(d, code)
    BY <1>3 DEF on_serve_exit, Dies, LoadFails
  <2> QED
    BY <2>1, <2>2, ExitKeepsInv DEF Exit
<1>4. ASSUME Killed(d)
      PROVE  IInv'
  <2>1. faults' \in 0 .. MaxFaults
    BY <1>4, FaultCounts DEF Killed
  <2>2. PICK signal \in {"TERM", "KILL"} : Ends(d) /\ UnitEnds(d, signal = "KILL" \/ manager = "Launchd")
    BY <1>4 DEF Killed
  <2> QED
    BY <1>4, <2>1, <2>2, ExitKeepsInv DEF Killed
<1> QED
  BY <1>1, <1>2, <1>3, <1>4, ServerKeepsInv DEF Daemon, Faulty

-----------------------------------------------------------------------------
(***************************************************************************)
(* The commands' steps.                                                    *)
(***************************************************************************)
LEMMA CoreSame ==
  ASSUME Core, UNCHANGED coreVars
  PROVE  Core'
<1>1. CoreTypes' /\ LockHeld' /\ InlineHeld' /\ Directed' /\ Capped' /\ SocketKept'
  BY DEF Core, coreVars, serverVars, CoreTypes, LockHeld, InlineHeld, In, Directed, Capped, SocketKept
<1>2. SlotsAreWorkers'
  BY SlotsKept DEF Core, coreVars, serverVars, Workers, In
<1> QED
  BY <1>1, <1>2 DEF Core

LEMMA CmdStep ==
  ASSUME cmd \in [Clients -> Cmd], NEW c \in Clients, NEW pc \in CmdAt, Becomes(c, pc)
  PROVE  /\ cmd' \in [Clients -> Cmd] /\ cmd'[c].pc = pc
         /\ \A b \in Clients \ {c} : cmd'[b] = cmd[b]
BY DEF Becomes, Cmd

LEMMA LookStep ==
  ASSUME cmd \in [Clients -> Cmd], NEW c \in Clients, Looked(c)
  PROVE  /\ cmd' \in [Clients -> Cmd] /\ cmd'[c].pc \notin Waiting
         /\ \A b \in Clients \ {c} : cmd'[b] = cmd[b]
BY DEF Looked, Cmd, CmdAt, Waiting

LEMMA ConnectsKeepsInv ==
  ASSUME IInv, NEW c \in Clients, NEW pc \in Waiting, cmd[c].pc \notin Waiting, Connects(c, pc)
  PROVE  IInv'
<1> DEFINE x == [to |-> socket, at |-> "backlog", says |-> None]
<1>1. /\ c \in Users /\ conn[c].at = "none" /\ conn' = [conn EXCEPT ![c] = x]
      /\ UNCHANGED <<socket, ipc, live, build, main, lock, unit, admin, manager, faults>>
      /\ x \in Conn /\ x.to \in Daemons
  BY DEF IInv, Owned, Connects, connect, Users, Conn, ConnAt, Active, AnyBuild, Core, CoreTypes,
         Listening
<1> HIDE DEF x
<1>2. x.at = "backlog"
  BY DEF x
<1>3. Core'
  BY <1>1, <1>2, ConnKeepsCore DEF IInv, Active
<1>4. Owned'
  <2>1. /\ cmd' \in [Clients -> Cmd] /\ cmd'[c].pc = pc
        /\ \A b \in Clients \ {c} : cmd'[b] = cmd[b]
    BY CmdStep DEF IInv, Owned, Connects, CmdAt
  <2> QED
    BY <1>1, <2>1 DEF IInv, Owned
<1>5. ServiceInv'
  BY <1>1, ServiceKept DEF IInv
<1> QED
  BY <1>1, <1>3, <1>4, <1>5 DEF IInv

\* An exchange is over, however it went.
LEMMA HungUp ==
  ASSUME IInv, NEW c \in Clients, Core', conn' = [conn EXCEPT ![c] = NoConn],
         (\E pc \in CmdAt : Becomes(c, pc)) \/ Looked(c),
         UNCHANGED <<socket, unit, admin, manager>>, faults' \in 0 .. MaxFaults
  PROVE  IInv'
<1>1. cmd' \in [Clients -> Cmd] /\ \A b \in Clients \ {c} : cmd'[b] = cmd[b]
  BY CmdStep, LookStep DEF IInv, Owned
<1>2. conn'[c].at = "none" /\ \A b \in Clients \ {c} : conn'[b] = conn[b]
  BY DEF NoConn, IInv, Core, CoreTypes, Users
<1>3. Owned'
  BY <1>1, <1>2 DEF IInv, Owned
<1>4. ServiceInv'
  BY ServiceKept DEF IInv
<1> QED
  BY <1>3, <1>4 DEF IInv

LEMMA NoConnIsConn == NoConn \in Conn /\ NoConn.at = "none"
BY DEF NoConn, Conn, ConnAt, Active, AnyBuild

LEMMA ClientKeepsInv ==
  ASSUME IInv, NEW c \in Clients, Client(c) \/ GivesUp(c)
  PROVE  IInv'
<1>0. c \in Users
  BY DEF Users
<1>1. CASE Ping(c)
  BY <1>1, ConnectsKeepsInv DEF Ping, Waiting
<1>2. CASE spawn_daemon(c)
  <2>1. PICK d \in Daemons : Starts(d, BuildOf[c])
    BY <1>2 DEF spawn_daemon
  <2>2. Core'
    BY <1>2, <2>1, StartsKeepsCore DEF IInv, spawn_daemon, AnyBuild
  <2>3. conn[c].at = "none"
    BY <1>2 DEF spawn_daemon, IInv, Owned, Waiting
  <2>4. /\ cmd' \in [Clients -> Cmd] /\ cmd'[c].pc = "polling"
        /\ \A b \in Clients \ {c} : cmd'[b] = cmd[b]
    BY <1>2, CmdStep DEF spawn_daemon, IInv, Owned, CmdAt
  <2>5. Owned'
    BY <1>2, <2>3, <2>4 DEF IInv, Owned, spawn_daemon
  <2>6. ServiceInv'
    BY <1>2, ServiceKept DEF IInv, spawn_daemon
  <2> QED
    BY <1>2, <2>2, <2>5, <2>6 DEF IInv, spawn_daemon
<1>3. CASE Poll(c)
  <2>1. CASE Connects(c, "polled")
    BY <1>3, <2>1, ConnectsKeepsInv DEF Poll, Waiting
  <2>2. CASE ~Connects(c, "polled")
    <3>1. Looked(c) /\ UNCHANGED <<serverVars, main, lock, unit, admin, manager, faults>>
      BY <1>3, <2>2 DEF Poll
    <3>2. Core'
      BY <3>1, CoreSame DEF IInv, coreVars, serverVars
    <3>3. conn[c].at = "none"
      BY <1>3 DEF Poll, IInv, Owned, Waiting
    <3>4. Owned'
      BY <3>1, <3>3, LookStep DEF IInv, Owned, serverVars
    <3>5. ServiceInv'
      BY <3>1, ServiceKept DEF IInv, serverVars
    <3> QED
      BY <3>1, <3>2, <3>4, <3>5 DEF IInv
  <2> QED
    BY <2>1, <2>2
<1>4. CASE Hears(c) \/ HearsNothing(c)
  <2>1. /\ conn[c].at \notin Active /\ conn' = [conn EXCEPT ![c] = NoConn]
        /\ UNCHANGED <<socket, ipc, live, build, main, lock, unit, admin, manager, faults>>
    BY <1>4 DEF Hears, HearsNothing, Active
  <2>2. Core'
    BY <1>0, <2>1, ConnKeepsCore, NoConnIsConn DEF IInv
  <2>3. (\E pc \in CmdAt : Becomes(c, pc)) \/ Looked(c)
    BY <1>4 DEF Hears, HearsNothing, Fails, check_handshake, CmdAt
  <2> QED
    BY <2>1, <2>2, <2>3, HungUp DEF IInv
<1>5. CASE GivesUp(c)
  <2>1. conn' = [conn EXCEPT ![c] = NoConn] /\ conn[c].at \in Active
    BY <1>5 DEF GivesUp, Active
  <2>2. /\ conn' \in [Users -> Conn] /\ conn'[c].at \notin Active
        /\ \A v \in Users \ {c} : conn'[v] = conn[v]
    BY <1>0, <2>1, NoConnIsConn DEF Active, IInv, Core, CoreTypes
  <2>3. Core'
    BY <1>0, <1>5, <2>1, <2>2, LeaveKeepsCore DEF IInv, GivesUp
  <2>4. (\E pc \in CmdAt : Becomes(c, pc)) \/ Looked(c)
    BY <1>5 DEF GivesUp, Fails, CmdAt
  <2> QED
    BY <1>5, <2>1, <2>3, <2>4, HungUp, FaultCounts DEF GivesUp
<1>6. CASE request(c)
  <2>1. CASE Connects(c, "asking")
    BY <1>6, <2>1, ConnectsKeepsInv DEF request, Waiting
  <2>2. CASE ~Connects(c, "asking")
    <3>1. Becomes(c, "failed") /\ UNCHANGED <<serverVars, main, lock, unit, admin, manager, faults>>
      BY <1>6, <2>2 DEF request
    <3>2. Core'
      BY <3>1, CoreSame DEF IInv, coreVars, serverVars
    <3>3. conn[c].at = "none"
      BY <1>6 DEF request, IInv, Owned, Waiting
    <3>4. Owned'
      BY <3>1, <3>3, CmdStep DEF IInv, Owned, serverVars, CmdAt
    <3>5. ServiceInv'
      BY <3>1, ServiceKept DEF IInv, serverVars
    <3> QED
      BY <3>1, <3>2, <3>4, <3>5 DEF IInv
  <2> QED
    BY <2>1, <2>2
<1> QED
  BY <1>1, <1>2, <1>3, <1>4, <1>5, <1>6 DEF Client

LEMMA StallKeepsInv ==
  ASSUME IInv, NEW p \in Peers, Stall(p), UNCHANGED lifeVars
  PROVE  IInv'
<1> DEFINE x == [to |-> socket, at |-> "backlog", says |-> None]
<1>1. /\ p \in Users /\ conn[p].at \notin Active /\ conn' = [conn EXCEPT ![p] = x]
      /\ UNCHANGED <<socket, ipc, live, build, main, lock, unit, admin, manager, faults, cmd>>
      /\ x \in Conn /\ x.to \in Daemons
  BY DEF IInv, Stall, connect, Users, Conn, ConnAt, Active, AnyBuild, Core, CoreTypes, Listening,
         NoConn, lifeVars
<1> HIDE DEF x
<1>2. x.at = "backlog"
  BY DEF x
<1>3. Core'
  BY <1>1, <1>2, ConnKeepsCore DEF IInv
<1>4. \A c \in Clients : conn'[c] = conn[c]
  BY <1>1, ServerConstants DEF IInv, Core, CoreTypes, Users
<1>5. Owned'
  BY <1>1, <1>4, OwnedKept DEF IInv
<1>6. ServiceInv'
  BY <1>1, ServiceKept DEF IInv
<1> QED
  BY <1>1, <1>3, <1>5, <1>6 DEF IInv

-----------------------------------------------------------------------------
(***************************************************************************)
(* The service manager's steps, and those of install and uninstall.        *)
(***************************************************************************)
LEMMA UnitStartsKeeps ==
  ASSUME IInv, UnitStarts, admin' \in AdminRecord,
         admin' = admin \/ (admin'.pc = "idle" /\ ~admin'.noted),
         admin'.pc \notin {"uninstall: wait", "uninstall: note"},
         admin'.pc = "uninstall: stop only" => manager # "Launchd"
  PROVE  IInv'
<1>1. PICK d \in Daemons :
        /\ Starts(d, BuildOf["unit"])
        /\ unit' = [unit EXCEPT !.loaded = TRUE, !.state = "active", !.runs = d]
  BY DEF UnitStarts
<1>2. unit.runs = None /\ UNCHANGED <<socket, ipc, conn, live, lock, cmd, manager, faults>>
  BY DEF UnitStarts
<1>3. Core'
  BY <1>1, <1>2, StartsKeepsCore DEF IInv, AnyBuild
<1>4. Owned'
  BY <1>2, OwnedKept DEF IInv
<1>5. ServiceInv'
  BY <1>1, <1>2 DEF IInv, ServiceInv, ServiceTypes, UnitInv, StopInv, LookInv, StillThere,
                    NoteIsTrue, Stopping
<1> QED
  BY <1>2, <1>3, <1>4, <1>5 DEF IInv

LEMMA AdminOnly ==
  ASSUME IInv, OnlyAdmin, ServiceInv'
  PROVE  IInv'
<1>1. Core'
  BY CoreSame DEF IInv, OnlyAdmin, coreVars
<1>2. Owned'
  BY OwnedKept DEF IInv, OnlyAdmin, serverVars
<1> QED
  BY <1>1, <1>2 DEF IInv, OnlyAdmin

LEMMA BeginsRecord ==
  ASSUME NEW pc \in AdminAt, Begins(pc), IInv
  PROVE  /\ admin'.pc = pc /\ admin'.late = unit.dying /\ ~admin'.noted
         /\ admin'.waits = MaxWaits /\ admin'.answered = 0
         /\ admin' \in AdminRecord
<1>1. admin \in AdminRecord
  BY DEF IInv, ServiceInv, ServiceTypes
<1>2. unit.dying \in BOOLEAN /\ MaxWaits \in Nat /\ admin.count + 1 \in Nat
  BY <1>1, LifecycleConstants DEF IInv, ServiceInv, ServiceTypes, AdminRecord
<1>3. admin' = [pc |-> pc, waits |-> MaxWaits, count |-> admin.count + 1,
                late |-> unit.dying, answered |-> 0, noted |-> FALSE]
  BY <1>1 DEF Begins, AdminRecord
<1> QED
  BY <1>1, <1>2, <1>3 DEF AdminRecord

LEMMA UninstallKeepsInv ==
  ASSUME IInv, Uninstall
  PROVE  IInv'
<1> USE LifecycleConstants
<1>1. OnlyAdmin /\ UNCHANGED <<unit, manager>>
  BY DEF Uninstall, OnlyAdmin
<1> DEFINE pc == IF managed_daemon_is_active THEN "uninstall: stop" ELSE "uninstall: stop only"
<1>2. /\ admin'.pc = pc /\ admin'.late = unit.dying /\ ~admin'.noted
      /\ admin'.waits = MaxWaits /\ admin'.answered = 0
      /\ admin' \in AdminRecord
  <2>1. pc \in AdminAt /\ Begins(pc)
    BY DEF Uninstall, AdminAt
  <2> QED
    BY <2>1, BeginsRecord
<1>3. ServiceInv'
  BY <1>1, <1>2 DEF IInv, ServiceInv, ServiceTypes, UnitInv, StopInv, LookInv, StillThere, NoteIsTrue,
                    managed_daemon_is_active, Stopping
<1> QED
  BY <1>1, <1>3, AdminOnly

LEMMA StopKeepsInv ==
  ASSUME IInv, Stop
  PROVE  IInv'
<1> DEFINE pc == IF admin.pc = "uninstall: stop" THEN "uninstall: wait" ELSE "uninstall: note"
<1>1. /\ admin.pc \in Stopping /\ admin'.pc = pc /\ admin'.late = admin.late
      /\ ~admin'.noted /\ admin'.waits = MaxWaits /\ admin'.answered = 0
      /\ UNCHANGED <<cmd, manager, faults>> /\ admin' \in AdminRecord
  BY DEF Stop, Admin, IInv, ServiceInv, ServiceTypes, LookInv, AdminAt, AdminRecord, Stopping
<1>2. CASE manager = "Systemd" /\ unit.runs # None
  <2>1. unit.runs \in Daemons /\ Ends(unit.runs)
    BY <1>2 DEF Stop, IInv, ServiceInv, ServiceTypes
  <2>2. Core'
    BY <2>1, EndsKeepsCore DEF IInv
  <2>3. Owned'
    <3>1. ASSUME NEW c \in Clients, conn[c].at = "none"
          PROVE  conn'[c] = conn[c]
      BY <2>1, <3>1 DEF Ends, Severed, In, Users
    <3> QED
      BY <1>1, <3>1, OwnedKept DEF IInv
  <2>4. unit' = [unit EXCEPT !.loaded = FALSE, !.state = "inactive", !.runs = None]
    BY <1>2 DEF Stop
  <2>5. ServiceInv'
    BY <1>1, <1>2, <2>4 DEF IInv, ServiceInv, ServiceTypes, UnitInv, StopInv, LookInv, StillThere,
                            NoteIsTrue, Stopping
  <2> QED
    BY <1>1, <2>2, <2>3, <2>5 DEF IInv
<1>3. CASE ~(manager = "Systemd" /\ unit.runs # None)
  <2>1. BootedOut /\ UNCHANGED <<serverVars, main, lock>>
    BY <1>3 DEF Stop
  <2>2. Core'
    BY <2>1, CoreSame DEF IInv, coreVars
  <2>3. Owned'
    BY <1>1, <2>1, OwnedKept DEF IInv, serverVars
  <2>4. ServiceInv'
    <3>1. UnitInv' /\ unit' \in [loaded : BOOLEAN, state : {"inactive", "active", "failed"},
                                 runs : Daemons \cup {None}, dying : BOOLEAN]
      BY <1>1, <1>3, <2>1 DEF IInv, ServiceInv, ServiceTypes, UnitInv, BootedOut
    <3>2. ~unit'.loaded /\ unit'.runs = unit.runs /\ (unit'.runs # None => unit'.dying)
      BY <1>3, <2>1 DEF IInv, ServiceInv, ServiceTypes, BootedOut
    <3>3. StopInv'
      BY <1>1, <3>2 DEF StopInv
    <3>4. pc = "uninstall: note" /\ unit.runs # None => admin.late
      BY <1>1, <1>3 DEF IInv, ServiceInv, ServiceTypes, StopInv, Stopping
    <3>5. admin'.answered + admin'.waits = MaxWaits
      <4>1. MaxWaits \in Nat /\ 0 + MaxWaits = MaxWaits
        BY LifecycleConstants
      <4> QED
        BY <1>1, <4>1, Zenon
    <3>6. LookInv'
      BY <1>1, <3>2, <3>4, <3>5 DEF LookInv, StillThere, Stopping
    <3> QED
      BY <1>1, <3>1, <3>3, <3>6 DEF IInv, ServiceInv, ServiceTypes, NoteIsTrue
  <2> QED
    BY <1>1, <2>2, <2>3, <2>4 DEF IInv
<1> QED
  BY <1>2, <1>3

LEMMA ServiceKeepsInv ==
  ASSUME IInv, Service \/ Install
  PROVE  IInv'
<1> USE LifecycleConstants
<1>0. admin \in AdminRecord
  BY DEF IInv, ServiceInv, ServiceTypes
<1>1. CASE Restart
  <2>1. UnitStarts /\ admin' = admin /\ unit.loaded
    BY <1>1 DEF Restart
  <2>2. /\ admin.pc \notin {"uninstall: wait", "uninstall: note"}
        /\ admin.pc = "uninstall: stop only" => manager # "Launchd"
    BY <2>1 DEF IInv, ServiceInv, StopInv
  <2> QED
    BY <1>0, <2>1, <2>2, UnitStartsKeeps
<1>2. CASE InstallEnable
  <2>1. admin'.pc = "idle" /\ ~admin'.noted /\ admin' \in AdminRecord
    BY <1>0, <1>2 DEF InstallEnable, Admin, AdminAt, AdminRecord, IInv, ServiceInv, LookInv
  <2>2. CASE UnitStarts
    BY <2>1, <2>2, UnitStartsKeeps
  <2>3. CASE ~UnitStarts
    <3>1. OnlyAdmin /\ UNCHANGED <<unit, manager>>
      BY <1>2, <2>3 DEF InstallEnable, enable_now, bootstrap, NoneStarted, OnlyAdmin
    <3>2. ServiceInv'
      BY <2>1, <3>1 DEF IInv, ServiceInv, ServiceTypes, UnitInv, StopInv, LookInv,
                        NoteIsTrue, Stopping
    <3> QED
      BY <3>1, <3>2, AdminOnly
  <2> QED
    BY <2>2, <2>3
<1>3. CASE InstallWrite
  <2>1. /\ admin'.pc = "install: enable" /\ ~admin'.noted /\ admin' \in AdminRecord
        /\ UNCHANGED <<serverVars, main, lock, cmd, manager, faults>>
    BY <1>0, <1>3 DEF InstallWrite, Admin, AdminAt, AdminRecord, IInv, ServiceInv, LookInv
  <2>2. Core'
    BY <2>1, CoreSame DEF IInv, coreVars
  <2>3. Owned'
    BY <2>1, OwnedKept DEF IInv, serverVars
  <2>4. unit' = unit \/ (manager = "Launchd" /\ BootedOut)
    BY <1>3 DEF InstallWrite
  <2>5. ServiceInv'
    BY <2>1, <2>4 DEF IInv, ServiceInv, ServiceTypes, UnitInv, StopInv, LookInv,
                      NoteIsTrue, Stopping, BootedOut
  <2> QED
    BY <2>1, <2>2, <2>3, <2>5 DEF IInv
<1>4. CASE Install \/ InstallActive
  <2>1. OnlyAdmin /\ UNCHANGED <<unit, manager>>
    BY <1>4 DEF Install, InstallActive, OnlyAdmin
  <2>2. /\ admin'.pc \in {"idle", "install: active?", "install: write"} /\ ~admin'.noted
        /\ admin' \in AdminRecord
    <3>1. CASE Install
      <4>1. PICK pc \in {"install: active?", "install: write"} : Begins(pc)
        BY <3>1 DEF Install
      <4> QED
        BY <4>1, BeginsRecord DEF AdminAt
    <3>2. CASE InstallActive
      BY <1>0, <3>2 DEF InstallActive, Admin, AdminAt, AdminRecord, IInv, ServiceInv, LookInv
    <3> QED
      BY <1>4, <3>1, <3>2
  <2>3. ServiceInv'
    BY <2>1, <2>2 DEF IInv, ServiceInv, ServiceTypes, UnitInv, StopInv, LookInv,
                      NoteIsTrue, Stopping
  <2> QED
    BY <2>1, <2>3, AdminOnly
<1>5. CASE Wait
  <2>1. admin.pc = "uninstall: wait" /\ OnlyAdmin /\ UNCHANGED <<unit, manager, socket>>
    BY <1>5 DEF Wait, OnlyAdmin, serverVars
  <2>2. ~admin.noted /\ admin.waits \in Nat /\ admin.answered \in Nat
    BY <1>0, <2>1 DEF AdminRecord, IInv, ServiceInv, LookInv
  <2>3. StillThere => Listening /\ StillAnswers
    BY <1>5 DEF StillThere, StillAnswers, Listening, IInv, ServiceInv, ServiceTypes
  <2>4. CASE Listening /\ admin.waits > 0
    <3>1. admin' = [admin EXCEPT !.waits = @ - 1,
                                 !.answered = IF StillAnswers THEN @ + 1 ELSE @]
      BY <1>5, <2>4 DEF Wait
    <3> DEFINE seen == IF StillAnswers THEN admin.answered + 1 ELSE admin.answered
    <3>2. /\ admin.waits - 1 \in Nat /\ seen \in Nat
          /\ StillThere => seen + (admin.waits - 1) = admin.answered + admin.waits
      BY <2>2, <2>3, <2>4
    <3>3. /\ admin'.pc = "uninstall: wait" /\ ~admin'.noted /\ admin'.late = admin.late
          /\ admin'.waits = admin.waits - 1 /\ admin'.answered = seen /\ admin' \in AdminRecord
      BY <1>0, <2>1, <2>2, <3>1, <3>2 DEF AdminRecord
    <3>4. StillThere => admin'.answered + admin'.waits = MaxWaits
      BY <2>1, <3>2, <3>3 DEF IInv, ServiceInv, LookInv
    <3>5. ServiceInv'
      BY <2>1, <3>4, <3>3 DEF IInv, ServiceInv, ServiceTypes, UnitInv, StopInv, LookInv, StillThere,
                        NoteIsTrue, Stopping
    <3> QED
      BY <2>1, <3>5, AdminOnly
  <2>5. CASE ~(Listening /\ admin.waits > 0)
    <3>1. /\ admin'.pc = "uninstall: note" /\ ~admin'.noted /\ admin'.late = admin.late
          /\ admin'.answered = admin.answered /\ admin' \in AdminRecord
      BY <1>0, <1>5, <2>2, <2>5 DEF Wait, Admin, AdminAt, AdminRecord
    <3>2. StillThere => admin.answered = MaxWaits
      <4> SUFFICES ASSUME StillThere
                   PROVE  admin.answered = MaxWaits
        OBVIOUS
      <4>1. ~(admin.waits > 0)
        BY <2>3, <2>5
      <4>2. admin.answered + admin.waits = MaxWaits
        BY <2>1 DEF IInv, ServiceInv, LookInv
      <4> QED
        BY <2>2, <4>1, <4>2
    <3>3. ServiceInv'
      BY <2>1, <3>1, <3>2 DEF IInv, ServiceInv, ServiceTypes, UnitInv, StopInv, LookInv, StillThere,
                              NoteIsTrue, Stopping
    <3> QED
      BY <2>1, <3>3, AdminOnly
  <2> QED
    BY <2>4, <2>5
<1>6. CASE Note
  <2>1. OnlyAdmin /\ UNCHANGED <<unit, manager>>
    BY <1>6 DEF Note, OnlyAdmin
  <2>2. StillAnswers => admin.answered = MaxWaits \/ admin.late
    BY <1>6, NamesDiffer DEF Note, StillAnswers, StillThere, Listening, IInv, ServiceInv, LookInv
  <2>3. /\ admin'.pc = "idle" /\ admin'.noted = StillAnswers /\ admin'.late = admin.late
        /\ admin'.answered = admin.answered /\ admin' \in AdminRecord
    BY <1>0, <1>6 DEF Note, AdminAt, AdminRecord, StillAnswers, Listening
  <2>4. ServiceInv'
    BY <2>1, <2>2, <2>3 DEF IInv, ServiceInv, ServiceTypes, UnitInv, StopInv, LookInv, StillThere,
                            NoteIsTrue, Stopping
  <2> QED
    BY <2>1, <2>4, AdminOnly
<1> QED
  BY <1>1, <1>2, <1>3, <1>4, <1>5, <1>6, StopKeepsInv DEF Service

-----------------------------------------------------------------------------
(***************************************************************************)
(* The theorems.                                                           *)
(***************************************************************************)
LEMMA InitInv == Init => IInv
<1> SUFFICES ASSUME Init
             PROVE  IInv
  OBVIOUS
<1> USE DEF Init, IpcInit
<1>1. CoreTypes
  BY NoConnIsConn DEF CoreTypes, IpcAt, MainAt, AnyBuild
<1>2. \A u \in Users : conn[u].at = "none"
  BY NoConnIsConn
<1>3. LockHeld /\ InlineHeld /\ Directed /\ Capped /\ SocketKept
  BY <1>2, NamesDiffer, UsersFinite DEF LockHeld, InlineHeld, In, Directed, Active, Capped, SocketKept
<1>4. SlotsAreWorkers
  <2>1. \A d \in Daemons : Workers(d) = {}
    BY <1>2 DEF Workers, In
  <2> QED
    BY <2>1, FS_EmptySet DEF SlotsAreWorkers, Workers
<1>5. Owned
  BY <1>2, LifecycleConstants DEF Owned, Cmd, CmdAt, Users
<1>6. ServiceInv
  BY LifecycleConstants DEF ServiceInv, ServiceTypes, AdminRecord, AdminAt, UnitInv, StopInv,
                            LookInv, NoteIsTrue, Stopping
<1> QED
  BY <1>1, <1>3, <1>4, <1>5, <1>6, LifecycleConstants DEF IInv, Core

LEMMA StepKeepsInv == IInv /\ [Next]_vars => IInv'
<1> SUFFICES ASSUME IInv, [Next]_vars
             PROVE  IInv'
  OBVIOUS
<1>1. CASE UNCHANGED vars
  <2>1. Core'
    BY <1>1, CoreSame DEF IInv, vars, lifeVars, serverVars, coreVars
  <2>2. Owned'
    BY <1>1, OwnedKept DEF IInv, vars, lifeVars, serverVars
  <2>3. ServiceInv'
    BY <1>1, ServiceKept DEF IInv, vars, lifeVars, serverVars
  <2> QED
    BY <1>1, <2>1, <2>2, <2>3 DEF IInv, vars, lifeVars
<1>2. ASSUME NEW d \in Daemons, Daemon(d) \/ Faulty(d)
      PROVE  IInv'
  BY <1>2, DaemonKeepsInv
<1>3. ASSUME NEW c \in Clients, Client(c) \/ GivesUp(c)
      PROVE  IInv'
  BY <1>3, ClientKeepsInv
<1>4. ASSUME NEW p \in Peers, Stall(p), UNCHANGED lifeVars
      PROVE  IInv'
  BY <1>4, StallKeepsInv
<1> QED
  BY <1>1, <1>2, <1>3, <1>4, ServiceKeepsInv, UninstallKeepsInv DEF Next

\* The inductive invariant holds in every reachable state: who holds the lock
\* (run_with), what each connection, command and slot is at (serve, request),
\* and where the service and its commands stand (register/).
THEOREM LifecycleInductive == Spec => []IInv
<1>1. Init => IInv
  BY InitInv
<1>2. IInv /\ [Next]_vars => IInv'
  BY StepKeepsInv
<1> QED
  BY <1>1, <1>2, PTL DEF Spec

\* The model keeps its types, and no daemon has more workers than the cap
\* (MAX_WORKERS in serve).
THEOREM LifecycleTyped == Spec => []TypeOK
<1>1. IInv => TypeOK
  <2> SUFFICES ASSUME IInv
               PROVE  TypeOK
    OBVIOUS
  <2>1. \A d \in Daemons : live[d] = Cardinality(Workers(d))
    BY DEF IInv, Core, SlotsAreWorkers, Workers
  <2>2. \A d \in Daemons : live[d] \in 0 .. MAX_WORKERS
    BY <2>1, WorkersFinite, UsersFinite DEF IInv, Core, Capped
  <2>3. live \in [Daemons -> 0 .. MAX_WORKERS]
    BY <2>2 DEF IInv, Core, CoreTypes
  <2> QED
    BY <2>3 DEF IInv, Core, CoreTypes, IpcAt, MainAt, ServiceInv, ServiceTypes, TypeOK
<1> QED
  BY <1>1, LifecycleInductive, PTL

\* Two daemons never have the queue at once, whoever starts them and however
\* they end (acquire_singleton_lock, run_with).
THEOREM NeverTwoSchedulers == Spec => []OneScheduler
<1>1. IInv => OneScheduler
  BY DEF IInv, Core, LockHeld, OneScheduler
<1> QED
  BY <1>1, LifecycleInductive, PTL

\* The path leads to the daemon that serves, though it is tested, removed and
\* bound in three steps (serve_with).
THEOREM NeverStolen == Spec => []SocketKept
<1>1. IInv => SocketKept
  BY DEF IInv, Core
<1> QED
  BY <1>1, LifecycleInductive, PTL

\* The worker count is the number of workers, however a connection ends
\* (WorkerSlot, serve_with).
THEOREM SlotsAreCounted == Spec => []SlotsAreWorkers
<1>1. IInv => SlotsAreWorkers
  BY DEF IInv, Core
<1> QED
  BY <1>1, LifecycleInductive, PTL

\* The note at the end of uninstall speaks of the daemon that uninstall has just
\* stopped only if that daemon answered every look of the wait, or was on its way
\* out before the command began, under either manager (uninstall).
THEOREM NotesAreTrue == Spec => []NoteIsTrue
<1>1. IInv => NoteIsTrue
  BY DEF IInv, ServiceInv
<1> QED
  BY <1>1, LifecycleInductive, PTL
=============================================================================
