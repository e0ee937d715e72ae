---------------------------- MODULE DaemonElection ----------------------------
(***************************************************************************)
(* The per-user daemon and the calls of its clients (src/src/daemon/mod.rs *)
(* SocketOwner, src/src/main.rs run_daemon and dispatch_connection,        *)
(* src/src/daemon/client.rs connect_or_start and call).  A daemon holds an *)
(* flock, clears the socket path, binds it and accepts; it may be killed   *)
(* at any step, and it may leave when idle.  A client connects, starts a   *)
(* daemon when nobody answers, writes one request and waits for the reply. *)
(***************************************************************************)
EXTENDS Naturals, FiniteSets, FiniteSetTheorems, TLAPS

CONSTANTS
    Daemons,   \* daemon processes, each started at most as often as it ends
    Readers,   \* clients with read-only calls, through connect_or_start
    Writers,   \* clients with a mutation (`index`), which only use a running daemon
    MaxFaults  \* bound on crashes and idle exits

Clients == Readers \cup Writers

Inodes == 1..(Cardinality(Daemons) + 1)

VARIABLES
    lock,    \* holder of the flock, or "none"
    socket,  \* the file at the socket path: its inode and the process that bound it
    proc,    \* where each daemon is
    inode,   \* the inode each daemon bound (SocketOwner.inode)
    call,    \* each client: place, attempt, and the daemon it is connected to
    job,     \* the request as the connected daemon holds it
    ran,     \* how often the client's present request was carried out
    faults

vars == <<lock, socket, proc, inode, call, job, ran, faults>>

NoSocket == [inode |-> 0, by |-> "none"]

NoCall == [pc |-> "idle", attempt |-> 0, to |-> "none"]

Init ==
    /\ lock = "none" /\ socket = NoSocket
    /\ proc = [d \in Daemons |-> "off"] /\ inode = [d \in Daemons |-> 0]
    /\ call = [c \in Clients |-> NoCall] /\ job = [c \in Clients |-> "none"]
    /\ ran = [c \in Clients |-> 0] /\ faults = 0

\* The listening descriptor lives as long as the owner.
Listening(d) == proc[d] \in {"serving", "stopping"}

(***************************************************************************)
(* The daemon                                                              *)
(***************************************************************************)

\* SocketOwner::acquire: a lost election ends the process.
Elect(d) ==
    /\ proc[d] = "starting"
    /\ IF lock = "none"
       THEN lock' = d /\ proc' = [proc EXCEPT ![d] = "elected"]
       ELSE proc' = [proc EXCEPT ![d] = "off"] /\ UNCHANGED lock
    /\ UNCHANGED <<socket, inode, call, job, ran, faults>>

\* "Only the elected lock holder is allowed to clear a crashed owner's socket."
Clear(d) ==
    /\ proc[d] = "elected"
    /\ socket' = NoSocket
    /\ proc' = [proc EXCEPT ![d] = "cleared"]
    /\ UNCHANGED <<lock, inode, call, job, ran, faults>>

\* bind creates the file, whose inode number may have been used before.
Bind(d) ==
    /\ proc[d] = "cleared"
    /\ socket = NoSocket
    /\ \E i \in Inodes :
        /\ socket' = [inode |-> i, by |-> d]
        /\ inode' = [inode EXCEPT ![d] = i]
    /\ proc' = [proc EXCEPT ![d] = "serving"]
    /\ UNCHANGED <<lock, call, job, ran, faults>>

\* A connection is accepted and its request is read.
Accept(d, c) ==
    /\ proc[d] = "serving" /\ call[c].to = d /\ call[c].pc = "sent" /\ job[c] = "none"
    /\ job' = [job EXCEPT ![c] = "read"]
    /\ UNCHANGED <<lock, socket, proc, inode, call, ran, faults>>

\* Mutant: the loop of dispatch_connection repeats `index` like a read.
BugRun(d, c) ==
    /\ proc[d] # "off" /\ call[c].to = d /\ job[c] = "read"
    /\ \E again \in {"read", "done"} : job' = [job EXCEPT ![c] = again]
    /\ ran' = [ran EXCEPT ![c] = IF @ < 2 THEN @ + 1 ELSE @]
    /\ UNCHANGED <<lock, socket, proc, inode, call, faults>>

\* dispatch_connection carries the request out; the handler's thread outlives
\* the decision to leave.
Run(d, c) ==
    /\ proc[d] # "off" /\ call[c].to = d /\ job[c] = "read"
    /\ job' = [job EXCEPT ![c] = "done"]
    /\ ran' = [ran EXCEPT ![c] = @ + 1]
    /\ UNCHANGED <<lock, socket, proc, inode, call, faults>>

\* The lifecycle has seen no client.  A request that was read and is not yet
\* attached does not count as one.
IdleExit(d) ==
    /\ proc[d] = "serving" /\ faults < MaxFaults
    /\ \A c \in Clients : call[c].to = d => job[c] # "done"
    /\ proc' = [proc EXCEPT ![d] = "stopping"]
    /\ faults' = faults + 1
    /\ UNCHANGED <<lock, socket, inode, call, job, ran>>

\* Drop of SocketOwner removes the file only if it is its own,
Unlink(d) ==
    /\ proc[d] = "stopping"
    /\ socket' = IF socket.inode = inode[d] THEN NoSocket ELSE socket
    /\ proc' = [proc EXCEPT ![d] = "unlinked"]
    /\ UNCHANGED <<lock, inode, call, job, ran, faults>>

\* and only then drops the lock and the listener.
Unlock(d) ==
    /\ proc[d] = "unlinked"
    /\ lock' = "none"
    /\ proc' = [proc EXCEPT ![d] = "draining"]
    /\ UNCHANGED <<socket, inode, call, job, ran, faults>>

\* The runtime waits for handlers that began, then the process ends and what
\* was never accepted is reset.
Drained(d) ==
    /\ proc[d] = "draining"
    /\ \A c \in Clients : call[c].to = d => job[c] # "read"
    /\ proc' = [proc EXCEPT ![d] = "off"]
    /\ UNCHANGED <<lock, socket, inode, call, job, ran, faults>>

\* A kill leaves the socket file behind and frees the lock.
Crash(d) ==
    /\ proc[d] # "off" /\ faults < MaxFaults
    /\ proc' = [proc EXCEPT ![d] = "off"]
    /\ lock' = IF lock = d THEN "none" ELSE lock
    /\ faults' = faults + 1
    /\ UNCHANGED <<socket, inode, call, job, ran>>

(***************************************************************************)
(* The clients                                                             *)
(***************************************************************************)
Place(c, pc) == call' = [call EXCEPT ![c].pc = pc]

Begin(c) ==
    /\ call[c].pc = "idle"
    /\ call' = [call EXCEPT ![c] = [pc |-> "connect", attempt |-> 1, to |-> "none"]]
    /\ ran' = [ran EXCEPT ![c] = 0] /\ job' = [job EXCEPT ![c] = "none"]
    /\ UNCHANGED <<lock, socket, proc, inode, faults>>

Reachable == socket # NoSocket /\ Listening(socket.by) /\ inode[socket.by] = socket.inode

Connected(c) ==
    /\ Reachable
    /\ call' = [call EXCEPT ![c].pc = "connected", ![c].to = socket.by]
    /\ job' = [job EXCEPT ![c] = "none"]

\* The first connect of connect_or_start, and the only one of `index`.
Connect(c) ==
    /\ call[c].pc = "connect"
    /\ \/ Connected(c)
       \/ /\ ~Reachable /\ UNCHANGED job
          /\ Place(c, IF c \in Readers THEN "start" ELSE "unavailable")
    /\ UNCHANGED <<lock, socket, proc, inode, ran, faults>>

\* start_daemon: a process is spawned; then the client polls.
Start(c) ==
    /\ call[c].pc = "start"
    /\ \/ \E d \in Daemons : /\ proc[d] = "off"
                             /\ proc' = [proc EXCEPT ![d] = "starting"]
       \/ (\A d \in Daemons : proc[d] # "off") /\ UNCHANGED proc
    /\ Place(c, "poll")
    /\ UNCHANGED <<lock, socket, inode, job, ran, faults>>

Poll(c) ==
    /\ call[c].pc = "poll"
    /\ Connected(c)
    /\ UNCHANGED <<lock, socket, proc, inode, ran, faults>>

\* The deadline of the poll: the next attempt of a read-only call, or the end.
\* It does not pass while an elected daemon is on its way to its socket.
PollExpires(c) ==
    /\ call[c].pc = "poll" /\ ~Reachable
    /\ \A d \in Daemons : proc[d] \notin {"starting", "elected", "cleared"}
    /\ call' = [call EXCEPT ![c].pc = IF call[c].attempt < 2 THEN "connect" ELSE "unavailable",
                            ![c].attempt = 2]
    /\ UNCHANGED <<lock, socket, proc, inode, job, ran, faults>>

Send(c) ==
    /\ call[c].pc = "connected"
    /\ Place(c, "sent")
    /\ UNCHANGED <<lock, socket, proc, inode, job, ran, faults>>

Reply(c) ==
    /\ call[c].pc = "sent" /\ job[c] = "done"
    /\ Place(c, "ok")
    /\ UNCHANGED <<lock, socket, proc, inode, job, ran, faults>>

\* The daemon is gone: the connection is reset.
Broken(c) == call[c].pc \in {"connected", "sent"} /\ proc[call[c].to] = "off"

\* `call`: only a read is repeated; a mutation that may have been written ends
\* as outcome_unknown.
AfterBreak(c) ==
    IF c \in Writers THEN "unknown"
    ELSE IF call[c].attempt < 2 THEN "connect" ELSE "unavailable"

\* The failed write or read of a frame.
Lost(c) ==
    /\ Broken(c)
    /\ call' = [call EXCEPT ![c] = [pc |-> AfterBreak(c), attempt |-> 2, to |-> "none"]]
    /\ UNCHANGED <<lock, socket, proc, inode, job, ran, faults>>

\* The command has ended and may be given again.
Again(c) ==
    /\ call[c].pc \in {"ok", "unavailable", "unknown"}
    /\ call' = [call EXCEPT ![c] = NoCall] /\ job' = [job EXCEPT ![c] = "none"]
    /\ UNCHANGED <<lock, socket, proc, inode, ran, faults>>

DaemonStep(d) ==
    Elect(d) \/ Clear(d) \/ Bind(d) \/ Unlink(d) \/ Unlock(d) \/ Drained(d)

ServeStep(d, c) == Accept(d, c) \/ Run(d, c)

ClientStep(c) ==
    Begin(c) \/ Connect(c) \/ Start(c) \/ Poll(c) \/ PollExpires(c) \/ Send(c) \/ Reply(c) \/ Lost(c) \/ Again(c)

Next ==
    \/ \E d \in Daemons : DaemonStep(d) \/ IdleExit(d) \/ Crash(d) \/ \E c \in Clients : ServeStep(d, c)
    \/ \E c \in Clients : ClientStep(c)

Spec == Init /\ [][Next]_vars

(***************************************************************************)
(* Properties                                                              *)
(***************************************************************************)

TypeOK ==
    /\ lock \in Daemons \cup {"none"}
    /\ socket \in [inode : Inodes, by : Daemons] \cup {NoSocket}
    /\ proc \in [Daemons -> {"off", "starting", "elected", "cleared", "serving", "stopping",
                             "unlinked", "draining"}]
    /\ inode \in [Daemons -> 0..(Cardinality(Daemons) + 1)]
    /\ call \in [Clients -> [pc : {"idle", "connect", "start", "poll", "connected", "sent", "ok",
                                   "unavailable", "unknown"},
                             attempt : 0..2, to : Daemons \cup {"none"}]]
    /\ job \in [Clients -> {"none", "read", "done"}]

\* A serving daemon stays reachable: nobody removes or replaces its socket, not
\* the owner before it, not a starter that lost, not one that was killed.
ServingReachable ==
    \A d \in Daemons : proc[d] = "serving" => socket = [inode |-> inode[d], by |-> d]

\* A mutation is carried out at most once per command, however the connection
\* is lost (client.rs: "repeat only read-only calls after uncertain delivery").
MutationAtMostOnce == \A c \in Writers : ran[c] <= 1

\* daemon_unavailable tells the truth: that mutation was not carried out and
\* nothing still holds it, so the user may run it another way.
UnavailableMeansNotRun ==
    \A c \in Writers : call[c].pc = "unavailable" => ran[c] = 0 /\ job[c] = "none"

(***************************************************************************)
(* The three properties hold for any daemons and clients.  The lock makes  *)
(* the path from the election to the unlink exclusive, which is why nobody *)
(* touches the socket of a serving daemon; and a mutation that was not yet *)
(* sent has no job, one that was sent is never sent again.                 *)
(***************************************************************************)

World == "none" \notin Daemons /\ IsFiniteSet(Daemons)

\* A daemon that may touch the socket path holds the lock.
LockInv ==
    \A d \in Daemons :
        proc[d] \in {"elected", "cleared", "serving", "stopping", "unlinked"} => lock = d

\* How far a mutation is, by the place of its client.
WriterInv(c) ==
    /\ ran[c] \in 0..1
    /\ call[c].pc \in {"connect", "start", "poll", "connected", "unavailable"} =>
          ran[c] = 0 /\ job[c] = "none"
    /\ call[c].pc = "sent" /\ job[c] # "done" => ran[c] = 0
    /\ call[c].pc = "ok" => job[c] = "done"
    /\ call[c].pc \in {"idle", "unknown"} => call[c].to = "none"

ElectionInv ==
    /\ TypeOK /\ ran \in [Clients -> Nat]
    /\ LockInv /\ ServingReachable
    /\ \A c \in Writers : WriterInv(c)

\* The bound on inode numbers is a number.
LEMMA InodeNumbers == World => Cardinality(Daemons) \in Nat
  BY FS_CardinalityType DEF World

\* Nothing runs, nothing is asked.
LEMMA ElectionInit == World /\ Init => ElectionInv
  BY InodeNumbers DEF Init, ElectionInv, TypeOK, LockInv, ServingReachable, WriterInv, NoSocket,
     NoCall, Clients, World

\* A step of a daemon leaves the clients alone.
LEMMA DaemonKeepsWriters ==
    ASSUME \A c \in Writers : WriterInv(c), UNCHANGED <<call, job, ran>>
    PROVE  \A c \in Writers : WriterInv(c)'
  BY DEF WriterInv

\* The steps on the way from the election to the exit, and a kill.
LEMMA DaemonKeeps ==
    ASSUME World, ElectionInv, NEW d \in Daemons, DaemonStep(d) \/ IdleExit(d) \/ Crash(d)
    PROVE  ElectionInv'
  <1>0. Cardinality(Daemons) \in Nat /\ d # "none"
    BY InodeNumbers DEF World
  <1>1. UNCHANGED <<call, job, ran>>
    BY DEF DaemonStep, Elect, Clear, Bind, Unlink, Unlock, Drained, IdleExit, Crash
  <1>2. \A c \in Writers : WriterInv(c)'
    BY <1>1, DaemonKeepsWriters DEF ElectionInv
  <1> SUFFICES TypeOK' /\ LockInv' /\ ServingReachable'
    BY <1>1, <1>2 DEF ElectionInv
  <1> USE DEF ElectionInv, TypeOK, LockInv, ServingReachable
  <1>3. CASE Elect(d)
    <2>1. CASE lock = "none"
      <3>1. /\ \A e \in Daemons : proc'[e] = IF e = d THEN "elected" ELSE proc[e]
            /\ lock' = d /\ UNCHANGED <<socket, inode, call, job>>
            /\ proc' = [proc EXCEPT ![d] = "elected"]
        BY <1>3, <2>1 DEF Elect
      <3>2. TypeOK'
        BY <3>1
      <3> QED BY <2>1, <3>1, <3>2 DEF World
    <2>2. CASE lock # "none"
      BY <1>0, <1>3, <2>2 DEF Elect
    <2> QED BY <2>1, <2>2
  <1>4. CASE Clear(d)
    BY <1>0, <1>4 DEF Clear
  <1>5. CASE Bind(d)
    <2>1. PICK i \in Inodes : socket' = [inode |-> i, by |-> d] /\ inode' = [inode EXCEPT ![d] = i]
      BY <1>5 DEF Bind
    <2>2. i \in 0..(Cardinality(Daemons) + 1)
      BY <1>0 DEF Inodes
    <2> QED BY <1>0, <1>5, <2>1, <2>2 DEF Bind
  <1>6. CASE Unlink(d)
    BY <1>0, <1>6 DEF Unlink
  <1>7. CASE Unlock(d)
    BY <1>0, <1>7 DEF Unlock
  <1>8. CASE Drained(d)
    BY <1>0, <1>8 DEF Drained
  <1>9. CASE IdleExit(d)
    BY <1>0, <1>9 DEF IdleExit
  <1>10. CASE Crash(d)
    BY <1>0, <1>10 DEF Crash
  <1> QED BY <1>3, <1>4, <1>5, <1>6, <1>7, <1>8, <1>9, <1>10 DEF DaemonStep

\* A request is read and carried out; it is connected, so it is not unknown.
LEMMA ServeKeeps ==
    ASSUME World, ElectionInv, NEW d \in Daemons, NEW c \in Clients, ServeStep(d, c)
    PROVE  ElectionInv'
  <1>1. /\ UNCHANGED <<lock, socket, proc, inode, call, faults>>
        /\ job' \in [Clients -> {"none", "read", "done"}] /\ ran' \in [Clients -> Nat]
        /\ \A e \in Clients \ {c} : job'[e] = job[e] /\ ran'[e] = ran[e]
    BY DEF ServeStep, Accept, Run, ElectionInv, TypeOK
  <1>2. TypeOK' /\ LockInv' /\ ServingReachable'
    BY <1>1 DEF ElectionInv, TypeOK, LockInv, ServingReachable
  <1>3. ASSUME NEW e \in Writers, e # c PROVE WriterInv(e)'
    BY <1>1, <1>3 DEF ElectionInv, WriterInv, Clients
  <1>4. CASE c \in Writers
    <2>1. WriterInv(c) /\ call[c].to = d /\ d # "none"
      BY <1>4 DEF ElectionInv, ServeStep, Accept, Run, World
    <2>2. ASSUME Accept(d, c) PROVE WriterInv(c)'
      BY <2>1, <2>2 DEF Accept, WriterInv, ElectionInv, TypeOK
    <2>3. ASSUME Run(d, c) PROVE WriterInv(c)'
      <3>1. /\ job[c] = "read" /\ job'[c] = "done" /\ ran'[c] = ran[c] + 1 /\ call' = call
            /\ call[c].pc \in {"idle", "connect", "start", "poll", "connected", "sent", "ok",
                               "unavailable", "unknown"}
        BY <2>3 DEF Run, ElectionInv, TypeOK
      <3>2. call[c].pc = "sent" /\ ran[c] = 0
        BY <2>1, <3>1 DEF WriterInv
      <3> QED BY <3>1, <3>2 DEF WriterInv
    <2>4. WriterInv(c)'
      BY <2>2, <2>3 DEF ServeStep
    <2> QED BY <1>1, <1>2, <1>3, <2>4 DEF ElectionInv
  <1> QED BY <1>1, <1>2, <1>3, <1>4 DEF ElectionInv

\* A client moves: at most it starts a daemon.
LEMMA ClientKeeps ==
    ASSUME World, ElectionInv, NEW c \in Clients, ClientStep(c)
    PROVE  ElectionInv'
  <1>1. /\ UNCHANGED <<lock, socket, inode, faults>>
        /\ \/ proc' = proc
           \/ \E d \in Daemons : proc[d] = "off" /\ proc' = [proc EXCEPT ![d] = "starting"]
    BY DEF ClientStep, Begin, Connect, Start, Poll, PollExpires, Send, Reply, Lost, Again
  <1>2. ServingReachable' /\ LockInv'
    BY <1>1 DEF ElectionInv, TypeOK, ServingReachable, LockInv
  <1>3. /\ job' \in [Clients -> {"none", "read", "done"}] /\ ran' \in [Clients -> Nat]
        /\ \A e \in Clients \ {c} : job'[e] = job[e] /\ ran'[e] = ran[e] /\ call'[e] = call[e]
    BY DEF ClientStep, Begin, Connect, Connected, Start, Poll, PollExpires, Send, Reply, Lost, Again,
           Place, ElectionInv, TypeOK
  <1>4. Reachable => socket.by \in Daemons
    BY DEF ElectionInv, TypeOK, Reachable
  <1>5. call' \in [Clients -> [pc : {"idle", "connect", "start", "poll", "connected", "sent", "ok",
                                     "unavailable", "unknown"},
                               attempt : 0..2, to : Daemons \cup {"none"}]]
    BY <1>4 DEF ClientStep, Begin, Connect, Connected, Start, Poll, PollExpires, Send, Reply, Lost,
                Again, Place, AfterBreak, NoCall, ElectionInv, TypeOK
  <1>6. TypeOK'
    BY <1>1, <1>3, <1>5 DEF ElectionInv, TypeOK
  <1>7. ASSUME NEW e \in Writers, e # c PROVE WriterInv(e)'
    BY <1>3, <1>7 DEF ElectionInv, WriterInv, Clients
  <1>8. ASSUME c \in Writers PROVE WriterInv(c)'
    <2>0. /\ WriterInv(c) /\ call \in [Clients -> [pc : {"idle", "connect", "start", "poll",
                                "connected", "sent", "ok", "unavailable", "unknown"},
                               attempt : 0..2, to : Daemons \cup {"none"}]]
          /\ job \in [Clients -> {"none", "read", "done"}] /\ ran \in [Clients -> Nat]
      BY <1>8 DEF ElectionInv, TypeOK
    <2>1. CASE Begin(c) \/ Again(c)
      BY <2>0, <2>1 DEF Begin, Again, NoCall, WriterInv
    <2>2. CASE Connect(c) \/ Poll(c)
      BY <2>0, <2>2 DEF Connect, Poll, Connected, Place, WriterInv
    <2>3. CASE Start(c) \/ PollExpires(c)
      BY <2>0, <2>3 DEF Start, PollExpires, Place, WriterInv
    <2>4. CASE Send(c) \/ Reply(c)
      BY <2>0, <2>4 DEF Send, Reply, Place, WriterInv
    <2>5. CASE Lost(c)
      BY <1>8, <2>0, <2>5 DEF Lost, AfterBreak, WriterInv
    <2> QED BY <2>1, <2>2, <2>3, <2>4, <2>5 DEF ClientStep
  <1> QED BY <1>2, <1>3, <1>6, <1>7, <1>8 DEF ElectionInv

\* Every step of a daemon, a connection or a client keeps the invariant.
LEMMA ElectionStep == World /\ ElectionInv /\ [Next]_vars => ElectionInv'
  <1> SUFFICES ASSUME World, ElectionInv, [Next]_vars PROVE ElectionInv'
    OBVIOUS
  <1>1. CASE UNCHANGED vars
    BY <1>1 DEF vars, ElectionInv, TypeOK, LockInv, ServingReachable, WriterInv
  <1>2. CASE Next
    BY <1>2, DaemonKeeps, ServeKeeps, ClientKeeps DEF Next
  <1> QED BY <1>1, <1>2

LEMMA ElectionImplies ==
    ElectionInv => TypeOK /\ ServingReachable /\ MutationAtMostOnce /\ UnavailableMeansNotRun
  BY DEF ElectionInv, WriterInv, MutationAtMostOnce, UnavailableMeansNotRun

\* For any finite set of daemons and any clients, over kills, idle exits and lost
\* connections: a serving daemon stays reachable, a mutation is carried out at most
\* once, and daemon_unavailable means it was not (SocketOwner, client.rs call).
THEOREM DaemonSafe ==
    ASSUME "none" \notin Daemons, IsFiniteSet(Daemons)
    PROVE  Spec => [](TypeOK /\ ServingReachable /\ MutationAtMostOnce /\ UnavailableMeansNotRun)
  <1>1. World
    BY DEF World
  <1>2. Init => ElectionInv
    BY <1>1, ElectionInit
  <1>3. ElectionInv /\ [Next]_vars => ElectionInv'
    BY <1>1, ElectionStep
  <1> QED BY <1>2, <1>3, ElectionImplies, PTL DEF Spec

=============================================================================
