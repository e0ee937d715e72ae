------------------------- MODULE ClientSuite_proofs -------------------------
(***************************************************************************)
(* For any daemons, clients, commands and bounds: what the clients' run    *)
(* checks of the election and of the calls sent to its winner, and of the  *)
(* finite commands.  The suite's parts share no variables: a component's   *)
(* inductive invariant holds while part names it.                          *)
(***************************************************************************)
EXTENDS ClientSuite, FiniteSetTheorems, SequenceTheorems, WellFoundedInduction, TLAPS

----------------------------------------------------------------------------
(* Election and calls (DaemonElection), in both instances.                 *)

LEMMA PartKept == [Next]_vars => part' = part
  <1>1. Next => part' = part
    BY DEF Next
  <1>2. UNCHANGED vars => part' = part
    BY DEF vars
  <1> QED BY <1>1, <1>2

CallsInv ==
    /\ part = "election" => Election!ElectionInv
    /\ part = "race" => Race!ElectionInv

LEMMA CallsStep == CallsInv /\ [Next]_vars => CallsInv'
  <1> SUFFICES ASSUME CallsInv, [Next]_vars PROVE CallsInv'
    OBVIOUS
  <1>0. part' = part
    BY PartKept
  <1>1. ASSUME part = "election" PROVE Election!ElectionInv'
    <2>1. [Election!Next]_Election!vars
      BY <1>1 DEF Next, vars, electionVars, Election!vars
    <2>2. Election!World
      BY ElectionConstants DEF Election!World, Election!IsFiniteSet, IsFiniteSet
    <2> QED BY <1>1, <2>1, <2>2, Election!ElectionStep DEF CallsInv
  <1>2. ASSUME part = "race" PROVE Race!ElectionInv'
    <2>1. [Race!Next]_Race!vars
      BY <1>2 DEF Next, vars, electionVars, Race!vars
    <2>2. Race!World
      BY ElectionConstants DEF Race!World, Race!IsFiniteSet, IsFiniteSet
    <2> QED BY <1>2, <2>1, <2>2, Race!ElectionStep DEF CallsInv
  <1> QED BY <1>0, <1>1, <1>2 DEF CallsInv

\* For any finite set of daemons, any clients and any number of deaths, both while
\* calls are sent and while readers race to start a daemon: a serving daemon can be
\* reached, and a mutation is run at most once and never after its client was told
\* "unavailable" (daemon/mod.rs, SocketOwner; daemon/client.rs, call).
THEOREM CallsSafe == Spec => []CallsDeliveredOnce
  <1>1. Init => CallsInv
    <2> SUFFICES ASSUME Init PROVE CallsInv
      OBVIOUS
    <2>1. Election!World /\ Race!World
      BY ElectionConstants DEF Election!World, Race!World, Election!IsFiniteSet, Race!IsFiniteSet,
         IsFiniteSet
    <2>2. part = "election" => Election!Init
      BY DEF Init
    <2>3. part = "race" => Race!Init
      BY DEF Init
    <2> QED BY <2>1, <2>2, <2>3, Election!ElectionInit, Race!ElectionInit DEF CallsInv
  <1>2. CallsInv /\ [Next]_vars => CallsInv'
    BY CallsStep
  <1>3. CallsInv => CallsDeliveredOnce
    <2> SUFFICES ASSUME CallsInv PROVE CallsDeliveredOnce
      OBVIOUS
    <2>1. part = "election" => /\ Election!TypeOK /\ Election!MutationAtMostOnce
                               /\ Election!UnavailableMeansNotRun /\ Election!ServingReachable
      BY Election!ElectionImplies DEF CallsInv
    <2>2. part = "race" => Race!TypeOK /\ Race!ServingReachable
      BY Race!ElectionImplies DEF CallsInv
    <2> QED BY <2>1, <2>2 DEF CallsDeliveredOnce
  <1> QED BY <1>1, <1>2, <1>3, PTL DEF Spec

----------------------------------------------------------------------------
(* The finite read commands (CliRead).                                     *)

ReadPlaces == {"probe", "send", "index", "attempt", "reading", "judge", "sleep", "admit",
               "admitted", "write", "maintain", "end"}
ReadOuts == {"none", "ok", "daemon", "error", "busy", "guard"}
ReadCmds == [kind : Reading!Kinds, pc : ReadPlaces, phase : {"open", "status", "read", "terminal"},
             session : [leader : BOOLEAN, inc : Nat], deadline : Nat, backoff : Nat, wake : Nat,
             res : {"none", "ok", "busy", "hard"}, val : Nat, lost : BOOLEAN, out : ReadOuts,
             admits : Nat, pubs : Nat, asked : Nat, late : Nat, units : Nat]
ReadLocks == [who : {"none", "cli", "other"}, inc : Nat]

ReadTypes ==
    /\ now \in 0..MaxTime /\ readRoot \in BOOLEAN /\ daemon \in BOOLEAN
    /\ readLock \in ReadLocks /\ cmd \in ReadCmds

\* The command has not asked for anything yet.
Unasked ==
    \/ cmd.pc \in {"probe", "send", "index"}
    \/ cmd.phase \in {"open", "status"} /\ cmd.pc \in {"attempt", "reading", "judge", "sleep", "admit"}

ReadOwner ==
    /\ readLock.inc <= MaxOwners + 1 /\ (cmd.pubs = 0 => readLock.inc <= MaxOwners)
    /\ cmd.session.inc <= readLock.inc
    /\ readLock.who = "cli" <=> cmd.session.leader /\ cmd.pc # "end"
    /\ Unasked => cmd.asked = 0 /\ cmd.admits = 0 /\ cmd.pubs = 0 /\ ~cmd.session.leader
    /\ cmd.asked <= 1 /\ cmd.admits <= 1 /\ cmd.pubs <= 1

ReadPlace ==
    /\ cmd.pc = "end" => cmd.out # "none"
    /\ cmd.pc = "maintain" => cmd.out = "ok"
    /\ cmd.pc \notin {"end", "maintain"} => cmd.out = "none"
    /\ cmd.pc \in {"probe", "send", "index", "admit", "admitted"} => cmd.phase = "open"
    /\ cmd.pc \in {"index", "admit", "admitted"} => cmd.kind # "status"
    /\ cmd.pc \in {"attempt", "reading", "judge", "sleep"} /\ cmd.phase = "open" => cmd.kind # "status"
    /\ cmd.pc = "write" => cmd.phase # "open"
    /\ cmd.phase = "status" => cmd.kind = "status"

\* A late attempt is the last of its phase.
ReadLate ==
    LET before == IF cmd.phase = "read" THEN 1 ELSE 0
    IN  /\ cmd.late <= before + 1
        /\ cmd.pc \in {"probe", "send", "index"} => cmd.late = 0
        /\ cmd.pc \in {"attempt", "sleep"} => cmd.late <= before
        /\ cmd.pc \in {"reading", "judge"} /\ cmd.late > before => now > cmd.deadline

\* What an attempt read is of the session's owner, unless the guard will tell.
ReadGuard ==
    /\ cmd.lost => cmd.pc = "judge" \/ (cmd.pc = "end" /\ cmd.out \notin {"ok", "busy"})
    /\ cmd.pc = "judge" /\ cmd.lost => ~Reading!Verified
    /\ cmd.pc \in {"judge", "write"} /\ cmd.phase \in {"read", "terminal"} /\ ~cmd.lost =>
          cmd.val = cmd.session.inc

ReadingInv == ReadTypes /\ ReadOwner /\ ReadPlace /\ ReadLate /\ ReadGuard

LEMMA ReadingInitOK == Reading!Init => ReadingInv
  <1> SUFFICES ASSUME Reading!Init PROVE ReadingInv
    OBVIOUS
  <1> USE ReadConstants
  <1>1. PICK k \in Reading!Kinds :
          cmd = [kind |-> k, pc |-> "probe", phase |-> "open", session |-> Reading!NoSession,
                 deadline |-> 0, backoff |-> 1, wake |-> 0, res |-> "none", val |-> 0, lost |-> FALSE,
                 out |-> "none", admits |-> 0, pubs |-> 0, asked |-> 0, late |-> 0, units |-> 0]
    BY DEF Reading!Init
  <1>2. cmd \in ReadCmds
    BY <1>1 DEF ReadCmds, ReadPlaces, ReadOuts, Reading!NoSession
  <1>3. ReadTypes
    BY <1>2 DEF Reading!Init, ReadTypes, ReadLocks
  <1>4. ReadOwner /\ ReadPlace /\ ReadLate /\ ReadGuard
    BY <1>1 DEF Reading!Init, ReadOwner, ReadPlace, ReadLate, ReadGuard, Reading!NoSession
  <1> QED BY <1>3, <1>4 DEF ReadingInv

\* The clock, the directory, the daemon and other owners.
LEMMA ReadingEnvironment ==
    ASSUME ReadingInv, \/ Reading!Tick \/ Reading!LoseRoot \/ Reading!DaemonStops
                       \/ Reading!OtherLeads \/ Reading!OtherLeaves
    PROVE  ReadingInv' /\ Reading!AnswerUnderItsOwner
  <1> USE ReadConstants
  <1>0. UNCHANGED cmd
    BY DEF Reading!Tick, Reading!LoseRoot, Reading!DaemonStops, Reading!OtherLeads, Reading!OtherLeaves
  <1>1. ReadTypes'
    <2>1. now \in 0..MaxTime /\ readRoot \in BOOLEAN /\ daemon \in BOOLEAN
      BY DEF ReadingInv, ReadTypes
    <2>3. now' \in 0..MaxTime
      BY <2>1 DEF Reading!Tick, Reading!LoseRoot, Reading!DaemonStops, Reading!OtherLeads,
         Reading!OtherLeaves
    <2>4. readRoot' \in BOOLEAN /\ daemon' \in BOOLEAN
      BY <2>1, Zenon DEF Reading!Tick, Reading!LoseRoot, Reading!DaemonStops, Reading!OtherLeads,
         Reading!OtherLeaves
    <2>2. readLock' \in ReadLocks
      BY DEF ReadingInv, ReadTypes, ReadLocks, Reading!Tick, Reading!LoseRoot, Reading!DaemonStops,
         Reading!OtherLeads, Reading!OtherLeaves
    <2> QED BY <1>0, <2>2, <2>3, <2>4 DEF ReadingInv, ReadTypes
  <1>2. /\ now <= now' /\ (readRoot' => readRoot) /\ readLock.inc <= readLock'.inc
        /\ readLock' # readLock => readLock.who # "cli" /\ readLock'.who # "cli"
        /\ readLock'.inc <= MaxOwners \/ readLock'.inc = readLock.inc
        /\ readLock'.who = "other" => readLock' = readLock \/ readLock'.inc > readLock.inc
    BY DEF ReadingInv, ReadTypes, ReadLocks, Reading!Tick, Reading!LoseRoot, Reading!DaemonStops,
       Reading!OtherLeads, Reading!OtherLeaves
  <1>3. ReadOwner' /\ ReadPlace' /\ ReadLate'
    BY <1>0, <1>1, <1>2 DEF ReadingInv, ReadTypes, ReadLocks, ReadCmds, ReadOwner, Unasked, ReadPlace,
       ReadLate
  <1>4. ReadGuard'
    <2>1. Reading!Verified' => Reading!Verified
      BY <1>0, <1>1, <1>2 DEF ReadingInv, ReadTypes, ReadLocks, ReadCmds, ReadOwner, Reading!Verified,
         Reading!SessionOk
    <2> QED BY <1>0, <2>1 DEF ReadingInv, ReadGuard
  <1>5. Reading!AnswerUnderItsOwner
    BY <1>0 DEF Reading!AnswerUnderItsOwner
  <1> QED BY <1>1, <1>3, <1>4, <1>5 DEF ReadingInv

\* The command returns and drops its session.
LEMMA ReadingEnds ==
    ASSUME ReadingInv, NEW c, NEW out \in ReadOuts \ {"none"}, Reading!EndWith(c, out),
           UNCHANGED <<now, readRoot, daemon>>, cmd.pc # "end",
           c = cmd \/ (c = [cmd EXCEPT !.asked = @ + 1] /\ cmd.asked = 0),
           out \in {"ok", "busy"} => ~cmd.lost,
           out = "ok" /\ cmd.kind # "status" /\ cmd.out = "none" =>
               cmd.val = readLock.inc /\ readLock.who # "none"
    PROVE  ReadingInv' /\ Reading!AnswerUnderItsOwner
  <1>0. cmd \in ReadCmds /\ readLock \in ReadLocks
    BY DEF ReadingInv, ReadTypes
  <1>1. /\ c \in ReadCmds /\ c.session = cmd.session /\ c.pubs = cmd.pubs /\ c.admits = cmd.admits
        /\ c.lost = cmd.lost /\ c.late = cmd.late /\ c.phase = cmd.phase /\ c.kind = cmd.kind
        /\ c.asked \in Nat /\ c.asked <= 1
    BY <1>0 DEF ReadCmds, ReadingInv, ReadOwner
  <1>2. cmd' = [c EXCEPT !.pc = "end", !.out = out]
    BY DEF Reading!EndWith
  <1>3. /\ cmd' \in ReadCmds /\ cmd'.session = c.session /\ cmd'.pubs = c.pubs
        /\ cmd'.admits = c.admits /\ cmd'.lost = c.lost /\ cmd'.late = c.late
        /\ cmd'.phase = c.phase /\ cmd'.kind = c.kind /\ cmd'.asked = c.asked
        /\ cmd'.pc = "end" /\ cmd'.out = out
    BY <1>1, <1>2 DEF ReadCmds, ReadPlaces
  <1>4. /\ readLock' \in ReadLocks /\ readLock'.inc = readLock.inc /\ readLock'.who # "cli"
    BY <1>0 DEF Reading!EndWith, ReadLocks
  <1>5. ReadTypes'
    BY <1>3, <1>4 DEF ReadingInv, ReadTypes
  <1>6. ReadOwner'
    BY <1>0, <1>1, <1>3, <1>4 DEF ReadingInv, ReadOwner, Unasked
  <1>7. ReadPlace' /\ ReadLate' /\ ReadGuard'
    BY <1>1, <1>3 DEF ReadingInv, ReadPlace, ReadLate, ReadGuard
  <1>8. Reading!AnswerUnderItsOwner
    BY <1>3, <1>4 DEF Reading!AnswerUnderItsOwner, Reading!EndWith
  <1> QED BY <1>5, <1>6, <1>7, <1>8 DEF ReadingInv

\* The command goes on under the lock and the session it has.
LEMMA ReadingGoes ==
    ASSUME ReadingInv, cmd' \in ReadCmds, UNCHANGED <<now, readRoot, daemon, readLock>>,
           cmd'.session = cmd.session, cmd'.asked = cmd.asked, cmd'.admits = cmd.admits,
           cmd'.pubs = cmd.pubs, cmd'.kind = cmd.kind, cmd'.pc # "end", cmd.pc # "end",
           Unasked' => Unasked, ReadPlace', ReadLate', ReadGuard',
           cmd.out = "none" /\ cmd'.out = "ok" /\ cmd.kind # "status" =>
               cmd.val = readLock.inc /\ readLock.who # "none"
    PROVE  ReadingInv' /\ Reading!AnswerUnderItsOwner
  <1>1. ReadTypes'
    BY DEF ReadingInv, ReadTypes
  <1>2. ReadOwner'
    BY DEF ReadingInv, ReadOwner
  <1> QED BY <1>1, <1>2 DEF ReadingInv, Reading!AnswerUnderItsOwner

\* From the first connection to the first attempt.
LEMMA ReadingBegins ==
    ASSUME ReadingInv, Reading!Probe \/ Reading!Send \/ Reading!Index
    PROVE  ReadingInv' /\ Reading!AnswerUnderItsOwner
  <1> USE ReadConstants
  <1>0. /\ cmd \in ReadCmds /\ readLock \in ReadLocks /\ UNCHANGED <<now, readRoot, daemon>>
        /\ now \in Nat /\ cmd.pc \in {"probe", "send", "index"}
    BY DEF ReadingInv, ReadTypes, Reading!Probe, Reading!Send, Reading!Index, Reading!env
  <1>1. /\ cmd.phase = "open" /\ cmd.out = "none" /\ cmd.asked = 0 /\ cmd.admits = 0 /\ cmd.pubs = 0
        /\ cmd.late = 0 /\ ~cmd.lost /\ ~cmd.session.leader /\ cmd.session.inc <= readLock.inc
        /\ readLock.who # "cli" /\ readLock.inc <= MaxOwners
    BY <1>0 DEF ReadingInv, ReadOwner, Unasked, ReadPlace, ReadLate, ReadGuard, ReadCmds
  <1>2. CASE Reading!Probe
    <2>1. CASE daemon
      <3>1. cmd' = [cmd EXCEPT !.pc = "send"] /\ UNCHANGED readLock
        BY <1>2, <2>1 DEF Reading!Probe
      <3>2. /\ cmd' \in ReadCmds /\ cmd'.pc = "send" /\ cmd'.phase = "open" /\ cmd'.out = "none"
            /\ cmd'.asked = cmd.asked /\ cmd'.admits = cmd.admits /\ cmd'.pubs = cmd.pubs
            /\ cmd'.late = 0 /\ ~cmd'.lost /\ cmd'.session = cmd.session /\ cmd'.kind = cmd.kind
        BY <1>0, <1>1, <3>1 DEF ReadCmds, ReadPlaces
      <3> QED BY <1>0, <1>1, <3>1, <3>2, ReadingGoes DEF ReadPlace, ReadLate, ReadGuard, Unasked
    <2>2. CASE ~daemon
      <3> DEFINE pc == IF cmd.kind = "index" THEN "index" ELSE "attempt"
                 phase == IF cmd.kind = "status" THEN "status" ELSE "open"
                 limit == now + ReadWait
      <3>1. cmd' = [cmd EXCEPT !.pc = pc, !.phase = phase, !.deadline = limit] /\ UNCHANGED readLock
        BY <1>2, <2>2 DEF Reading!Probe, Reading!Alone
      <3>4. /\ pc \in {"index", "attempt"} /\ phase \in {"status", "open"} /\ limit \in Nat
            /\ pc = "index" => cmd.kind # "status" /\ phase = "open"
            /\ phase = "status" => cmd.kind = "status"
            /\ phase = "open" => cmd.kind # "status"
        BY <1>0
      <3> HIDE DEF pc, phase, limit
      <3>2. /\ cmd' \in ReadCmds /\ cmd'.pc = pc
            /\ cmd'.phase = phase /\ cmd'.out = "none"
            /\ cmd'.asked = cmd.asked /\ cmd'.admits = cmd.admits /\ cmd'.pubs = cmd.pubs
            /\ cmd'.late = 0 /\ ~cmd'.lost /\ cmd'.session = cmd.session /\ cmd'.kind = cmd.kind
        BY <1>0, <1>1, <3>1, <3>4 DEF ReadCmds, ReadPlaces
      <3>3. ReadPlace' /\ ReadLate' /\ ReadGuard' /\ Unasked
        BY <1>0, <3>2, <3>4 DEF ReadPlace, ReadLate, ReadGuard, Unasked
      <3> QED BY <1>0, <1>1, <3>1, <3>2, <3>3, <3>4, ReadingGoes
    <2> QED BY <2>1, <2>2
  <1>3. CASE Reading!Send
    <2>1. PICK c \in {cmd, [cmd EXCEPT !.asked = @ + 1]}, out \in {"daemon", "error"} :
             Reading!EndWith(c, out)
      BY <1>3 DEF Reading!Send, Reading!SendFails
    <2> QED BY <1>0, <1>1, <2>1, ReadingEnds DEF ReadOuts
  <1>4. CASE Reading!Index
    <2>1. CASE Reading!End("error")
      BY <1>0, <1>1, <2>1, ReadingEnds DEF Reading!End, ReadOuts
    <2>2. ASSUME NEW l \in BOOLEAN, NEW i \in Nat, NEW n \in 0..1,
                 l => readLock' = [who |-> "cli", inc |-> i] /\ i = readLock.inc + 1 /\ n = 1,
                 ~l => readLock' = readLock /\ i = readLock.inc /\ n = 0,
                 cmd' = [cmd EXCEPT !.pc = "attempt", !.phase = "terminal", !.asked = @ + 1,
                                    !.pubs = n, !.session = [leader |-> l, inc |-> i],
                                    !.deadline = now + ReadWait]
          PROVE  ReadingInv' /\ Reading!AnswerUnderItsOwner
      <3> DEFINE own == [leader |-> l, inc |-> i]
                 limit == now + ReadWait
      <3>6. own \in [leader : BOOLEAN, inc : Nat] /\ limit \in Nat /\ n \in Nat
        BY <1>0
      <3>7. own.leader = l /\ own.inc = i
        OBVIOUS
      <3>8. cmd' = [cmd EXCEPT !.pc = "attempt", !.phase = "terminal", !.asked = @ + 1,
                               !.pubs = n, !.session = own, !.deadline = limit]
        BY <2>2
      <3> HIDE DEF own, limit
      <3>9. cmd.asked + 1 \in Nat /\ cmd.asked + 1 = 1
        BY <1>1
      <3>10. cmd' \in ReadCmds
        BY <1>0, <3>6, <3>8, <3>9 DEF ReadCmds, ReadPlaces
      <3>1. /\ cmd' \in ReadCmds /\ cmd'.pc = "attempt" /\ cmd'.phase = "terminal" /\ cmd'.out = "none"
            /\ cmd'.asked = 1 /\ cmd'.admits = 0 /\ cmd'.pubs = n
            /\ cmd'.late = 0 /\ ~cmd'.lost /\ cmd'.session = own
        BY <1>0, <1>1, <3>8, <3>9, <3>10 DEF ReadCmds
      <3>2. readLock' \in ReadLocks /\ readLock'.inc = i /\ (readLock'.who = "cli" <=> l)
        BY <1>0, <1>1, <2>2 DEF ReadLocks
      <3>3. ReadTypes'
        BY <1>0, <3>1, <3>2 DEF ReadingInv, ReadTypes
      <3>4. ReadOwner'
        BY <1>0, <1>1, <2>2, <3>1, <3>2, <3>7 DEF ReadOwner, Unasked, ReadLocks
      <3>5. ReadPlace' /\ ReadLate' /\ ReadGuard'
        BY <3>1 DEF ReadPlace, ReadLate, ReadGuard
      <3> QED BY <1>1, <3>1, <3>3, <3>4, <3>5 DEF ReadingInv, Reading!AnswerUnderItsOwner
    <2>3. CASE readLock.who = "none" /\ ~Reading!End("error")
      <3>1. /\ readLock' = [who |-> "cli", inc |-> readLock.inc + 1]
            /\ cmd' = [cmd EXCEPT !.pc = "attempt", !.phase = "terminal", !.asked = @ + 1, !.pubs = 1,
                                  !.session = [leader |-> TRUE, inc |-> readLock.inc + 1],
                                  !.deadline = now + ReadWait]
        BY <1>4, <2>3 DEF Reading!Index
      <3>2. readLock.inc + 1 \in Nat /\ TRUE \in BOOLEAN /\ 1 \in 0..1
        BY <1>0 DEF ReadLocks
      <3> QED BY <2>2, <3>1, <3>2
    <2>4. CASE readLock.who = "other" /\ ~Reading!End("error")
      <3>1. /\ readLock' = readLock
            /\ cmd' = [cmd EXCEPT !.pc = "attempt", !.phase = "terminal", !.asked = @ + 1,
                                  !.session = [leader |-> FALSE, inc |-> readLock.inc],
                                  !.deadline = now + ReadWait]
        BY <1>4, <2>4 DEF Reading!Index
      <3>2. cmd' = [cmd EXCEPT !.pc = "attempt", !.phase = "terminal", !.asked = @ + 1, !.pubs = 0,
                                  !.session = [leader |-> FALSE, inc |-> readLock.inc],
                                  !.deadline = now + ReadWait]
        BY <1>0, <1>1, <3>1 DEF ReadCmds
      <3>3. readLock.inc \in Nat /\ FALSE \in BOOLEAN /\ 0 \in 0..1
        BY <1>0 DEF ReadLocks
      <3> QED BY <2>2, <3>1, <3>2, <3>3
    <2>5. readLock.who \in {"none", "other"} \/ Reading!End("error")
      BY <1>4 DEF Reading!Index
    <2> QED BY <2>1, <2>3, <2>4, <2>5
  <1> QED BY <1>2, <1>3, <1>4

\* An attempt, what it read, its end and the pause before the next.
LEMMA ReadingTries ==
    ASSUME ReadingInv, Reading!Attempt \/ Reading!Reading \/ Reading!Judge \/ Reading!Awake
    PROVE  ReadingInv' /\ Reading!AnswerUnderItsOwner
  <1> USE ReadConstants
  <1>0. /\ cmd \in ReadCmds /\ readLock \in ReadLocks /\ UNCHANGED <<now, readRoot, daemon>>
        /\ now \in Nat /\ cmd.pc \in {"attempt", "reading", "judge", "sleep"}
    BY DEF ReadingInv, ReadTypes, Reading!Attempt, Reading!Reading, Reading!Judge, Reading!Awake,
       Reading!env
  <1>1. /\ cmd.out = "none" /\ (cmd.pc # "judge" => ~cmd.lost)
        /\ cmd.phase = "open" => cmd.kind # "status"
        /\ cmd.phase = "status" => cmd.kind = "status"
    BY <1>0 DEF ReadingInv, ReadPlace, ReadGuard, ReadCmds
  <1>2. CASE Reading!End("guard") \/ Reading!End("error")
    BY <1>0, <1>1, <1>2, ReadingEnds DEF Reading!End, ReadOuts
  <1>3. CASE Reading!Attempt /\ ~Reading!End("guard")
    <2> DEFINE tries == IF now > cmd.deadline THEN Reading!Min2(cmd.late + 1, 3) ELSE cmd.late
    <2>1. cmd' = [cmd EXCEPT !.pc = "reading", !.late = tries] /\ UNCHANGED readLock /\ cmd.pc = "attempt"
      BY <1>3 DEF Reading!Attempt
    <2>2. /\ tries \in Nat /\ tries <= cmd.late + 1
          /\ tries > cmd.late => now > cmd.deadline
      BY <1>0 DEF ReadCmds, Reading!Min2
    <2> HIDE DEF tries
    <2>3. cmd' \in ReadCmds
      BY <1>0, <2>1, <2>2 DEF ReadCmds, ReadPlaces
    <2>4. /\ cmd'.pc = "reading" /\ cmd'.phase = cmd.phase /\ cmd'.out = cmd.out
          /\ cmd'.asked = cmd.asked /\ cmd'.admits = cmd.admits /\ cmd'.pubs = cmd.pubs
          /\ cmd'.late = tries /\ cmd'.lost = cmd.lost /\ cmd'.session = cmd.session
          /\ cmd'.kind = cmd.kind /\ cmd'.deadline = cmd.deadline
      BY <1>0, <2>1 DEF ReadCmds
    <2>5. ReadPlace' /\ ReadGuard' /\ (Unasked' => Unasked)
      BY <1>1, <2>1, <2>4 DEF ReadPlace, ReadGuard, Unasked
    <2>6. ReadLate'
      BY <1>0, <2>1, <2>2, <2>4 DEF ReadLate, ReadingInv, ReadCmds
    <2> QED BY <1>0, <1>1, <2>1, <2>3, <2>4, <2>5, <2>6, ReadingGoes
  <1>4. CASE Reading!Reading
    <2> DEFINE gone == ~Reading!Verified
    <2>1. PICK r \in {"ok", "busy", "hard"} :
             cmd' = [cmd EXCEPT !.pc = "judge", !.res = r, !.val = readLock.inc, !.lost = gone]
      BY <1>4 DEF Reading!Reading
    <2>2. UNCHANGED readLock /\ cmd.pc = "reading"
      BY <1>4 DEF Reading!Reading
    <2>3. gone \in BOOLEAN /\ readLock.inc \in Nat
      BY <1>0 DEF ReadLocks
    <2>4. Reading!Verified = (IF cmd.phase \in {"read", "terminal"} THEN Reading!SessionOk ELSE readRoot)
      BY DEF Reading!Verified
    <2>5. Reading!SessionOk => readLock.inc = cmd.session.inc
      BY DEF Reading!SessionOk
    <2>9. cmd.phase \in {"read", "terminal"} /\ ~gone => readLock.inc = cmd.session.inc
      BY <2>4, <2>5
    <2>6. cmd'.session = cmd.session /\ cmd'.phase = cmd.phase
      BY <1>0, <2>1 DEF ReadCmds
    <2>7. Reading!Verified' = Reading!Verified
      BY <1>0, <2>2, <2>6 DEF Reading!Verified, Reading!SessionOk
    <2>10. gone => ~Reading!Verified'
      BY <2>7
    <2> HIDE DEF gone
    <2>3a. cmd' \in ReadCmds
      BY <1>0, <2>1, <2>3 DEF ReadCmds, ReadPlaces
    <2>8. /\ cmd'.pc = "judge" /\ cmd'.phase = cmd.phase /\ cmd'.out = cmd.out
          /\ cmd'.asked = cmd.asked /\ cmd'.admits = cmd.admits /\ cmd'.pubs = cmd.pubs
          /\ cmd'.late = cmd.late /\ cmd'.lost = gone /\ cmd'.val = readLock.inc
          /\ cmd'.kind = cmd.kind /\ cmd'.deadline = cmd.deadline
      BY <1>0, <2>1 DEF ReadCmds
    <2>11. ReadPlace' /\ ReadLate' /\ (Unasked' => Unasked)
      BY <1>0, <1>1, <2>2, <2>8 DEF ReadPlace, ReadLate, Unasked, ReadingInv
    <2>12. ReadGuard'
      BY <2>6, <2>8, <2>9, <2>10 DEF ReadGuard
    <2> QED BY <1>0, <1>1, <2>2, <2>3a, <2>6, <2>8, <2>11, <2>12, ReadingGoes
  <1>5. CASE Reading!Judge /\ ~(Reading!End("guard") \/ Reading!End("error"))
    <2>1. cmd.pc = "judge" /\ Reading!Verified /\ ~cmd.lost
      BY <1>5 DEF Reading!Judge, Reading!GuardFirst, ReadingInv, ReadGuard
    <2>2. CASE Reading!End("busy")
      BY <1>0, <1>1, <2>1, <2>2, ReadingEnds DEF Reading!End, ReadOuts
    <2>3. CASE cmd' = [cmd EXCEPT !.pc = Reading!After] /\ UNCHANGED readLock
      <3> DEFINE next == Reading!After
      <3>1. /\ next \in {"admit", "write"} /\ (next = "admit" => cmd.phase = "open")
            /\ next = "write" => cmd.phase # "open"
        BY DEF Reading!After
      <3>2. cmd' = [cmd EXCEPT !.pc = next]
        BY <2>3
      <3> HIDE DEF next
      <3>3. cmd' \in ReadCmds
        BY <1>0, <3>1, <3>2 DEF ReadCmds, ReadPlaces
      <3>4. /\ cmd'.pc = next /\ cmd'.phase = cmd.phase /\ cmd'.out = cmd.out
            /\ cmd'.asked = cmd.asked /\ cmd'.admits = cmd.admits /\ cmd'.pubs = cmd.pubs
            /\ cmd'.late = cmd.late /\ cmd'.lost = cmd.lost /\ cmd'.session = cmd.session
            /\ cmd'.kind = cmd.kind /\ cmd'.deadline = cmd.deadline /\ cmd'.val = cmd.val
        BY <1>0, <3>2 DEF ReadCmds
      <3>5. ReadPlace' /\ ReadLate' /\ ReadGuard' /\ (Unasked' => Unasked)
        BY <1>1, <2>1, <3>1, <3>4 DEF ReadPlace, ReadLate, ReadGuard, Unasked, ReadingInv
      <3> QED BY <1>0, <1>1, <2>1, <2>3, <3>1, <3>3, <3>4, <3>5, ReadingGoes
    <2>4. CASE /\ ~Reading!Expired /\ UNCHANGED readLock
               /\ cmd' = [cmd EXCEPT !.pc = "sleep",
                                     !.wake = Reading!Min2(now + cmd.backoff, cmd.deadline),
                                     !.backoff = Reading!Min2(2 * cmd.backoff, ReadWait)]
      <3> DEFINE wakes == Reading!Min2(now + cmd.backoff, cmd.deadline)
                 pause == Reading!Min2(2 * cmd.backoff, ReadWait)
      <3>1. wakes \in Nat /\ pause \in Nat /\ ~(now > cmd.deadline)
        BY <1>0, <2>4 DEF ReadCmds, Reading!Min2, Reading!Expired
      <3>2. cmd' = [cmd EXCEPT !.pc = "sleep", !.wake = wakes, !.backoff = pause]
        BY <2>4
      <3> HIDE DEF wakes, pause
      <3>3. cmd' \in ReadCmds
        BY <1>0, <3>1, <3>2 DEF ReadCmds, ReadPlaces
      <3>4. /\ cmd'.pc = "sleep" /\ cmd'.phase = cmd.phase /\ cmd'.out = cmd.out
            /\ cmd'.asked = cmd.asked /\ cmd'.admits = cmd.admits /\ cmd'.pubs = cmd.pubs
            /\ cmd'.late = cmd.late /\ cmd'.lost = cmd.lost /\ cmd'.session = cmd.session
            /\ cmd'.kind = cmd.kind /\ cmd'.deadline = cmd.deadline
        BY <1>0, <3>2 DEF ReadCmds
      <3>5. ReadPlace' /\ ReadGuard' /\ (Unasked' => Unasked)
        BY <1>1, <2>1, <3>4 DEF ReadPlace, ReadGuard, Unasked
      <3>6. ReadLate'
        BY <1>0, <2>1, <3>1, <3>4 DEF ReadLate, ReadingInv, ReadCmds
      <3> QED BY <1>0, <1>1, <2>4, <3>3, <3>4, <3>5, <3>6, ReadingGoes
    <2> QED BY <1>5, <2>2, <2>3, <2>4 DEF Reading!Judge
  <1>6. CASE Reading!Awake
    <2>1. cmd' = [cmd EXCEPT !.pc = "attempt"] /\ UNCHANGED readLock /\ cmd.pc = "sleep"
      BY <1>6 DEF Reading!Awake
    <2>2. cmd' \in ReadCmds
      BY <1>0, <2>1 DEF ReadCmds, ReadPlaces
    <2>3. /\ cmd'.pc = "attempt" /\ cmd'.phase = cmd.phase /\ cmd'.out = cmd.out
          /\ cmd'.asked = cmd.asked /\ cmd'.admits = cmd.admits /\ cmd'.pubs = cmd.pubs
          /\ cmd'.late = cmd.late /\ cmd'.lost = cmd.lost /\ cmd'.session = cmd.session
          /\ cmd'.kind = cmd.kind /\ cmd'.deadline = cmd.deadline
      BY <1>0, <2>1 DEF ReadCmds
    <2>4. ReadPlace' /\ ReadLate' /\ ReadGuard' /\ (Unasked' => Unasked)
      BY <1>1, <2>1, <2>3 DEF ReadPlace, ReadLate, ReadGuard, Unasked, ReadingInv
    <2> QED BY <1>0, <1>1, <2>1, <2>2, <2>3, <2>4, ReadingGoes
  <1> QED BY <1>2, <1>3, <1>4, <1>5, <1>6

\* The admission, which is made once.
LEMMA ReadingAdmits ==
    ASSUME ReadingInv, Reading!Admit \/ Reading!Admitted
    PROVE  ReadingInv' /\ Reading!AnswerUnderItsOwner
  <1> USE ReadConstants
  <1>0. /\ cmd \in ReadCmds /\ readLock \in ReadLocks /\ UNCHANGED <<now, readRoot, daemon>>
        /\ cmd.pc \in {"admit", "admitted"}
    BY DEF ReadingInv, ReadTypes, Reading!Admit, Reading!Admitted, Reading!env
  <1>1. /\ cmd.out = "none" /\ ~cmd.lost /\ cmd.phase = "open" /\ cmd.kind # "status"
        /\ cmd.late <= 1
    BY <1>0 DEF ReadingInv, ReadPlace, ReadGuard, ReadLate, ReadCmds
  <1>2. CASE Reading!End("guard") \/ Reading!End("error") \/ Reading!End("busy")
    BY <1>0, <1>1, <1>2, ReadingEnds DEF Reading!End, ReadOuts
  <1>3. CASE Reading!Admit /\ ~Reading!End("guard")
    <2>1. /\ cmd.pc = "admit" /\ cmd.asked = 0 /\ cmd.admits = 0 /\ cmd.pubs = 0 /\ ~cmd.session.leader
          /\ readLock.who # "cli" /\ readLock.inc <= MaxOwners /\ cmd.session.inc <= readLock.inc
      BY <1>0, <1>1, <1>3 DEF Reading!Admit, ReadingInv, ReadOwner, Unasked
    <2>2. ASSUME NEW s \in [leader : BOOLEAN, inc : Nat], NEW n \in 0..1, cmd' \in ReadCmds,
                 cmd'.pc = "admitted", cmd'.admits = 1, cmd'.pubs = n, cmd'.session = s,
                 cmd'.phase = cmd.phase, cmd'.out = cmd.out, cmd'.asked = cmd.asked,
                 cmd'.late = cmd.late, cmd'.lost = cmd.lost, cmd'.kind = cmd.kind,
                 readLock' \in ReadLocks, readLock'.inc <= readLock.inc + n, s.inc <= readLock'.inc,
                 readLock'.who = "cli" <=> s.leader
          PROVE  ReadingInv' /\ Reading!AnswerUnderItsOwner
      <3>1. ReadTypes'
        BY <1>0, <2>2 DEF ReadingInv, ReadTypes
      <3>2. ReadOwner'
        BY <1>0, <2>1, <2>2 DEF ReadOwner, Unasked, ReadLocks
      <3>3. ReadPlace' /\ ReadGuard'
        BY <1>1, <2>2 DEF ReadPlace, ReadGuard
      <3>4. ReadLate'
        BY <1>0, <1>1, <2>2 DEF ReadLate, ReadCmds
      <3> QED BY <1>1, <2>2, <3>1, <3>2, <3>3, <3>4 DEF ReadingInv, Reading!AnswerUnderItsOwner
    <2> DEFINE c == [cmd EXCEPT !.admits = @ + 1]
    <2>3. /\ cmd.session \in [leader : BOOLEAN, inc : Nat] /\ cmd.pubs \in Nat /\ readLock.inc \in Nat
          /\ readLock.inc + 1 \in Nat
      BY <1>0 DEF ReadCmds, ReadLocks
    <2>9. /\ c \in ReadCmds /\ c.admits = 1 /\ c.pubs = 0 /\ c.session = cmd.session
          /\ c.phase = cmd.phase /\ c.out = cmd.out /\ c.asked = cmd.asked
          /\ c.late = cmd.late /\ c.lost = cmd.lost /\ c.kind = cmd.kind
      BY <1>0, <2>1 DEF ReadCmds
    <2>4. \/ /\ readLock' = [who |-> "cli", inc |-> readLock.inc + 1]
             /\ cmd' = [c EXCEPT !.pc = "admitted", !.res = "ok", !.pubs = @ + 1,
                                 !.session = [leader |-> TRUE, inc |-> readLock.inc + 1]]
          \/ /\ readLock.who = "none" /\ readLock' = [readLock EXCEPT !.inc = @ + 1]
             /\ cmd' = [[c EXCEPT !.pubs = @ + 1] EXCEPT !.pc = "admitted", !.res = "busy"]
          \/ /\ readLock.who = "other" /\ readLock' = readLock
             /\ cmd' = [c EXCEPT !.pc = "admitted", !.res = "ok",
                                 !.session = [leader |-> FALSE, inc |-> readLock.inc]]
          \/ /\ readLock' = readLock
             /\ \E r \in {"busy", "hard"} : cmd' = [c EXCEPT !.pc = "admitted", !.res = r]
      BY <1>3 DEF Reading!Admit, Reading!AdmitBusy
    <2> HIDE DEF c
    <2>5. CASE /\ readLock' = [who |-> "cli", inc |-> readLock.inc + 1]
               /\ cmd' = [c EXCEPT !.pc = "admitted", !.res = "ok", !.pubs = @ + 1,
                                   !.session = [leader |-> TRUE, inc |-> readLock.inc + 1]]
      <3> DEFINE s == [leader |-> TRUE, inc |-> readLock.inc + 1]
      <3>1. s \in [leader : BOOLEAN, inc : Nat] /\ s.leader /\ s.inc = readLock.inc + 1
        BY <2>3
      <3>2. /\ readLock' \in ReadLocks /\ readLock'.who = "cli" /\ readLock'.inc = readLock.inc + 1
        BY <2>3, <2>5 DEF ReadLocks
      <3>6. c.pubs + 1 = 1
        BY <2>9
      <3>3. cmd' = [c EXCEPT !.pc = "admitted", !.res = "ok", !.pubs = 1, !.session = s]
        BY <2>5, <3>6
      <3> HIDE DEF s
      <3>4. cmd' \in ReadCmds
        BY <2>9, <3>1, <3>3 DEF ReadCmds, ReadPlaces
      <3>5. /\ cmd'.pc = "admitted" /\ cmd'.admits = 1 /\ cmd'.pubs = 1 /\ cmd'.session = s
            /\ cmd'.phase = cmd.phase /\ cmd'.out = cmd.out /\ cmd'.asked = cmd.asked
            /\ cmd'.late = cmd.late /\ cmd'.lost = cmd.lost /\ cmd'.kind = cmd.kind
        BY <2>9, <3>3 DEF ReadCmds
      <3> QED BY <2>2, <2>3, <3>1, <3>2, <3>4, <3>5
    <2>6. CASE /\ readLock.who = "none" /\ readLock' = [readLock EXCEPT !.inc = @ + 1]
               /\ cmd' = [[c EXCEPT !.pubs = @ + 1] EXCEPT !.pc = "admitted", !.res = "busy"]
      <3> DEFINE d == [c EXCEPT !.pubs = @ + 1]
      <3>1. /\ readLock' \in ReadLocks /\ readLock'.who = "none" /\ readLock'.inc = readLock.inc + 1
        BY <1>0, <2>6 DEF ReadLocks
      <3>2. /\ d \in ReadCmds /\ d.admits = 1 /\ d.pubs = 1 /\ d.session = cmd.session
            /\ d.phase = cmd.phase /\ d.out = cmd.out /\ d.asked = cmd.asked
            /\ d.late = cmd.late /\ d.lost = cmd.lost /\ d.kind = cmd.kind
        BY <2>9 DEF ReadCmds
      <3>3. cmd' = [d EXCEPT !.pc = "admitted", !.res = "busy"]
        BY <2>6
      <3> HIDE DEF d
      <3>4. cmd' \in ReadCmds
        BY <3>2, <3>3 DEF ReadCmds, ReadPlaces
      <3>5. /\ cmd'.pc = "admitted" /\ cmd'.admits = 1 /\ cmd'.pubs = 1 /\ cmd'.session = cmd.session
            /\ cmd'.phase = cmd.phase /\ cmd'.out = cmd.out /\ cmd'.asked = cmd.asked
            /\ cmd'.late = cmd.late /\ cmd'.lost = cmd.lost /\ cmd'.kind = cmd.kind
        BY <3>2, <3>3 DEF ReadCmds
      <3>6. cmd.session.inc <= readLock'.inc
        BY <2>1, <2>3, <3>1
      <3> QED BY <2>1, <2>2, <2>3, <3>1, <3>4, <3>5, <3>6
    <2>7. CASE /\ readLock.who = "other" /\ readLock' = readLock
               /\ cmd' = [c EXCEPT !.pc = "admitted", !.res = "ok",
                                   !.session = [leader |-> FALSE, inc |-> readLock.inc]]
      <3> DEFINE s == [leader |-> FALSE, inc |-> readLock.inc]
      <3>1. s \in [leader : BOOLEAN, inc : Nat] /\ ~s.leader /\ s.inc = readLock.inc
        BY <2>3
      <3>3. cmd' = [c EXCEPT !.pc = "admitted", !.res = "ok", !.session = s]
        BY <2>7
      <3> HIDE DEF s
      <3>4. cmd' \in ReadCmds
        BY <2>9, <3>1, <3>3 DEF ReadCmds, ReadPlaces
      <3>5. /\ cmd'.pc = "admitted" /\ cmd'.admits = 1 /\ cmd'.pubs = 0 /\ cmd'.session = s
            /\ cmd'.phase = cmd.phase /\ cmd'.out = cmd.out /\ cmd'.asked = cmd.asked
            /\ cmd'.late = cmd.late /\ cmd'.lost = cmd.lost /\ cmd'.kind = cmd.kind
        BY <2>9, <3>3 DEF ReadCmds
      <3> QED BY <1>0, <2>1, <2>2, <2>3, <2>7, <3>1, <3>4, <3>5
    <2>8. CASE /\ readLock' = readLock
               /\ \E r \in {"busy", "hard"} : cmd' = [c EXCEPT !.pc = "admitted", !.res = r]
      <3>1. PICK r \in {"busy", "hard"} : cmd' = [c EXCEPT !.pc = "admitted", !.res = r]
        BY <2>8
      <3>4. cmd' \in ReadCmds
        BY <2>9, <3>1 DEF ReadCmds, ReadPlaces
      <3>5. /\ cmd'.pc = "admitted" /\ cmd'.admits = 1 /\ cmd'.pubs = 0 /\ cmd'.session = cmd.session
            /\ cmd'.phase = cmd.phase /\ cmd'.out = cmd.out /\ cmd'.asked = cmd.asked
            /\ cmd'.late = cmd.late /\ cmd'.lost = cmd.lost /\ cmd'.kind = cmd.kind
        BY <2>9, <3>1 DEF ReadCmds
      <3> QED BY <1>0, <2>1, <2>2, <2>3, <2>8, <3>4, <3>5
    <2> QED BY <2>4, <2>5, <2>6, <2>7, <2>8
  <1>4. CASE /\ Reading!Admitted /\ UNCHANGED readLock
             /\ cmd' = [cmd EXCEPT !.pc = "attempt", !.phase = "read"]
    <2>1. cmd' \in ReadCmds
      BY <1>0, <1>4 DEF ReadCmds, ReadPlaces
    <2>2. /\ cmd'.pc = "attempt" /\ cmd'.phase = "read" /\ cmd'.out = cmd.out
          /\ cmd'.asked = cmd.asked /\ cmd'.admits = cmd.admits /\ cmd'.pubs = cmd.pubs
          /\ cmd'.late = cmd.late /\ cmd'.lost = cmd.lost /\ cmd'.session = cmd.session
          /\ cmd'.kind = cmd.kind
      BY <1>0, <1>4 DEF ReadCmds
    <2>3. ReadPlace' /\ ReadLate' /\ ReadGuard' /\ ~Unasked'
      BY <1>0, <1>1, <2>2 DEF ReadPlace, ReadLate, ReadGuard, Unasked, ReadCmds
    <2> QED BY <1>0, <1>1, <1>4, <2>1, <2>2, <2>3, ReadingGoes
  <1> QED BY <1>2, <1>3, <1>4 DEF Reading!Admitted

\* The answer and the maintenance after it.
LEMMA ReadingAnswers ==
    ASSUME ReadingInv, Reading!Write \/ Reading!WriteFails \/ Reading!Maintain
    PROVE  ReadingInv' /\ Reading!AnswerUnderItsOwner
  <1> USE ReadConstants
  <1>0. /\ cmd \in ReadCmds /\ readLock \in ReadLocks /\ UNCHANGED <<now, readRoot, daemon>>
        /\ cmd.pc \in {"write", "maintain"} /\ ~cmd.lost
        /\ cmd.pc = "maintain" => cmd.out = "ok"
    BY DEF ReadingInv, ReadTypes, Reading!Write, Reading!WriteFails, Reading!Maintain, Reading!env,
       ReadGuard, ReadPlace
  <1>1. CASE Reading!End("guard") \/ Reading!End("error")
    BY <1>0, <1>1, ReadingEnds DEF Reading!End, ReadOuts
  <1>2. cmd.pc = "write" /\ Reading!MayWrite /\ cmd.kind # "status" =>
           cmd.val = readLock.inc /\ readLock.who # "none"
    <2>1. SUFFICES ASSUME cmd.pc = "write", Reading!MayWrite, cmd.kind # "status"
                   PROVE  cmd.val = readLock.inc /\ readLock.who # "none"
      OBVIOUS
    <2>2. cmd.phase \in {"read", "terminal"}
      BY <1>0, <2>1 DEF ReadingInv, ReadPlace, ReadCmds
    <2>3. Reading!SessionOk
      BY <2>1 DEF Reading!MayWrite
    <2> QED BY <1>0, <2>1, <2>2, <2>3 DEF ReadingInv, ReadGuard, Reading!SessionOk
  <1>3. CASE Reading!End("ok") /\ (cmd.pc = "write" => Reading!MayWrite)
    BY <1>0, <1>2, <1>3, ReadingEnds DEF Reading!End, ReadOuts
  <1>4. CASE /\ cmd.pc = "write" /\ Reading!MayWrite /\ UNCHANGED readLock
             /\ cmd' = [cmd EXCEPT !.pc = "maintain", !.out = "ok"]
    <2>1. cmd' \in ReadCmds
      BY <1>0, <1>4 DEF ReadCmds, ReadPlaces, ReadOuts
    <2>2. /\ cmd'.pc = "maintain" /\ cmd'.out = "ok" /\ cmd'.phase = cmd.phase
          /\ cmd'.asked = cmd.asked /\ cmd'.admits = cmd.admits /\ cmd'.pubs = cmd.pubs
          /\ cmd'.late = cmd.late /\ cmd'.lost = cmd.lost /\ cmd'.session = cmd.session
          /\ cmd'.kind = cmd.kind
      BY <1>0, <1>4 DEF ReadCmds
    <2>3. ReadPlace' /\ ReadLate' /\ ReadGuard' /\ ~Unasked'
      BY <1>0, <1>4, <2>2 DEF ReadPlace, ReadLate, ReadGuard, Unasked, ReadingInv
    <2> QED BY <1>0, <1>2, <1>4, <2>1, <2>2, <2>3, ReadingGoes
  <1>5. CASE /\ cmd.pc = "maintain" /\ UNCHANGED readLock
             /\ cmd' = [cmd EXCEPT !.units = @ + 1]
    <2>1. cmd' \in ReadCmds
      BY <1>0, <1>5 DEF ReadCmds
    <2>2. /\ cmd'.pc = "maintain" /\ cmd'.out = "ok" /\ cmd'.phase = cmd.phase
          /\ cmd'.asked = cmd.asked /\ cmd'.admits = cmd.admits /\ cmd'.pubs = cmd.pubs
          /\ cmd'.late = cmd.late /\ cmd'.lost = cmd.lost /\ cmd'.session = cmd.session
          /\ cmd'.kind = cmd.kind
      BY <1>0, <1>5 DEF ReadCmds
    <2>3. ReadPlace' /\ ReadLate' /\ ReadGuard' /\ ~Unasked'
      BY <1>0, <1>5, <2>2 DEF ReadPlace, ReadLate, ReadGuard, Unasked, ReadingInv
    <2> QED BY <1>0, <1>5, <2>1, <2>2, <2>3, ReadingGoes
  <1> QED BY <1>0, <1>1, <1>3, <1>4, <1>5 DEF Reading!Write, Reading!WriteFails, Reading!Maintain

LEMMA ReadingStep ==
    ASSUME ReadingInv, [Reading!Next]_Reading!vars
    PROVE  ReadingInv' /\ Reading!AnswerUnderItsOwner
  <1>1. CASE Reading!Next
    BY <1>1, ReadingEnvironment, ReadingBegins, ReadingTries, ReadingAdmits, ReadingAnswers
       DEF Reading!Next, Reading!Step
  <1>2. CASE UNCHANGED Reading!vars
    BY <1>2 DEF Reading!vars, ReadingInv, ReadTypes, ReadOwner, ReadPlace, ReadLate, ReadGuard, Unasked,
       Reading!Verified, Reading!SessionOk, Reading!AnswerUnderItsOwner
  <1> QED BY <1>1, <1>2

LEMMA ReadingImplies ==
    ReadingInv => Reading!TypeOK /\ Reading!OnceOnly /\ Reading!LossOutranks /\ Reading!LateAttempts
  <1> SUFFICES ASSUME ReadingInv
               PROVE  Reading!TypeOK /\ Reading!OnceOnly /\ Reading!LossOutranks /\ Reading!LateAttempts
    OBVIOUS
  <1> USE ReadConstants
  <1>1. cmd \in ReadCmds /\ readLock \in ReadLocks
    BY DEF ReadingInv, ReadTypes
  <1>2. Reading!TypeOK
    BY <1>1 DEF ReadingInv, ReadTypes, ReadCmds, ReadLocks, ReadOwner, ReadPlace, ReadPlaces, ReadOuts,
       Reading!TypeOK, Reading!Kinds
  <1>3. Reading!OnceOnly
    BY DEF ReadingInv, ReadOwner, Reading!OnceOnly
  <1>4. Reading!LossOutranks
    BY <1>1 DEF ReadingInv, ReadGuard, ReadPlace, Reading!LossOutranks
  <1>5. Reading!LateAttempts
    BY <1>1 DEF ReadingInv, ReadLate, ReadCmds, Reading!LateAttempts
  <1> QED BY <1>2, <1>3, <1>4, <1>5

----------------------------------------------------------------------------
(* The browser listener (BrowserServe).                                    *)

ServePlaces == {"idle", "asked", "observe", "check", "refused", "served", "ended"}
ServeFiles == [ino : 0..(MaxTokenEdits + 9), tok : 0..2]
ServeProvs == [bind : Serve!Binds, path : Serve!Files, ino : Nat \ {0}, tok : Serve!Tokens]
ServeCalls == [pc : ServePlaces, bind : 0..2, path : 0..2, checkout : ServeCheckouts \cup {0}, opt : 0..2,
               seen : ServeFiles]

\* Only a file has a token.
ServeFileInv ==
    /\ file \in [Serve!Files -> ServeFiles] /\ edits \in 0..MaxTokenEdits
    /\ \A f \in Serve!Files : file[f].ino = 0 => file[f].tok = 0

ServeDaemonInv ==
    /\ prov = Serve!Bare \/ prov \in ServeProvs
    /\ closed \in BOOLEAN /\ stopping \in BOOLEAN /\ registered \in [ServeCheckouts -> 0..2]

\* A request on its way, or served, agrees with the listener pv.
ServeCallOk(r, pv) ==
    /\ r.pc # "idle" => /\ r.bind \in Serve!Binds /\ r.path \in Serve!Files
                        /\ r.checkout \in ServeCheckouts /\ r.opt \in Serve!Options
    /\ r.pc \in {"observe", "check"} /\ pv # Serve!Bare => pv.bind = r.bind /\ pv.path = r.path
    /\ r.pc = "check" => r.seen.ino # 0 /\ r.seen.tok \in Serve!Tokens
    /\ r.pc = "served" => /\ pv # Serve!Bare /\ r.bind = pv.bind /\ r.path = pv.path
                          /\ r.seen.ino = pv.ino /\ r.seen.tok = pv.tok

ServeCallInv ==
    /\ serveCall \in [ServeClients -> ServeCalls]
    /\ \A c \in ServeClients : ServeCallOk(serveCall[c], prov)
    /\ \A c \in ServeClients : serveCall[c].pc \in {"observe", "check"} <=> holder = c

ServeInv == ServeFileInv /\ ServeDaemonInv /\ ServeCallInv

ServeHolds == Serve!PathHeldAtAnswer /\ Serve!RefusedLeavesAlone

LEMMA ServeInitOK == Serve!Init => ServeInv
  <1> SUFFICES ASSUME Serve!Init PROVE ServeInv
    OBVIOUS
  <1> USE ServeConstants
  <1>1. ServeFileInv
    BY DEF Serve!Init, ServeFileInv, ServeFiles, Serve!Files, Serve!NoFile
  <1>2. ServeDaemonInv
    <2>1. registered \in [ServeCheckouts -> 0..2]
      BY DEF Serve!Init
    <2> QED BY <2>1 DEF Serve!Init, ServeDaemonInv
  <1>3. ServeCallInv
    <2>1. Serve!NoCall \in ServeCalls /\ Serve!NoCall.pc = "idle"
      BY DEF Serve!NoCall, Serve!NoFile, ServeCalls, ServePlaces, ServeFiles
    <2> QED BY <2>1 DEF Serve!Init, ServeCallInv, ServeCallOk
  <1> QED BY <1>1, <1>2, <1>3 DEF ServeInv

\* The token files, the end of the daemon and of its listener.
LEMMA ServeEnvironment ==
    ASSUME ServeInv, (\E f \in Serve!Files : Serve!Edit(f)) \/ Serve!Stop \/ Serve!ServerEnds
    PROVE  ServeInv' /\ ServeHolds
  <1> USE ServeConstants
  <1>1. UNCHANGED <<prov, registered, serveCall, holder>>
    BY DEF Serve!Edit, Serve!Stop, Serve!ServerEnds
  <1>2. ServeFileInv'
    <2>1. CASE \E f \in Serve!Files : Serve!Edit(f)
      <3>1. PICK f \in Serve!Files : Serve!Edit(f)
        BY <2>1
      <3>2. edits' \in 0..MaxTokenEdits /\ edits + 1 \in 1..MaxTokenEdits
        BY <3>1 DEF Serve!Edit, ServeInv, ServeFileInv
      <3>3. PICK r \in ServeFiles : file' = [file EXCEPT ![f] = r] /\ (r.ino = 0 => r.tok = 0)
        <4>1. CASE file[f].ino # 0 /\ \E t \in 0..2 : file' = [file EXCEPT ![f].tok = t]
          <5>1. PICK t \in 0..2 : file' = [file EXCEPT ![f].tok = t]
            BY <4>1
          <5>2. /\ [file[f] EXCEPT !.tok = t] \in ServeFiles
                /\ [file[f] EXCEPT !.tok = t].ino = file[f].ino
            BY DEF ServeInv, ServeFileInv, ServeFiles
          <5>3. file' = [file EXCEPT ![f] = [file[f] EXCEPT !.tok = t]]
            BY <5>1
          <5> QED BY <4>1, <5>2, <5>3
        <4>2. CASE \E t \in Serve!Tokens : file' = [file EXCEPT ![f] = [ino |-> edits + 1, tok |-> t]]
          <5>1. PICK t \in Serve!Tokens : file' = [file EXCEPT ![f] = [ino |-> edits + 1, tok |-> t]]
            BY <4>2
          <5>2. [ino |-> edits + 1, tok |-> t] \in ServeFiles /\ [ino |-> edits + 1, tok |-> t].ino # 0
            BY <3>2 DEF ServeFiles, Serve!Tokens
          <5> QED BY <5>1, <5>2
        <4>3. CASE file' = [file EXCEPT ![f] = Serve!NoFile]
          <5>1. Serve!NoFile \in ServeFiles /\ Serve!NoFile.tok = 0
            BY DEF Serve!NoFile, ServeFiles
          <5> QED BY <4>3, <5>1
        <4> QED BY <3>1, <4>1, <4>2, <4>3 DEF Serve!Edit
      <3> QED BY <3>2, <3>3 DEF ServeInv, ServeFileInv
    <2>2. CASE UNCHANGED <<file, edits>>
      BY <2>2 DEF ServeInv, ServeFileInv
    <2> QED BY <2>1, <2>2 DEF Serve!Stop, Serve!ServerEnds
  <1>3. ServeDaemonInv'
    <2>1. closed' \in BOOLEAN /\ stopping' \in BOOLEAN
      BY Zenon DEF ServeInv, ServeDaemonInv, Serve!Edit, Serve!Stop, Serve!ServerEnds
    <2> QED BY <1>1, <2>1 DEF ServeInv, ServeDaemonInv
  <1>4. ServeCallInv'
    BY <1>1 DEF ServeInv, ServeCallInv
  <1>5. ServeHolds
    BY <1>1 DEF ServeHolds, Serve!PathHeldAtAnswer, Serve!RefusedLeavesAlone
  <1> QED BY <1>2, <1>3, <1>4, <1>5 DEF ServeInv

\* A request moves and the listener and its registrations stay.
LEMMA ServeMoves ==
    ASSUME ServeInv, NEW c \in ServeClients, NEW r \in ServeCalls,
           serveCall' = [serveCall EXCEPT ![c] = r], UNCHANGED <<edits, prov, closed, registered, stopping>>,
           ServeFileInv', ServeCallOk(r, prov), r.pc # "served",
           r.pc \in {"observe", "check"} <=> holder' = c,
           \A d \in ServeClients \ {c} : holder' = d <=> holder = d
    PROVE  ServeInv' /\ ServeHolds
  <1>1. \A d \in ServeClients : serveCall'[d] = IF d = c THEN r ELSE serveCall[d]
    BY DEF ServeInv, ServeCallInv
  <1>2. ServeCallInv'
    <2>1. serveCall' \in [ServeClients -> ServeCalls]
      BY DEF ServeInv, ServeCallInv
    <2>2. \A d \in ServeClients : ServeCallOk(serveCall'[d], prov')
      BY <1>1 DEF ServeInv, ServeCallInv
    <2>3. \A d \in ServeClients : serveCall'[d].pc \in {"observe", "check"} <=> holder' = d
      BY <1>1 DEF ServeInv, ServeCallInv
    <2> QED BY <2>1, <2>2, <2>3 DEF ServeCallInv
  <1>3. ServeDaemonInv'
    BY DEF ServeInv, ServeDaemonInv
  <1>4. ServeHolds
    BY <1>1 DEF ServeHolds, Serve!PathHeldAtAnswer, Serve!RefusedLeavesAlone
  <1> QED BY <1>2, <1>3, <1>4 DEF ServeInv

LEMMA ServeAsks ==
    ASSUME ServeInv, NEW c \in ServeClients,
           Serve!Ask(c) \/ Serve!Reject(c) \/ Serve!ControlEnds(c) \/ Serve!ClientQuits(c)
    PROVE  ServeInv' /\ ServeHolds
  <1> USE ServeConstants
  <1>1. /\ serveCall[c] \in ServeCalls /\ ServeCallOk(serveCall[c], prov)
        /\ serveCall[c].pc \in {"observe", "check"} <=> holder = c
        /\ ServeFileInv /\ holder' = holder /\ UNCHANGED <<file, edits, prov, closed, registered, stopping>>
    BY DEF ServeInv, ServeCallInv, Serve!Ask, Serve!Reject, Serve!ControlEnds, Serve!ClientQuits
  <1>2. ServeFileInv'
    BY <1>1 DEF ServeFileInv
  <1>3. CASE Serve!Ask(c)
    <2>1. PICK b \in Serve!Binds, f \in Serve!Files, k \in ServeCheckouts, o \in Serve!Options :
             serveCall' = [serveCall EXCEPT ![c] = [Serve!NoCall EXCEPT !.pc = "asked", !.bind = b,
                                                      !.path = f, !.checkout = k, !.opt = o]]
      BY <1>3 DEF Serve!Ask
    <2> DEFINE r == [Serve!NoCall EXCEPT !.pc = "asked", !.bind = b, !.path = f, !.checkout = k, !.opt = o]
    <2>2. /\ r \in ServeCalls /\ r.pc = "asked" /\ r.bind = b /\ r.path = f /\ r.checkout = k /\ r.opt = o
      <3>1. Serve!NoCall \in ServeCalls
        BY DEF Serve!NoCall, Serve!NoFile, ServeCalls, ServePlaces, ServeFiles
      <3>2. b \in 0..2 /\ f \in 0..2 /\ o \in 0..2
        BY DEF Serve!Binds, Serve!Files, Serve!Options
      <3> QED BY <3>1, <3>2 DEF ServeCalls, ServePlaces
    <2>3. serveCall[c].pc = "idle"
      BY <1>3 DEF Serve!Ask
    <2> HIDE DEF r
    <2>4. ServeCallOk(r, prov)
      BY <2>2 DEF ServeCallOk
    <2>5. serveCall' = [serveCall EXCEPT ![c] = r]
      BY <2>1 DEF r
    <2> QED BY <1>1, <1>2, <2>2, <2>3, <2>4, <2>5, ServeMoves
  <1>4. ASSUME NEW to \in {"refused", "ended"}, serveCall' = [serveCall EXCEPT ![c].pc = to],
               serveCall[c].pc \notin {"idle", "observe", "check"}
        PROVE  ServeInv' /\ ServeHolds
    <2> DEFINE r == [serveCall[c] EXCEPT !.pc = to]
    <2>1. /\ r \in ServeCalls /\ r.pc = to /\ r.bind = serveCall[c].bind /\ r.path = serveCall[c].path
          /\ r.checkout = serveCall[c].checkout /\ r.opt = serveCall[c].opt
      BY <1>1 DEF ServeCalls, ServePlaces
    <2>2. serveCall' = [serveCall EXCEPT ![c] = r]
      BY <1>4
    <2> HIDE DEF r
    <2>3. ServeCallOk(r, prov)
      BY <1>1, <1>4, <2>1 DEF ServeCallOk
    <2> QED BY <1>1, <1>2, <1>4, <2>1, <2>2, <2>3, ServeMoves
  <1>5. CASE Serve!Reject(c)
    BY <1>4, <1>5 DEF Serve!Reject
  <1>6. CASE Serve!ControlEnds(c)
    BY <1>4, <1>6 DEF Serve!ControlEnds
  <1>7. CASE Serve!ClientQuits(c)
    BY <1>4, <1>7 DEF Serve!ClientQuits
  <1> QED BY <1>3, <1>5, <1>6, <1>7

LEMMA ServeEnters ==
    ASSUME ServeInv, NEW c \in ServeClients, Serve!Enter(c) \/ Serve!Observe(c)
    PROVE  ServeInv' /\ ServeHolds
  <1> USE ServeConstants
  <1>1. /\ serveCall[c] \in ServeCalls /\ ServeCallOk(serveCall[c], prov)
        /\ serveCall[c].pc \in {"observe", "check"} <=> holder = c
        /\ ServeFileInv /\ UNCHANGED <<edits, prov, closed, registered, stopping>>
        /\ serveCall[c].pc # "idle" /\ c # Nobody
    BY DEF ServeInv, ServeCallInv, Serve!Enter, Serve!Observe
  <1>2. serveCall[c].path \in Serve!Files
    BY <1>1 DEF ServeCallOk
  <1>3. ASSUME NEW to \in {"refused", "observe"}, serveCall' = [serveCall EXCEPT ![c].pc = to],
               to = "observe" /\ prov # Serve!Bare => Serve!Compatible(c), ServeFileInv',
               to = "observe" <=> holder' = c,
               \A d \in ServeClients \ {c} : holder' = d <=> holder = d
        PROVE  ServeInv' /\ ServeHolds
    <2> DEFINE r == [serveCall[c] EXCEPT !.pc = to]
    <2>1. /\ r \in ServeCalls /\ r.pc = to /\ r.bind = serveCall[c].bind /\ r.path = serveCall[c].path
          /\ r.checkout = serveCall[c].checkout /\ r.opt = serveCall[c].opt
      BY <1>1 DEF ServeCalls, ServePlaces
    <2>2. serveCall' = [serveCall EXCEPT ![c] = r]
      BY <1>3
    <2> HIDE DEF r
    <2>3. ServeCallOk(r, prov)
      BY <1>1, <1>3, <2>1 DEF ServeCallOk, Serve!Compatible
    <2> QED BY <1>1, <1>3, <2>1, <2>2, <2>3, ServeMoves
  <1>4. CASE Serve!Enter(c)
    <2>1. holder = Nobody /\ \A d \in ServeClients : holder # d
      BY <1>4 DEF Serve!Enter
    <2>2. CASE serveCall' = [serveCall EXCEPT ![c].pc = "refused"] /\ UNCHANGED <<file, holder>>
      <3>1. ServeFileInv'
        BY <1>1, <2>2 DEF ServeFileInv
      <3> QED BY <1>3, <2>1, <2>2, <3>1
    <2>3. CASE /\ prov # Serve!Bare => Serve!Compatible(c)
               /\ serveCall' = [serveCall EXCEPT ![c].pc = "observe"] /\ holder' = c
               /\ file' = IF prov = Serve!Bare
                          THEN [file EXCEPT ![serveCall[c].path] = Serve!TokenFile(serveCall[c].path)]
                          ELSE file
      <3> DEFINE p == serveCall[c].path
      <3>1. /\ Serve!TokenFile(p) \in ServeFiles
            /\ Serve!TokenFile(p).ino = 0 => Serve!TokenFile(p).tok = 0
        BY <1>1, <1>2 DEF Serve!TokenFile, ServeFiles, ServeFileInv, Serve!Files
      <3>2. ServeFileInv'
        BY <1>1, <1>2, <2>3, <3>1 DEF ServeFileInv
      <3> QED BY <1>1, <1>3, <2>1, <2>3, <3>2
    <2> QED BY <1>4, <2>2, <2>3 DEF Serve!Enter
  <1>5. CASE Serve!Observe(c)
    <2>1. holder = c /\ UNCHANGED file /\ serveCall[c].pc = "observe"
      BY <1>1, <1>5 DEF Serve!Observe
    <2>2. ServeFileInv'
      BY <1>1, <2>1 DEF ServeFileInv
    <2>3. CASE serveCall' = [serveCall EXCEPT ![c].pc = "refused"] /\ holder' = Nobody
      BY <1>1, <1>3, <2>1, <2>2, <2>3
    <2>4. CASE /\ file[serveCall[c].path].tok # 0 /\ UNCHANGED holder
               /\ serveCall' = [serveCall EXCEPT ![c].pc = "check", ![c].seen = file[serveCall[c].path]]
      <3> DEFINE f == file[serveCall[c].path]
                 r == [serveCall[c] EXCEPT !.pc = "check", !.seen = f]
      <3>1. f \in ServeFiles /\ f.ino # 0 /\ f.tok \in Serve!Tokens
        BY <1>1, <1>2, <2>4 DEF ServeFileInv, ServeFiles, Serve!Tokens
      <3>2. serveCall' = [serveCall EXCEPT ![c] = r]
        BY <2>4
      <3> HIDE DEF f
      <3>3. r \in ServeCalls
        BY <1>1, <3>1 DEF ServeCalls, ServePlaces
      <3>4. /\ r.pc = "check" /\ r.bind = serveCall[c].bind /\ r.path = serveCall[c].path
            /\ r.checkout = serveCall[c].checkout /\ r.opt = serveCall[c].opt /\ r.seen = f
        BY <1>1 DEF ServeCalls
      <3> HIDE DEF r
      <3>5. ServeCallOk(r, prov)
        BY <1>1, <2>1, <3>1, <3>4 DEF ServeCallOk
      <3> QED BY <1>1, <2>1, <2>2, <2>4, <3>2, <3>3, <3>4, <3>5, ServeMoves
    <2> QED BY <1>5, <2>3, <2>4 DEF Serve!Observe
  <1> QED BY <1>4, <1>5

LEMMA ServeChecks ==
    ASSUME ServeInv, NEW c \in ServeClients, Serve!Check(c)
    PROVE  ServeInv' /\ ServeHolds
  <1> USE ServeConstants
  <1>1. /\ serveCall[c] \in ServeCalls /\ ServeCallOk(serveCall[c], prov)
        /\ ServeFileInv /\ UNCHANGED <<file, edits, closed, stopping>>
        /\ serveCall[c].pc = "check" /\ holder = c /\ c # Nobody /\ holder' = Nobody
    BY DEF ServeInv, ServeCallInv, Serve!Check, Serve!Leave
  <1>2. ServeFileInv'
    BY <1>1 DEF ServeFileInv
  <1>3. PICK to \in {"refused", "served"} : serveCall' = [serveCall EXCEPT ![c].pc = to]
    BY DEF Serve!Check, Serve!Leave
  <1> DEFINE r == [serveCall[c] EXCEPT !.pc = to]
  <1>4. /\ r \in ServeCalls /\ r.pc = to /\ r.bind = serveCall[c].bind /\ r.path = serveCall[c].path
        /\ r.checkout = serveCall[c].checkout /\ r.opt = serveCall[c].opt /\ r.seen = serveCall[c].seen
    BY <1>1 DEF ServeCalls, ServePlaces
  <1>5. serveCall' = [serveCall EXCEPT ![c] = r]
    BY <1>3
  <1> HIDE DEF r
  <1>6. \A d \in ServeClients : serveCall'[d] = IF d = c THEN r ELSE serveCall[d]
    BY <1>5 DEF ServeInv, ServeCallInv
  <1>7. CASE to = "refused" /\ UNCHANGED <<registered, prov>>
    <2>1. ServeCallOk(r, prov)
      BY <1>1, <1>4, <1>7 DEF ServeCallOk
    <2> QED BY <1>1, <1>2, <1>4, <1>5, <1>7, <2>1, ServeMoves
  <1>8. CASE ~(to = "refused" /\ UNCHANGED <<registered, prov>>)
    <2>1. /\ Serve!StillNamed(c) /\ (prov # Serve!Bare => Serve!SameToken(c))
          /\ registered' = [registered EXCEPT ![serveCall[c].checkout] = serveCall[c].opt]
          /\ prov' = IF prov # Serve!Bare THEN prov
                     ELSE [bind |-> serveCall[c].bind, path |-> serveCall[c].path,
                           ino |-> serveCall[c].seen.ino, tok |-> serveCall[c].seen.tok]
          /\ serveCall' = [serveCall EXCEPT
                             ![c].pc = IF prov # Serve!Bare /\ closed THEN "refused" ELSE "served"]
      <3>1. serveCall'[c].pc = to
        BY <1>4, <1>6
      <3>2. serveCall \in [ServeClients -> ServeCalls]
        BY DEF ServeInv, ServeCallInv
      <3>3. serveCall' = [serveCall EXCEPT ![c].pc = "refused"] => to = "refused"
        BY <1>1, <3>1, <3>2 DEF ServeCalls
      <3> QED BY <1>8, <3>3 DEF Serve!Check, Serve!Leave
    <2>2. to = "refused" <=> prov # Serve!Bare /\ closed
      <3>1. serveCall'[c].pc = to
        BY <1>4, <1>6
      <3>2. serveCall \in [ServeClients -> ServeCalls]
        BY DEF ServeInv, ServeCallInv
      <3>3. serveCall'[c].pc = IF prov # Serve!Bare /\ closed THEN "refused" ELSE "served"
        BY <1>1, <2>1, <3>2 DEF ServeCalls
      <3> QED BY <3>1, <3>3
    <2>3. /\ serveCall[c].bind \in Serve!Binds /\ serveCall[c].path \in Serve!Files
          /\ serveCall[c].checkout \in ServeCheckouts /\ serveCall[c].opt \in 0..2
          /\ serveCall[c].seen.ino \in Nat \ {0} /\ serveCall[c].seen.tok \in Serve!Tokens
      BY <1>1 DEF ServeCallOk, ServeCalls, ServeFiles
    <2>4. /\ prov' \in ServeProvs /\ prov'.bind = serveCall[c].bind /\ prov'.path = serveCall[c].path
          /\ prov'.ino = serveCall[c].seen.ino /\ prov'.tok = serveCall[c].seen.tok
          /\ prov' # Serve!Bare
      <3>1. CASE prov = Serve!Bare
        <4>1. prov' = [bind |-> serveCall[c].bind, path |-> serveCall[c].path,
                       ino |-> serveCall[c].seen.ino, tok |-> serveCall[c].seen.tok]
          BY <2>1, <3>1
        <4> QED BY <2>3, <4>1 DEF ServeProvs, Serve!Bare
      <3>2. CASE prov # Serve!Bare
        BY <1>1, <2>1, <3>2 DEF ServeInv, ServeDaemonInv, ServeCallOk, Serve!SameToken
      <3> QED BY <3>1, <3>2
    <2>5. prov # Serve!Bare => prov' = prov
      BY <2>1
    <2>6. ServeDaemonInv'
      BY <1>1, <2>1, <2>3, <2>4 DEF ServeInv, ServeDaemonInv
    <2>7. ServeCallOk(r, prov')
      BY <1>1, <1>3, <1>4, <2>3, <2>4 DEF ServeCallOk
    <2>8. \A d \in ServeClients : ServeCallOk(serveCall'[d], prov')
      <3>1. SUFFICES ASSUME NEW d \in ServeClients, d # c PROVE ServeCallOk(serveCall[d], prov')
        BY <1>6, <2>7
      <3>2. /\ ServeCallOk(serveCall[d], prov) /\ serveCall[d].pc \notin {"observe", "check"}
        BY <1>1, <3>1 DEF ServeInv, ServeCallInv
      <3> QED BY <2>5, <3>2 DEF ServeCallOk
    <2>9. ServeCallInv'
      <3>1. serveCall' \in [ServeClients -> ServeCalls]
        BY <1>4, <1>5 DEF ServeInv, ServeCallInv
      <3>2. \A d \in ServeClients : serveCall'[d].pc \in {"observe", "check"} <=> holder' = d
        BY <1>1, <1>3, <1>4, <1>6 DEF ServeInv, ServeCallInv
      <3> QED BY <2>8, <3>1, <3>2 DEF ServeCallInv
    <2>10. Serve!PathHeldAtAnswer
      BY <1>6, <2>1, <2>4 DEF Serve!PathHeldAtAnswer, Serve!StillNamed
    <2>11. Serve!RefusedLeavesAlone
      <3>1. SUFFICES ASSUME NEW d \in ServeClients, serveCall'[d].pc \in {"refused", "observe", "check"},
                            serveCall'[d].pc # serveCall[d].pc
                     PROVE  prov' = prov /\ closed
        BY DEF Serve!RefusedLeavesAlone
      <3>2. d = c /\ to = "refused"
        BY <1>3, <1>4, <1>6, <3>1
      <3> QED BY <2>2, <2>5, <3>2
    <2> QED BY <1>2, <2>6, <2>9, <2>10, <2>11 DEF ServeInv, ServeHolds
  <1> QED BY <1>7, <1>8

LEMMA ServeStep ==
    ASSUME ServeInv, [Serve!Next]_Serve!vars
    PROVE  ServeInv' /\ ServeHolds
  <1>1. CASE Serve!Next
    BY <1>1, ServeEnvironment, ServeAsks, ServeEnters, ServeChecks DEF Serve!Next, Serve!Serve
  <1>2. CASE UNCHANGED Serve!vars
    BY <1>2 DEF Serve!vars, ServeInv, ServeFileInv, ServeDaemonInv, ServeCallInv, ServeHolds,
       Serve!PathHeldAtAnswer, Serve!RefusedLeavesAlone
  <1> QED BY <1>1, <1>2

LEMMA ServeImplies == ServeInv => Serve!TypeOK /\ Serve!ServedAgree
  <1> SUFFICES ASSUME ServeInv PROVE Serve!TypeOK /\ Serve!ServedAgree
    OBVIOUS
  <1> USE ServeConstants
  <1>1. Serve!TypeOK
    <2>1. \A f \in Serve!Files : file[f].ino \in 0..(MaxTokenEdits + 9) /\ file[f].tok \in 0..2
      BY DEF ServeInv, ServeFileInv, ServeFiles
    <2>2. (prov = Serve!Bare) \/ (prov.bind \in Serve!Binds /\ prov.path \in Serve!Files /\ prov.ino # 0
                                  /\ prov.tok \in Serve!Tokens)
      BY DEF ServeInv, ServeDaemonInv, ServeProvs
    <2>3. \A c \in ServeClients : serveCall[c].pc \in ServePlaces
      BY DEF ServeInv, ServeCallInv, ServeCalls
    <2>4. \A c \in ServeClients : (serveCall[c].pc \in {"observe", "check"}) = (holder = c)
      BY DEF ServeInv, ServeCallInv
    <2> QED BY <2>1, <2>2, <2>3, <2>4 DEF ServeInv, ServeDaemonInv, ServePlaces, Serve!TypeOK
  <1>2. Serve!ServedAgree
    <2> SUFFICES ASSUME NEW c \in ServeClients, serveCall[c].pc = "served"
                 PROVE  /\ serveCall[c].bind = prov.bind /\ serveCall[c].path = prov.path
                        /\ serveCall[c].seen = [ino |-> prov.ino, tok |-> prov.tok]
      BY DEF Serve!ServedAgree
    <2>1. ServeCallOk(serveCall[c], prov) /\ serveCall[c] \in ServeCalls
      BY DEF ServeInv, ServeCallInv
    <2>2. serveCall[c].seen \in ServeFiles
      BY <2>1 DEF ServeCalls
    <2>3. serveCall[c].seen = [ino |-> serveCall[c].seen.ino, tok |-> serveCall[c].seen.tok]
      BY <2>2 DEF ServeFiles
    <2> QED BY <2>1, <2>3 DEF ServeCallOk
  <1> QED BY <1>1, <1>2

----------------------------------------------------------------------------
(* The wait of index (CliWait).                                            *)

LEMMA NaturalsWellFounded == IsWellFoundedOn({ss \in Nat \X Nat : ss[1] < ss[2]}, Nat)
  BY NatLessThanWellFounded DEF OpToRel

LEMMA LeastNatural ==
    ASSUME NEW S \in SUBSET Nat, S # {}
    PROVE  \E i \in S : \A j \in S : i <= j
  <1> DEFINE R == {ss \in Nat \X Nat : ss[1] < ss[2]}
  <1>0. IsWellFoundedOn(R, Nat)
    BY NaturalsWellFounded
  <1> HIDE DEF R
  <1>1. PICK i \in S : \A j \in S : ~(<<j, i>> \in R)
    BY <1>0, WFMin
  <1>2. ASSUME NEW j \in S PROVE i <= j
    <2>1. i \in Nat /\ j \in Nat
      OBVIOUS
    <2>2. j < i => <<j, i>> \in R
      BY <2>1 DEF R
    <2> QED BY <1>1, <2>1, <2>2
  <1> QED BY <1>2

WaitPlaces == {"start", "look", "acquire", "drain", "retry", "due", "fence1", "fence2", "fence3",
               "prove", "end"}
WaitOuts == {"none", "ok", "failed", "root", "interrupted", "busy", "ambiguous", "notready", "unverified"}
WaitFences == [cutoff : Nat, mark : Nat]
WaitClis == [pc : WaitPlaces, out : WaitOuts, mine : Nat, asked : Nat, recreate : BOOLEAN,
             held : BOOLEAN, slot : Nat, pubs : Nat, fence : WaitFences]
WaitOthers == [h : BOOLEAN, row : Nat, cap : Nat]
WaitRowSet == [state : {"open", "done", "failed"}, gen : Nat, covers : Nat]

WaitRowTypes == waitRows \in Seq(WaitRowSet) /\ Len(waitRows) <= MaxRows + 1

WaitTypes ==
    /\ WaitRowTypes /\ gen \in Nat /\ gen >= 1 /\ broken \in BOOLEAN /\ edit \in 0..MaxTreeEdits
    /\ indexed \in 0..edit /\ waitLock \in {"free", "cli", "other"} /\ other \in WaitOthers
    /\ cli \in WaitClis /\ waitFaults \in 0..MaxFaults /\ cancel \in BOOLEAN /\ waitLost \in BOOLEAN

\* Each recreation follows a damage; who holds the index has repaired it.
WaitIndex ==
    /\ gen <= waitFaults + 2 /\ (broken => gen <= waitFaults + 1)
    /\ broken => ~cli.held /\ ~other.h

\* One owner at a time, with an open row.
WaitOwner ==
    /\ waitLock = "cli" <=> cli.held
    /\ waitLock # "other" => other = Indexing!Idle
    /\ other.row <= Len(waitRows) /\ other.cap <= edit
    /\ other.row # 0 => waitRows[other.row].state = "open"

WaitPlace ==
    /\ cli.out = "none" <=> cli.pc # "end"
    /\ cli.pc \in {"drain", "retry", "due", "fence1", "fence2", "fence3"} => cli.held
    /\ cli.pc \in {"start", "acquire", "end"} => ~cli.held
    /\ cli.pc = "start" => cli.mine = 0 /\ cli.pubs = 0 /\ Len(waitRows) <= MaxRows
    /\ cli.pc # "start" => cli.mine # 0
    /\ cli.mine <= Len(waitRows) /\ cli.asked <= edit

\* The command's row is finished by what was captured after it was accepted, and
\* the command publishes for it once.
WaitMine ==
    cli.mine # 0 =>
       /\ other.row = cli.mine => other.cap >= cli.asked
       /\ waitRows[cli.mine].state = "done" =>
             /\ waitRows[cli.mine].covers >= cli.asked /\ indexed >= cli.asked
             /\ other.row # 0 => other.cap >= cli.asked
       /\ cli.pc \in {"fence1", "fence2", "fence3", "prove"} \/ cli.out = "ok" =>
             waitRows[cli.mine].state = "done"
       /\ cli.pc = "retry" => /\ cli.slot \in 1..Len(waitRows) /\ waitRows[cli.slot].state = "open"
                              /\ indexed >= cli.asked
       /\ \/ cli.pubs = 0
          \/ /\ cli.pubs = 1
             /\ \/ waitRows[cli.mine].state # "open" \/ cli.pc = "end"
                \/ cli.pc = "retry" /\ cli.slot = cli.mine

\* What the fence has drained and indexed so far.
WaitFence ==
    /\ cli.pc \in {"fence2", "fence3", "prove"} /\ cli.held => cli.fence.cutoff <= Len(waitRows)
    /\ cli.pc \in {"fence3", "prove"} /\ cli.held =>
          /\ cli.fence.mark <= edit
          /\ \A i \in 1..cli.fence.cutoff : waitRows[i].state # "open"
    /\ cli.pc = "prove" /\ cli.held => indexed >= cli.fence.mark

WaitInv == WaitTypes /\ WaitIndex /\ WaitOwner /\ WaitPlace /\ WaitMine /\ WaitFence

WaitHolds == Indexing!OkIsServed /\ Indexing!FenceHolds

LEMMA WaitInitOK == Indexing!Init => WaitInv
  <1> SUFFICES ASSUME Indexing!Init PROVE WaitInv
    OBVIOUS
  <1> USE WaitConstants
  <1>1. /\ waitRows = <<>> /\ gen = 1 /\ broken \in BOOLEAN /\ edit = 0 /\ indexed = 0
        /\ waitLock = "free" /\ other = Indexing!Idle /\ waitFaults = 0 /\ ~cancel /\ ~waitLost
        /\ cli = [pc |-> "start", out |-> "none", mine |-> 0, asked |-> 0, recreate |-> broken,
                  held |-> FALSE, slot |-> 0, pubs |-> 0, fence |-> Indexing!NoFence]
    BY DEF Indexing!Init
  <1>2. WaitRowTypes /\ Len(waitRows) = 0
    BY <1>1, EmptySeq DEF WaitRowTypes
  <1>3. cli \in WaitClis /\ other \in WaitOthers
    BY <1>1 DEF WaitClis, WaitPlaces, WaitOuts, WaitFences, WaitOthers, Indexing!NoFence, Indexing!Idle
  <1>4. /\ other.row = 0 /\ other.cap = 0 /\ ~other.h
        /\ cli.pc = "start" /\ cli.out = "none" /\ cli.mine = 0 /\ cli.asked = 0 /\ ~cli.held
        /\ cli.pubs = 0
    BY <1>1 DEF Indexing!Idle
  <1>5. cancel \in BOOLEAN /\ waitLost \in BOOLEAN
    BY Zenon DEF Indexing!Init
  <1> QED BY <1>1, <1>2, <1>3, <1>4, <1>5
          DEF WaitInv, WaitTypes, WaitIndex, WaitOwner, WaitPlace, WaitMine, WaitFence

\* A row is finished, a row is accepted, all open rows fail.
LEMMA WaitRowPut ==
    ASSUME WaitRowTypes, NEW i \in 1..Len(waitRows), NEW r \in WaitRowSet,
           waitRows' = [waitRows EXCEPT ![i] = r]
    PROVE  /\ WaitRowTypes' /\ Len(waitRows') = Len(waitRows)
           /\ \A j \in 1..Len(waitRows) : waitRows'[j] = IF j = i THEN r ELSE waitRows[j]
  BY ExceptSeq DEF WaitRowTypes

LEMMA WaitRowFails ==
    ASSUME WaitRowTypes, NEW i \in 1..Len(waitRows), waitRows' = [waitRows EXCEPT ![i].state = "failed"]
    PROVE  /\ WaitRowTypes' /\ Len(waitRows') = Len(waitRows)
           /\ waitRows'[i].state = "failed"
           /\ \A j \in 1..Len(waitRows) : j # i => waitRows'[j] = waitRows[j]
  <1> DEFINE r == [waitRows[i] EXCEPT !.state = "failed"]
  <1>1. waitRows[i] \in WaitRowSet
    BY ElementOfSeq DEF WaitRowTypes
  <1>2. r \in WaitRowSet /\ r.state = "failed"
    BY <1>1 DEF WaitRowSet
  <1>3. waitRows' = [waitRows EXCEPT ![i] = r]
    OBVIOUS
  <1> HIDE DEF r
  <1>4. /\ WaitRowTypes' /\ Len(waitRows') = Len(waitRows)
        /\ \A j \in 1..Len(waitRows) : waitRows'[j] = IF j = i THEN r ELSE waitRows[j]
    BY <1>2, <1>3, WaitRowPut
  <1> QED BY <1>2, <1>4

LEMMA WaitRowAdded ==
    ASSUME WaitRowTypes, Len(waitRows) <= MaxRows, waitRows' = Append(waitRows, Indexing!NewRow)
    PROVE  /\ WaitRowTypes' /\ Len(waitRows') = Len(waitRows) + 1
           /\ \A j \in 1..Len(waitRows) : waitRows'[j] = waitRows[j]
           /\ waitRows'[Len(waitRows) + 1].state = "open"
  <1>1. Indexing!NewRow \in WaitRowSet /\ Indexing!NewRow.state = "open"
    BY DEF Indexing!NewRow, WaitRowSet
  <1>2. Len(waitRows) \in Nat
    BY LenProperties DEF WaitRowTypes
  <1> QED BY <1>1, <1>2, AppendProperties, WaitConstants DEF WaitRowTypes

LEMMA WaitRowsFail ==
    ASSUME WaitRowTypes, waitRows' = Indexing!AllFailed
    PROVE  /\ WaitRowTypes' /\ Len(waitRows') = Len(waitRows)
           /\ \A j \in 1..Len(waitRows) :
                 /\ waitRows'[j].state # "open"
                 /\ waitRows[j].state # "open" => waitRows'[j] = waitRows[j]
  <1>1. /\ Len(waitRows) \in Nat /\ DOMAIN waitRows = 1..Len(waitRows)
        /\ \A j \in 1..Len(waitRows) : waitRows[j] \in WaitRowSet
    BY LenProperties, ElementOfSeq DEF WaitRowTypes
  <1>2. waitRows' = [j \in 1..Len(waitRows) |->
                       IF waitRows[j].state = "open" THEN [waitRows[j] EXCEPT !.state = "failed"]
                       ELSE waitRows[j]]
    BY <1>1 DEF Indexing!AllFailed, Indexing!Open
  <1>3. \A j \in 1..Len(waitRows) :
           /\ waitRows'[j] = IF waitRows[j].state = "open" THEN [waitRows[j] EXCEPT !.state = "failed"]
                             ELSE waitRows[j]
           /\ waitRows'[j] \in WaitRowSet /\ waitRows'[j].state # "open"
    BY <1>1, <1>2 DEF WaitRowSet
  <1>4. waitRows' \in [1..Len(waitRows) -> WaitRowSet]
    BY <1>2, <1>3
  <1>5. waitRows' \in Seq(WaitRowSet) /\ Len(waitRows') = Len(waitRows)
    BY <1>1, <1>4
  <1> QED BY <1>3, <1>5 DEF WaitRowTypes

LEMMA WaitFirst ==
    ASSUME WaitRowTypes, Indexing!OpenRows # {}
    PROVE  /\ Indexing!FirstOpen \in 1..Len(waitRows) /\ Indexing!FirstOpen # 0
           /\ waitRows[Indexing!FirstOpen].state = "open"
  <1>1. Len(waitRows) \in Nat /\ DOMAIN waitRows = 1..Len(waitRows)
    BY LenProperties DEF WaitRowTypes
  <1>2. Indexing!OpenRows \in SUBSET Nat
    BY <1>1 DEF Indexing!OpenRows
  <1>3. \E i \in Indexing!OpenRows : \A j \in Indexing!OpenRows : i <= j
    BY <1>2, LeastNatural
  <1>4. Indexing!FirstOpen \in Indexing!OpenRows
    BY <1>3 DEF Indexing!FirstOpen
  <1> QED BY <1>1, <1>4 DEF Indexing!OpenRows, Indexing!Open

LEMMA BoundsGrow ==
    \A g, f, h \in Nat : f <= h => (g <= f + 2 => g <= h + 2) /\ (g <= f + 1 => g <= h + 1)
  OBVIOUS

LEMMA WaitRowKind ==
    ASSUME WaitTypes
    PROVE  /\ Len(waitRows) \in Nat /\ DOMAIN waitRows = 1..Len(waitRows)
           /\ \A j \in 1..Len(waitRows) : waitRows[j] \in WaitRowSet
  BY LenProperties, ElementOfSeq DEF WaitTypes, WaitRowTypes

\* The workspace, other clients and the damage change no row that is there.
LEMMA WaitWorld ==
    ASSUME WaitInv,
           \/ Indexing!EditTree \/ Indexing!Interrupt \/ Indexing!LoseRoot \/ Indexing!OtherEnqueues
           \/ Indexing!Damage \/ Indexing!OtherLeads
    PROVE  WaitInv' /\ WaitHolds
  <1> USE WaitConstants
  <1>0. /\ Len(waitRows) \in Nat /\ WaitTypes /\ UNCHANGED <<cli, other, gen, indexed>>
        /\ other \in WaitOthers /\ cli \in WaitClis
    BY WaitRowKind DEF WaitInv, WaitTypes, Indexing!EditTree, Indexing!Interrupt, Indexing!LoseRoot,
       Indexing!OtherEnqueues, Indexing!Damage, Indexing!OtherLeads
  <1>1. /\ WaitRowTypes' /\ Len(waitRows') \in Nat /\ Len(waitRows) <= Len(waitRows')
        /\ \A j \in 1..Len(waitRows) : waitRows'[j] = waitRows[j]
        /\ cli.pc = "start" => Len(waitRows') <= MaxRows
    <2>1. CASE Indexing!OtherEnqueues
      BY <1>0, <2>1, WaitRowAdded DEF Indexing!OtherEnqueues, WaitTypes
    <2>2. CASE UNCHANGED waitRows
      BY <1>0, <2>2 DEF WaitInv, WaitTypes, WaitRowTypes, WaitPlace
    <2> QED BY <2>1, <2>2 DEF Indexing!EditTree, Indexing!Interrupt, Indexing!LoseRoot, Indexing!Damage,
       Indexing!OtherLeads
  <1>2. /\ edit' \in 0..MaxTreeEdits /\ edit <= edit' /\ waitFaults' \in 0..MaxFaults
        /\ waitFaults <= waitFaults' /\ waitLock' \in {"free", "cli", "other"}
        /\ waitLock' # waitLock => waitLock = "free" /\ waitLock' = "other"
    BY <1>0 DEF WaitTypes, Indexing!EditTree, Indexing!Interrupt, Indexing!LoseRoot,
       Indexing!OtherEnqueues, Indexing!Damage, Indexing!OtherLeads
  <1>3. broken' \in BOOLEAN /\ cancel' \in BOOLEAN /\ waitLost' \in BOOLEAN
    BY <1>0, Zenon DEF WaitTypes, Indexing!EditTree, Indexing!Interrupt, Indexing!LoseRoot,
       Indexing!OtherEnqueues, Indexing!Damage, Indexing!OtherLeads
  <1>4. WaitTypes'
    BY <1>0, <1>1, <1>2, <1>3 DEF WaitTypes
  <1>5. WaitIndex'
    <2>1. CASE Indexing!Damage
      <3>1. ~cli.held /\ other = Indexing!Idle /\ waitFaults' = waitFaults + 1 /\ ~broken
        BY <2>1 DEF Indexing!Damage, WaitInv, WaitOwner
      <3> QED BY <1>0, <3>1 DEF WaitInv, WaitIndex, WaitTypes, Indexing!Idle
    <2>2. CASE UNCHANGED broken
      <3>1. gen \in Nat /\ gen' \in Nat /\ waitFaults \in Nat /\ waitFaults' \in Nat
        BY <1>0, <1>2 DEF WaitTypes
      <3>2. gen' <= waitFaults' + 2 /\ (broken => gen' <= waitFaults' + 1)
        <4>1. gen <= waitFaults + 2 /\ (broken => gen <= waitFaults + 1)
          BY DEF WaitInv, WaitIndex
        <4>2. waitFaults <= waitFaults' /\ gen' = gen
          BY <1>0, <1>2
        <4>3. /\ gen <= waitFaults + 2 => gen <= waitFaults' + 2
              /\ gen <= waitFaults + 1 => gen <= waitFaults' + 1
          BY <3>1, <4>2, BoundsGrow
        <4> QED BY <4>1, <4>2, <4>3
      <3> QED BY <1>0, <2>2, <3>2 DEF WaitInv, WaitIndex
    <2> QED BY <2>1, <2>2 DEF Indexing!EditTree, Indexing!Interrupt, Indexing!LoseRoot,
       Indexing!OtherEnqueues, Indexing!OtherLeads
  <1>6. WaitOwner'
    BY <1>0, <1>1, <1>2 DEF WaitInv, WaitOwner, WaitTypes, WaitOthers
  <1>7. WaitPlace'
    BY <1>0, <1>1, <1>2 DEF WaitInv, WaitPlace, WaitClis, WaitTypes
  <1>8. WaitMine'
    <2>1. cli.mine # 0 => cli.mine \in 1..Len(waitRows)
      BY <1>0 DEF WaitInv, WaitPlace, WaitClis
    <2> QED BY <1>0, <1>1, <2>1 DEF WaitInv, WaitMine
  <1>9. WaitFence'
    <2>1. /\ cli.fence.cutoff \in Nat /\ cli.fence.mark \in Nat /\ edit \in Nat /\ edit' \in Nat
      BY <1>0, <1>2 DEF WaitClis, WaitFences, WaitTypes
    <2> QED BY <1>0, <1>1, <1>2, <2>1 DEF WaitInv, WaitFence
  <1>10. WaitHolds
    BY <1>0 DEF WaitHolds, Indexing!OkIsServed, Indexing!FenceHolds, WaitInv, WaitPlace
  <1> QED BY <1>4, <1>5, <1>6, <1>7, <1>8, <1>9, <1>10 DEF WaitInv

\* The other owner, which excludes the command from the queue.
LEMMA WaitOther ==
    ASSUME WaitInv, Indexing!Other \/ Indexing!OtherLeaves
    PROVE  WaitInv' /\ WaitHolds
  <1> USE WaitConstants
  <1>0. /\ Len(waitRows) \in Nat /\ WaitTypes /\ UNCHANGED <<cli, edit, cancel, waitLost>>
        /\ \A j \in 1..Len(waitRows) : waitRows[j] \in WaitRowSet
        /\ other \in WaitOthers /\ cli \in WaitClis /\ WaitRowTypes
    BY WaitRowKind DEF WaitInv, WaitTypes, Indexing!Other, Indexing!OtherReconciles,
       Indexing!OtherClaims, Indexing!OtherPublishes, Indexing!OtherLeaves
  <1>1. waitLock = "other" /\ ~cli.held
    BY DEF WaitInv, WaitOwner, Indexing!Other, Indexing!OtherReconciles, Indexing!OtherClaims,
       Indexing!OtherPublishes, Indexing!OtherLeaves, Indexing!Idle
  <1>2. /\ cli.pc \in {"start", "look", "acquire", "prove", "end"}
        /\ cli.mine # 0 => cli.mine \in 1..Len(waitRows)
        /\ cli.mine <= Len(waitRows)
    BY <1>0, <1>1 DEF WaitInv, WaitPlace, WaitClis, WaitPlaces
  <1>3. WaitHolds
    BY <1>0 DEF WaitHolds, Indexing!OkIsServed, Indexing!FenceHolds, WaitInv, WaitPlace
  <1>4. CASE Indexing!OtherReconciles
    <2> DEFINE o == [other EXCEPT !.h = TRUE]
    <2>1. o \in WaitOthers /\ o.h /\ o.row = other.row /\ o.cap = other.cap
      BY <1>0 DEF WaitOthers
    <2>2. /\ other' = o /\ broken' = FALSE /\ indexed' = edit /\ UNCHANGED <<waitRows, waitLock, waitFaults>>
          /\ gen' = IF broken THEN gen + 1 ELSE gen
      BY <1>4 DEF Indexing!OtherReconciles
    <2> HIDE DEF o
    <2>7. gen' \in Nat /\ gen' >= 1 /\ indexed' \in 0..edit'
      BY <1>0, <2>2 DEF WaitTypes
    <2>3. WaitTypes'
      BY <1>0, <2>1, <2>2, <2>7 DEF WaitTypes, WaitRowTypes
    <2>4. WaitIndex' /\ WaitPlace' /\ WaitFence'
      BY <1>0, <1>1, <2>2 DEF WaitInv, WaitIndex, WaitTypes, WaitPlace, WaitFence
    <2>5. WaitOwner'
      BY <1>0, <1>1, <2>1, <2>2 DEF WaitInv, WaitOwner
    <2>6. WaitMine'
      BY <1>0, <1>2, <2>1, <2>2 DEF WaitInv, WaitMine, WaitPlace, WaitTypes, WaitClis
    <2> QED BY <1>3, <2>3, <2>4, <2>5, <2>6 DEF WaitInv
  <1>5. CASE Indexing!OtherClaims
    <2> DEFINE i == Indexing!FirstOpen
               o == [other EXCEPT !.row = i, !.cap = edit]
    <2>1. i \in 1..Len(waitRows) /\ i # 0 /\ waitRows[i].state = "open"
      BY <1>0, <1>5, WaitFirst DEF Indexing!OtherClaims
    <2>2. edit \in Nat /\ i \in Nat
      BY <1>0, <2>1 DEF WaitTypes
    <2>3. /\ other' = o /\ UNCHANGED <<waitRows, waitLock, waitFaults, gen, broken, indexed>>
      BY <1>5 DEF Indexing!OtherClaims
    <2> HIDE DEF i
    <2>4. o \in WaitOthers /\ o.h = other.h /\ o.row = i /\ o.cap = edit
      BY <1>0, <2>1, <2>2 DEF WaitOthers
    <2> HIDE DEF o
    <2>5. WaitTypes'
      BY <1>0, <2>3, <2>4 DEF WaitTypes, WaitRowTypes
    <2>6. WaitIndex' /\ WaitPlace' /\ WaitFence'
      BY <1>0, <1>1, <2>3, <2>4 DEF WaitInv, WaitIndex, WaitTypes, WaitPlace, WaitFence
    <2>7. WaitOwner'
      BY <1>0, <1>1, <2>1, <2>2, <2>3, <2>4 DEF WaitInv, WaitOwner
    <2>8. WaitMine'
      BY <1>0, <1>2, <2>1, <2>2, <2>3, <2>4 DEF WaitInv, WaitMine, WaitPlace, WaitTypes, WaitClis
    <2> QED BY <1>3, <2>5, <2>6, <2>7, <2>8 DEF WaitInv
  <1>6. CASE Indexing!OtherPublishes
    <2> DEFINE i == other.row
               o == [other EXCEPT !.row = 0, !.cap = 0]
    <2>1. i \in 1..Len(waitRows) /\ waitRows[i].state = "open"
      BY <1>0, <1>6 DEF Indexing!OtherPublishes, WaitInv, WaitOwner, WaitOthers
    <2>2. other' = o /\ UNCHANGED <<waitLock, waitFaults, gen, broken>>
      BY <1>6 DEF Indexing!OtherPublishes
    <2>3. o \in WaitOthers /\ o.h = other.h /\ o.row = 0 /\ o.cap = 0
      BY <1>0 DEF WaitOthers
    <2> HIDE DEF o
    <2>4. /\ WaitRowTypes' /\ Len(waitRows') = Len(waitRows)
          /\ \A j \in 1..Len(waitRows) : j # i => waitRows'[j] = waitRows[j]
          /\ waitRows'[i].state \in {"done", "failed"} /\ indexed' \in 0..edit
          /\ waitRows'[i].state = "done" => waitRows'[i].covers = other.cap /\ indexed' = other.cap
          /\ indexed' \in {indexed, other.cap}
      <3>1. CASE waitRows' = Indexing!Acknowledge(other.row, other.cap) /\ indexed' = other.cap
        <4> DEFINE r == [state |-> "done", gen |-> gen, covers |-> other.cap]
        <4>1. r \in WaitRowSet /\ r.state = "done" /\ r.covers = other.cap
          BY <1>0 DEF WaitTypes, WaitRowSet, WaitOthers
        <4>2. waitRows' = [waitRows EXCEPT ![i] = r]
          BY <3>1 DEF Indexing!Acknowledge
        <4> HIDE DEF r
        <4>3. /\ WaitRowTypes' /\ Len(waitRows') = Len(waitRows)
              /\ \A j \in 1..Len(waitRows) : waitRows'[j] = IF j = i THEN r ELSE waitRows[j]
          BY <1>0, <2>1, <4>1, <4>2, WaitRowPut
        <4>4. indexed' \in 0..edit
          BY <1>0, <3>1 DEF WaitInv, WaitOwner, WaitTypes, WaitOthers
        <4> QED BY <2>1, <3>1, <4>1, <4>3, <4>4
      <3>2. CASE waitRows' = [waitRows EXCEPT ![other.row].state = "failed"] /\ UNCHANGED indexed
        <4>1. /\ WaitRowTypes' /\ Len(waitRows') = Len(waitRows) /\ waitRows'[i].state = "failed"
              /\ \A j \in 1..Len(waitRows) : j # i => waitRows'[j] = waitRows[j]
          BY <1>0, <2>1, <3>2, WaitRowFails
        <4>2. indexed' \in 0..edit
          BY <1>0, <3>2 DEF WaitTypes
        <4> QED BY <3>2, <4>1, <4>2
      <3> QED BY <1>6, <3>1, <3>2 DEF Indexing!OtherPublishes
    <2> HIDE DEF i
    <2>5. WaitTypes'
      BY <1>0, <2>2, <2>3, <2>4 DEF WaitTypes
    <2>6. WaitIndex' /\ WaitPlace' /\ WaitFence'
      BY <1>0, <1>1, <2>2, <2>3, <2>4 DEF WaitInv, WaitIndex, WaitTypes, WaitPlace, WaitFence
    <2>7. WaitOwner'
      BY <1>0, <1>1, <2>2, <2>3, <2>4 DEF WaitInv, WaitOwner, WaitTypes
    <2>8. WaitMine'
      <3>1. SUFFICES ASSUME cli.mine # 0 PROVE WaitMine'
        BY <1>0 DEF WaitMine
      <3>2. CASE cli.mine = i
        BY <1>0, <1>2, <2>1, <2>2, <2>3, <2>4, <3>1, <3>2 DEF WaitInv, WaitMine, i, WaitOthers, WaitClis,
           WaitTypes
      <3>3. CASE cli.mine # i
        <4>1. waitRows'[cli.mine] = waitRows[cli.mine]
          BY <1>2, <2>4, <3>1, <3>3
        <4>2. i # 0 /\ i = other.row
          BY <2>1 DEF i
        <4> QED BY <1>0, <1>2, <2>3, <2>2, <2>4, <3>1, <4>1, <4>2 DEF WaitInv, WaitMine
      <3> QED BY <3>2, <3>3
    <2> QED BY <1>3, <2>5, <2>6, <2>7, <2>8 DEF WaitInv
  <1>7. CASE Indexing!OtherLeaves
    <2>1. /\ waitLock' = "free" /\ other' = Indexing!Idle /\ waitFaults' = waitFaults + 1
          /\ waitFaults < MaxFaults /\ UNCHANGED <<waitRows, gen, broken, indexed>>
      BY <1>7 DEF Indexing!OtherLeaves
    <2>2. other' \in WaitOthers /\ other'.row = 0 /\ other'.cap = 0 /\ ~other'.h
      BY <2>1 DEF Indexing!Idle, WaitOthers
    <2>3. WaitTypes'
      BY <1>0, <2>1, <2>2 DEF WaitTypes, WaitRowTypes
    <2>4. WaitIndex' /\ WaitPlace' /\ WaitFence'
      BY <1>0, <1>1, <2>1, <2>2 DEF WaitInv, WaitIndex, WaitTypes, WaitPlace, WaitFence
    <2>5. WaitOwner'
      BY <1>0, <1>1, <2>1, <2>2 DEF WaitOwner, WaitTypes
    <2>6. WaitMine'
      BY <1>0, <1>2, <2>1, <2>2 DEF WaitInv, WaitMine
    <2> QED BY <1>3, <2>3, <2>4, <2>5, <2>6 DEF WaitInv
  <1> QED BY <1>4, <1>5, <1>6, <1>7 DEF Indexing!Other

WaitHeld == {"drain", "retry", "due", "fence1", "fence2", "fence3"}
WaitDone == {"fence1", "fence2", "fence3", "prove"}

\* The command returns and drops the lock with its session.
LEMMA WaitReturns ==
    ASSUME WaitInv, NEW out \in WaitOuts \ {"none"}, Indexing!Return(out),
           UNCHANGED <<edit, cancel, waitLost, other, gen, broken>>,
           waitFaults' \in 0..MaxFaults, waitFaults <= waitFaults', indexed' \in {indexed, edit},
           cli.pc \notin {"start", "end"},
           waitRows' = waitRows \/ (cli.held /\ waitRows' = Indexing!AllFailed),
           out = "ok" => cli.pc = "prove" /\ Indexing!Proven /\ waitRows' = waitRows
    PROVE  WaitInv' /\ WaitHolds
  <1> USE WaitConstants
  <1>0. /\ Len(waitRows) \in Nat /\ WaitTypes /\ WaitRowTypes
        /\ \A j \in 1..Len(waitRows) : waitRows[j] \in WaitRowSet
        /\ other \in WaitOthers /\ cli \in WaitClis
    BY WaitRowKind DEF WaitInv, WaitTypes
  <1>1. /\ WaitRowTypes' /\ Len(waitRows') = Len(waitRows)
        /\ \A j \in 1..Len(waitRows) :
              /\ waitRows'[j].state = "open" => waitRows' = waitRows
              /\ waitRows[j].state # "open" => waitRows'[j] = waitRows[j]
    <2>1. CASE waitRows' = waitRows
      BY <1>0, <2>1 DEF WaitRowTypes
    <2>2. CASE waitRows' = Indexing!AllFailed
      BY <1>0, <2>2, WaitRowsFail
    <2> QED BY <2>1, <2>2
  <1>2. cli' = [cli EXCEPT !.pc = "end", !.out = out, !.held = FALSE]
    BY DEF Indexing!Return
  <1>3. cli' \in WaitClis
    BY <1>0, <1>2 DEF WaitClis, WaitPlaces
  <1>4. /\ cli'.pc = "end" /\ cli'.out = out /\ ~cli'.held /\ cli'.mine = cli.mine
        /\ cli'.asked = cli.asked /\ cli'.pubs = cli.pubs
    BY <1>0, <1>2 DEF WaitClis
  <1>5. waitLock' = (IF cli.held THEN "free" ELSE waitLock)
    BY DEF Indexing!Return
  <1>6. edit \in Nat /\ indexed \in 0..edit /\ indexed' \in 0..edit /\ indexed <= indexed'
    BY <1>0 DEF WaitTypes
  <1>7. cli.mine \in 1..Len(waitRows) /\ cli.asked <= edit /\ cli.asked \in Nat
    BY <1>0 DEF WaitInv, WaitPlace, WaitClis
  <1>8. WaitTypes'
    <2>1. waitLock' \in {"free", "cli", "other"}
      BY <1>0, <1>5 DEF WaitTypes
    <2>2. gen' \in Nat /\ gen' >= 1 /\ edit' \in 0..MaxTreeEdits /\ indexed' \in 0..edit'
      BY <1>0, <1>6 DEF WaitTypes
    <2>3. broken' \in BOOLEAN /\ cancel' \in BOOLEAN /\ waitLost' \in BOOLEAN
      BY <1>0, Zenon DEF WaitTypes
    <2> QED BY <1>0, <1>1, <1>3, <2>1, <2>2, <2>3 DEF WaitTypes
  <1>9. WaitIndex'
    <2>1. gen \in Nat /\ waitFaults \in Nat /\ waitFaults' \in Nat
      BY <1>0 DEF WaitTypes
    <2>2. /\ gen <= waitFaults + 2 => gen <= waitFaults' + 2
          /\ gen <= waitFaults + 1 => gen <= waitFaults' + 1
      BY <2>1, BoundsGrow
    <2> QED BY <1>4, <2>2 DEF WaitInv, WaitIndex
  <1>10. WaitOwner'
    <2>1. cli.held => other = Indexing!Idle /\ other.row = 0
      BY DEF WaitInv, WaitOwner, Indexing!Idle
    <2>2. other.row # 0 => waitRows' = waitRows
      BY <2>1
    <2> QED BY <1>0, <1>1, <1>4, <1>5, <2>1, <2>2 DEF WaitInv, WaitOwner
  <1>11. WaitPlace' /\ WaitFence'
    BY <1>1, <1>4, <1>7 DEF WaitPlace, WaitFence
  <1>12. WaitMine'
    <2>1. cli.pubs = 0 \/ cli.pubs = 1
      BY <1>7 DEF WaitInv, WaitMine
    <2>2. waitRows'[cli.mine].state = "done" => waitRows'[cli.mine] = waitRows[cli.mine]
      <3>1. CASE waitRows' = waitRows
        BY <3>1
      <3>2. CASE waitRows' = Indexing!AllFailed
        <4>1. waitRows[cli.mine].state = "open" => waitRows'[cli.mine].state = "failed"
          BY <1>0, <1>7, <3>2, WaitRowKind DEF Indexing!AllFailed, Indexing!Open, WaitRowSet
        <4> QED BY <1>1, <1>7, <4>1
      <3> QED BY <3>1, <3>2
    <2>3. out = "ok" => waitRows'[cli.mine].state = "done"
      BY <1>7 DEF WaitInv, WaitMine
    <2> QED BY <1>0, <1>4, <1>6, <1>7, <2>1, <2>2, <2>3 DEF WaitInv, WaitMine
  <1>13. WaitHolds
    <2>1. SUFFICES ASSUME cli.pc = "prove", out = "ok" PROVE WaitHolds
      BY <1>4 DEF WaitHolds, Indexing!OkIsServed, Indexing!FenceHolds
    <2>2. ~broken /\ waitRows[cli.mine].gen = gen
      BY <2>1 DEF WaitInv, WaitIndex, Indexing!Proven, Indexing!Followable
    <2>3. cli.held => /\ \A i \in 1..cli.fence.cutoff : waitRows[i].state # "open"
                      /\ indexed >= cli.fence.mark
      BY <2>1 DEF WaitInv, WaitFence
    <2> QED BY <2>2, <2>3 DEF WaitHolds, Indexing!OkIsServed, Indexing!FenceHolds, Indexing!Open
  <1> QED BY <1>8, <1>9, <1>10, <1>11, <1>12, <1>13 DEF WaitInv

\* The command goes on under the lock it has and leaves the rows alone.
LEMMA WaitGoes ==
    ASSUME WaitInv, cli' \in WaitClis,
           UNCHANGED <<edit, cancel, waitLost, other, gen, broken, waitLock, waitRows>>,
           waitFaults' \in 0..MaxFaults, waitFaults <= waitFaults', indexed' \in {indexed, edit},
           cli.pc \notin {"start", "end", "retry"}, cli'.pc \notin {"start", "end", "retry"},
           cli'.mine = cli.mine, cli'.asked = cli.asked, cli'.pubs = cli.pubs, cli'.out = cli.out,
           cli'.held = cli.held, cli'.pc \in WaitHeld => cli.held, cli'.pc = "acquire" => ~cli.held,
           cli'.pc \in WaitDone => waitRows[cli.mine].state = "done", WaitFence'
    PROVE  WaitInv' /\ WaitHolds
  <1> USE WaitConstants
  <1>0. /\ Len(waitRows) \in Nat /\ WaitTypes /\ WaitRowTypes /\ other \in WaitOthers /\ cli \in WaitClis
    BY WaitRowKind DEF WaitInv, WaitTypes
  <1>6. edit \in Nat /\ indexed \in 0..edit /\ indexed' \in 0..edit /\ indexed <= indexed'
    BY <1>0 DEF WaitTypes
  <1>7. cli.mine \in 1..Len(waitRows) /\ cli.asked <= edit /\ cli.asked \in Nat /\ cli.out = "none"
    BY <1>0 DEF WaitInv, WaitPlace, WaitClis
  <1>8. WaitTypes'
    <2>2. gen' \in Nat /\ gen' >= 1 /\ edit' \in 0..MaxTreeEdits /\ indexed' \in 0..edit'
      BY <1>0, <1>6 DEF WaitTypes
    <2>3. broken' \in BOOLEAN /\ cancel' \in BOOLEAN /\ waitLost' \in BOOLEAN
      BY <1>0, Zenon DEF WaitTypes
    <2> QED BY <1>0, <2>2, <2>3 DEF WaitTypes, WaitRowTypes
  <1>9. WaitIndex'
    <2>1. gen \in Nat /\ waitFaults \in Nat /\ waitFaults' \in Nat
      BY <1>0 DEF WaitTypes
    <2>2. /\ gen <= waitFaults + 2 => gen <= waitFaults' + 2
          /\ gen <= waitFaults + 1 => gen <= waitFaults' + 1
      BY <2>1, BoundsGrow
    <2> QED BY <2>2 DEF WaitInv, WaitIndex
  <1>10. WaitOwner'
    BY DEF WaitInv, WaitOwner
  <1>11. WaitPlace'
    BY <1>7 DEF WaitInv, WaitPlace, WaitHeld
  <1>12. WaitMine'
    <2>1. cli.pubs = 0 \/ (cli.pubs = 1 /\ waitRows[cli.mine].state # "open")
      BY <1>7 DEF WaitInv, WaitMine
    <2> QED BY <1>6, <1>7, <2>1 DEF WaitInv, WaitMine, WaitDone
  <1>13. WaitHolds
    BY <1>7 DEF WaitHolds, Indexing!OkIsServed, Indexing!FenceHolds
  <1> QED BY <1>8, <1>9, <1>10, <1>11, <1>12, <1>13 DEF WaitInv

\* A row is drained: claimed, published and finished, or it fails.
LEMMA WaitDrains ==
    ASSUME WaitInv, NEW i \in 1..Len(waitRows), waitRows[i].state = "open",
           NEW to \in {"due", "fence2"}, Indexing!DrainOne(i, to),
           UNCHANGED <<edit, cancel, waitLost, other, gen, broken, waitLock, waitFaults>>,
           cli.pc = (IF to = "due" THEN "drain" ELSE "fence2")
    PROVE  WaitInv' /\ WaitHolds
  <1> USE WaitConstants
  <1>0. /\ Len(waitRows) \in Nat /\ WaitTypes /\ WaitRowTypes /\ other \in WaitOthers /\ cli \in WaitClis
    BY WaitRowKind DEF WaitInv, WaitTypes
  <1>1. /\ cli.held /\ cli.mine \in 1..Len(waitRows) /\ cli.out = "none" /\ cli.asked \in Nat
        /\ cli.asked <= edit /\ edit \in Nat /\ indexed \in 0..edit
        /\ other.row = 0
    BY <1>0 DEF WaitInv, WaitPlace, WaitClis, WaitOwner, Indexing!Idle, WaitTypes
  <1>2. cli.pubs = 0 \/ (cli.pubs = 1 /\ waitRows[cli.mine].state # "open")
    BY <1>1 DEF WaitInv, WaitMine
  <1>3. /\ WaitRowTypes' /\ Len(waitRows') = Len(waitRows)
        /\ \A j \in 1..Len(waitRows) : j # i => waitRows'[j] = waitRows[j]
        /\ waitRows'[i].state \in {"done", "failed"} /\ indexed' \in {indexed, edit}
        /\ waitRows'[i].state = "done" => waitRows'[i].covers = edit /\ indexed' = edit
        /\ \/ cli' = [cli EXCEPT !.pc = to, !.pubs = Indexing!Count(i)]
           \/ cli' = [cli EXCEPT !.pc = to]
    <2>1. CASE /\ waitRows' = Indexing!Acknowledge(i, edit) /\ indexed' = edit
               /\ cli' = [cli EXCEPT !.pc = to, !.pubs = Indexing!Count(i)]
      <3> DEFINE r == [state |-> "done", gen |-> gen, covers |-> edit]
      <3>1. r \in WaitRowSet /\ r.state = "done" /\ r.covers = edit
        BY <1>0, <1>1 DEF WaitTypes, WaitRowSet
      <3>2. waitRows' = [waitRows EXCEPT ![i] = r]
        BY <2>1 DEF Indexing!Acknowledge
      <3> HIDE DEF r
      <3>3. /\ WaitRowTypes' /\ Len(waitRows') = Len(waitRows)
            /\ \A j \in 1..Len(waitRows) : waitRows'[j] = IF j = i THEN r ELSE waitRows[j]
        BY <1>0, <3>1, <3>2, WaitRowPut
      <3> QED BY <2>1, <3>1, <3>3
    <2>2. CASE waitRows' = [waitRows EXCEPT ![i].state = "failed"] /\ cli' = [cli EXCEPT !.pc = to]
               /\ UNCHANGED indexed
      BY <1>0, <2>2, WaitRowFails
    <2> QED BY <2>1, <2>2 DEF Indexing!DrainOne, Indexing!Goto
  <1>4. /\ cli' \in WaitClis /\ cli'.pc = to /\ cli'.mine = cli.mine /\ cli'.asked = cli.asked
        /\ cli'.out = cli.out /\ cli'.held = cli.held /\ cli'.fence = cli.fence
        /\ cli'.pubs = cli.pubs \/ (i = cli.mine /\ cli'.pubs = cli.pubs + 1)
    <2>1. Indexing!Count(i) \in Nat /\ (Indexing!Count(i) = cli.pubs \/ (i = cli.mine /\ Indexing!Count(i) = cli.pubs + 1))
      BY <1>0 DEF Indexing!Count, WaitClis
    <2>2. CASE cli' = [cli EXCEPT !.pc = to, !.pubs = Indexing!Count(i)]
      <3> DEFINE n == Indexing!Count(i)
      <3>1. cli' = [cli EXCEPT !.pc = to, !.pubs = n] /\ n \in Nat
        BY <2>1, <2>2
      <3> HIDE DEF n
      <3>2. /\ cli' \in WaitClis /\ cli'.pc = to /\ cli'.mine = cli.mine /\ cli'.asked = cli.asked
            /\ cli'.out = cli.out /\ cli'.held = cli.held /\ cli'.fence = cli.fence /\ cli'.pubs = n
        BY <1>0, <3>1 DEF WaitClis, WaitPlaces
      <3> QED BY <2>1, <3>2 DEF n
    <2>3. CASE cli' = [cli EXCEPT !.pc = to]
      BY <1>0, <2>3 DEF WaitClis, WaitPlaces
    <2> QED BY <1>3, <2>2, <2>3
  <1>5. WaitTypes'
    <2>1. gen' \in Nat /\ gen' >= 1 /\ edit' \in 0..MaxTreeEdits /\ indexed' \in 0..edit'
          /\ waitFaults' \in 0..MaxFaults
      BY <1>0, <1>1, <1>3 DEF WaitTypes
    <2>2. broken' \in BOOLEAN /\ cancel' \in BOOLEAN /\ waitLost' \in BOOLEAN
      BY <1>0, Zenon DEF WaitTypes
    <2> QED BY <1>0, <1>3, <1>4, <2>1, <2>2 DEF WaitTypes
  <1>6. WaitIndex' /\ WaitOwner' /\ WaitPlace'
    BY <1>0, <1>1, <1>3, <1>4 DEF WaitInv, WaitIndex, WaitOwner, WaitPlace
  <1>7. WaitMine'
    <2>1. CASE i = cli.mine
      <3>1. cli.pubs = 0 /\ to = "due"
        BY <1>1, <1>2, <2>1 DEF WaitInv, WaitMine
      <3> QED BY <1>1, <1>3, <1>4, <2>1, <3>1 DEF WaitMine
    <2>2. CASE i # cli.mine
      BY <1>1, <1>2, <1>3, <1>4, <2>2 DEF WaitInv, WaitMine
    <2> QED BY <2>1, <2>2
  <1>8. WaitFence'
    BY <1>0, <1>3, <1>4 DEF WaitInv, WaitFence
  <1>9. WaitHolds
    BY <1>1, <1>4 DEF WaitHolds, Indexing!OkIsServed, Indexing!FenceHolds
  <1> QED BY <1>5, <1>6, <1>7, <1>8, <1>9 DEF WaitInv

\* Every way out of the wait.
LEMMA WaitStops ==
    ASSUME WaitInv,
           \/ Indexing!LookLost \/ Indexing!LookFailed \/ Indexing!DrainStopped \/ Indexing!FenceStopped
           \/ Indexing!FenceFault \/ Indexing!Prove
    PROVE  WaitInv' /\ WaitHolds
  <1> USE WaitConstants
  <1>0. waitFaults \in 0..MaxFaults /\ cli \in WaitClis
    BY DEF WaitInv, WaitTypes
  <1>1. CASE Indexing!LookLost
    BY <1>0, <1>1, WaitReturns DEF Indexing!LookLost, Indexing!env, WaitOuts
  <1>2. CASE Indexing!LookFailed
    BY <1>0, <1>2, WaitReturns DEF Indexing!LookFailed, Indexing!env, WaitOuts
  <1>3. CASE Indexing!DrainStopped
    <2>1. cli.held
      BY <1>3 DEF Indexing!DrainStopped, WaitInv, WaitPlace
    <2> QED BY <1>0, <1>3, <2>1, WaitReturns DEF Indexing!DrainStopped, Indexing!env, WaitOuts
  <1>4. CASE Indexing!FenceStopped
    BY <1>0, <1>4, WaitReturns DEF Indexing!FenceStopped, Indexing!env, WaitOuts
  <1>5. CASE Indexing!FenceFault
    BY <1>0, <1>5, WaitReturns DEF Indexing!FenceFault, Indexing!env, WaitOuts
  <1>6. CASE Indexing!Prove
    <2> DEFINE out == IF Indexing!Proven THEN "ok" ELSE "unverified"
    <2>1. /\ Indexing!Return(out) /\ out \in WaitOuts \ {"none"} /\ (out = "ok" => Indexing!Proven)
          /\ cli.pc = "prove" /\ UNCHANGED <<waitRows, gen, broken, indexed, waitFaults, edit, cancel, waitLost, other>>
      BY <1>6 DEF Indexing!Prove, Indexing!env, WaitOuts
    <2> HIDE DEF out
    <2> QED BY <1>0, <2>1, WaitReturns
  <1> QED BY <1>1, <1>2, <1>3, <1>4, <1>5, <1>6

\* The command's row is accepted.
LEMMA WaitEnqueues ==
    ASSUME WaitInv, Indexing!Enqueue
    PROVE  WaitInv' /\ WaitHolds
  <1> USE WaitConstants
  <1> DEFINE n == Len(waitRows) + 1
  <1>0. /\ Len(waitRows) \in Nat /\ WaitTypes /\ WaitRowTypes /\ other \in WaitOthers /\ cli \in WaitClis
        /\ edit \in Nat /\ n \in Nat
    BY WaitRowKind DEF WaitInv, WaitTypes
  <1>1. /\ cli.pc = "start" /\ cli.pubs = 0 /\ ~cli.held /\ cli.out = "none"
        /\ Len(waitRows) <= MaxRows
    BY DEF WaitInv, WaitPlace, Indexing!Enqueue
  <1>2. /\ waitRows' = Append(waitRows, Indexing!NewRow)
        /\ cli' = [cli EXCEPT !.pc = "look", !.mine = n, !.asked = edit]
        /\ UNCHANGED <<gen, broken, indexed, waitLock, waitFaults, edit, cancel, waitLost, other>>
    BY DEF Indexing!Enqueue, Indexing!env
  <1>3. /\ WaitRowTypes' /\ Len(waitRows') = n
        /\ \A j \in 1..Len(waitRows) : waitRows'[j] = waitRows[j]
        /\ waitRows'[n].state = "open"
    BY <1>0, <1>1, <1>2, WaitRowAdded
  <1> HIDE DEF n
  <1>4. cli' \in WaitClis
    BY <1>0, <1>2 DEF WaitClis, WaitPlaces
  <1>5. /\ cli'.pc = "look" /\ cli'.mine = n /\ cli'.asked = edit /\ cli'.pubs = 0 /\ ~cli'.held
        /\ cli'.out = "none"
    BY <1>0, <1>1, <1>2 DEF WaitClis
  <1>6. n = Len(waitRows) + 1 /\ n # 0
    BY <1>0 DEF n
  <1>7. WaitTypes'
    <2>1. broken' \in BOOLEAN /\ cancel' \in BOOLEAN /\ waitLost' \in BOOLEAN
      BY <1>0, <1>2, Zenon DEF WaitTypes
    <2> QED BY <1>0, <1>2, <1>3, <1>4, <2>1 DEF WaitTypes
  <1>8. WaitIndex'
    BY <1>0, <1>1, <1>2, <1>5 DEF WaitInv, WaitIndex
  <1>9. WaitOwner'
    BY <1>0, <1>1, <1>2, <1>3, <1>5, <1>6 DEF WaitInv, WaitOwner, WaitOthers
  <1>10. WaitPlace' /\ WaitFence'
    BY <1>0, <1>2, <1>3, <1>5, <1>6 DEF WaitPlace, WaitFence
  <1>11. WaitMine'
    BY <1>0, <1>2, <1>3, <1>5, <1>6 DEF WaitMine, WaitInv, WaitOwner, WaitOthers
  <1>12. WaitHolds
    BY <1>1 DEF WaitHolds, Indexing!OkIsServed, Indexing!FenceHolds
  <1> QED BY <1>7, <1>8, <1>9, <1>10, <1>11, <1>12 DEF WaitInv

LEMMA WaitFaultless ==
    ASSUME WaitInv, waitFaults' = waitFaults
    PROVE  waitFaults' \in 0..MaxFaults /\ waitFaults <= waitFaults'
  <1>1. waitFaults \in 0..MaxFaults /\ MaxFaults \in Nat
    BY WaitConstants DEF WaitInv, WaitTypes
  <1>2. waitFaults <= waitFaults
    BY <1>1
  <1> QED BY <1>1, <1>2

\* What the next place of the command is allowed to be, and its fence.
LEMMA WaitMoves ==
    ASSUME WaitInv, NEW to \in {"look", "acquire", "drain", "due", "fence1", "prove"},
           NEW again \in BOOLEAN,
           cli' = [cli EXCEPT !.pc = to] \/ cli' = [cli EXCEPT !.pc = to, !.recreate = again],
           UNCHANGED <<edit, cancel, waitLost, other, gen, broken, waitLock, waitRows>>,
           waitFaults' \in 0..MaxFaults, waitFaults <= waitFaults', indexed' \in {indexed, edit},
           cli.pc \notin {"start", "end", "retry"},
           to \in {"drain", "due", "fence1"} => cli.held, to \in {"acquire", "prove"} => ~cli.held,
           to \in {"fence1", "prove"} => waitRows[cli.mine].state = "done"
    PROVE  WaitInv' /\ WaitHolds
  <1>0. cli \in WaitClis
    BY DEF WaitInv, WaitTypes
  <1>1. cli' \in WaitClis
    BY <1>0 DEF WaitClis, WaitPlaces
  <1>2. /\ cli'.pc = to /\ cli'.mine = cli.mine /\ cli'.asked = cli.asked /\ cli'.pubs = cli.pubs
        /\ cli'.out = cli.out /\ cli'.held = cli.held
    BY <1>0 DEF WaitClis
  <1>3. WaitFence'
    BY <1>2 DEF WaitFence
  <1>4. /\ cli'.pc \in WaitHeld => cli.held
        /\ cli'.pc = "acquire" => ~cli.held
        /\ cli'.pc \in WaitDone => waitRows[cli.mine].state = "done"
        /\ cli'.pc \notin {"start", "end", "retry"}
    BY <1>2 DEF WaitHeld, WaitDone
  <1> QED BY <1>1, <1>2, <1>3, <1>4, WaitGoes

\* The top of the loop.
LEMMA WaitLooks ==
    ASSUME WaitInv, Indexing!LookDone \/ Indexing!LookOpen \/ Indexing!AcquireBusy \/ Indexing!Due
    PROVE  WaitInv' /\ WaitHolds
  <1> USE WaitConstants
  <1>0. waitFaults \in 0..MaxFaults /\ cli \in WaitClis /\ FALSE \in BOOLEAN
    BY DEF WaitInv, WaitTypes
  <1>1. CASE Indexing!LookDone
    <2>1. /\ UNCHANGED <<waitRows, gen, broken, indexed, waitFaults, edit, cancel, waitLost, other>>
          /\ cli.pc = "look" /\ waitRows[cli.mine].state = "done"
      BY <1>1 DEF Indexing!LookDone, Indexing!env
    <2>6. waitFaults' \in 0..MaxFaults /\ waitFaults <= waitFaults'
      BY <2>1, WaitFaultless
    <2>2. CASE Indexing!Return("unverified") \/ Indexing!Return("notready")
      BY <1>0, <2>1, <2>2, WaitReturns DEF WaitOuts
    <2>3. CASE cli.held /\ Indexing!Goto("fence1") /\ UNCHANGED waitLock
      BY <1>0, <2>1, <2>3, <2>6, WaitMoves DEF Indexing!Goto
    <2>4. CASE Indexing!Refresh /\ UNCHANGED waitLock
      BY <1>0, <2>1, <2>4, <2>6, WaitMoves DEF Indexing!Refresh
    <2>5. CASE ~cli.held /\ Indexing!Goto("prove") /\ UNCHANGED waitLock
      BY <1>0, <2>1, <2>5, <2>6, WaitMoves DEF Indexing!Goto
    <2> QED BY <1>1, <2>2, <2>3, <2>4, <2>5 DEF Indexing!LookDone
  <1>2. CASE Indexing!LookOpen
    <2>1. /\ UNCHANGED <<waitRows, gen, broken, indexed, waitFaults, edit, cancel, waitLost, other>>
          /\ cli.pc = "look"
      BY <1>2 DEF Indexing!LookOpen, Indexing!env
    <2>6. waitFaults' \in 0..MaxFaults /\ waitFaults <= waitFaults'
      BY <2>1, WaitFaultless
    <2>2. CASE Indexing!Return("interrupted")
      BY <1>0, <2>1, <2>2, WaitReturns DEF WaitOuts
    <2>3. CASE cli.held /\ Indexing!Goto("drain") /\ UNCHANGED waitLock
      BY <1>0, <2>1, <2>3, <2>6, WaitMoves DEF Indexing!Goto
    <2>4. CASE ~cli.held /\ Indexing!Goto("acquire") /\ UNCHANGED waitLock
      BY <1>0, <2>1, <2>4, <2>6, WaitMoves DEF Indexing!Goto
    <2> QED BY <1>2, <2>2, <2>3, <2>4 DEF Indexing!LookOpen
  <1>3. CASE Indexing!AcquireBusy
    <2>1. /\ UNCHANGED <<waitRows, gen, broken, indexed, edit, cancel, waitLost, other>>
          /\ cli.pc = "acquire" /\ waitFaults' \in 0..MaxFaults /\ waitFaults <= waitFaults'
      BY <1>0, <1>3 DEF Indexing!AcquireBusy, Indexing!env
    <2>2. CASE Indexing!Return("busy")
      BY <2>1, <2>2, WaitReturns DEF WaitOuts
    <2>3. CASE Indexing!Goto("look") /\ UNCHANGED waitLock
      BY <1>0, <2>1, <2>3, WaitMoves DEF Indexing!Goto
    <2> QED BY <1>3, <2>2, <2>3 DEF Indexing!AcquireBusy
  <1>4. CASE Indexing!Due
    <2>1. /\ cli.pc = "due" /\ cli' = [cli EXCEPT !.pc = "look"] /\ indexed' \in {indexed, edit}
          /\ UNCHANGED <<waitRows, gen, broken, waitLock, waitFaults, edit, cancel, waitLost, other>>
      BY <1>4 DEF Indexing!Due, Indexing!Goto, Indexing!env
    <2>2. waitFaults' \in 0..MaxFaults /\ waitFaults <= waitFaults'
      BY <2>1, WaitFaultless
    <2> QED BY <1>0, <2>1, <2>2, WaitMoves
  <1> QED BY <1>1, <1>2, <1>3, <1>4

\* The command becomes the leader, of a recreated index or of the one that is there.
LEMMA WaitTakes ==
    ASSUME WaitInv, cli.pc = "acquire", waitLock = "free", NEW again \in BOOLEAN,
           cli' = [cli EXCEPT !.pc = "drain", !.recreate = again, !.held = TRUE],
           waitLock' = "cli", indexed' = edit, broken' = FALSE,
           gen' = IF broken THEN gen + 1 ELSE gen,
           UNCHANGED <<waitRows, waitFaults, edit, cancel, waitLost, other>>
    PROVE  WaitInv' /\ WaitHolds
  <1> USE WaitConstants
  <1>0. /\ Len(waitRows) \in Nat /\ WaitTypes /\ WaitRowTypes /\ other \in WaitOthers /\ cli \in WaitClis
        /\ edit \in Nat /\ gen \in Nat /\ waitFaults \in Nat
    BY WaitRowKind DEF WaitInv, WaitTypes
  <1>1. cli' \in WaitClis
    BY <1>0 DEF WaitClis, WaitPlaces
  <1>2. /\ cli'.pc = "drain" /\ cli'.held /\ cli'.mine = cli.mine /\ cli'.asked = cli.asked
        /\ cli'.pubs = cli.pubs /\ cli'.out = cli.out
    BY <1>0 DEF WaitClis
  <1>3. /\ cli.mine \in 1..Len(waitRows) /\ cli.asked <= edit /\ cli.asked \in Nat /\ cli.out = "none"
        /\ other = Indexing!Idle /\ other.row = 0 /\ ~other.h
    BY <1>0 DEF WaitInv, WaitPlace, WaitClis, WaitOwner, Indexing!Idle
  <1>4. WaitTypes'
    <2>1. gen' \in Nat /\ gen' >= 1 /\ edit' \in 0..MaxTreeEdits /\ indexed' \in 0..edit'
          /\ waitFaults' \in 0..MaxFaults
      BY <1>0 DEF WaitTypes
    <2>2. broken' \in BOOLEAN /\ cancel' \in BOOLEAN /\ waitLost' \in BOOLEAN
      BY <1>0, Zenon DEF WaitTypes
    <2> QED BY <1>0, <1>1, <2>1, <2>2 DEF WaitTypes, WaitRowTypes
  <1>5. WaitIndex'
    BY <1>0 DEF WaitInv, WaitIndex
  <1>6. WaitOwner' /\ WaitPlace' /\ WaitFence'
    BY <1>0, <1>2, <1>3 DEF WaitInv, WaitOwner, WaitPlace, WaitFence
  <1>7. WaitMine'
    <2>1. cli.pubs = 0 \/ (cli.pubs = 1 /\ waitRows[cli.mine].state # "open")
      BY <1>3 DEF WaitInv, WaitMine
    <2> QED BY <1>0, <1>2, <1>3, <2>1 DEF WaitInv, WaitMine
  <1>8. WaitHolds
    BY <1>2, <1>3 DEF WaitHolds, Indexing!OkIsServed, Indexing!FenceHolds
  <1> QED BY <1>4, <1>5, <1>6, <1>7, <1>8 DEF WaitInv

LEMMA WaitAcquires ==
    ASSUME WaitInv, Indexing!Acquire
    PROVE  WaitInv' /\ WaitHolds
  <1> USE WaitConstants
  <1>0. waitFaults \in 0..MaxFaults /\ cli \in WaitClis /\ FALSE \in BOOLEAN /\ TRUE \in BOOLEAN
        /\ broken \in BOOLEAN
    BY DEF WaitInv, WaitTypes
  <1>1. /\ UNCHANGED <<waitRows, waitFaults, edit, cancel, waitLost, other>> /\ cli.pc = "acquire"
    BY DEF Indexing!Acquire, Indexing!env
  <1>7. waitFaults' \in 0..MaxFaults /\ waitFaults <= waitFaults'
    BY <1>1, WaitFaultless
  <1>2. CASE /\ waitLock = "free" /\ cli.recreate /\ broken
             /\ gen' = gen + 1 /\ broken' = FALSE /\ indexed' = edit /\ waitLock' = "cli"
             /\ cli' = [cli EXCEPT !.pc = "drain", !.recreate = FALSE, !.held = TRUE]
    BY <1>0, <1>1, <1>2, WaitTakes
  <1>3. CASE /\ waitLock = "free" /\ ~cli.recreate /\ ~broken
             /\ indexed' = edit /\ waitLock' = "cli"
             /\ cli' = [cli EXCEPT !.pc = "drain", !.held = TRUE] /\ UNCHANGED <<gen, broken>>
    <2>1. cli' = [cli EXCEPT !.pc = "drain", !.recreate = FALSE, !.held = TRUE]
      BY <1>0, <1>3 DEF WaitClis
    <2>2. broken = FALSE /\ broken' = FALSE
      BY <1>0, <1>3
    <2> QED BY <1>0, <1>1, <1>3, <2>1, <2>2, WaitTakes
  <1>4. CASE Indexing!Refresh /\ UNCHANGED <<gen, broken, indexed, waitLock>>
    BY <1>0, <1>1, <1>7, <1>4, WaitMoves DEF Indexing!Refresh
  <1>5. CASE /\ cli' = [cli EXCEPT !.pc = "look", !.recreate = TRUE]
             /\ UNCHANGED <<gen, broken, indexed, waitLock>>
    BY <1>0, <1>1, <1>7, <1>5, WaitMoves
  <1>6. CASE Indexing!Goto("look") /\ UNCHANGED <<gen, broken, indexed, waitLock>>
    BY <1>0, <1>1, <1>7, <1>6, WaitMoves DEF Indexing!Goto
  <1> QED BY <1>2, <1>3, <1>4, <1>5, <1>6 DEF Indexing!Acquire

\* One step of a drain, and its faults.
LEMMA WaitDrainSteps ==
    ASSUME WaitInv, Indexing!Drain \/ Indexing!DrainFault
    PROVE  WaitInv' /\ WaitHolds
  <1> USE WaitConstants
  <1>0. /\ waitFaults \in 0..MaxFaults /\ cli \in WaitClis /\ FALSE \in BOOLEAN /\ WaitRowTypes
        /\ cli.pc = "drain" /\ cli.held
    BY DEF WaitInv, WaitTypes, WaitPlace, Indexing!Drain, Indexing!DrainFault
  <1>1. CASE Indexing!Drain
    <2>1. UNCHANGED <<gen, broken, waitLock, waitFaults, edit, cancel, waitLost, other>>
      BY <1>1 DEF Indexing!Drain, Indexing!env
    <2>2. waitFaults' \in 0..MaxFaults /\ waitFaults <= waitFaults'
      BY <2>1, WaitFaultless
    <2>3. CASE Indexing!OpenRows = {}
      <3>1. cli' = [cli EXCEPT !.pc = "due"] /\ UNCHANGED <<waitRows, indexed>>
        BY <1>1, <2>3 DEF Indexing!Drain, Indexing!Goto
      <3> QED BY <1>0, <2>1, <2>2, <3>1, WaitMoves
    <2>4. CASE Indexing!OpenRows # {}
      <3>1. Indexing!DrainOne(Indexing!FirstOpen, "due")
        BY <1>1, <2>4 DEF Indexing!Drain
      <3>2. /\ Indexing!FirstOpen \in 1..Len(waitRows)
            /\ waitRows[Indexing!FirstOpen].state = "open"
        BY <1>0, <2>4, WaitFirst
      <3> QED BY <1>0, <2>1, <3>1, <3>2, WaitDrains
    <2> QED BY <2>3, <2>4
  <1>2. CASE Indexing!DrainFault
    <2>1. /\ UNCHANGED <<waitRows, gen, broken, edit, cancel, waitLost, other>>
          /\ waitFaults' \in 0..MaxFaults /\ waitFaults <= waitFaults' /\ Indexing!OpenRows # {}
      BY <1>0, <1>2 DEF Indexing!DrainFault, Indexing!env
    <2>2. CASE Indexing!Return("ambiguous") /\ indexed' \in {indexed, edit}
      BY <1>0, <2>1, <2>2, WaitReturns DEF WaitOuts
    <2>3. CASE Indexing!Return("interrupted") /\ indexed' \in {indexed, edit}
      BY <1>0, <2>1, <2>3, WaitReturns DEF WaitOuts
    <2>4. CASE Indexing!Goto("due") /\ UNCHANGED <<indexed, waitLock>>
      BY <1>0, <2>1, <2>4, WaitMoves DEF Indexing!Goto
    <2>5. CASE /\ cli' = [cli EXCEPT !.pc = Indexing!AfterBusy, !.slot = Indexing!FirstOpen,
                                     !.pubs = Indexing!Count(Indexing!FirstOpen)]
               /\ indexed' = edit /\ UNCHANGED waitLock
      <3> DEFINE i == Indexing!FirstOpen
                 n == Indexing!Count(i)
      <3>1. /\ i \in 1..Len(waitRows) /\ waitRows[i].state = "open"
            /\ Len(waitRows) \in Nat /\ WaitTypes /\ edit \in Nat /\ other \in WaitOthers
        BY <1>0, <2>1, WaitFirst, WaitRowKind DEF WaitInv, WaitTypes
      <3>2. cli' = [cli EXCEPT !.pc = "retry", !.slot = i, !.pubs = n]
        BY <2>5 DEF Indexing!AfterBusy
      <3>3. n \in Nat /\ (i # cli.mine => n = cli.pubs) /\ (i = cli.mine => n = cli.pubs + 1)
        BY <1>0 DEF Indexing!Count, WaitClis
      <3> HIDE DEF i, n
      <3>12. i \in Nat
        BY <3>1
      <3>4. cli' \in WaitClis
        BY <1>0, <3>2, <3>3, <3>12 DEF WaitClis, WaitPlaces
      <3>5. /\ cli'.pc = "retry" /\ cli'.slot = i /\ cli'.pubs = n /\ cli'.mine = cli.mine
            /\ cli'.asked = cli.asked /\ cli'.out = cli.out /\ cli'.held = cli.held
        BY <1>0, <3>2 DEF WaitClis
      <3>6. /\ cli.mine \in 1..Len(waitRows) /\ cli.asked <= edit /\ cli.asked \in Nat /\ cli.out = "none"
            /\ cli.pubs = 0 \/ (cli.pubs = 1 /\ waitRows[cli.mine].state # "open")
        BY <1>0, <3>1 DEF WaitInv, WaitPlace, WaitMine, WaitClis
      <3>7. WaitTypes'
        <4>1. gen' \in Nat /\ gen' >= 1 /\ edit' \in 0..MaxTreeEdits /\ indexed' \in 0..edit'
          BY <2>1, <2>5, <3>1 DEF WaitTypes
        <4>2. broken' \in BOOLEAN /\ cancel' \in BOOLEAN /\ waitLost' \in BOOLEAN
          BY <2>1, <3>1, Zenon DEF WaitTypes
        <4> QED BY <1>0, <2>1, <2>5, <3>1, <3>4, <4>1, <4>2 DEF WaitTypes, WaitRowTypes
      <3>8. WaitIndex'
        <4>1. gen \in Nat /\ waitFaults \in Nat /\ waitFaults' \in Nat
          BY <2>1, <3>1 DEF WaitTypes
        <4>2. /\ gen <= waitFaults + 2 => gen <= waitFaults' + 2
              /\ gen <= waitFaults + 1 => gen <= waitFaults' + 1
          BY <2>1, <4>1, BoundsGrow
        <4> QED BY <2>1, <3>5, <4>2 DEF WaitInv, WaitIndex
      <3>9. WaitOwner' /\ WaitPlace' /\ WaitFence'
        BY <1>0, <2>1, <2>5, <3>5, <3>6 DEF WaitInv, WaitOwner, WaitPlace, WaitFence
      <3>10. WaitMine'
        <4>1. n = 0 \/ (n = 1 /\ (waitRows[cli.mine].state # "open" \/ i = cli.mine))
          BY <3>1, <3>3, <3>6
        <4> QED BY <1>0, <2>1, <2>5, <3>1, <3>5, <3>6, <4>1 DEF WaitInv, WaitMine
      <3>11. WaitHolds
        BY <1>0 DEF WaitHolds, Indexing!OkIsServed, Indexing!FenceHolds
      <3> QED BY <3>7, <3>8, <3>9, <3>10, <3>11 DEF WaitInv
    <2> QED BY <1>2, <2>2, <2>3, <2>4, <2>5 DEF Indexing!DrainFault
  <1> QED BY <1>1, <1>2

\* The cached completion is written.
LEMMA WaitRetries ==
    ASSUME WaitInv, Indexing!Retry
    PROVE  WaitInv' /\ WaitHolds
  <1> USE WaitConstants
  <1>0. /\ Len(waitRows) \in Nat /\ WaitTypes /\ WaitRowTypes /\ other \in WaitOthers /\ cli \in WaitClis
        /\ UNCHANGED <<gen, broken, indexed, waitFaults, edit, cancel, waitLost, other>>
        /\ cli.pc = "retry" /\ cli.held
    BY WaitRowKind DEF WaitInv, WaitTypes, WaitPlace, Indexing!Retry, Indexing!env
  <1>1. waitFaults' \in 0..MaxFaults /\ waitFaults <= waitFaults'
    BY <1>0, WaitFaultless
  <1>2. CASE waitRows' = waitRows /\ (Indexing!Return("interrupted") \/ Indexing!Return("root"))
    BY <1>0, <1>1, <1>2, WaitReturns DEF WaitOuts
  <1>3. CASE /\ waitRows' = Indexing!Acknowledge(cli.slot, indexed)
             /\ cli' = [cli EXCEPT !.pc = "drain", !.slot = 0] /\ UNCHANGED waitLock
    <2> DEFINE i == cli.slot
               r == [state |-> "done", gen |-> gen, covers |-> indexed]
    <2>1. /\ cli.mine \in 1..Len(waitRows) /\ cli.asked <= edit /\ cli.asked \in Nat /\ cli.out = "none"
          /\ i \in 1..Len(waitRows) /\ waitRows[i].state = "open" /\ indexed >= cli.asked
          /\ other.row = 0 /\ indexed \in Nat
      BY <1>0 DEF WaitInv, WaitPlace, WaitMine, WaitClis, WaitOwner, Indexing!Idle, WaitTypes
    <2>2. \/ cli.pubs = 0
          \/ cli.pubs = 1 /\ (waitRows[cli.mine].state # "open" \/ i = cli.mine)
      BY <1>0, <2>1 DEF WaitInv, WaitMine
    <2>3. r \in WaitRowSet /\ r.state = "done" /\ r.covers = indexed
      BY <1>0, <2>1 DEF WaitTypes, WaitRowSet
    <2>4. waitRows' = [waitRows EXCEPT ![i] = r]
      BY <1>3 DEF Indexing!Acknowledge
    <2> HIDE DEF r
    <2>5. /\ WaitRowTypes' /\ Len(waitRows') = Len(waitRows)
          /\ \A j \in 1..Len(waitRows) : waitRows'[j] = IF j = i THEN r ELSE waitRows[j]
      BY <1>0, <2>1, <2>3, <2>4, WaitRowPut
    <2>6. cli' \in WaitClis
      BY <1>0, <1>3 DEF WaitClis, WaitPlaces
    <2>7. /\ cli'.pc = "drain" /\ cli'.pubs = cli.pubs /\ cli'.mine = cli.mine
          /\ cli'.asked = cli.asked /\ cli'.out = cli.out /\ cli'.held = cli.held
      BY <1>0, <1>3 DEF WaitClis
    <2>8. WaitTypes'
      <3>1. gen' \in Nat /\ gen' >= 1 /\ edit' \in 0..MaxTreeEdits /\ indexed' \in 0..edit'
        BY <1>0 DEF WaitTypes
      <3>2. broken' \in BOOLEAN /\ cancel' \in BOOLEAN /\ waitLost' \in BOOLEAN
        BY <1>0, Zenon DEF WaitTypes
      <3> QED BY <1>0, <1>1, <1>3, <2>5, <2>6, <3>1, <3>2 DEF WaitTypes
    <2>9. WaitIndex' /\ WaitPlace' /\ WaitFence'
      BY <1>0, <2>1, <2>5, <2>7 DEF WaitInv, WaitIndex, WaitPlace, WaitFence
    <2>10. WaitOwner'
      BY <1>0, <1>3, <2>1, <2>5, <2>7 DEF WaitInv, WaitOwner
    <2>11. WaitMine'
      <3>1. waitRows'[cli.mine] = IF cli.mine = i THEN r ELSE waitRows[cli.mine]
        BY <2>1, <2>5
      <3> HIDE DEF i
      <3> QED BY <1>0, <2>1, <2>2, <2>3, <2>7, <3>1 DEF WaitInv, WaitMine
    <2>12. WaitHolds
      BY <1>0 DEF WaitHolds, Indexing!OkIsServed, Indexing!FenceHolds
    <2> QED BY <2>8, <2>9, <2>10, <2>11, <2>12 DEF WaitInv
  <1> QED BY <1>2, <1>3 DEF Indexing!Retry

\* The release fence.
LEMMA WaitFencesHold ==
    ASSUME WaitInv, Indexing!Fence1 \/ Indexing!Fence2 \/ Indexing!Fence3
    PROVE  WaitInv' /\ WaitHolds
  <1> USE WaitConstants
  <1>0. /\ Len(waitRows) \in Nat /\ DOMAIN waitRows = 1..Len(waitRows) /\ WaitRowTypes /\ WaitTypes
        /\ cli \in WaitClis /\ edit \in Nat /\ indexed \in 0..edit
        /\ UNCHANGED <<gen, broken, waitLock, waitFaults, edit, cancel, waitLost, other>>
        /\ cli.pc \in {"fence1", "fence2", "fence3"} /\ cli.held /\ cli.mine # 0
    BY WaitRowKind DEF WaitInv, WaitTypes, WaitPlace, Indexing!Fence1, Indexing!Fence2, Indexing!Fence3,
       Indexing!env
  <1>1. waitFaults' \in 0..MaxFaults /\ waitFaults <= waitFaults'
    BY <1>0, WaitFaultless
  <1>2. waitRows[cli.mine].state = "done"
    BY <1>0 DEF WaitInv, WaitMine
  <1>3. CASE Indexing!Fence1
    <2> DEFINE f == [cutoff |-> Len(waitRows), mark |-> 0]
    <2>1. f \in WaitFences /\ f.cutoff = Len(waitRows)
      BY <1>0 DEF WaitFences
    <2>2. cli' = [cli EXCEPT !.pc = "fence2", !.fence = f] /\ indexed' = edit /\ UNCHANGED waitRows
      BY <1>3 DEF Indexing!Fence1
    <2> HIDE DEF f
    <2>3. cli' \in WaitClis
      BY <1>0, <2>1, <2>2 DEF WaitClis, WaitPlaces
    <2>4. /\ cli'.pc = "fence2" /\ cli'.fence = f /\ cli'.mine = cli.mine /\ cli'.asked = cli.asked
          /\ cli'.pubs = cli.pubs /\ cli'.out = cli.out /\ cli'.held = cli.held
      BY <1>0, <2>2 DEF WaitClis
    <2>5. WaitFence'
      BY <1>0, <2>1, <2>2, <2>4 DEF WaitFence
    <2> QED BY <1>0, <1>1, <1>2, <2>2, <2>3, <2>4, <2>5, WaitGoes DEF WaitHeld, WaitDone
  <1>4. CASE Indexing!Fence2 /\ Indexing!Drained
    <2> DEFINE f == [cli.fence EXCEPT !.mark = edit]
    <2>1. f \in WaitFences /\ f.cutoff = cli.fence.cutoff /\ f.mark = edit /\ cli.fence.cutoff \in Nat
      BY <1>0 DEF WaitFences, WaitClis
    <2>2. cli' = [cli EXCEPT !.pc = "fence3", !.fence = f] /\ UNCHANGED <<waitRows, indexed>>
          /\ cli.pc = "fence2"
      BY <1>4 DEF Indexing!Fence2
    <2>6. cli.fence.cutoff <= Len(waitRows)
      BY <1>0, <2>2 DEF WaitInv, WaitFence
    <2>7. \A i \in 1..cli.fence.cutoff : waitRows[i].state # "open"
      BY <1>0, <1>4, <2>1, <2>6 DEF Indexing!Drained, Indexing!OpenRows, Indexing!Open
    <2> HIDE DEF f
    <2>3. cli' \in WaitClis
      BY <1>0, <2>1, <2>2 DEF WaitClis, WaitPlaces
    <2>4. /\ cli'.pc = "fence3" /\ cli'.fence = f /\ cli'.mine = cli.mine /\ cli'.asked = cli.asked
          /\ cli'.pubs = cli.pubs /\ cli'.out = cli.out /\ cli'.held = cli.held
      BY <1>0, <2>2 DEF WaitClis
    <2>5. WaitFence'
      BY <1>0, <2>1, <2>2, <2>4, <2>6, <2>7 DEF WaitFence
    <2> QED BY <1>0, <1>1, <1>2, <2>2, <2>3, <2>4, <2>5, WaitGoes DEF WaitHeld, WaitDone
  <1>5. CASE Indexing!Fence2 /\ ~Indexing!Drained
    <2>1. Indexing!OpenRows # {}
      BY <1>5 DEF Indexing!Drained
    <2>2. Indexing!DrainOne(Indexing!FirstOpen, "fence2") /\ cli.pc = "fence2"
      BY <1>5 DEF Indexing!Fence2
    <2>3. Indexing!FirstOpen \in 1..Len(waitRows) /\ waitRows[Indexing!FirstOpen].state = "open"
      BY <1>0, <2>1, WaitFirst
    <2> QED BY <1>0, <2>2, <2>3, WaitDrains
  <1>6. CASE Indexing!Fence3
    <2>1. cli' = [cli EXCEPT !.pc = "prove"] /\ indexed' = edit /\ UNCHANGED waitRows /\ cli.pc = "fence3"
      BY <1>6 DEF Indexing!Fence3, Indexing!Goto, Indexing!SecondInventory
    <2>2. cli' \in WaitClis
      BY <1>0, <2>1 DEF WaitClis, WaitPlaces
    <2>3. /\ cli'.pc = "prove" /\ cli'.fence = cli.fence /\ cli'.mine = cli.mine
          /\ cli'.asked = cli.asked /\ cli'.pubs = cli.pubs /\ cli'.out = cli.out /\ cli'.held = cli.held
      BY <1>0, <2>1 DEF WaitClis
    <2>4. WaitFence'
      BY <1>0, <2>1, <2>3 DEF WaitInv, WaitFence
    <2> QED BY <1>0, <1>1, <1>2, <2>1, <2>2, <2>3, <2>4, WaitGoes DEF WaitHeld, WaitDone
  <1> QED BY <1>3, <1>4, <1>5, <1>6

LEMMA WaitStep ==
    ASSUME WaitInv, [Indexing!Next]_Indexing!vars
    PROVE  WaitInv' /\ WaitHolds
  <1>1. CASE Indexing!Next
    BY <1>1, WaitWorld, WaitOther, WaitStops, WaitEnqueues, WaitLooks, WaitAcquires, WaitDrainSteps,
       WaitRetries, WaitFencesHold DEF Indexing!Next, Indexing!Step
  <1>2. CASE UNCHANGED Indexing!vars
    BY <1>2 DEF Indexing!vars, WaitInv, WaitTypes, WaitRowTypes, WaitIndex, WaitOwner, WaitPlace, WaitMine,
       WaitFence, WaitHolds, Indexing!OkIsServed, Indexing!FenceHolds
  <1> QED BY <1>1, <1>2

LEMMA WaitImplies == WaitInv => Indexing!TypeOK /\ Indexing!OkCoversAsked /\ Indexing!PublishedOnce
  <1> SUFFICES ASSUME WaitInv PROVE Indexing!TypeOK /\ Indexing!OkCoversAsked /\ Indexing!PublishedOnce
    OBVIOUS
  <1> USE WaitConstants
  <1>0. /\ Len(waitRows) \in Nat /\ WaitTypes /\ WaitRowTypes /\ other \in WaitOthers /\ cli \in WaitClis
    BY WaitRowKind DEF WaitInv, WaitTypes
  <1>1. Indexing!TypeOK
    <2>1. gen \in 1..MaxFaults + 2
      <3>1. gen \in Nat /\ gen >= 1 /\ waitFaults \in 0..MaxFaults /\ gen <= waitFaults + 2
        BY <1>0 DEF WaitInv, WaitIndex, WaitTypes
      <3> QED BY <3>1
    <2>2. other.row \in 0..Len(waitRows) /\ other.cap \in 0..edit /\ cli.mine \in 0..Len(waitRows)
      BY <1>0 DEF WaitInv, WaitOwner, WaitPlace, WaitTypes, WaitOthers, WaitClis
    <2>3. cli.pc \in WaitPlaces /\ cli.out \in WaitOuts
      BY <1>0 DEF WaitClis
    <2>4. (cli.out = "none") = (cli.pc # "end")
      BY DEF WaitInv, WaitPlace
    <2>5. (waitLock = "cli") = cli.held
      <3>1. cli.held \in BOOLEAN
        BY <1>0 DEF WaitClis
      <3> QED BY <3>1 DEF WaitInv, WaitOwner
    <2>6. waitLock # "other" => other = Indexing!Idle
      BY DEF WaitInv, WaitOwner
    <2> QED BY <1>0, <2>1, <2>2, <2>3, <2>4, <2>5, <2>6
            DEF WaitTypes, WaitRowTypes, WaitPlaces, WaitOuts, Indexing!TypeOK
  <1>2. Indexing!OkCoversAsked
    BY <1>0 DEF WaitInv, WaitPlace, WaitMine, Indexing!OkCoversAsked
  <1>3. Indexing!PublishedOnce
    BY <1>0 DEF WaitInv, WaitPlace, WaitMine, WaitClis, Indexing!PublishedOnce
  <1> QED BY <1>1, <1>2, <1>3

----------------------------------------------------------------------------
(* The commands together: what a run promises of each, in any state and at *)
(* the step that answers.                                                  *)

CommandsInv ==
    /\ part = "wait" => WaitInv
    /\ part = "read" => ReadingInv
    /\ part = "serve" => ServeInv

CommandsHeld ==
    /\ part = "wait" => Indexing!OkIsServed /\ Indexing!FenceHolds
    /\ part = "read" => Reading!AnswerUnderItsOwner
    /\ part = "serve" => Serve!PathHeldAtAnswer /\ Serve!RefusedLeavesAlone

LEMMA CommandsInit == Init => CommandsInv
  <1> SUFFICES ASSUME Init PROVE CommandsInv
    OBVIOUS
  <1>1. /\ part = "wait" => Indexing!Init
        /\ part = "read" => Reading!Init
        /\ part = "serve" => Serve!Init
    BY DEF Init
  <1> QED BY <1>1, WaitInitOK, ReadingInitOK, ServeInitOK DEF CommandsInv

LEMMA CommandsStep == CommandsInv /\ [Next]_vars => CommandsInv' /\ CommandsHeld
  <1> SUFFICES ASSUME CommandsInv, [Next]_vars PROVE CommandsInv' /\ CommandsHeld
    OBVIOUS
  <1>0. part' = part
    BY PartKept
  <1>1. part = "wait" => WaitInv' /\ Indexing!OkIsServed /\ Indexing!FenceHolds
    <2>1. part = "wait" => [Indexing!Next]_Indexing!vars
      BY DEF Next, vars, waitVars, Indexing!vars
    <2> QED BY <2>1, WaitStep DEF CommandsInv, WaitHolds
  <1>2. part = "read" => ReadingInv' /\ Reading!AnswerUnderItsOwner
    <2>1. part = "read" => [Reading!Next]_Reading!vars
      BY DEF Next, vars, readVars, Reading!vars
    <2> QED BY <2>1, ReadingStep DEF CommandsInv
  <1>3. part = "serve" => ServeInv' /\ Serve!PathHeldAtAnswer /\ Serve!RefusedLeavesAlone
    <2>1. part = "serve" => [Serve!Next]_Serve!vars
      BY DEF Next, vars, serveVars, Serve!vars
    <2> QED BY <2>1, ServeStep DEF CommandsInv, ServeHolds
  <1> QED BY <1>0, <1>1, <1>2, <1>3 DEF CommandsInv, CommandsHeld

\* For any bounds on rows, edits, faults, waits and owners, and any clients and
\* checkouts: a command that reports success has its row finished, covered by what is
\* published and published once, asks, admits and writes once under one owner, stops
\* trying once its wait is over, and every serve command was told the token that the
\* listener asks for (main.rs, index_coordinator.rs, auth.rs).
THEOREM CommandsSafe == Spec => []CommandsHonest
  <1>1. CommandsInv => CommandsHonest
    BY WaitImplies, ReadingImplies, ServeImplies DEF CommandsInv, CommandsHonest
  <1> QED BY <1>1, CommandsInit, CommandsStep, PTL DEF Spec

\* The finite commands' share of HeldWhenAnswered: success is reported only while the
\* index still serves what was asked and its fence holds, a read is answered under the
\* owner that admitted it, a serve command while its token file is in place, and a
\* refused one has changed nothing (main.rs, index_coordinator.rs, auth.rs).
THEOREM CommandsAnswerWhileHeld ==
    Spec => [][/\ part = "wait" => Indexing!OkIsServed /\ Indexing!FenceHolds
               /\ part = "read" => Reading!AnswerUnderItsOwner
               /\ part = "serve" => Serve!PathHeldAtAnswer /\ Serve!RefusedLeavesAlone]_vars
  <1>1. CommandsInv /\ [Next]_vars => [CommandsHeld]_vars
    BY CommandsStep
  <1> QED BY <1>1, CommandsInit, CommandsStep, PTL DEF Spec, CommandsHeld
=============================================================================
