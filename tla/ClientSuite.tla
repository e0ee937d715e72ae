---------------------------- MODULE ClientSuite ----------------------------
(***************************************************************************)
(* The daemon, its checkouts and those who talk to it: election and calls, *)
(* the registry of checkouts, the life of one runtime and its maintenance  *)
(* lane, the browser listener, the MCP relay and session, and the finite   *)
(* commands.                                                               *)
(*                                                                         *)
(* Every component models its neighbours by what they may do to it at any  *)
(* time, so they share no variable here.  A behaviour is one of the        *)
(* component named by part; the variables of the others are Off in it.     *)
(***************************************************************************)
EXTENDS Integers, Sequences, FiniteSets

CONSTANTS
    Daemons, Readers, Writers, RaceReaders, MaxDeaths, MaxRaceDeaths,    \* DaemonElection
    ServeClients, ServeCheckouts, Nobody, MaxTokenEdits,    \* BrowserServe
    MaxRows, MaxTreeEdits, MaxFaults,    \* CliWait
    ReadWait, MaxTime, MaxOwners    \* CliRead

ASSUME ElectionConstants == "none" \notin Daemons /\ IsFiniteSet(Daemons)
ASSUME ServeConstants == Nobody \notin ServeClients /\ MaxTokenEdits \in Nat
ASSUME WaitConstants == MaxRows \in Nat /\ MaxTreeEdits \in Nat /\ MaxFaults \in Nat
ASSUME ReadConstants == ReadWait \in Nat /\ MaxTime \in Nat /\ MaxOwners \in Nat

(* Requests a client sends: modern ones, a legacy client's, and a mixture. *)
Request(m, meta, ok) == [method |-> m, meta |-> meta, ok |-> ok]
Modern == {Request("call", "good", TRUE), Request("unknown", "good", TRUE)}
LegacyOnly == {Request("initialize", "none", TRUE), Request("call", "none", TRUE)}
Mixed == {Request("initialize", "none", TRUE), Request("list", "none", TRUE), Request("list", "good", TRUE),
          Request("discover", "version", TRUE), Request("unknown", "none", FALSE)}

Off == "off"

VARIABLES
    part,       \* the component this behaviour is about
    electionLock, socket, proc, inode, electionCall, job, ran, electionFaults,      \* DaemonElection
    disk, entry, runtime, busy, exitIn, scan, orphan, registryAsked, since, exited,      \* CheckoutRegistry
    rt, cur, attached, runtimeQueue, runtimeLost, rel, rd, permit,      \* CheckoutRuntime
    lane, wait, debt, fg, laneRows, stream, gate, waiting, serving, live, stopped, released, late,
    laneWork,      \* MaintenanceLane
    file, edits, prov, closed, registered, stopping, serveCall, holder,      \* BrowserServe
    relayChan, relaySent, relayAsked, relayQueue, cancelledQueued, relayMode, active, canceled,
    cancelledActive, retry, eof, legacy, relayPc, conn, replies, relaySuppressed, greeted, unready,
    relayFaults,      \* McpRelay
    sessionChan, sessionSent, sessionAsked, sessionMode, token, pending, outcomes, sessionPc,
    sessionWork, sessionRoot, reply, sessionSuppressed,      \* McpSession
    waitRows, gen, broken, edit, indexed, waitLock, other, cli, waitFaults, cancel, waitLost,      \* CliWait
    now, readRoot, daemon, readLock, cmd      \* CliRead

electionVars == <<electionLock, socket, proc, inode, electionCall, job, ran, electionFaults>>
registryVars == <<disk, entry, runtime, busy, exitIn, scan, orphan, registryAsked, since, exited>>
runtimeVars == <<rt, cur, attached, runtimeQueue, runtimeLost, rel, rd, permit>>
laneVars == <<lane, wait, debt, fg, laneRows, stream, gate, waiting, serving, live, stopped,
              released, late, laneWork>>
serveVars == <<file, edits, prov, closed, registered, stopping, serveCall, holder>>
relayVars == <<relayChan, relaySent, relayAsked, relayQueue, cancelledQueued, relayMode, active,
               canceled, cancelledActive, retry, eof, legacy, relayPc, conn, replies,
               relaySuppressed, greeted, unready, relayFaults>>
sessionVars == <<sessionChan, sessionSent, sessionAsked, sessionMode, token, pending, outcomes,
                 sessionPc, sessionWork, sessionRoot, reply, sessionSuppressed>>
waitVars == <<waitRows, gen, broken, edit, indexed, waitLock, other, cli, waitFaults, cancel,
              waitLost>>
readVars == <<now, readRoot, daemon, readLock, cmd>>
vars == <<part, electionVars, registryVars, runtimeVars, laneVars, serveVars, relayVars,
                sessionVars, waitVars, readVars>>

Election == INSTANCE DaemonElection WITH
    MaxFaults <- MaxDeaths, lock <- electionLock, call <- electionCall, faults <- electionFaults
Race == INSTANCE DaemonElection WITH
    Readers <- RaceReaders, Writers <- {}, MaxFaults <- MaxRaceDeaths,
    lock <- electionLock, call <- electionCall, faults <- electionFaults
Registry == INSTANCE CheckoutRegistry WITH
    Keys <- {"a", "b"}, Sessions <- {"s"}, Options <- {"o1"}, MaxIdent <- 1,
    MAX_ACTIVE_CHECKOUTS <- 2, BROWSER_IDLE_DELAY <- 2, CHECKOUT_RELEASE_DELAY <- 2,
    DAEMON_IDLE_DELAY <- 3, MaxLate <- 1, asked <- registryAsked
Replace == INSTANCE CheckoutRegistry WITH
    Keys <- {"a", "b"}, Sessions <- {"s"}, Options <- {"o1", "o2"}, MaxIdent <- 2,
    MAX_ACTIVE_CHECKOUTS <- 1, BROWSER_IDLE_DELAY <- 1, CHECKOUT_RELEASE_DELAY <- 1,
    DAEMON_IDLE_DELAY <- 1, MaxLate <- 1, asked <- registryAsked
Runtime == INSTANCE CheckoutRuntime WITH
    Readers <- {"r1", "r2"}, MaxRuns <- 2, queue <- runtimeQueue, lost <- runtimeLost
Lane == INSTANCE MaintenanceLane WITH
    Sessions <- {1, 2}, MaxDebt <- 3, MaxWork <- 3, rows <- laneRows, work <- laneWork
Serve == INSTANCE BrowserServe WITH
    Clients <- ServeClients, Checkouts <- ServeCheckouts, MaxEdits <- MaxTokenEdits,
    call <- serveCall
Relay == INSTANCE McpRelay WITH
    Ids <- {1, 2}, QueueCap <- 1, ChanCap <- 2, MaxFaults <- 2, ClientKinds <- Modern,
    MaxFrames <- 4, Conforming <- FALSE, chan <- relayChan, sent <- relaySent, asked <- relayAsked,
    queue <- relayQueue, mode <- relayMode, pc <- relayPc, suppressed <- relaySuppressed,
    faults <- relayFaults
Legacy == INSTANCE McpRelay WITH
    Ids <- {1, 2}, QueueCap <- 1, ChanCap <- 2, MaxFaults <- 2, ClientKinds <- LegacyOnly,
    MaxFrames <- 4, Conforming <- TRUE, chan <- relayChan, sent <- relaySent, asked <- relayAsked,
    queue <- relayQueue, mode <- relayMode, pc <- relayPc, suppressed <- relaySuppressed,
    faults <- relayFaults
Session == INSTANCE McpSession WITH
    Ids <- {1, 2}, ClientKinds <- {Request("call", "good", TRUE)}, ChanCap <- 2, MaxFrames <- 3,
    MaxChanges <- 1, chan <- sessionChan, sent <- sessionSent, asked <- sessionAsked,
    mode <- sessionMode, pc <- sessionPc, work <- sessionWork, root <- sessionRoot,
    suppressed <- sessionSuppressed
Dialects == INSTANCE McpSession WITH
    Ids <- {1, 2}, ClientKinds <- Mixed, ChanCap <- 1, MaxFrames <- 4, MaxChanges <- 0,
    chan <- sessionChan, sent <- sessionSent, asked <- sessionAsked, mode <- sessionMode,
    pc <- sessionPc, work <- sessionWork, root <- sessionRoot, suppressed <- sessionSuppressed
Indexing == INSTANCE CliWait WITH
    MaxEdits <- MaxTreeEdits, rows <- waitRows, lock <- waitLock, faults <- waitFaults,
    lost <- waitLost
Reading == INSTANCE CliRead WITH
    Wait <- ReadWait, root <- readRoot, lock <- readLock

ElectionOff ==
    /\ electionLock = Off /\ socket = Off /\ proc = Off /\ inode = Off /\ electionCall = Off
    /\ job = Off /\ ran = Off /\ electionFaults = Off
RegistryOff ==
    /\ disk = Off /\ entry = Off /\ runtime = Off /\ busy = Off /\ exitIn = Off /\ scan = Off
    /\ orphan = Off /\ registryAsked = Off /\ since = Off /\ exited = Off
RuntimeOff ==
    /\ rt = Off /\ cur = Off /\ attached = Off /\ runtimeQueue = Off /\ runtimeLost = Off
    /\ rel = Off /\ rd = Off /\ permit = Off
LaneOff ==
    /\ lane = Off /\ wait = Off /\ debt = Off /\ fg = Off /\ laneRows = Off /\ stream = Off
    /\ gate = Off /\ waiting = Off /\ serving = Off /\ live = Off /\ stopped = Off /\ released = Off
    /\ late = Off /\ laneWork = Off
ServeOff ==
    /\ file = Off /\ edits = Off /\ prov = Off /\ closed = Off /\ registered = Off /\ stopping = Off
    /\ serveCall = Off /\ holder = Off
RelayOff ==
    /\ relayChan = Off /\ relaySent = Off /\ relayAsked = Off /\ relayQueue = Off
    /\ cancelledQueued = Off /\ relayMode = Off /\ active = Off /\ canceled = Off
    /\ cancelledActive = Off /\ retry = Off /\ eof = Off /\ legacy = Off /\ relayPc = Off
    /\ conn = Off /\ replies = Off /\ relaySuppressed = Off /\ greeted = Off /\ unready = Off
    /\ relayFaults = Off
SessionOff ==
    /\ sessionChan = Off /\ sessionSent = Off /\ sessionAsked = Off /\ sessionMode = Off
    /\ token = Off /\ pending = Off /\ outcomes = Off /\ sessionPc = Off /\ sessionWork = Off
    /\ sessionRoot = Off /\ reply = Off /\ sessionSuppressed = Off
WaitOff ==
    /\ waitRows = Off /\ gen = Off /\ broken = Off /\ edit = Off /\ indexed = Off /\ waitLock = Off
    /\ other = Off /\ cli = Off /\ waitFaults = Off /\ cancel = Off /\ waitLost = Off
ReadOff ==
    /\ now = Off /\ readRoot = Off /\ daemon = Off /\ readLock = Off /\ cmd = Off

Parts == {"election", "race", "registry", "replace", "runtime", "lane", "serve", "relay", "legacy",
          "session", "dialects", "wait", "read"}

Init ==
    /\ part \in Parts
    /\ IF part \in {"election", "race"} THEN TRUE ELSE ElectionOff
    /\ IF part \in {"registry", "replace"} THEN TRUE ELSE RegistryOff
    /\ IF part = "runtime" THEN TRUE ELSE RuntimeOff
    /\ IF part = "lane" THEN TRUE ELSE LaneOff
    /\ IF part = "serve" THEN TRUE ELSE ServeOff
    /\ IF part \in {"relay", "legacy"} THEN TRUE ELSE RelayOff
    /\ IF part \in {"session", "dialects"} THEN TRUE ELSE SessionOff
    /\ IF part = "wait" THEN TRUE ELSE WaitOff
    /\ IF part = "read" THEN TRUE ELSE ReadOff
    /\ CASE part = "election" -> Election!Init
         [] part = "race" -> Race!Init
         [] part = "registry" -> Registry!Init
         [] part = "replace" -> Replace!Init
         [] part = "runtime" -> Runtime!Init
         [] part = "lane" -> Lane!Init
         [] part = "serve" -> Serve!Init
         [] part = "relay" -> Relay!Init
         [] part = "legacy" -> Legacy!Init
         [] part = "session" -> Session!Init
         [] part = "dialects" -> Dialects!Init
         [] part = "wait" -> Indexing!Init
         [] part = "read" -> Reading!Init

Next ==
    /\ UNCHANGED part
    /\ IF part \in {"election", "race"} THEN TRUE ELSE UNCHANGED electionVars
    /\ IF part \in {"registry", "replace"} THEN TRUE ELSE UNCHANGED registryVars
    /\ IF part = "runtime" THEN TRUE ELSE UNCHANGED runtimeVars
    /\ IF part = "lane" THEN TRUE ELSE UNCHANGED laneVars
    /\ IF part = "serve" THEN TRUE ELSE UNCHANGED serveVars
    /\ IF part \in {"relay", "legacy"} THEN TRUE ELSE UNCHANGED relayVars
    /\ IF part \in {"session", "dialects"} THEN TRUE ELSE UNCHANGED sessionVars
    /\ IF part = "wait" THEN TRUE ELSE UNCHANGED waitVars
    /\ IF part = "read" THEN TRUE ELSE UNCHANGED readVars
    /\ CASE part = "election" -> Election!Next
         [] part = "race" -> Race!Next
         [] part = "registry" -> Registry!Next
         [] part = "replace" -> Replace!Next
         [] part = "runtime" -> Runtime!Next
         [] part = "lane" -> Lane!Next
         [] part = "serve" -> Serve!Next
         [] part = "relay" -> Relay!Next
         [] part = "legacy" -> Legacy!Next
         [] part = "session" -> Session!Next
         [] part = "dialects" -> Dialects!Next
         [] part = "wait" -> Indexing!Next
         [] part = "read" -> Reading!Next

Spec == Init /\ [][Next]_vars

-----------------------------------------------------------------------------
(* Properties.                                                             *)

(* However daemons race to start, crash and idle out, a serving one stays  *)
(* reachable, a mutation runs at most once per command, and a client that  *)
(* is told "unavailable" may be sure it did not run (daemon/mod.rs,        *)
(* daemon/client.rs).                                                      *)
CallsDeliveredOnce ==
    /\ part = "election" => /\ Election!TypeOK /\ Election!MutationAtMostOnce
                            /\ Election!UnavailableMeansNotRun /\ Election!ServingReachable
    /\ part = "race" => Race!TypeOK /\ Race!ServingReachable

(* There are never more runtimes than places, a runtime has the options    *)
(* registered for its checkout, and the daemon ends only when no checkout  *)
(* had a client for the idle period (daemon/registry.rs).                  *)
RegistryAgrees ==
    /\ part = "registry" => Registry!TypeOK /\ Registry!ExitGrace
    /\ part = "replace" => Replace!CapacityHeld /\ Replace!OptionsAgree

(* A released runtime reconciles nothing, commits no maintenance and has   *)
(* no successor beside it; a strict read keeps its runtime; foreground     *)
(* work is overtaken by one maintenance unit at most (daemon/registry.rs,  *)
(* release and re-arm; http.rs, maintenance lane).                         *)
ReleasedIsQuiet ==
    /\ part = "runtime" => /\ Runtime!TypeOK /\ Runtime!ReleasedIsQuiet
                           /\ Runtime!OneWorker /\ Runtime!StrictReadPins
    /\ part = "lane" => Lane!TypeOK /\ Lane!AtMostOneLateUnit /\ Lane!ReleasedIsQuiet

(* Through lost daemons, refusals, retries and reused IDs no request is    *)
(* answered twice, lost or given another's reply, a cancelled one stays    *)
(* silent (for a client that does not reuse the ID, in the relay), and     *)
(* both ends agree on the dialect (daemon/client.rs, mcp/session.rs).      *)
RepliesMatch ==
    /\ part = "relay" => /\ Relay!TypeOK /\ Relay!AtMostOneReply
                         /\ Relay!NoStrayReply /\ Relay!NothingLost
    /\ part = "legacy" => Legacy!CancelSuppresses /\ Legacy!HandshakeFirst
    /\ part = "session" => /\ Session!TypeOK /\ Session!CancelledIsSilent
                           /\ Session!EveryRequestEnds /\ Session!AnswersFromSelectedRoot
    /\ part = "dialects" => Dialects!TypeOK /\ Dialects!DialectKept

(* A command that says it succeeded has its row finished and covered by    *)
(* what is published, published it once, and did not outlive its root or   *)
(* its session; every serve command was told of the one token that the     *)
(* listener asks for (main.rs, index_coordinator.rs, auth.rs).             *)
CommandsHonest ==
    /\ part = "wait" => Indexing!TypeOK /\ Indexing!OkCoversAsked /\ Indexing!PublishedOnce
    /\ part = "read" => Reading!TypeOK /\ Reading!OnceOnly /\ Reading!LossOutranks /\ Reading!LateAttempts
    /\ part = "serve" => Serve!TypeOK /\ Serve!ServedAgree

(* Nothing in use is taken away and no success outlives its ground: a      *)
(* runtime is released after its grace or when its path names another      *)
(* checkout, the daemon ends with no work left behind, a used checkout     *)
(* keeps its identity, no maintenance unit starts after the stop; a call,  *)
(* a serve command and a finite command answer while the runtime, the      *)
(* token file, the index or the owner they answer for is still there, and  *)
(* a refused serve command has changed nothing.                            *)
HeldWhenAnswered ==
    [][/\ part = "registry" => Registry!ReleaseGrace /\ Registry!ExitAbandonsNothing
       /\ part = "replace" => Replace!ClientKeepsIdentity
       /\ part = "runtime" => Runtime!AnswersAlive
       /\ part = "lane" => Lane!NoUnitAfterStop
       /\ part = "serve" => Serve!PathHeldAtAnswer /\ Serve!RefusedLeavesAlone
       /\ part = "wait" => Indexing!OkIsServed /\ Indexing!FenceHolds
       /\ part = "read" => Reading!AnswerUnderItsOwner]_vars
=============================================================================
