--------------------------- MODULE ProgressSuite ---------------------------
(***************************************************************************)
(* What must happen in the end: commands, requests and openings that were  *)
(* begun end, and a checkout that is left alone converges, pays its        *)
(* retention debt and is released.                                         *)
(*                                                                         *)
(* Every component models its neighbours by what they may do to it at any  *)
(* time, so they share no variable here.  A behaviour is one of the        *)
(* component named by part; the variables of the others are Off in it.     *)
(***************************************************************************)
EXTENDS Integers, Sequences, FiniteSets

(* Two documents to retain, one of them with two projections. *)
SomeEntries == {<<"a", 1>>, <<"a", 2>>, <<"b", 1>>}
SomeSnapshots == {{<<"a", 1>>}, {<<"a", 2>>, <<"b", 1>>}, {<<"b", 1>>}}
SomeSize == [k \in {"version", "graph", "class"} |-> IF k = "class" THEN 2 ELSE 1]

Off == "off"

VARIABLES
    part,       \* the component this behaviour is about
    waitRows, waitGen, broken, edit, indexed, waitLock, other, cli, waitFaults, cancel, waitLost,      \* CliWait
    readNow, readRoot, daemon, readLock, cmd,      \* CliRead
    jevMarker, jevDb, jevInitLock, jevPc, jevCap, jevFresh, jevIntact, jevFaults, jevAt, jevProc,
    jevAlive, jevId, outcome, jevResult, calls,      \* JevBudget
    acpMarker, acpDb, acpInitLock, acpPc, acpCap, acpFresh, acpIntact, acpFaults, acpAt, acpProc,
    acpAlive, acpId, received, acpResult, runner, spawns, flight, shutdown,      \* AcpAttempts
    file, edits, prov, closed, registered, stopping, serveCall, holder,      \* BrowserServe
    rev, index, cancelled, driver, reader, catalogSince,      \* DependencyCatalog
    gcNow, stamp, files, gcRoot, away, opened, held, gpc, gtime, gtodo, gkey, opc, okey,      \* IndexGc
    electionLock, socket, electionProc, inode, electionCall, electionJob, ran, electionFaults,      \* DaemonElection
    tree, os, cb, watchGen, chan, overflow, w, lw, watchJob, watchHead, opts, watchFaults, cert,
    seen,      \* LeaderWork
    time, skew, origin, opens, retentionHead, inventory, manifest, retentionMarker, tables, sup,
    retentionDebt, cand, retentionRows, m, retentionWaiting, reading, waits, born,      \* Retention
    lane, wait, laneDebt, fg, laneRows, stream, gate, laneWaiting, serving, live, stopped, released,
    late, work,      \* MaintenanceLane
    rt, cur, attached, queue, runtimeLost, rel, rd, permit,      \* CheckoutRuntime
    disk, entry, runtime, busy, exitIn, scan, orphan, asked, registrySince, exited      \* CheckoutRegistry

waitVars == <<waitRows, waitGen, broken, edit, indexed, waitLock, other, cli, waitFaults, cancel,
              waitLost>>
readVars == <<readNow, readRoot, daemon, readLock, cmd>>
jevVars == <<jevMarker, jevDb, jevInitLock, jevPc, jevCap, jevFresh, jevIntact, jevFaults, jevAt,
             jevProc, jevAlive, jevId, outcome, jevResult, calls>>
acpVars == <<acpMarker, acpDb, acpInitLock, acpPc, acpCap, acpFresh, acpIntact, acpFaults, acpAt,
             acpProc, acpAlive, acpId, received, acpResult, runner, spawns, flight, shutdown>>
serveVars == <<file, edits, prov, closed, registered, stopping, serveCall, holder>>
catalogVars == <<rev, index, cancelled, driver, reader, catalogSince>>
gcVars == <<gcNow, stamp, files, gcRoot, away, opened, held, gpc, gtime, gtodo, gkey, opc, okey>>
electionVars == <<electionLock, socket, electionProc, inode, electionCall, electionJob, ran,
                  electionFaults>>
watchVars == <<tree, os, cb, watchGen, chan, overflow, w, lw, watchJob, watchHead, opts,
               watchFaults, cert, seen>>
retentionVars == <<time, skew, origin, opens, retentionHead, inventory, manifest, retentionMarker,
                   tables, sup, retentionDebt, cand, retentionRows, m, retentionWaiting, reading,
                   waits, born>>
laneVars == <<lane, wait, laneDebt, fg, laneRows, stream, gate, laneWaiting, serving, live, stopped,
              released, late, work>>
runtimeVars == <<rt, cur, attached, queue, runtimeLost, rel, rd, permit>>
registryVars == <<disk, entry, runtime, busy, exitIn, scan, orphan, asked, registrySince, exited>>
vars == <<part, waitVars, readVars, jevVars, acpVars, serveVars, catalogVars, gcVars, electionVars,
                watchVars, retentionVars, laneVars, runtimeVars, registryVars>>

Indexing == INSTANCE CliWait WITH
    MaxRows <- 1, MaxEdits <- 1, MaxFaults <- 1, rows <- waitRows, gen <- waitGen, lock <- waitLock,
    faults <- waitFaults, lost <- waitLost
Reading == INSTANCE CliRead WITH
    Wait <- 1, MaxTime <- 3, MaxOwners <- 2, now <- readNow, root <- readRoot, lock <- readLock
Jev == INSTANCE JevBudget WITH
    Ids <- {"a1", "a2"}, Runs <- {"r1", "r2"}, Procs <- {"p"}, Caps <- {15}, Unit <- 10,
    Resync <- FALSE, MaxFaults <- 2, marker <- jevMarker, db <- jevDb, initLock <- jevInitLock,
    pc <- jevPc, cap <- jevCap, fresh <- jevFresh, intact <- jevIntact, faults <- jevFaults,
    at <- jevAt, proc <- jevProc, alive <- jevAlive, id <- jevId, result <- jevResult
Acp == INSTANCE AcpAttempts WITH
    Ids <- {"a1", "a2"}, Runs <- {"r1", "r2"}, Procs <- {"p"}, Caps <- {2}, Unit <- 1,
    Resync <- TRUE, MaxFaults <- 0, marker <- acpMarker, db <- acpDb, initLock <- acpInitLock,
    pc <- acpPc, cap <- acpCap, fresh <- acpFresh, intact <- acpIntact, faults <- acpFaults,
    at <- acpAt, proc <- acpProc, alive <- acpAlive, id <- acpId, result <- acpResult
Serve == INSTANCE BrowserServe WITH
    Clients <- {"c1", "c2"}, Checkouts <- {"k"}, Nobody <- "nobody", MaxEdits <- 0,
    call <- serveCall
Catalog == INSTANCE DependencyCatalog WITH
    Drivers <- {"d1", "d2"}, MaxGen <- 3, MaxRev <- 2, since <- catalogSince
Gc == INSTANCE IndexGc WITH
    Keys <- {"k"}, Collectors <- {"g"}, Openers <- {"o"}, Day <- 1, Age <- 1, MaxNow <- 3,
    now <- gcNow, root <- gcRoot
Election == INSTANCE DaemonElection WITH
    Daemons <- {"d1", "d2"}, Readers <- {"r"}, Writers <- {}, MaxFaults <- 2, lock <- electionLock,
    proc <- electionProc, call <- electionCall, job <- electionJob, faults <- electionFaults
Watch == INSTANCE LeaderWork WITH
    Cap <- 1, DrainMax <- 1, MaxPaths <- 1, Kinds <- {"source", "error"}, CanLose <- TRUE,
    MaxEdits <- 2, MaxFaults <- 1, MaxOpts <- 1, gen <- watchGen, job <- watchJob,
    head <- watchHead, faults <- watchFaults
Retain == INSTANCE Retention WITH
    Entries <- SomeEntries, Classed <- {<<"a", 1>>, <<"b", 1>>}, Snapshots <- SomeSnapshots,
    Size <- SomeSize, Batch <- 1, Unit <- 1, Keep <- 1, Slack <- 0, Skews <- {}, MaxTime <- 1,
    MaxRev <- 2, MaxWaits <- 1, MaxOpens <- 2, head <- retentionHead, marker <- retentionMarker,
    debt <- retentionDebt, rows <- retentionRows, waiting <- retentionWaiting
Lane == INSTANCE MaintenanceLane WITH
    Sessions <- {1, 2}, MaxDebt <- 2, MaxWork <- 2, debt <- laneDebt, rows <- laneRows,
    waiting <- laneWaiting
Runtime == INSTANCE CheckoutRuntime WITH
    Readers <- {"r"}, MaxRuns <- 2, lost <- runtimeLost
Registry == INSTANCE CheckoutRegistry WITH
    Keys <- {"a"}, Sessions <- {"s"}, Options <- {"o1"}, MaxIdent <- 2, MAX_ACTIVE_CHECKOUTS <- 1,
    BROWSER_IDLE_DELAY <- 2, CHECKOUT_RELEASE_DELAY <- 2, DAEMON_IDLE_DELAY <- 4, MaxLate <- 1,
    since <- registrySince

WaitOff ==
    /\ waitRows = Off /\ waitGen = Off /\ broken = Off /\ edit = Off /\ indexed = Off
    /\ waitLock = Off /\ other = Off /\ cli = Off /\ waitFaults = Off /\ cancel = Off
    /\ waitLost = Off
ReadOff ==
    /\ readNow = Off /\ readRoot = Off /\ daemon = Off /\ readLock = Off /\ cmd = Off
JevOff ==
    /\ jevMarker = Off /\ jevDb = Off /\ jevInitLock = Off /\ jevPc = Off /\ jevCap = Off
    /\ jevFresh = Off /\ jevIntact = Off /\ jevFaults = Off /\ jevAt = Off /\ jevProc = Off
    /\ jevAlive = Off /\ jevId = Off /\ outcome = Off /\ jevResult = Off /\ calls = Off
AcpOff ==
    /\ acpMarker = Off /\ acpDb = Off /\ acpInitLock = Off /\ acpPc = Off /\ acpCap = Off
    /\ acpFresh = Off /\ acpIntact = Off /\ acpFaults = Off /\ acpAt = Off /\ acpProc = Off
    /\ acpAlive = Off /\ acpId = Off /\ received = Off /\ acpResult = Off /\ runner = Off
    /\ spawns = Off /\ flight = Off /\ shutdown = Off
ServeOff ==
    /\ file = Off /\ edits = Off /\ prov = Off /\ closed = Off /\ registered = Off /\ stopping = Off
    /\ serveCall = Off /\ holder = Off
CatalogOff ==
    /\ rev = Off /\ index = Off /\ cancelled = Off /\ driver = Off /\ reader = Off
    /\ catalogSince = Off
GcOff ==
    /\ gcNow = Off /\ stamp = Off /\ files = Off /\ gcRoot = Off /\ away = Off /\ opened = Off
    /\ held = Off /\ gpc = Off /\ gtime = Off /\ gtodo = Off /\ gkey = Off /\ opc = Off
    /\ okey = Off
ElectionOff ==
    /\ electionLock = Off /\ socket = Off /\ electionProc = Off /\ inode = Off /\ electionCall = Off
    /\ electionJob = Off /\ ran = Off /\ electionFaults = Off
WatchOff ==
    /\ tree = Off /\ os = Off /\ cb = Off /\ watchGen = Off /\ chan = Off /\ overflow = Off
    /\ w = Off /\ lw = Off /\ watchJob = Off /\ watchHead = Off /\ opts = Off /\ watchFaults = Off
    /\ cert = Off /\ seen = Off
RetentionOff ==
    /\ time = Off /\ skew = Off /\ origin = Off /\ opens = Off /\ retentionHead = Off
    /\ inventory = Off /\ manifest = Off /\ retentionMarker = Off /\ tables = Off /\ sup = Off
    /\ retentionDebt = Off /\ cand = Off /\ retentionRows = Off /\ m = Off /\ retentionWaiting = Off
    /\ reading = Off /\ waits = Off /\ born = Off
LaneOff ==
    /\ lane = Off /\ wait = Off /\ laneDebt = Off /\ fg = Off /\ laneRows = Off /\ stream = Off
    /\ gate = Off /\ laneWaiting = Off /\ serving = Off /\ live = Off /\ stopped = Off
    /\ released = Off /\ late = Off /\ work = Off
RuntimeOff ==
    /\ rt = Off /\ cur = Off /\ attached = Off /\ queue = Off /\ runtimeLost = Off /\ rel = Off
    /\ rd = Off /\ permit = Off
RegistryOff ==
    /\ disk = Off /\ entry = Off /\ runtime = Off /\ busy = Off /\ exitIn = Off /\ scan = Off
    /\ orphan = Off /\ asked = Off /\ registrySince = Off /\ exited = Off

Parts == {"wait", "read", "jev", "acp", "serve", "catalog", "opening", "election", "watch",
          "retention", "lane", "runtime", "registry"}

Init ==
    /\ part \in Parts
    /\ IF part = "wait" THEN TRUE ELSE WaitOff
    /\ IF part = "read" THEN TRUE ELSE ReadOff
    /\ IF part = "jev" THEN TRUE ELSE JevOff
    /\ IF part = "acp" THEN TRUE ELSE AcpOff
    /\ IF part = "serve" THEN TRUE ELSE ServeOff
    /\ IF part = "catalog" THEN TRUE ELSE CatalogOff
    /\ IF part = "opening" THEN TRUE ELSE GcOff
    /\ IF part = "election" THEN TRUE ELSE ElectionOff
    /\ IF part = "watch" THEN TRUE ELSE WatchOff
    /\ IF part = "retention" THEN TRUE ELSE RetentionOff
    /\ IF part = "lane" THEN TRUE ELSE LaneOff
    /\ IF part = "runtime" THEN TRUE ELSE RuntimeOff
    /\ IF part = "registry" THEN TRUE ELSE RegistryOff
    /\ CASE part = "wait" -> Indexing!Init
         [] part = "read" -> Reading!Init
         [] part = "jev" -> Jev!Init
         [] part = "acp" -> Acp!Init
         [] part = "serve" -> Serve!Init
         [] part = "catalog" -> Catalog!Init
         [] part = "opening" -> Gc!Init
         [] part = "election" -> Election!Init
         [] part = "watch" -> Watch!Init
         [] part = "retention" -> Retain!Init
         [] part = "lane" -> Lane!Init
         [] part = "runtime" -> Runtime!Init
         [] part = "registry" -> Registry!Init

Next ==
    /\ UNCHANGED part
    /\ IF part = "wait" THEN TRUE ELSE UNCHANGED waitVars
    /\ IF part = "read" THEN TRUE ELSE UNCHANGED readVars
    /\ IF part = "jev" THEN TRUE ELSE UNCHANGED jevVars
    /\ IF part = "acp" THEN TRUE ELSE UNCHANGED acpVars
    /\ IF part = "serve" THEN TRUE ELSE UNCHANGED serveVars
    /\ IF part = "catalog" THEN TRUE ELSE UNCHANGED catalogVars
    /\ IF part = "opening" THEN TRUE ELSE UNCHANGED gcVars
    /\ IF part = "election" THEN TRUE ELSE UNCHANGED electionVars
    /\ IF part = "watch" THEN TRUE ELSE UNCHANGED watchVars
    /\ IF part = "retention" THEN TRUE ELSE UNCHANGED retentionVars
    /\ IF part = "lane" THEN TRUE ELSE UNCHANGED laneVars
    /\ IF part = "runtime" THEN TRUE ELSE UNCHANGED runtimeVars
    /\ IF part = "registry" THEN TRUE ELSE UNCHANGED registryVars
    /\ CASE part = "wait" -> Indexing!Next
         [] part = "read" -> Reading!Next
         [] part = "jev" -> Jev!Next
         [] part = "acp" -> Acp!Next
         [] part = "serve" -> Serve!Next
         [] part = "catalog" -> Catalog!Next
         [] part = "opening" -> Gc!Next
         [] part = "election" -> Election!Next
         [] part = "watch" -> Watch!Next
         [] part = "retention" -> Retain!Next
         [] part = "lane" -> Lane!LiveNext
         [] part = "runtime" -> Runtime!Next
         [] part = "registry" -> Registry!Next

(* Fairness: every process takes its own next step in the end.             *)
WaitFair == WF_waitVars(part = "wait" /\ Indexing!Step) /\ WF_waitVars(part = "wait" /\ Indexing!Other)
ReadFair == WF_readVars(part = "read" /\ Reading!Step) /\ WF_readVars(part = "read" /\ Reading!Tick)
PaidFair == \A r \in {"r1", "r2"} : /\ WF_jevVars(part = "jev" /\ Jev!RunStep(r))
                                   /\ WF_acpVars(part = "acp" /\ Acp!RunStep(r))
ServeFair == \A c \in {"c1", "c2"} : WF_serveVars(part = "serve" /\ Serve!Serve(c))
CatalogFair == \A d \in {"d1", "d2"} : WF_catalogVars(part = "catalog" /\ Catalog!DriverStep(d))
OpeningFair == WF_gcVars(part = "opening" /\ Gc!Collect("g")) /\ WF_gcVars(part = "opening" /\ Gc!Opening("o"))
ElectionFair ==
    /\ \A d \in {"d1", "d2"} : /\ WF_electionVars(part = "election" /\ Election!DaemonStep(d))
                              /\ WF_electionVars(part = "election" /\ Election!ServeStep(d, "r"))
    /\ WF_electionVars(part = "election" /\ Election!ClientStep("r"))

(* The queue tick runs every 20 ms and its steps finish; events and timers *)
(* arrive.                                                                 *)
WatchFair ==
    /\ WF_watchVars(part = "watch" /\ Watch!Submit) /\ WF_watchVars(part = "watch" /\ Watch!Offer)
    /\ WF_watchVars(part = "watch" /\ Watch!Lose) /\ WF_watchVars(part = "watch" /\ Watch!Settle)
    /\ WF_watchVars(part = "watch" /\ (Watch!Tick \/ Watch!Rewatch))
    /\ WF_watchVars(part = "watch" /\ Watch!Inventory) /\ WF_watchVars(part = "watch" /\ Watch!Elapse)

(* The leader runs a unit on every tick; a snapshot ends and a waiter is   *)
(* served or gives up.                                                     *)
RetentionFair ==
    /\ WF_retentionVars(part = "retention" /\ Retain!Select)
    /\ WF_retentionVars(part = "retention" /\ Retain!MarkPending)
    /\ WF_retentionVars(part = "retention" /\ Retain!Drain)
    /\ WF_retentionVars(part = "retention" /\ Retain!Defer)
    /\ WF_retentionVars(part = "retention" /\ Retain!EndRead)
    /\ WF_retentionVars(part = "retention" /\ Retain!StopWaiting)

(* The lane ticks every 20 ms and the queue tick serves its work.          *)
LaneFair ==
    /\ WF_laneVars(part = "lane" /\ Lane!Tick) /\ WF_laneVars(part = "lane" /\ Lane!Pick)
    /\ WF_laneVars(part = "lane" /\ Lane!UnitStep) /\ WF_laneVars(part = "lane" /\ Lane!TakeStream)
    /\ WF_laneVars(part = "lane" /\ Lane!AtGate) /\ WF_laneVars(part = "lane" /\ Lane!Publish)
    /\ WF_laneVars(part = "lane" /\ Lane!Acknowledge) /\ WF_laneVars(part = "lane" /\ Lane!Granted)
    /\ WF_laneVars(part = "lane" /\ Lane!Replace)

(* The worker's task, the calls, the scheduler's 20 ms tick and the release *)
(* run on.  The lifecycle ticks every 250 ms while the backoff grows to    *)
(* 30 s, so a checkout that is releasable again and again is caught in     *)
(* such a window, and an attempt, which takes no I/O between its looks, is *)
(* not disturbed every time.                                               *)
RuntimeFair ==
    /\ \A g \in 1..2 : /\ WF_runtimeVars(part = "runtime" /\ Runtime!WorkerStep(g))
                      /\ WF_runtimeVars(part = "runtime" /\ Runtime!QueueTick(g))
    /\ WF_runtimeVars(part = "runtime" /\ Runtime!ReadStep("r"))
    /\ WF_runtimeVars(part = "runtime" /\ Runtime!ReleaseStep)
    /\ SF_runtimeVars(part = "runtime" /\ Runtime!ReleaseBegins /\ ~rt[cur].h)
    /\ SF_runtimeVars(part = "runtime" /\ Runtime!ReleaseProbe /\ rel'.pc = "gate")
    /\ SF_runtimeVars(part = "runtime" /\ Runtime!ReleaseGate /\ rel'.pc = "bump")

(* Time passes, the lifecycle ticks again and again between the requests,  *)
(* work that began ends.                                                   *)
RegistryFair ==
    /\ WF_registryVars(part = "registry" /\ Registry!Tick)
    /\ SF_registryVars(part = "registry" /\ Registry!Advance)
    /\ WF_registryVars(part = "registry" /\ Registry!OrphanEnds)
    /\ WF_registryVars(part = "registry" /\ Registry!WorkEnds("a"))

Fairness ==
    /\ WaitFair /\ ReadFair /\ PaidFair /\ ServeFair /\ CatalogFair /\ OpeningFair /\ ElectionFair
    /\ WatchFair /\ RetentionFair /\ LaneFair /\ RuntimeFair /\ RegistryFair

Spec == Init /\ [][Next]_vars /\ Fairness

-----------------------------------------------------------------------------
(* Properties.  Runs, clients and drivers are interchangeable, so what     *)
(* holds of the first holds of each.                                       *)

(* What was begun, as far as it waits for something that others do or      *)
(* time brings, and its end.                                               *)
Begun ==
    CASE part = "wait"     -> cli.pc # "start"
      [] part = "read"     -> TRUE
      [] part = "jev"      -> jevAt["r1"] = "reserving"
      [] part = "acp"      -> shutdown["p"] /\ acpProc["r1"] = "p"
      [] part = "serve"    -> stopping /\ serveCall["c1"].pc \in {"asked", "served"}
      [] part = "catalog"  -> index.state = "loading"
      [] part = "opening"  -> opc["o"] = "prepare"
      [] part = "election" -> TRUE
      [] OTHER             -> FALSE

Ended ==
    CASE part = "wait"     -> cli.pc = "end"
      [] part = "read"     -> cmd.pc = "end"
      [] part = "jev"      -> jevAt["r1"] = "done"
      [] part = "acp"      -> ~runner["r1"] \/ acpFaults > 0
      [] part = "serve"    -> serveCall["c1"].pc = "ended"
      [] part = "catalog"  -> index.state # "loading"
      [] part = "opening"  -> opc["o"] \in {"open", "idle"} \/ gcRoot[okey["o"]] = "missing"
      [] part = "election" -> electionCall["r"].pc = "ok"
      [] OTHER             -> TRUE

(* A finite command ends by its own work, another owner's or an error; a   *)
(* paid request ends although the provider never answers; after a shutdown *)
(* no runner is left and no serve command waits on the daemon; a loading   *)
(* dependency catalog becomes something else; a process that opens an      *)
(* index is not kept out by a removal that ran or stopped half way; and    *)
(* clients are served again and again after the last crash and idle exit   *)
(* (main.rs, live_jev.rs, acp.rs, http.rs, store/topology.rs,              *)
(* daemon/mod.rs).                                                         *)
WorkEndsAtLast == Begun ~> Ended

(* What a checkout that is left alone owes, and its settlement.            *)
Owed ==
    CASE part = "watch"     -> TRUE
      [] part = "retention" -> 1 \in retentionDebt
      [] part = "lane"      -> laneDebt > 0
      [] part = "runtime"   -> cur # 0
      [] part = "registry"  -> ~Registry!HasClient(entry["a"])
      [] OTHER              -> FALSE

Settled ==
    CASE part = "watch"     -> watchHead.content = tree /\ ~Watch!Intent
      [] part = "retention" -> 1 \notin retentionDebt
      [] part = "lane"      -> laneDebt = 0
      [] part = "runtime"   -> cur = 0 \/ attached \/ queue
      [] part = "registry"  -> exited \/ Registry!HasClient(entry["a"])
      [] OTHER              -> TRUE

(* The index reaches the tree again and again, through the watcher or      *)
(* through the periodic inventory when events were lost, and the watcher   *)
(* then leaves room for maintenance; a superseded revision leaves the      *)
(* retention debt although publications and restarts go on, and the lane   *)
(* works its debt off; a runtime without client and request is released    *)
(* whether its reconciliation succeeds, keeps failing or loses its root or *)
(* the lock; a daemon that keeps no client ends (index_coordinator.rs,     *)
(* store.rs, http.rs, daemon/registry.rs).                                 *)
IdleMeansDrained == Owed ~> Settled
=============================================================================
