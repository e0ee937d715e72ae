---------------------------- MODULE StorageSuite ----------------------------
(***************************************************************************)
(* The files Baleyg keeps, each under the faults and the processes that    *)
(* share it: the workspace marker, the durable records, the index file and *)
(* its collection, the descriptors that keep SQLite's locks, and the       *)
(* ledgers of paid and of spawned attempts.                                *)
(*                                                                         *)
(* These components share no state.  A behaviour is one of the component   *)
(* named by part, and the variables of the others are Off in it.           *)
(***************************************************************************)
EXTENDS Naturals, FiniteSets

CONSTANTS
    Nothing,                                      \* no connection, no file
    Processes, Attempts,                          \* processes; tries to read or to lock a file
    Creators, MaxMarkers, PowerMarkers, MaxLosses,      \* WorkspaceMarker
    Items, Targets, Anchors, MaxLocks, MaxDbs,          \* RecordStore
    Keys, Collectors, Openers, Day, Age, MaxNow,        \* IndexGc
    MaxTries,                                           \* IndexRecreate
    FileIds, Conns, Borrowers, Capacity,                \* SqliteWitnesses
    Ids, Runs, JevCaps, JevUnit, AcpCaps, AcpUnit, MaxFaults      \* the ledgers

(* What the theorems ask of the constants. *)
ASSUME MarkerConstants ==
    /\ MaxMarkers \in Nat /\ PowerMarkers \in Nat
    /\ Attempts \in Nat \ {0} /\ MaxLosses \in Nat
ASSUME RecreateConstants == MaxTries \in Nat
ASSUME GcConstants ==
    /\ Collectors \cap Openers = {} /\ "none" \notin Keys
    /\ Day \in Nat /\ Age \in Nat /\ MaxNow \in Nat \ {0}
ASSUME RecordConstants == MaxLocks \in Nat /\ MaxDbs \in Nat
ASSUME WitnessConstants ==
    /\ Capacity \in Nat /\ IsFiniteSet(Borrowers) /\ Nothing \notin FileIds
    /\ Nothing \notin [path : {"index", "stage"}, ino : FileIds, locked : BOOLEAN]
ASSUME LedgerConstants ==
    /\ JevCaps \subseteq Nat /\ AcpCaps \subseteq Nat /\ MaxFaults \in Nat
    /\ JevUnit \in Nat /\ AcpUnit \in Nat /\ IsFiniteSet(Runs)
    /\ "none" \notin Processes /\ "none" \notin Ids /\ "none" \notin Runs

Off == "off"

VARIABLES
    part,       \* the component this behaviour is about
    trellis, name, written, markerSynced, made, markerPc, markerFd, first, markerTries, promised,
    losses,      \* WorkspaceMarker
    lockName, lockMade, recordsDir, dbName, dbMade, ready, hot, rows, recordsPc, job, recordsFd,
    mode, recordsTries, making, recordsConn, acked, shown,      \* RecordStore
    now, stamp, files, root, away, opened, gcHeld, gpc, gtime, gtodo, gkey, opc, okey,      \* IndexGc
    recreateDir, disk, pend, recreateSynced, mine, recreatePc, disp, recreateTries,      \* IndexRecreate
    named, witnessesHeld, count, retired, witnessesConn, clone, locks, discard,      \* SqliteWitnesses
    jevMarker, jevDb, jevInitLock, jevPc, jevCap, jevFresh, jevIntact, jevFaults, jevAt, jevProc,
    jevAlive, jevId, outcome, jevResult, calls,      \* JevBudget
    acpMarker, acpDb, acpInitLock, acpPc, acpCap, acpFresh, acpIntact, acpFaults, acpAt, acpProc,
    acpAlive, acpId, received, acpResult, runner, spawns, flight, shutdown      \* AcpAttempts

markerVars == <<trellis, name, written, markerSynced, made, markerPc, markerFd, first, markerTries,
                promised, losses>>
recordsVars == <<lockName, lockMade, recordsDir, dbName, dbMade, ready, hot, rows, recordsPc, job,
                 recordsFd, mode, recordsTries, making, recordsConn, acked, shown>>
gcVars == <<now, stamp, files, root, away, opened, gcHeld, gpc, gtime, gtodo, gkey, opc, okey>>
recreateVars == <<recreateDir, disk, pend, recreateSynced, mine, recreatePc, disp, recreateTries>>
witnessesVars == <<named, witnessesHeld, count, retired, witnessesConn, clone, locks, discard>>
jevVars == <<jevMarker, jevDb, jevInitLock, jevPc, jevCap, jevFresh, jevIntact, jevFaults, jevAt,
             jevProc, jevAlive, jevId, outcome, jevResult, calls>>
acpVars == <<acpMarker, acpDb, acpInitLock, acpPc, acpCap, acpFresh, acpIntact, acpFaults, acpAt,
             acpProc, acpAlive, acpId, received, acpResult, runner, spawns, flight, shutdown>>
vars == <<part, markerVars, recordsVars, gcVars, recreateVars, witnessesVars, jevVars, acpVars>>

Marker == INSTANCE WorkspaceMarker WITH
    Procs <- Creators, MaxInodes <- MaxMarkers, MaxLosses <- 0,
    synced <- markerSynced, pc <- markerPc, fd <- markerFd, tries <- markerTries
Power == INSTANCE WorkspaceMarker WITH
    Procs <- Processes, MaxInodes <- PowerMarkers,
    synced <- markerSynced, pc <- markerPc, fd <- markerFd, tries <- markerTries
Records == INSTANCE RecordStore WITH
    Procs <- Processes, dir <- recordsDir, pc <- recordsPc, fd <- recordsFd,
    tries <- recordsTries, conn <- recordsConn
Gc == INSTANCE IndexGc WITH held <- gcHeld
Recreate == INSTANCE IndexRecreate WITH
    dir <- recreateDir, synced <- recreateSynced, pc <- recreatePc, tries <- recreateTries
Witnesses == INSTANCE SqliteWitnesses WITH
    None <- Nothing, Inodes <- FileIds, Holders <- Borrowers, Index <- "index", Stage <- "stage",
    held <- witnessesHeld, conn <- witnessesConn
Jev == INSTANCE JevBudget WITH
    Procs <- Processes, Caps <- JevCaps, Unit <- JevUnit, Resync <- FALSE,
    marker <- jevMarker, db <- jevDb, initLock <- jevInitLock,
    pc <- jevPc, cap <- jevCap, fresh <- jevFresh, intact <- jevIntact, faults <- jevFaults,
    at <- jevAt, proc <- jevProc, alive <- jevAlive, id <- jevId, result <- jevResult
Acp == INSTANCE AcpAttempts WITH
    Procs <- Processes, Caps <- AcpCaps, Unit <- AcpUnit, Resync <- TRUE,
    marker <- acpMarker, db <- acpDb, initLock <- acpInitLock,
    pc <- acpPc, cap <- acpCap, fresh <- acpFresh, intact <- acpIntact, faults <- acpFaults,
    at <- acpAt, proc <- acpProc, alive <- acpAlive, id <- acpId, result <- acpResult

MarkerOff ==
    /\ trellis = Off /\ name = Off /\ written = Off /\ markerSynced = Off /\ made = Off
    /\ markerPc = Off /\ markerFd = Off /\ first = Off /\ markerTries = Off /\ promised = Off
    /\ losses = Off
RecordsOff ==
    /\ lockName = Off /\ lockMade = Off /\ recordsDir = Off /\ dbName = Off /\ dbMade = Off
    /\ ready = Off /\ hot = Off /\ rows = Off /\ recordsPc = Off /\ job = Off /\ recordsFd = Off
    /\ mode = Off /\ recordsTries = Off /\ making = Off /\ recordsConn = Off /\ acked = Off
    /\ shown = Off
GcOff ==
    /\ now = Off /\ stamp = Off /\ files = Off /\ root = Off /\ away = Off /\ opened = Off
    /\ gcHeld = Off /\ gpc = Off /\ gtime = Off /\ gtodo = Off /\ gkey = Off /\ opc = Off
    /\ okey = Off
RecreateOff ==
    /\ recreateDir = Off /\ disk = Off /\ pend = Off /\ recreateSynced = Off /\ mine = Off
    /\ recreatePc = Off /\ disp = Off /\ recreateTries = Off
WitnessesOff ==
    /\ named = Off /\ witnessesHeld = Off /\ count = Off /\ retired = Off /\ witnessesConn = Off
    /\ clone = Off /\ locks = Off /\ discard = Off
JevOff ==
    /\ jevMarker = Off /\ jevDb = Off /\ jevInitLock = Off /\ jevPc = Off /\ jevCap = Off
    /\ jevFresh = Off /\ jevIntact = Off /\ jevFaults = Off /\ jevAt = Off /\ jevProc = Off
    /\ jevAlive = Off /\ jevId = Off /\ outcome = Off /\ jevResult = Off /\ calls = Off
AcpOff ==
    /\ acpMarker = Off /\ acpDb = Off /\ acpInitLock = Off /\ acpPc = Off /\ acpCap = Off
    /\ acpFresh = Off /\ acpIntact = Off /\ acpFaults = Off /\ acpAt = Off /\ acpProc = Off
    /\ acpAlive = Off /\ acpId = Off /\ received = Off /\ acpResult = Off /\ runner = Off
    /\ spawns = Off /\ flight = Off /\ shutdown = Off

Parts == {"marker", "power", "records", "gc", "recreate", "witnesses", "jev", "acp"}

Init ==
    /\ part \in Parts
    /\ IF part \in {"marker", "power"} THEN TRUE ELSE MarkerOff
    /\ IF part = "records" THEN TRUE ELSE RecordsOff
    /\ IF part = "gc" THEN TRUE ELSE GcOff
    /\ IF part = "recreate" THEN TRUE ELSE RecreateOff
    /\ IF part = "witnesses" THEN TRUE ELSE WitnessesOff
    /\ IF part = "jev" THEN TRUE ELSE JevOff
    /\ IF part = "acp" THEN TRUE ELSE AcpOff
    /\ CASE part = "marker" -> Marker!Init
         [] part = "power" -> Power!Init
         [] part = "records" -> Records!Init
         [] part = "gc" -> Gc!Init
         [] part = "recreate" -> Recreate!Init
         [] part = "witnesses" -> Witnesses!Init
         [] part = "jev" -> Jev!Init
         [] part = "acp" -> Acp!Init

Next ==
    /\ UNCHANGED part
    /\ IF part \in {"marker", "power"} THEN TRUE ELSE UNCHANGED markerVars
    /\ IF part = "records" THEN TRUE ELSE UNCHANGED recordsVars
    /\ IF part = "gc" THEN TRUE ELSE UNCHANGED gcVars
    /\ IF part = "recreate" THEN TRUE ELSE UNCHANGED recreateVars
    /\ IF part = "witnesses" THEN TRUE ELSE UNCHANGED witnessesVars
    /\ IF part = "jev" THEN TRUE ELSE UNCHANGED jevVars
    /\ IF part = "acp" THEN TRUE ELSE UNCHANGED acpVars
    /\ CASE part = "marker" -> Marker!Next
         [] part = "power" -> Power!Next
         [] part = "records" -> Records!Next
         [] part = "gc" -> Gc!Next
         [] part = "recreate" -> Recreate!Next
         [] part = "witnesses" -> Witnesses!Next
         [] part = "jev" -> Jev!Next
         [] part = "acp" -> Acp!Next

Spec == Init /\ [][Next]_vars

-----------------------------------------------------------------------------
(* Properties.                                                             *)

(* All opens of one checkout return one workspace UUID, whoever created the *)
(* marker, died, lost the race or came after a power loss, and a UUID that *)
(* was returned is on disk from then on (topology.rs, marker_at and        *)
(* durable_marker).                                                        *)
MarkerKept ==
    /\ part = "marker" => Marker!TypeOK /\ Marker!OneIdentity
    /\ part = "power" => Power!OneIdentity /\ Power!PromiseDurable

(* An acknowledged save is neither lost nor changed by a first save, a     *)
(* crash or a forget under an old lock file, and nobody works under an     *)
(* exclusive lock beside another process (topology.rs, UseGuard and        *)
(* forget_with_confirmation).                                              *)
RecordsKept ==
    part = "records" => Records!TypeOK /\ Records!AckedKept /\ Records!ExclusiveUse

(* Whatever instant a crash or a power loss picks, no journal is replayed  *)
(* into a database it does not belong to, no torn database is taken for an *)
(* index, and a repair that was promised is not forgotten (store.rs,       *)
(* recreation of a corrupt index).                                         *)
RecreationSafe ==
    part = "recreate" => /\ Recreate!TypeOK /\ Recreate!NoForeignJournal
                         /\ Recreate!NoTornIndex /\ Recreate!RepairKept

(* A step that removes files of an index is one of its only holder, never  *)
(* removes an index opened within the age limit whose root is there, and   *)
(* collection starts once a day; a recreated index is reported ready only  *)
(* when it is on disk, and a failed attempt puts the journal back          *)
(* (topology.rs, gc; store.rs, recreation).                                *)
IndexFilesKept ==
    [][/\ part = "gc" => Gc!RemovedAlone /\ Gc!LiveIndexKept /\ Gc!DailyAttempts
       /\ part = "recreate" => Recreate!ReadyIsDurable /\ Recreate!JournalBack]_vars

(* A connection inside a write transaction keeps its POSIX locks, because  *)
(* the descriptor of every open connection's file stays registered and the *)
(* registry's count is exact (store.rs, retained SQLite witnesses).        *)
LocksKept ==
    part = "witnesses" => /\ Witnesses!TypeOK /\ Witnesses!LocksSurvive
                          /\ Witnesses!ConnectionsWitnessed /\ Witnesses!CountExact

(* Over crashes, power losses, lost databases and cancelled requests no    *)
(* more provider calls or runners start than the cap of any process with   *)
(* the ledger open allows, no runner outlives its attempt, and an answer   *)
(* is returned only when its row records it (live_jev.rs, acp.rs).         *)
SpendingBounded ==
    /\ part = "jev" => Jev!TypeOK /\ Jev!CallsWithinCap /\ Jev!AnswersAudited
    /\ part = "acp" => /\ Acp!TypeOK /\ Acp!SpawnsWithinCap
                       /\ Acp!RunnerContained /\ Acp!AnswersAudited
=============================================================================
