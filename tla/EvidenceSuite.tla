--------------------------- MODULE EvidenceSuite ---------------------------
(***************************************************************************)
(* From a change of the workspace to an answer: the watcher and what it    *)
(* certifies, the capture, the rows a publication writes, their release,   *)
(* the admission and fence of a read, the routes that answer from it, the  *)
(* two caches those routes keep, and the saved items that refer to old     *)
(* revisions.                                                              *)
(*                                                                         *)
(* Every component models its neighbours by what they may do to it at any  *)
(* time, so they share no variable here.  A behaviour is one of the        *)
(* component named by part; the variables of the others are Off in it.     *)
(***************************************************************************)
EXTENDS Integers, Sequences, FiniteSets

CONSTANTS
    Nothing, NoItem, NoAnchor, NoPin,                   \* absent values
    Trees, Builds, Measures,                            \* PublicationWriter
    MaxPublished, MaxGenerations, MaxRewrites,
    Procs, Readers, Followers, MaxInc, MaxReadable, MaxEpoch,      \* EvidenceRead
    MaxHead, MaxOwner,                                  \* SelectedRoutes
    Previews, Uses, Seeds, PacketBytes, MaxPackets,     \* QuestionPackets
    MaxPacketBytes, MaxCacheBytes, MaxKept, MaxAsked,
    Drivers, MaxGen, MaxRev                             \* DependencyCatalog

(* What the theorems ask of the constants. *)
ASSUME RoutesConstants == MaxHead \in Nat \ {0} /\ MaxOwner \in Nat \ {0}
ASSUME ReadsConstants == Readers \subseteq Procs /\ Nothing \notin Procs \cup Followers
ASSUME CatalogConstants == MaxGen \in Nat /\ MaxRev \in Nat \ {0}

(* Two documents.  The texts ta and tb differ in a body only, tc in its    *)
(* declarations.  Executable x2 measures tc differently from x1 although   *)
(* it claims the same producer version.                                    *)
ta == [sig |-> "a", body |-> 1]
tb == [sig |-> "a", body |-> 2]
tc == [sig |-> "c", body |-> 1]
Tree(p, q, l) == [files |-> [p |-> p, q |-> q], labels |-> l]
SomeTrees == {Tree(ta, tc, "plain"), Tree(tb, tc, "plain"), Tree(ta, Nothing, "scip")}
SomeMeasures ==
    [x \in {"x1", "x2"} |-> [t \in {ta, tb, tc} |->
        CASE t = ta -> 1 [] t = tb -> 2 [] t = tc -> IF x = "x2" THEN 4 ELSE 3]]

(* Two documents to retain, one of them with two projections. *)
SomeEntries == {<<"a", 1>>, <<"a", 2>>, <<"b", 1>>}
SomeSnapshots == {{<<"a", 1>>}, {<<"a", 2>>, <<"b", 1>>}, {<<"b", 1>>}}
SomeSize == [k \in {"version", "graph", "class"} |-> IF k = "class" THEN 2 ELSE 1]

(* A small, a middling and a too large question packet. *)
PacketSize == [small |-> 1, large |-> 3, huge |-> 5]

(* Declarations of one name, alike but for a header. *)
SomeShapes == {<<"f", "h">>, <<"f", "k">>}

Off == "off"

VARIABLES
    part,       \* the component this behaviour is about
    node, dir, exe, edits, cap, snap, held, touched,      \* Capture
    writerTree, build, disp, writerHead, writerRevs, native, graphs, writerJob,      \* PublicationWriter
    time, skew, origin, opens, retentionHead, inventory, manifest, marker, tables, sup, debt, cand,
    rows, m, waiting, reading, waits, born,      \* Retention
    lock, probe, file, incs, readsHead, hs, st, rd,      \* EvidenceRead
    routesHead, owner, strict, root, oldest, packet, catalog, req, effect, reply, called,      \* SelectedRoutes
    packetsRev, packetsOldest, packetsOwner, ready, cache, bytes, mutex, prior, pre, use,
    kept,      \* QuestionPackets
    catalogRev, index, cancelled, driver, reader, since,      \* DependencyCatalog
    anchorsRevs, item, call,      \* SavedAnchors
    watchTree, os, cb, gen, chan, overflow, w, lw, watchJob, watchHead, opts, faults, cert, seen,      \* LeaderWork
    queue, failed, dropping, writer, wire, ordinal, generation, pending, reported, emitted      \* CausalWitness

captureVars == <<node, dir, exe, edits, cap, snap, held, touched>>
writerVars == <<writerTree, build, disp, writerHead, writerRevs, native, graphs, writerJob>>
retentionVars == <<time, skew, origin, opens, retentionHead, inventory, manifest, marker, tables,
                   sup, debt, cand, rows, m, waiting, reading, waits, born>>
readsVars == <<lock, probe, file, incs, readsHead, hs, st, rd>>
routesVars == <<routesHead, owner, strict, root, oldest, packet, catalog, req, effect, reply, called>>
packetsVars == <<packetsRev, packetsOldest, packetsOwner, ready, cache, bytes, mutex, prior, pre,
                 use, kept>>
catalogVars == <<catalogRev, index, cancelled, driver, reader, since>>
anchorsVars == <<anchorsRevs, item, call>>
watchVars == <<watchTree, os, cb, gen, chan, overflow, w, lw, watchJob, watchHead, opts, faults,
               cert, seen>>
witnessVars == <<queue, failed, dropping, writer, wire, ordinal, generation, pending, reported,
                 emitted>>
vars == <<part, captureVars, writerVars, retentionVars, readsVars, routesVars, packetsVars,
                catalogVars, anchorsVars, watchVars, witnessVars>>

Capture == INSTANCE Capture WITH
    MaxEdits <- 2, CoarseClock <- FALSE
Coarse == INSTANCE Capture WITH
    MaxEdits <- 2, CoarseClock <- TRUE
Writer == INSTANCE PublicationWriter WITH
    None <- Nothing, MaxRev <- MaxPublished, MaxGen <- MaxGenerations,
    tree <- writerTree, head <- writerHead, revs <- writerRevs, job <- writerJob
Retain == INSTANCE Retention WITH
    Entries <- SomeEntries, Classed <- {<<"a", 1>>, <<"b", 1>>}, Snapshots <- SomeSnapshots,
    Size <- SomeSize, Batch <- 1, Unit <- 1, Keep <- 1, Slack <- 0, Skews <- {}, MaxTime <- 2,
    MaxRev <- 3, MaxWaits <- 1, MaxOpens <- 2, head <- retentionHead
Clock == INSTANCE Retention WITH
    Entries <- {<<"a", 1>>}, Classed <- {}, Snapshots <- {{<<"a", 1>>}},
    Size <- [k \in {"version", "graph", "class"} |-> 0], Batch <- 1, Unit <- 1, Keep <- 3,
    Slack <- 1, Skews <- {0, 2}, MaxTime <- 6, MaxRev <- 3, MaxWaits <- 0, MaxOpens <- 1,
    head <- retentionHead
Reads == INSTANCE EvidenceRead WITH
    None <- Nothing, MaxRev <- MaxReadable, head <- readsHead
Routes == INSTANCE SelectedRoutes WITH
    head <- routesHead
Packets == INSTANCE QuestionPackets WITH
    Size <- PacketBytes, MAX_PACKETS <- MaxPackets, MAX_PACKET_BYTES <- MaxPacketBytes,
    MAX_CACHE_BYTES <- MaxCacheBytes, MaxRev <- MaxAsked, rev <- packetsRev,
    oldest <- packetsOldest, owner <- packetsOwner
Catalog == INSTANCE DependencyCatalog WITH
    rev <- catalogRev
Anchors == INSTANCE SavedAnchors WITH
    Members <- {"m1", "m2"}, Shapes <- SomeShapes, Calls <- {"c1", "c2"}, MaxSize <- 2,
    MaxFirst <- 2, MaxRev <- 2, revs <- anchorsRevs
Watch == INSTANCE LeaderWork WITH
    Cap <- 1, DrainMax <- 1, MaxPaths <- 1, Kinds <- {"source", "error"},
    CanLose <- FALSE, MaxEdits <- 3, MaxFaults <- 1, MaxOpts <- 1, tree <- watchTree,
    job <- watchJob, head <- watchHead
Rewatch == INSTANCE LeaderWork WITH
    Cap <- 1, DrainMax <- 1, MaxPaths <- 1,
    Kinds <- {"source", "input", "unknown", "error", "excluded"}, CanLose <- FALSE, MaxEdits <- 2,
    MaxFaults <- 1, MaxOpts <- 2, tree <- watchTree, job <- watchJob, head <- watchHead
Witness == INSTANCE CausalWitness WITH
    QUEUE_CAPACITY <- 2, MaxEvents <- 4, MaxLineages <- 2

CaptureOff ==
    /\ node = Off /\ dir = Off /\ exe = Off /\ edits = Off /\ cap = Off /\ snap = Off /\ held = Off
    /\ touched = Off
WriterOff ==
    /\ writerTree = Off /\ build = Off /\ disp = Off /\ writerHead = Off /\ writerRevs = Off
    /\ native = Off /\ graphs = Off /\ writerJob = Off
RetentionOff ==
    /\ time = Off /\ skew = Off /\ origin = Off /\ opens = Off /\ retentionHead = Off
    /\ inventory = Off /\ manifest = Off /\ marker = Off /\ tables = Off /\ sup = Off /\ debt = Off
    /\ cand = Off /\ rows = Off /\ m = Off /\ waiting = Off /\ reading = Off /\ waits = Off
    /\ born = Off
ReadsOff ==
    /\ lock = Off /\ probe = Off /\ file = Off /\ incs = Off /\ readsHead = Off /\ hs = Off
    /\ st = Off /\ rd = Off
RoutesOff ==
    /\ routesHead = Off /\ owner = Off /\ strict = Off /\ root = Off /\ oldest = Off /\ packet = Off
    /\ catalog = Off /\ req = Off /\ effect = Off /\ reply = Off /\ called = Off
PacketsOff ==
    /\ packetsRev = Off /\ packetsOldest = Off /\ packetsOwner = Off /\ ready = Off /\ cache = Off
    /\ bytes = Off /\ mutex = Off /\ prior = Off /\ pre = Off /\ use = Off /\ kept = Off
CatalogOff ==
    /\ catalogRev = Off /\ index = Off /\ cancelled = Off /\ driver = Off /\ reader = Off
    /\ since = Off
AnchorsOff ==
    /\ anchorsRevs = Off /\ item = Off /\ call = Off
WatchOff ==
    /\ watchTree = Off /\ os = Off /\ cb = Off /\ gen = Off /\ chan = Off /\ overflow = Off
    /\ w = Off /\ lw = Off /\ watchJob = Off /\ watchHead = Off /\ opts = Off /\ faults = Off
    /\ cert = Off /\ seen = Off
WitnessOff ==
    /\ queue = Off /\ failed = Off /\ dropping = Off /\ writer = Off /\ wire = Off /\ ordinal = Off
    /\ generation = Off /\ pending = Off /\ reported = Off /\ emitted = Off

Parts == {"capture", "coarse", "writer", "retention", "clock", "reads", "routes", "packets",
          "catalog", "anchors", "watch", "rewatch", "witness"}

Init ==
    /\ part \in Parts
    /\ IF part \in {"capture", "coarse"} THEN TRUE ELSE CaptureOff
    /\ IF part = "writer" THEN TRUE ELSE WriterOff
    /\ IF part \in {"retention", "clock"} THEN TRUE ELSE RetentionOff
    /\ IF part = "reads" THEN TRUE ELSE ReadsOff
    /\ IF part = "routes" THEN TRUE ELSE RoutesOff
    /\ IF part = "packets" THEN TRUE ELSE PacketsOff
    /\ IF part = "catalog" THEN TRUE ELSE CatalogOff
    /\ IF part = "anchors" THEN TRUE ELSE AnchorsOff
    /\ IF part \in {"watch", "rewatch"} THEN TRUE ELSE WatchOff
    /\ IF part = "witness" THEN TRUE ELSE WitnessOff
    /\ CASE part = "capture" -> Capture!Init
         [] part = "coarse" -> Coarse!Init
         [] part = "writer" -> Writer!Init
         [] part = "retention" -> Retain!Init
         [] part = "clock" -> Clock!Init
         [] part = "reads" -> Reads!Init
         [] part = "routes" -> Routes!Init
         [] part = "packets" -> Packets!Init
         [] part = "catalog" -> Catalog!Init
         [] part = "anchors" -> Anchors!Init
         [] part = "watch" -> Watch!Init
         [] part = "rewatch" -> Rewatch!Init
         [] part = "witness" -> Witness!Init

Next ==
    /\ UNCHANGED part
    /\ IF part \in {"capture", "coarse"} THEN TRUE ELSE UNCHANGED captureVars
    /\ IF part = "writer" THEN TRUE ELSE UNCHANGED writerVars
    /\ IF part \in {"retention", "clock"} THEN TRUE ELSE UNCHANGED retentionVars
    /\ IF part = "reads" THEN TRUE ELSE UNCHANGED readsVars
    /\ IF part = "routes" THEN TRUE ELSE UNCHANGED routesVars
    /\ IF part = "packets" THEN TRUE ELSE UNCHANGED packetsVars
    /\ IF part = "catalog" THEN TRUE ELSE UNCHANGED catalogVars
    /\ IF part = "anchors" THEN TRUE ELSE UNCHANGED anchorsVars
    /\ IF part \in {"watch", "rewatch"} THEN TRUE ELSE UNCHANGED watchVars
    /\ IF part = "witness" THEN TRUE ELSE UNCHANGED witnessVars
    /\ CASE part = "capture" -> Capture!Next
         [] part = "coarse" -> Coarse!Next
         [] part = "writer" -> Writer!Next
         [] part = "retention" -> Retain!Next
         [] part = "clock" -> Clock!Next
         [] part = "reads" -> Reads!Next
         [] part = "routes" -> Routes!Next
         [] part = "packets" -> Packets!Next
         [] part = "catalog" -> Catalog!Next
         [] part = "anchors" -> Anchors!Next
         [] part = "watch" -> Watch!Next
         [] part = "rewatch" -> Rewatch!Next
         [] part = "witness" -> Witness!Next

Spec == Init /\ [][Next]_vars

-----------------------------------------------------------------------------
(* Properties.                                                             *)

(* A watcher with nothing to acknowledge means that the index is the tree, *)
(* a certified generation contains every change accepted before it, and    *)
(* what the witness tells of it reaches its reader without a gap, an       *)
(* acknowledgement never before its announcement (watch.rs,                *)
(* index_coordinator.rs, daemon/causal_witness.rs).                        *)
CertifiedIsCurrent ==
    /\ part = "watch" => Watch!TypeOK /\ Watch!CleanMeansCurrent /\ Watch!AckCovers
    /\ part = "rewatch" => Rewatch!TypeOK /\ Rewatch!CleanMeansCurrent /\ Rewatch!AckCovers
    /\ part = "witness" => /\ Witness!TypeOK /\ Witness!NoGap /\ Witness!ErrorIsLast
                           /\ Witness!AckAfterPending /\ Witness!HOncePerLineage

(* A capture read file by file while files are edited is a tree that was   *)
(* there at one instant, and the executable recorded with it is the one    *)
(* that measured; with a clock too coarse to tell edits apart, the inputs' *)
(* bytes still are ones they had (capture.rs, verification of a capture).  *)
CaptureAtOneInstant ==
    /\ part = "capture" => Capture!TypeOK /\ Capture!CaptureIsSnapshot /\ Capture!ExeIsPinned
    /\ part = "coarse" => Coarse!TypeOK /\ Coarse!InputBytesHeld

(* A published revision lists what its capture saw, its facts are those    *)
(* its own executable measures, and its counts add up, also when rows were *)
(* reused from older builds or rewritten behind the daemon (store.rs,      *)
(* publication routes and their preflight).                                *)
PublishedAsCaptured ==
    part = "writer" => /\ Writer!TypeOK /\ Writer!ManifestIsCapture
                       /\ Writer!FactsOfItsBuild /\ Writer!StatsAddUp

(* While publications adopt what a release is half through deleting, every *)
(* revision a read may admit is whole, the next admission accepts the      *)
(* history, no foreign key breaks and no row leaks; a revision keeps its   *)
(* pin for the grace although the wall clock jumps ahead (store.rs,        *)
(* retention and maintenance units).                                       *)
ReleaseKeepsPins ==
    /\ part = "retention" => /\ Retain!TypeOK /\ Retain!ReadablePinsWhole /\ Retain!AdmissionAccepts
                             /\ Retain!NoDanglingRow /\ Retain!NoLeakedRow
    /\ part = "clock" => Clock!GraceHonoured

(* Work that a reader sees pending has an owner, and an association with a *)
(* leader lasts no longer than the leader (store.rs, sessions of readers). *)
ReadsAssociated ==
    part = "reads" => Reads!TypeOK /\ Reads!PendingHasOwner /\ Reads!AssociationLive

(* A route's plain error means that nothing was done, "committed" means    *)
(* that it was, and a provider's answer is shown only for the revision its *)
(* packet was of (http.rs, mutation outcomes and fences of a selection).   *)
OutcomesHonest ==
    part = "routes" => /\ Routes!TypeOK /\ Routes!PlainErrorMeansNothingDone
                       /\ Routes!CommittedMeansDone /\ Routes!ProviderBasisHeld

(* The packet cache holds what was built, newest last and within its two   *)
(* limits; the dependency catalog has one driver at most, shows the newest *)
(* generation only, and is never left loading with nobody driving it       *)
(* (http.rs, question packets and dependency catalogs).                    *)
CachesCoherent ==
    /\ part = "packets" => Packets!TypeOK /\ Packets!CacheIsHistory /\ Packets!CacheBounded
    /\ part = "catalog" => /\ Catalog!TypeOK /\ Catalog!OneDriver
                           /\ Catalog!NewestOnly /\ Catalog!LoadingIsDriven

(* A saved item is shown on the declaration it was saved on or not at all, *)
(* is not orphaned without need, and is never judged by a revision older   *)
(* than its own (anchors.rs, audit_anchor; store.rs, saved_views_at).      *)
AnchorsJudged ==
    part = "anchors" => /\ Anchors!TypeOK /\ Anchors!NeverMisattached
                        /\ Anchors!KeptWhenUnmoved /\ Anchors!JudgedForward

(* An answer is delivered only from the revision and the leader it was     *)
(* admitted under, also when other readers' probes take the leader's flock *)
(* and when catalogs are replaced between admission and delivery.  One     *)
(* from a packet may be of a superseded revision, but not of one that was  *)
(* so before the request began or its provider ended, nor of one released  *)
(* before it was assembled.  A head that claims full attestation is        *)
(* intact, and a publication changes no older revision (store.rs, read     *)
(* fences and publication; http.rs, caches and questions).                 *)
AnswersCurrent ==
    [][/\ part = "reads" => Reads!StrictAnswerCurrent /\ Reads!RestrictedAnswerOwn
       /\ part = "routes" => Routes!AnswerOfItsRevision
       /\ part = "packets" => Packets!AnswerWasCurrent
       /\ part = "catalog" => Catalog!AnswerIsCurrent
       /\ part = "writer" => Writer!FullIsAttested /\ Writer!HistoryKept]_vars
=============================================================================
