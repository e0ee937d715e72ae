-------------------------- MODULE DependencyCatalog --------------------------
(***************************************************************************)
(* The dependency catalog of one checkout (DependencyIndex and the         *)
(* /api/dependencies handlers in src/http.rs). Refreshes and publications  *)
(* ask for a new generation; one driver builds catalogs outside every lock *)
(* and installs only the newest generation's; readers take a snapshot,     *)
(* work on it and check it again before they answer. The workspace         *)
(* revision moves on at any time.                                          *)
(***************************************************************************)
EXTENDS Naturals, FiniteSets

CONSTANTS
    Drivers,     \* driver tasks
    MaxGen,      \* bound: generations asked for
    MaxRev       \* bound: workspace revisions

VARIABLES
    rev,       \* the workspace revision of the store
    index,     \* DependencyIndex
    cancelled, \* generations whose cancel flag is set
    driver,    \* the driver tasks, each with its blocking worker
    reader,    \* one reader's request
    since      \* the revision when the reader's request began

vars == <<rev, index, cancelled, driver, reader, since>>

NoCatalog == [gen |-> 0, rev |-> 0]
Off == [pc |-> "off", gen |-> 0, rev |-> 0, ok |-> FALSE]
NoReader == [pc |-> "none", rev |-> 0, cat |-> NoCatalog]
Catalogs == [gen : 0..MaxGen, rev : 0..MaxRev]

Indexes == [gen : 0..MaxGen, stopped : BOOLEAN, running : BOOLEAN,
            state : {"disabled", "loading", "ready", "failed"}, cat : Catalogs]
Places == {"off", "loop", "start", "build", "compare", "install", "end"}
Rounds == [pc : Places, gen : 0..MaxGen, rev : 0..MaxRev, ok : BOOLEAN]
Requests == [pc : {"none", "asked", "working", "checking", "answered", "stale", "told"},
             rev : 0..MaxRev, cat : Catalogs]

TypeOK ==
    /\ rev \in 1..MaxRev /\ since \in 0..MaxRev /\ cancelled \subseteq 0..MaxGen
    /\ index \in Indexes /\ driver \in [Drivers -> Rounds] /\ reader \in Requests
    \* The state that readers see says whether there is a catalog.
    /\ index.state = "ready" <=> index.cat # NoCatalog

Init ==
    /\ rev = 1 /\ since = 0 /\ cancelled = {}
    /\ index = [gen |-> 0, stopped |-> FALSE, running |-> FALSE, state |-> "disabled",
                cat |-> NoCatalog]
    /\ driver = [d \in Drivers |-> Off] /\ reader = NoReader

\* A publication commits.
Publish == rev < MaxRev /\ rev' = rev + 1 /\ UNCHANGED <<index, cancelled, driver, reader, since>>

StartDriver(running) == ~running

\* request_build, and start_dependency_index when it admits a driver.
Refresh ==
    /\ index.gen < MaxGen /\ ~index.stopped
    /\ cancelled' = cancelled \cup {index.gen}
    /\ index' = [index EXCEPT !.gen = @ + 1, !.running = TRUE, !.state = "loading", !.cat = NoCatalog]
    /\ IF StartDriver(index.running)
       THEN \E d \in Drivers : driver[d] = Off /\ driver' = [driver EXCEPT ![d] = [Off EXCEPT !.pc = "loop"]]
       ELSE UNCHANGED driver
    /\ UNCHANGED <<rev, reader, since>>

\* The driver takes the newest generation, or ends with a stopped index.
Take(d) ==
    /\ driver[d].pc = "loop"
    /\ IF index.stopped
       THEN driver' = [driver EXCEPT ![d] = Off] /\ index' = [index EXCEPT !.running = FALSE]
       ELSE driver' = [driver EXCEPT ![d] = [Off EXCEPT !.pc = "start", !.gen = index.gen]] /\ UNCHANGED index
    /\ UNCHANGED <<rev, cancelled, reader, since>>

\* The worker reads the revision, ...
ReadRevision(d) ==
    /\ driver[d].pc = "start"
    /\ driver' = [driver EXCEPT ![d].pc = "build", ![d].rev = rev]
    /\ UNCHANGED <<rev, index, cancelled, reader, since>>

\* ... builds the catalog (a cancelled build fails, any other may), ...
Build(d) ==
    /\ driver[d].pc = "build"
    /\ \E ok \in BOOLEAN :
          /\ ok => driver[d].gen \notin cancelled
          /\ driver' = [driver EXCEPT ![d].pc = "compare", ![d].ok = ok]
    /\ UNCHANGED <<rev, index, cancelled, reader, since>>

\* ... and compares the revision before it takes the catalog lock.
Compare(d) ==
    /\ driver[d].pc = "compare"
    /\ driver' = [driver EXCEPT ![d].pc = "install", ![d].ok = @ /\ driver[d].rev = rev]
    /\ UNCHANGED <<rev, index, cancelled, reader, since>>

\* Still the newest generation, not cancelled, not stopped.
Wanted(d) == ~index.stopped /\ index.gen = driver[d].gen /\ driver[d].gen \notin cancelled

\* publish_dependency_index under the lock.
Install(d) ==
    /\ driver[d].pc = "install"
    /\ index' = IF ~Wanted(d) THEN index
                ELSE IF driver[d].ok
                     THEN [index EXCEPT !.state = "ready",
                                        !.cat = [gen |-> driver[d].gen, rev |-> driver[d].rev]]
                     ELSE [index EXCEPT !.state = "failed", !.cat = NoCatalog]
    /\ driver' = [driver EXCEPT ![d].pc = "end"]
    /\ UNCHANGED <<rev, cancelled, reader, since>>

(* Mutant: the driver ends after one build. *)
BugSettled(d) == TRUE
Settled(d) == index.stopped \/ index.gen = driver[d].gen

\* The driver ends, or builds the generation that replaced its own.
EndRound(d) ==
    /\ driver[d].pc = "end"
    /\ IF Settled(d)
       THEN driver' = [driver EXCEPT ![d] = Off] /\ index' = [index EXCEPT !.running = FALSE]
       ELSE driver' = [driver EXCEPT ![d].pc = "loop"] /\ UNCHANGED index
    /\ UNCHANGED <<rev, cancelled, reader, since>>

Stopped == [index EXCEPT !.stopped = TRUE, !.gen = @ + 1, !.state = "failed", !.cat = NoCatalog]

\* cancel_active.
CancelActive ==
    /\ index.gen < MaxGen /\ ~index.stopped
    /\ index' = Stopped
    /\ cancelled' = cancelled \cup {index.gen}
    /\ UNCHANGED <<rev, driver, reader, since>>

\* catalog_snapshot.
Snapshot(r) == IF index.cat.rev = r THEN index.cat ELSE NoCatalog

\* A reader (dependency_symbols, dependency_source) begins; requested_catalog
\* reads the revision first and the catalog after it.
Ask ==
    /\ reader.pc \in {"none", "answered", "stale", "told"}
    /\ reader' = [NoReader EXCEPT !.pc = "asked", !.rev = rev] /\ since' = rev
    /\ UNCHANGED <<rev, index, cancelled, driver>>

Requested ==
    /\ reader.pc = "asked"
    /\ reader' = IF Snapshot(reader.rev) = NoCatalog THEN [reader EXCEPT !.pc = "stale"]
                 ELSE [reader EXCEPT !.pc = "working", !.cat = Snapshot(reader.rev)]
    /\ UNCHANGED <<rev, index, cancelled, driver, since>>

\* dependency_status_response: the catalog is named only for the revision read.
Tell ==
    /\ reader.pc = "asked"
    /\ reader' = [reader EXCEPT !.pc = "told", !.cat = Snapshot(reader.rev)]
    /\ UNCHANGED <<rev, index, cancelled, driver, since>>

\* The items are collected from the snapshot; check_catalog reads the revision ...
Work ==
    /\ reader.pc = "working"
    /\ reader' = [reader EXCEPT !.pc = "checking", !.rev = rev]
    /\ UNCHANGED <<rev, index, cancelled, driver, since>>

SameCatalog == Snapshot(reader.rev) = reader.cat

\* ... and the catalog must still be the same one.
CheckCatalog ==
    /\ reader.pc = "checking"
    /\ reader' = [reader EXCEPT !.pc = IF SameCatalog THEN "answered" ELSE "stale"]
    /\ UNCHANGED <<rev, index, cancelled, driver, since>>

DriverStep(d) ==
    Take(d) \/ ReadRevision(d) \/ Build(d) \/ Compare(d) \/ Install(d) \/ EndRound(d)

Next ==
    \/ Publish \/ Refresh \/ CancelActive \/ (\E d \in Drivers : DriverStep(d))
    \/ Ask \/ Requested \/ Tell \/ Work \/ CheckCatalog

Spec == Init /\ [][Next]_vars

(***************************************************************************)
(* Properties.                                                             *)
(***************************************************************************)
\* request_build admits at most one worker driver, however refreshes burst.
OneDriver == Cardinality({d \in Drivers : driver[d] # Off}) <= 1

\* A previous generation can finish, but never publishes over its replacement.
NewestOnly == index.cat # NoCatalog => index.cat.gen = index.gen

\* Readers are told "loading" only while a driver will bring an outcome.
LoadingIsDriven == index.state = "loading" => index.running /\ \E d \in Drivers : driver[d] # Off

\* An answer comes from one catalog that is current when it is checked, built for
\* a revision that was the head at some time during the request.
AnswerIsCurrent ==
    reader.pc = "checking" /\ reader'.pc = "answered" =>
       /\ reader.cat = index.cat /\ reader.cat # NoCatalog
       /\ reader.cat.rev \in since..rev
================================================================================
