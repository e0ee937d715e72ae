# TLA+ model of the Trellis index service

Trellis (the program of the Baleyg repository) indexes a checkout into a disposable
SQLite database outside it and answers questions about the published revision. Several
processes of one user (the daemon, which hosts every active checkout, and finite
`trellis index` commands) share one index, one durable request queue and one leader lock
per checkout. This directory models the control of that program: **who may publish, for
which request, what is on disk after a crash, and what a client may conclude from an
answer**.

## 1. Inventory

| Component | State it keeps | Operations | Talks to |
| --- | --- | --- | --- |
| Durable request queue (`store/requests.rs`) | `requests.db`: rows with seq, root identity, expected pin, state, claim incarnation, result; in memory one cached completion | enqueue, claim, requeue, finish, retry a cached completion, fail rows of changed roots | SQLite write lock, leader session, `index.db` head |
| Leader lock and sessions (`store/topology.rs`) | flock on `leader.lock`, the incarnation written in it, shared or exclusive use locks | acquire, follow, verify, drop | every publisher and reader |
| Leader admission (`store.rs`) | marker (`reconciled_incarnation`), head pin, claim proof, recovery disposition | elect and rebind, attest H, publish by compare-and-set, recreate after a root change | leader lock, queue |
| Job coordinator (`index_coordinator.rs`) | one job's baseline, permit, capture; watcher work | prepare, run, drain, CLI wait loop, maintenance unit | gate, queue, admission |
| Queue scheduler (`http.rs`, `queue_tick`) | retained session, local pending ids, `empty_takeover_retry`, root-loss session | 20 ms tick with five branches | all of the above |
| Publication gate (`store.rs`) | active, maintenance, waiting count | enter with deadline, try-enter, drop | publications and maintenance of one process |
| Evidence reads (`store.rs`) | read snapshot, fence (leader or follower proof), restricted predecessor | admit, read, finish | leader lock, head |
| Retention (`store.rs`) | superseded revisions with ages, cursors | one bounded unit per try | gate, queue probe, readers |
| Watcher (`watch.rs`, `LeaderWork`) | dirty batch with a generation, overflow and full flags | submit, drain, acknowledge, reconcile when due | coordinator |
| Registry and runtimes (`daemon/registry.rs`) | attached entries, runtimes with phases, idle permits | activate, H retry loop, refresh, release, retire | scheduler, clients |
| Workspace marker and records (`store/topology.rs`) | UUID marker in the Git directory, versioned records | create or read, save, gc | use locks |
| Index files (`store.rs`, `store/topology.rs`) | the index, its journal and stage, the process's SQLite descriptors, the daily stamp | recreate, garbage-collect, retain and drop witnesses | use locks |
| Daemon and client (`daemon/mod.rs`, `daemon/client.rs`, `main.rs`) | flock and socket; each client's call; one browser listener with one token | elect, accept, idle exit, call and repeat, relay MCP frames, serve | every command |
| MCP session (`mcp/`) | dialect, pending IDs with tokens, outcomes | admit, cancel, prepare, commit | registry, reads |
| Paid and spawned attempts (`live_jev.rs`, `acp.rs`) | private ledger: marker, cap, one row per attempt | open, reserve, call or spawn, settle | providers |
| Browser routes and caches (`http.rs`) | packet cache, dependency catalog | select, read, mutate, refresh | reads, records, providers |
| Capture, indexers, analyses, answers | none beyond one job | pure functions of source text | coordinator |

What is hard here:

* **Interleavings.** The scheduler, the registry, and any number of commands race for
  one flock; an enqueue transaction is open while a leader drains.
* **Crashes and ambiguous commits.** Every COMMIT may take effect and still return an
  error: enqueue, H, the job's publication, the terminal write.
* **Root replacement.** The checkout's directory can be renamed away, replaced and put
  back between any two steps. Rows, index and sessions each carry the inode they belong
  to.
* **Stale memory.** A completion cached before its terminal write, a follower's
  incarnation, the registry's copy of a dropped session, an expected pin.
* **Liveness.** Elections without pending work hang on flags and retries; a leaked
  waiting count would shut maintenance out.

The properties that make each component correct are the named properties of its module
(sections 2 and 3). `PROJECT.json` lists the hazards with their source lines and the
property that would catch each.

## 2. Modules

The core is one module with its abstract specification; every other component is a
module of its own, and five *suites* instantiate those for TLC.

* `NativeQueue` — queue, leader lock, admission, drain, scheduler, CLI loop and root
  replacement of **one checkout**, for any set of daemons and commands.
* `RequestQueue` — the abstract promise to clients: requests are accepted, answered one
  at a time in order, and abandoned out of order only for their root.
  `NativeQueue!RequestView` maps the rows to it.
* `NativeQueue_proofs` — its theorems.
* `PublicationGate` — the in-process gate, with its theorems at the end.
* `StorageSuite`, `EvidenceSuite`, `ClientSuite`, `FunctionSuite`, `ProgressSuite` — see
  "The suites" below.

### How NativeQueue corresponds to the code

| Model | Code |
| --- | --- |
| `lock` | the flock on `leader.lock`; `None` when free |
| `incarnation` | the UUID in `leader.lock`; a number that every writer increases (UUIDs are only compared) |
| `index` | `index_metadata`: pin, `reconciled_incarnation`, root inode. A generation UUID is a number, a new one is a greater one |
| `rows` | the `requests` table by seq. `claim` is `claim_incarnation`, `want` the expected pin (`NoPin` when absent), `err` the error code |
| `wtx` | an enqueue's open IMMEDIATE transaction; every other queue write is short and modelled as one step that needs `wtx = NoTx` |
| `rootNow` | the inode that the workspace pathname names |
| `st[p].pc` | where the process is: `start` (registry start loop), `idle` (no leader session), `won` .. `attestH` (election and H), `lead` (retained session between ticks), `drain` .. `requeue` (a drain), `watch` (reconcile_due), `recreate`, `swap` (exceptional recreation) |
| `st[p].inc`, `.att` | the leader session's incarnation; `reconciled_leader`, the proof that allows claims |
| `st[p].slot` | `pending_request_completion` |
| `st[p].follows`, `.retry`, `.local` | the follower session, `empty_takeover_retry`, `pending_requests` |
| `st[p].via` | which branch elected: it decides where an error returns to and whether a `RootLossOwnerLease` is armed |
| `st[p].cutoff` | the seq up to which a command drains before it releases |
| `used`, `hist` | bounds already used; history of publications and of incarnations with H (no action reads `hist`) |

One action stands for one atomic step of the code: a SQLite transaction, a system call
on the lock file, or a read and the branch taken on it. `Live(p)` is the identity check
that the code repeats around each of them. Errors are actions of their own
(`ElectionFault`, `AmbiguousH`, `EnqueueLost`, `PublishFailed`, `PublishBusy`,
`FinishBusy`, `DrainFault`), each with the outcomes before and after the COMMIT.
`DropRetained` lets the flock linger because the registry's `RuntimePhase::Ready` shares
the session until `refresh_phase` runs (`PhaseRefresh`). `Crash` is also Ctrl-C of a
command.

Left out of `NativeQueue`: back-off timers (a tick may come at any time, so every
interleaving they allow is there); the options of a request and the choice between
unchanged, local and full publication (each advances the head by one revision); the
restricted predecessor reads during H (`EvidenceRead`); recreation of a corrupt index
under an unchanged root (`IndexRecreate`); warm reattachment after an idle release
(`CheckoutRuntime`); the publication gate (`PublicationGate`; a gate timeout is a
`PublishBusy` or an election fault); and the direct `reconcile_workspace` command that
uses no queue.

### How PublicationGate corresponds to the code

`gate` is `GateState`. The mutex makes each pass of `enter_publication`'s loop atomic:
`Enter` is the first pass, `Admit` a later pass that finds the gate free, `GiveUp` the
two early returns. `TryEnter` is `maintenance_try_enter`; a failed `try_lock` is a step
that does not happen. The permits' `Drop` are `DropPublish` and `DropMaintenance`.

### Storage components

* `WorkspaceMarker` (`store/topology.rs`, `marker_at`, `durable_marker`). The UUID file
  in the Git directory: exclusive creation, write, sync of file and directories,
  adoption by a loser of the race, retries on a short file. An inode and the UUID meant
  for it are one number. `name` and `trellis` have a value now and one on disk; a power
  loss picks which unsynced entries and bytes survive. The owner removes only markers
  that were left short.
* `RecordStore` (`DurableRecords`, `UseGuard`, `forget`). Lock files and databases are
  inodes, so a process may hold the lock of a file that is no longer named. Power loss
  is not modelled; a record left incomplete or with a hot journal by a crash is refused
  for ever, as the code intends.
* `IndexGc` (`automatic_gc_at`, `gc_unlink_sqlite`, `gc_tick`). The stamp file, the
  visit to each index, the exclusive use lock, the inspection, and one step per unlinked
  name; `away` is a history variable. The use lock is taken in one step (RecordStore has
  its races), and a root may come back between the inspection and the unlink.
* `IndexRecreate` (`recreate_index_exclusive`). Directory changes are pending until the
  directory is synced, and a power loss keeps any subset. That the stage's own commits
  sync the directory is taken from SQLite. An attempt that fails after its rename may be
  adopted as Ready by a later open; a crash leaves temporary files.
* `SqliteWitnesses` (`RetainedSqliteWitnesses`). POSIX locks of a process fall with any
  descriptor of the file: descriptors, their count, retirement and replacement. The
  exclusive use lock that authorises replacement is not modelled; here it may be tried
  at any time. A borrower at retirement leaves the witness until a later drop.
* `PrivateLedger`, `JevBudget`, `AcpAttempts` (`live_jev.rs`, `acp.rs`). The ledger's
  opening under its lock file, the marker that tells a lost database from a new one, and
  around it the paid call and the spawned runner, with dropped futures, ambiguous
  transactions and crashes. Removing marker and database together is a user's reset. A
  crash of the daemon leaves the runner to itself.

### Evidence components

* `LeaderWork` (`watch.rs`, `index_coordinator.rs`). The notify callback's two atomic
  operations, the bounded channel, drain, inventory, acknowledgement by generation.
* `CausalWitness` (`daemon/causal_witness.rs`). One producer, a bounded queue, one
  writer whose socket may fail at any write; `send` is two steps because the flag is
  stored after the failed attempt.
* `Capture` (`capture.rs`). One directory, two sources, one configuration file, one
  ignore file. A coarse clock may give two edits one stamp. Size limits are one action,
  `Abandon`; the classification of roles is left out.
* `PublicationWriter` (`run_with_capture`, writers in `store.rs`). The unchanged, local
  and full routes with preflight, reuse and attestation. The gate and the leader lock
  make it one job. The metadata row itself is not rewritten behind the daemon; a corrupt
  reused row fails the job until the disposition is Rebuild; an unchanged publication
  resets the disposition.
* `Retention` (`store.rs`). Supersession stamps, due revisions, one bounded unit per
  step with its cursors, publications that adopt half-deleted versions, clocks that
  jump.
* `EvidenceRead` (`store.rs`, `store/topology.rs`). Snapshot, the two proofs around the
  answer, liveness probes by flock, restricted reads of a predecessor. `Followers` are
  readers of other processes that may hold the flock for a probe at any time.
* `SelectedRoutes` (`provisioned_core` in `http.rs`). Where a request is, what it has
  done and what it was told. POST index has no outcome header in the code; a worker's
  panic and a refresh racing shutdown are not modelled.
* `QuestionPackets` (`http.rs`). The bounded cache and the requests that use a packet of
  it: snapshot, cache, work, the fence with its pin, the answer. The fence is used by what
  it decides, and it decides less than one may think: a preview's looks at root and leader
  only, and `ExactPin` finds every revision that is not released, superseded or not. Only
  the status after a provider's call is compared with the packet's revision. So a
  publication in between may supersede an answer, and a preview that succeeds may leave a
  superseded packet in the cache; `AnswerWasCurrent` says what is left. A use under the
  restricted fence of a predecessor, which reads in the snapshot it holds, is not modelled.
* `DependencyCatalog` (`http.rs`). `index` is `DependencyIndex`, drivers build outside
  every lock, readers check their snapshot again.
* `SavedAnchors` (`store/anchors.rs`). One document, positional identities.
  `JudgedForward` is about the lists of the Store; pins and hidden ids of a view are
  left out. `docs/semantic-evidence/contract-v1.md:404` promises nothing on a
  replacement that cannot be told apart, and neither do the properties.

### Client components

* `DaemonElection` (`daemon/mod.rs`, `daemon/client.rs`, `main.rs`). Flock, unlink,
  bind, accept, idle exit, kill; a client's connect, start, write, wait. `ran` counts
  what was carried out for a command.
* `CheckoutRegistry`, `CheckoutRuntime` (`daemon/registry.rs`). The registry's
  operations are single actions under its mutex, clocks are time left; the runtime's
  worker, readers and release share atomics and take the phase mutex for part of their
  steps only.
* `MaintenanceLane` (`maintenance_tick`, `cooperative_maintenance_unit`). Each question
  for priority is one atomic step; between two of them the foreground may do anything.
* `BrowserServe` (`BrowserProvisioner`, `serve_via_daemon`, `auth.rs`). A listener that
  closes during registration gives an error although the checkout is registered; a token
  rewritten in place is noticed at the next serve only.
* `McpReducer`, `McpRelay`, `McpSession` (`mcp/`, `daemon/client.rs`). The admission
  rule, the stdio relay that outlives daemons, and the daemon's coordinator.
  `HandshakeFirst` and `CancelSuppresses` are stated for a conforming client; a
  cancelled `initialize` is excluded.
* `CliWait`, `CliRead` (`enqueue_and_wait_observed_inner`, `main.rs`). The finite
  commands step by step. Capture and publication are one step in CliWait; a command may
  report `index_not_ready` after another owner released, and Ctrl-C in the release fence
  is reported as interruption.

### Algorithms

`NativeExtraction`, `Navigation`, `FileTree`, `ClassCatalog`, `QuestionView` and
`ProviderWire` follow the code's loops or functions and compare the result with a reference
definition, over every input up to a bound. The parser is external to
`NativeExtraction`: every small tree is an input, "fn" stands for every kind of
declaration that owns calls, all declarations share a name, and the visit limit is not
reached with four nodes. Pages of a changing directory may miss or repeat a name
(`PagesWhole` is about a directory nobody changes); the input-count limit and the
deduplication of relations are not in `ClassCatalog`.

Two facts about answers that these models show. `FocusedView` has no count for incidental
calls, so what a view omits is more than its three other counts by exactly those
(`ViewAddsUp`). And `ProviderWire` adds probabilities exactly as f64 does, in integers,
with every rounding to the nearest even: sums of decimals that are nearer to one than
0.002, or further off, are treated as decimals would be, a sum of exactly 0.998 or 1.002
by luck (`OddsAddUp`).

### The suites

A suite holds the variables of several components and a variable `part`. A behaviour is
a behaviour of the component that `part` names, with its constants given in the suite's
`INSTANCE ... WITH` lines (fixed values, or constants of the suite where a theorem is
about every value; the `.cfg` gives those), while the variables of the others are `Off` and never change.
Components in a suite share no variable; each models its neighbours by what they may do
to it at any time. So the state space is the sum of the components' spaces, `part = "x"
=> P` in a suite is P of component x, and each of the suite's properties joins the
properties that answer one question. One component may appear twice with different
bounds ("marker" and "power", "retention" and "clock", "relay" and "legacy") where one
instance with both would be too large. The names of the properties joined are in the
suites, their statements in the component modules. `StorageSuite_proofs` and
`EvidenceSuite_proofs` prove what section 4 lists of them.

## 3. Runs

| Run | Instance | Properties |
| --- | --- | --- |
| `queue_fifo` | 1 daemon, 2 commands, 2 rows, 1 crash, 1 fault, 1 edit | `TypeOK`, `LeaderFenced`, `ClaimsInOrder`, `PinsHonoured`, `RefinesRequestQueue` |
| `queue_faults` | 1 daemon, 1 command, 2 rows, 1 crash, 2 faults, 1 edit | `PublishedOnce`, `TerminalStable` |
| `queue_roots` | 1 daemon, 1 command, 2 rows, 1 crash or fault, 2 roots, 2 moves | `PinsHonoured`, `RefinesRequestQueue`, `PublishedUnderOwnRoot` |
| `queue_live` | 1 daemon, 1 command, 2 rows, 1 crash, 1 fault, fair | `EveryRequestFinishes` |
| `queue_strand` | 1 daemon, 1 fault, fair | `ServingResumes` is violated |
| `queue_rootloss` | 1 daemon, 1 row, 2 roots, 1 move | `RootLossResolvesRows` is violated |
| `gate` | 3 publishers, 2 maintenance lanes, fair | `GateExact`, `NoBarging`, `MaintenanceRuns` |
| `storage` | 8 parts, 1.7 M states | `MarkerKept`, `RecordsKept`, `RecreationSafe`, `LocksKept`, `SpendingBounded`, `IndexFilesKept` |
| `evidence` | 13 parts | `CertifiedIsCurrent`, `CaptureAtOneInstant`, `PublishedAsCaptured`, `ReleaseKeepsPins`, `ReadsAssociated`, `OutcomesHonest`, `CachesCoherent`, `AnchorsJudged`, `AnswersCurrent` |
| `clients` | 13 parts | `CallsDeliveredOnce`, `RegistryAgrees`, `ReleasedIsQuiet`, `RepliesMatch`, `CommandsHonest`, `HeldWhenAnswered` |
| `functions` | 7 parts | `ExtractedAsParsed`, `OmissionsTold`, `AnswersExact` |
| `progress` | 13 parts, fair | `WorkEndsAtLast`, `IdleMeansDrained` |

Joined properties of the core: `ClaimsInOrder` is `FifoOrder` (a row runs only after all
earlier rows are terminal) and `ClaimAfterH` (a claim names an incarnation whose H is
committed); `PinsHonoured` is `AckedPinsGrow` and `ExpectedHonoured`; `PublishedOnce` is
`OnePublication`, `DoneOwnPublication` and `CachedCompletionValid`; `GateExact` is the
gate's types, `WaitingExact` and `OnePermit`.

**Bounds.** Two rows are the least that can be out of order, three processes the least
that can follow, lead and wait at once; one crash loses a claim, two faults make an
ambiguous COMMIT followed by a failing retry; two root moves take the directory away and
put it back (the case in which a captured identity becomes valid again), and a crash falls
between the two scopes of a recreation too. `MaxTroubles` counts crashes and faults
together: one of either, in any place, is what `queue_roots` can search. One edit lets
the watcher publish between a job and its acknowledgement. `MaxRetries` ends the
otherwise endless retries of a recreation that finds the index in use. In the suites:
two or three processes for a race on one file, enough inodes for a
file to be replaced, two faults where one may be ambiguous and the next hit its retry,
capacities of one or two so that queues and caches are full at once, clocks that pass
every limit. Each bound is named in the module that uses it. A daemon
without work and without a session really waits, and at its bounds a component stops, so
the runs other than the gate's allow deadlock.

**Fairness.** In `NativeQueue` (`FairSpec`) every process keeps taking its own steps
(`WF` on `Step`: the 20 ms tick, the start loop and the CLI loop run for ever), an open
enqueue transaction ends, and a dead daemon is started again by the next client. Nothing
is assumed about crashes, faults, root moves or new requests. In the gate: permits are
dropped, a waiter wakes within 25 ms and leaves by its deadline, and the maintenance
tick tries again; `MaintenanceRuns` is therefore conditional: publications may shut
maintenance out for as long as they keep coming, a leaked count may not. In `progress`
each component has `WF` on its actors' own steps (timers, loops and threads the code
never stops), and no fairness on clients, edits, faults or on what a provider or a
runner says. `SF` is used twice: on the registry's lifecycle step `Advance`, which
requests only delay, and on the three release steps of the runtime: the lifecycle ticks
every 250 ms while the backoff between attempts at H grows to 30 s, so a checkout that
is releasable again and again is caught in such a window, and an attempt, which waits
for no I/O between its looks, is not disturbed every time. The maintenance lane is fair
under `LiveNext`: leadership lasts and the store is uncontended. Runs, clients and
drivers are interchangeable, so the progress properties are stated of the first; its
bounds are smaller because TLC keeps the whole behaviour graph.

**The two violations** are disagreements between the code and its own comments:

* `ServingResumes`. The retained leader's drain error drops the session without setting
  `empty_takeover_retry`. With an empty queue nothing elects again; the checkout stays
  without a leader until somebody submits a request.
* `RootLossResolvesRows`. A root replaced during a retained leader's drain fails an
  identity check, and the flock is dropped before the old root's rows are failed. They
  stay unfinished until a later process of some root settles them.

Smaller disagreements met while modelling, for which no run is kept: two readers'
liveness probes take each other for a leader (`store/topology.rs:1255`,
`docs/local-topology.md:67`); a strict read may be admitted before H (`store.rs:6507`,
`docs/mcp-readonly-pilot-contract.md:121`); a cancelled request whose ID was reused is
answered by the relay (`daemon/client.rs:690`, contract line 11); a clock set back
lengthens the grace (`store.rs:2164`,
`docs/semantic-evidence/decisions/0006-revision-retention-and-index-gc.md:17`); an edit
during the walk fails a capture where a comment expects drift (`capture.rs:359`,
`capture.rs:499`); probabilities that add up to exactly 0.998 or 1.002 may be refused,
0, 0.034, 0.281 and 0.687 for one, although the error says "within 0.002" (`jev.rs:183`,
`jev.rs:282`).

## 4. Proofs

Eight modules hold theorems; all hold for every value of the constants that the named
assumptions allow. An ASSUME says what the code gives (a capacity is a number, the
processes of one machine are finitely many, a placeholder is not a file) and is evaluated
by TLC on the run of its module.

### NativeQueue: the leader is fenced

`NativeQueue_proofs` assumes `ProcAssumption` (daemons and
commands are distinct, `None` is neither) and `BoundAssumption` (the bounds are
naturals), so they hold for any number of processes, rows, crashes, faults and root
moves.

* `QueueLeaderFenced`: `Spec => []LeaderFenced`. The property is not inductive: a
  session's `inc` says nothing about the steps before the incarnation is written or
  after the session is dropped. `SessionInv` adds the program points: outside an
  election or drain a process has no incarnation, inside it holds the flock, and from
  `elected` on its incarnation is the one in the file. Every action is then one of five
  movements, each a lemma: the fence is kept, taken, dropped, released after lingering,
  or untouched.
* `QueueTypeCorrect`: `Spec => []TypeOK`, proved together with it.

### NativeQueue: order, pins and publications

`QueueOrderInvariant` proves `OrderInv`, the conjunction of five parts:

* `TypeOK` and `SessionInv`, from above: one process at a time works on the queue.
* `QueueInv`: the order and pin properties of the rows, together with `PubsInv`, the
  facts about the history of publications. `FifoOrder` and `AckedPinsGrow` alone are not
  inductive: that a completed row's pin is greater than its predecessors' needs every
  publication's pin to be at most the head and different from all others, and
  `OnePublication` needs that a row published under the current incarnation is terminal
  or still in its publisher's hands.
* `ProcsInv`: for each process what its program point lets it rely on. `JobInv` says
  that the row between claim and completion is running, claimed by this incarnation and
  of this root, that the index is of the session's root, and whether the row has been
  published under this claim (between a doubtful COMMIT and the requeue the head tells).
  `SlotInv` says which publication a cached completion stands for, and that under the
  session that cached it the row is terminal or still claimed and the head still the
  cached pin, which is why a late retry is harmless.
* `RootsInv`: the roots in sessions, in the open transaction and at the pathname are
  roots of the model, which the abstract queue needs of an accepted request.

Because a process without the lock has no session, a step of one process disturbs only
monotone facts of the others: incarnations grow, terminal rows stay, publications are
added. `Kept`, `Grows`, `Away` and `Serving` name the shapes a step can have (nothing
durable changes; durable facts only grow; the process ends without a session; it ends in
one that works on no row), a lemma each says what they preserve, and `RestStep` goes
through the actions.

From `OrderInv` follow, each a theorem: `QueueClaimsInOrder`, `QueuePinsHonoured`,
`QueuePublishedOnce`, the action properties `QueueTerminalStable` (no step removes an
accepted row or changes a terminal one; lemma `RowsStep` says what a step may do to the
rows) and `QueuePublishedUnderOwnRoot`, and

* `QueueRefines`: `Spec => RQ!Spec`, that is `RefinesRequestQueue`. `RequestView` shows
  a client a row's root and whether it is open, done or failed, and hides claims; the
  initial state maps to the empty queue, a committed enqueue is an acceptance
  (`AcceptRefines`), a terminal write is the answer of the earliest open request
  (`AnswerRefines`, which needs `FifoOrder` of the claimed row), a root failure is an
  abandonment (`AbandonRefines`), and every other step leaves the view alone
  (`ViewEqual`).

`OrderInv` was checked with TLC on the bounds of `queue_fifo`, `queue_faults` and
`queue_roots` before it was proved.

### PublicationGate

Assumes only that the publishers are a finite set, disjoint from the maintainers.

* `GateCorrect`: types, `WaitingExact` and `OnePermit`. They are inductive only
  together: the count does not underflow because a waiter exists, and the exclusion of
  two permits needs `active` to be exact.
* `GateNoBarging`: an action property; `WaitingExact` turns "a publication waits" into
  the nonzero count that `maintenance_try_enter` reads.

### Components by themselves

Two component modules end with the theorem of their own safety; the hypotheses on the
constants stand in the theorem, and the properties named are the ones the suites check.

* `WorkspaceMarker!MarkerSafe` — bounds are naturals, at least one read is tried.
  `[](TypeOK /\ OneIdentity /\ PromiseDurable)`. The argument is that the pathname stops
  moving once the file it names is whole: only an owner removes a marker, and only a
  short one, and a creation needs an absent one. `MarkerInv` says that what was promised
  is what the pathname names, `HeldInv` what a process has achieved on its open file
  (written, synced, its directory synced) at each step, so that a power loss finds it on
  disk.
* `DaemonElection!DaemonSafe` — finitely many daemons, none called "none". `[](TypeOK /\
  ServingReachable /\ MutationAtMostOnce /\ UnavailableMeansNotRun)`. `LockInv`: a
  daemon that may touch the socket path holds the flock, so nobody unlinks the socket of
  a serving one. `WriterInv`: a mutation not yet sent has no job and has not run, one
  that was sent is never sent again.

### The storage suite

`StorageSuite_proofs` proves every property of the run `storage`. The parts of a suite
share no variable, so a component's inductive invariant holds while `part` names it and a
step of the suite is a step of that component.

* `MarkerPartSafe` (`MarkerKept`) carries `MarkerInv` over.
* `IndexFilesSafe` (`IndexFilesKept`, an action property). `GcInv` of `IndexGc`: a
  collector with a candidate is its only holder, so nobody opens the index after the
  inspection; a root that is not there was seen away; one attempt runs at a time; and the
  names are removed in order, so what is left can be opened as a new index.
  `RecreateInv` adds what a recreation reported ready has on disk.
* `LocksSafe` (`LocksKept`). `WitnessInv`: the reference count of a registered file is
  the number of handles on it (`CountExact`), and one connection at a time is inside a
  write transaction of a file (`OneWriter`). The count is what a drop consults before it closes a descriptor, and
  closing any descriptor of the file would drop the process's POSIX locks.
* `SpendingSafe` (`SpendingBounded`). `JevInv` and `AcpInv` extend `LedgerInv` of
  `PrivateLedger`: calls made plus reservations that may still lead to a call are at most
  what the caps in use allow (`JevPending`, `AcpPending`), and an attempt at each of its
  steps has the row, the flight and the runner that step implies. A lost database is why
  the count is against the marker's cap and not against the rows.
* `RecordsSafe` (`RecordsKept`). `RecordsInv`: holders of one lock file exclude each
  other (`RecordsExcluded`), and whoever has passed the recheck holds the lock file that
  is still named (`RecordsRun`), so a holder of an unlinked one works on nothing.
* `RecreationIsSafe` (`RecreationSafe`). `RecreateInv`: at each step of the recreation,
  what a name is, what is on disk, and which names no pending change is about
  (`Untouched`): those are as they were synced whatever subset a power loss keeps.

### The evidence suite

`EvidenceSuite_proofs` treats five components of the run `evidence`.

* `OutcomesSafe` (`OutcomesHonest`). `RoutesPhase`: what a request has done at each step
  of its way. A reply without an outcome is sent only where nothing has been done.
* `ReadsSafe` (`ReadsAssociated`). `ReadsInv`: a session's incarnation is the one in the
  file from its association on (`SessionFits`), an association points at a session that
  stands or is about to end, and an admitted read's revision and predecessor are those
  of the head it was admitted under (`ReadFits`).
* `CatalogSafe` (the catalog's conjunct of `CachesCoherent`). `DriversInv`: the `running`
  flag is the token of the one driver, and none is ahead of the newest generation.
  `GenerationsInv`: only older generations are cancelled, and a loading index has a
  driver that has not yet installed this generation. `ReaderInv`: the catalog a reader
  works on is of a revision since its request began.
* `WriterSafe` (the manifest and the facts of `PublishedAsCaptured`). `WriterInv`: every
  retained revision's rows are there and its witnesses are what its own executable
  measures; and what a route has established of the head it reuses holds until it
  commits, because a rewrite behind the daemon touches bytes and facts, never a witness.
  A full publication is attested although rows may be rewritten after its preflight:
  `moved` tells it, and it then fails.
* `AnswersSafe` (`AnswersCurrent`, an action property of all five): no delivery of a read,
  a route or a catalog crosses a takeover or a publication, a full head is intact, and no
  publication changes an older revision. Of packets it is `AnswerWasCurrent`: the leader is
  that of the request's first read, no revision superseded before the request began, or
  before its provider had ended, gets out, and none released before the answer was
  assembled. `AnswersInv` joins the invariants above with `UsesInv` for the packets:
  `UseFits` says at each point of a request which comparisons are behind it, that the
  revision lies between the history's `since` and now, and that a pin found after the
  answer was assembled was not released before.

The invariants were checked with TLC on the bounds of the runs before they were proved.

### The clients

`ClientSuite_proofs` treats the election, in both its instances, and the three finite
commands of the run `clients`. The named assumptions are `ElectionConstants`,
`ServeConstants`, `WaitConstants` and `ReadConstants`.

* `CallsSafe` (`CallsDeliveredOnce`) carries `DaemonElection`'s invariant over.
* `CommandsSafe` (`CommandsHonest`) joins three invariants.
  `WaitInv`, of `trellis index`: one owner at a time holds the lock with an open row, and
  who holds it has a repaired index (`WaitIndex`); the command's row is done only when it
  is covered by what was captured after it was accepted, and is published for once
  (`WaitMine`); what the fence has drained and indexed stays so while the lock is held
  (`WaitFence`). The row a drain claims is the least open one; that there is one is
  `LeastNatural`, from the well-foundedness of `<`.
  `ReadingInv`, of the one-shot reads: the command leads exactly while it holds the lock,
  and asks, admits and publishes once each (`ReadOwner`); an attempt past the deadline is
  the last of its phase (`ReadLate`); what an attempt read is the session's owner's,
  unless the guard is about to tell that the owner was lost (`ReadGuard`).
  `ServeInv`, of `trellis serve`: a request that has entered, or is served, agrees with
  the listener's binding and path, a served client was told the listener's inode and
  token (`ServeCallOk`), and the request between observation and check is the holder.
* `CommandsAnswerWhileHeld`, the commands' share of the action property
  `HeldWhenAnswered`: success is reported from a state in which the index, the owner or
  the token file it is about is still there, and a refused serve command leaves the
  daemon as it was.

### Only model-checked

* Liveness (`EveryRequestFinishes`, `MaintenanceRuns`, `WorkEndsAtLast`,
  `IdleMeansDrained`, and the refuted `ServingResumes`): the prover does not handle
  fairness or ENABLED.
* The algorithms: what a recursive definition computes for every input needs induction
  over data, which TLAPS cannot instantiate here.
* Of `PublishedAsCaptured` the sum of a revision's counts (`StatsAddUp`), and of
  `CachesCoherent` that the packet cache is its history (`CacheIsHistory`): a sum over a
  set and a fold over a history, which again need induction over data. The types and
  bounds of those two properties stay with TLC as well.
* `CertifiedIsCurrent`, `CaptureAtOneInstant`, `ReleaseKeepsPins` and `AnchorsJudged` of
  the run `evidence`; `RegistryAgrees`, `ReleasedIsQuiet` and `RepliesMatch` of the run
  `clients` and those parts' share of `HeldWhenAnswered`. They are within the prover's
  reach; each needs an inductive invariant of its own.

## 5. Not modelled

* Pure text work: the classification of each grammar's nodes, digests, the analyses of
  behaviour and classes inside one file, wording and layout of answers. The parsers,
  SQLite, the operating system and the providers are external and appear by what they
  may do.
* Path safety and permissions, which appear as errors a step may return; the
  symlink-safe walk of a path.
* Framing and argument checks of MCP, header guards and request parsing of the browser
  routes, version negotiation of the daemon protocol, schema migration of records,
  creation of the queue file.
* `start_exceptional_index` and the `finish_*_index_job` functions of `http.rs`, which
  nothing calls.
* The witness reporter's and the progress output's texts.
