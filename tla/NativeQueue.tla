---------------------------- MODULE NativeQueue ----------------------------
(***************************************************************************)
(* The durable index queue of one checkout: processes (the per-user daemon *)
(* and finite `trellis index` commands) compete for the leader flock, the  *)
(* winner writes a fresh incarnation, performs the mandatory post-         *)
(* acquisition reconciliation (H), and only then claims the FIFO rows of   *)
(* requests.db, publishing one index revision per claim.                   *)
(*                                                                         *)
(* Code: src/store/requests.rs, src/store/topology.rs (leader lock),       *)
(* src/index_coordinator.rs (drain, CLI loop), src/http.rs (queue_tick),   *)
(* src/store.rs (leader_with_owner, attestation, exceptional recreation).  *)
(***************************************************************************)
EXTENDS Integers, Sequences, FiniteSets, TLC

CONSTANTS
    Daemons,     \* processes running queue_tick (http.rs)
    Clis,        \* processes running enqueue_and_wait (index_coordinator.rs)
    None,        \* "no process"
    MaxRows,     \* bound: accepted requests
    MaxCrashes,  \* bound: process deaths (and Ctrl-C of a CLI)
    MaxFaults,   \* bound: storage errors, before or after a COMMIT
    MaxTroubles, \* bound: process deaths and storage errors together
    MaxRoots,    \* inodes the workspace pathname may name
    MaxMoves,    \* bound: times the workspace directory is replaced or put back
    MaxEdits,    \* bound: watcher publications
    MaxRetries   \* bound: incarnations after which a recreation is not retried

Proc == Daemons \cup Clis

ASSUME ProcAssumption == None \notin Proc /\ Daemons \cap Clis = {}
ASSUME BoundAssumption ==
    /\ MaxRows \in Nat /\ MaxCrashes \in Nat /\ MaxFaults \in Nat /\ MaxTroubles \in Nat
    /\ MaxRoots \in Nat \ {0} /\ MaxMoves \in Nat /\ MaxEdits \in Nat
    /\ MaxRetries \in Nat

VARIABLES
    lock,         \* holder of the flock on leader.lock, or None
    incarnation,  \* contents of leader.lock: each writer stores a fresh value
    index,        \* index.db metadata: pin (head), marker, root inode
    rows,         \* requests.db, by seq
    wtx,          \* an enqueue's open IMMEDIATE transaction, or NoTx
    rootNow,      \* the inode the workspace pathname names now
    st,           \* volatile state of each process
    used,         \* bounds already used
    hist          \* history: publications made for a row, incarnations with H

vars == <<lock, incarnation, index, rows, wtx, rootNow, st, used, hist>>

-----------------------------------------------------------------------------
(* Data *)

NoPin == [gen |-> 0, rev |-> 0]
Pins == [gen : Nat, rev : Nat]
Next1(pin) == [pin EXCEPT !.rev = @ + 1]

\* A pin is at or after another: same generation and later, or a later generation.
AtLeast(a, b) == a.gen > b.gen \/ (a.gen = b.gen /\ a.rev >= b.rev)

RowStates == {"queued", "running", "done", "failed"}
Errors == {"none", "root_changed", "revision_conflict", "index_failed"}
Rows == [state : RowStates, root : Nat, want : Pins, claim : Nat,
         pin : Pins, err : Errors]

\* CompletionOutcome: Done(pin) or Failed(code); "none" while undecided.
Outcomes == [pin : Pins, err : Errors]
Done(pin) == [pin |-> pin, err |-> "none"]
Failed(code) == [pin |-> NoPin, err |-> code]
NoOut == Failed("none")

\* PendingCompletion: the cached result of the one in-flight head.
Slots == [row : Nat, out : Outcomes, inc : Nat]
NoSlot == [row |-> 0, out |-> NoOut, inc |-> 0]

Txs == [by : Proc \cup {None}, root : Nat, want : Pins]
NoTx == [by |-> None, root |-> 0, want |-> NoPin]

Unfinished == {i \in DOMAIN rows : rows[i].state \in {"queued", "running"}}

\* Mutants: a head query without ORDER BY seq, and one without finished_at IS NULL.
BugHeadUnordered(i) == i \in Unfinished
BugHeadFinished(i) == \A j \in Unfinished : i <= j

\* The earliest unfinished row.
IsFifoHead(i) == i \in Unfinished /\ \A j \in Unfinished : i <= j

PCs == {"off", "enq", "start", "idle", "won", "elected", "rebound", "h", "attestH", "lead",
        "drain", "claimed", "prepared", "attest", "finish", "requeue", "watch",
        "recreate", "swap"}

Process == [pc : PCs, root : Nat, inc : Nat, att : Nat, slot : Slots,
            job : Nat, before : Pins, acked : BOOLEAN, retry : BOOLEAN,
            follows : Nat, local : SUBSET Nat,
            via : {"start", "empty", "pending", "kept"}, cutoff : Nat]

\* A process that is not running.
Off == [pc |-> "off", root |-> 0, inc |-> 0, att |-> 0, slot |-> NoSlot,
        job |-> 0, before |-> NoPin, acked |-> FALSE, retry |-> FALSE,
        follows |-> 0, local |-> {}, via |-> "start", cutoff |-> 0]

TypeOK ==
    /\ lock \in Proc \cup {None}
    /\ incarnation \in Nat
    /\ index \in [pin : Pins, marker : Nat, root : Nat]
    /\ rows \in Seq(Rows)
    /\ wtx \in Txs
    /\ rootNow \in Nat
    /\ st \in [Proc -> Process]
    /\ used \in [crashes : Nat, faults : Nat, edits : Nat, moves : Nat]
    /\ hist \in [pubs : SUBSET [row : Nat, inc : Nat, pin : Pins], hs : SUBSET Nat]

\* A freshly created index (revision 0), an empty queue and no process.
Init ==
    /\ lock = None
    /\ incarnation = 0
    /\ index = [pin |-> [gen |-> 1, rev |-> 0], marker |-> 0, root |-> 1]
    /\ rows = <<>>
    /\ wtx = NoTx
    /\ rootNow = 1
    /\ st = [p \in Proc |-> Off]
    /\ used = [crashes |-> 0, faults |-> 0, edits |-> 0, moves |-> 0]
    /\ hist = [pubs |-> {}, hs |-> {}]
-----------------------------------------------------------------------------
(* Predicates the handlers branch on *)

\* WorkspaceIdentity::verify: the pathname still names the captured inode.
Live(p) == st[p].root = rootNow

OwnSlot(p) == st[p].slot.row # 0 /\ st[p].slot.inc = st[p].inc

\* FollowerGuard::verify: unchanged incarnation, and an EX probe that would block.
FollowerOk(p) ==
    st[p].follows # 0 /\ Live(p) /\ lock # None /\ incarnation = st[p].follows

PendingLocal(p) == st[p].local \cap Unfinished # {}

\* Mutant: only this process's own requests wake the scheduler.
BugDurablePending(p) == FALSE

\* Rows of other processes count once a failed empty takeover is out of the way.
DurablePending(p) ==
    /\ ~PendingLocal(p)
    /\ ~(st[p].retry /\ st[p].follows = 0)
    /\ \E i \in Unfinished : IsFifoHead(i) /\ rows[i].root = st[p].root

\* queue_tick without pending work: take over after a failed attempt or a lost leader.
EmptyTakeover(p) ==
    /\ ~PendingLocal(p) /\ ~DurablePending(p)
    /\ IF st[p].follows = 0 THEN st[p].retry ELSE ~FollowerOk(p)

PendingTakeover(p) == (PendingLocal(p) \/ DurablePending(p)) /\ ~FollowerOk(p)

\* The index read that precedes election fails while another root owns index.db.
IndexOpen(p) == Live(p) /\ index.root = st[p].root

Fault ==
    /\ used.faults < MaxFaults /\ used.crashes + used.faults < MaxTroubles
    /\ used' = [used EXCEPT !.faults = @ + 1]

-----------------------------------------------------------------------------
(* State transformers shared by the handlers *)

\* Mutant: the update forgets to compare the roots.
BugFailAllRoots(p, k) ==
    [i \in DOMAIN rows |->
        IF i \in Unfinished
        THEN [rows[i] EXCEPT !.state = "failed", !.claim = k, !.err = "root_changed"]
        ELSE rows[i]]

\* fail_changed_root_requests: a live holder fails every other root's rows, a
\* holder whose own root is gone fails its own rows.
FailChangedRoot(p, k) ==
    [i \in DOMAIN rows |->
        IF i \in Unfinished /\ (rows[i].root = st[p].root) = ~Live(p)
        THEN [rows[i] EXCEPT !.state = "failed", !.claim = k, !.err = "root_changed"]
        ELSE rows[i]]

\* Where a failed election returns to; a finite CLI exits instead.
Back(p) == IF st[p].via = "start" THEN "start" ELSE "idle"

Dropped(p, next) ==
    IF p \in Clis THEN Off
    ELSE [st[p] EXCEPT !.pc = next, !.inc = 0, !.job = 0, !.before = NoPin,
                       !.acked = FALSE, !.follows = 0]

\* replace_serving_session(None) before the session was ever retained.
DropElected(p) ==
    /\ st' = [st EXCEPT ![p] = Dropped(p, Back(p))]
    /\ lock' = None

\* The registry's RuntimePhase::Ready may still share a retained session, so the
\* flock can outlive the drop until the next phase refresh.
DropRetained(p) ==
    /\ st' = [st EXCEPT ![p] = Dropped(p, "idle")]
    /\ lock' \in IF p \in Daemons THEN {None, p} ELSE {None}

\* The end of a drain: the watcher may publish, or the tick ends.
EndDrain(p, acked, unfinished) ==
    [st[p] EXCEPT !.pc = IF p \in Clis \/ acked \/ unfinished = {} THEN "watch" ELSE "lead",
                  !.job = 0, !.before = NoPin, !.acked = acked,
                  !.via = "kept"]

Publish(p) ==
    index' = [index EXCEPT !.pin = Next1(@), !.marker = st[p].inc]

-----------------------------------------------------------------------------
(* Processes, requests and the environment *)

\* A daemon activates the checkout; its registry loop establishes a session.
Start(p) ==
    /\ p \in Daemons /\ st[p].pc = "off"
    /\ st' = [st EXCEPT ![p] = [Off EXCEPT !.pc = "start", !.root = rootNow]]
    /\ UNCHANGED <<lock, incarnation, index, rows, wtx, rootNow, used, hist>>

\* The flock and any open transaction die with the process; so does its memory.
Crash(p) ==
    /\ st[p].pc # "off"
    /\ used.crashes < MaxCrashes /\ used.crashes + used.faults < MaxTroubles
    /\ used' = [used EXCEPT !.crashes = @ + 1]
    /\ st' = [st EXCEPT ![p] = Off]
    /\ lock' = IF lock = p THEN None ELSE lock
    /\ wtx' = IF wtx.by = p THEN NoTx ELSE wtx
    /\ UNCHANGED <<incarnation, index, rows, rootNow, hist>>

\* The workspace directory is replaced, or an earlier one is moved back.
MoveRoot ==
    /\ used.moves < MaxMoves
    /\ used' = [used EXCEPT !.moves = @ + 1]
    /\ rootNow' \in (1..MaxRoots) \ {rootNow}
    /\ UNCHANGED <<lock, incarnation, index, rows, wtx, st, hist>>

\* enqueue_request: BEGIN IMMEDIATE, then the root is verified under the write lock.
EnqueueBegin(p) ==
    /\ wtx = NoTx /\ Len(rows) < MaxRows
    /\ \/ /\ p \in Daemons /\ st[p].pc # "off" /\ Live(p)
          /\ \E want \in {NoPin, index.pin} :
                wtx' = [by |-> p, root |-> st[p].root, want |-> want]
          /\ UNCHANGED st
       \/ /\ p \in Clis /\ st[p].pc = "off"
          /\ wtx' = [by |-> p, root |-> rootNow, want |-> NoPin]
          /\ st' = [st EXCEPT ![p] = [Off EXCEPT !.pc = "enq", !.root = rootNow]]
    /\ UNCHANGED <<lock, incarnation, index, rows, rootNow, used, hist>>

\* Mutant: the row is inserted in a state of its own.
BugNewRow(tx) == [state |-> "accepted", root |-> tx.root, want |-> tx.want,
                  claim |-> 0, pin |-> NoPin, err |-> "none"]

NewRow(tx) == [state |-> "queued", root |-> tx.root, want |-> tx.want,
               claim |-> 0, pin |-> NoPin, err |-> "none"]

\* INSERT and COMMIT: the accepted row is durable and this process remembers it.
EnqueueCommit(p) ==
    /\ wtx.by = p /\ (p \in Clis => st[p].pc = "enq") /\ Live(p)
    /\ rows' = Append(rows, NewRow(wtx))
    /\ wtx' = NoTx
    /\ st' = [st EXCEPT ![p].local = @ \cup {Len(rows) + 1},
                        ![p].pc = IF p \in Clis THEN "idle" ELSE @]
    /\ UNCHANGED <<lock, incarnation, index, rootNow, used, hist>>

\* The row is durable but its submitter sees an error: an ambiguous COMMIT, or a
\* root that changed during it. Nobody remembers the row; a CLI exits.
EnqueueLost(p) ==
    /\ wtx.by = p /\ (p \in Clis => st[p].pc = "enq")
    /\ IF Live(p) THEN Fault ELSE UNCHANGED used
    /\ rows' = Append(rows, NewRow(wtx))
    /\ wtx' = NoTx
    /\ st' = IF p \in Clis THEN [st EXCEPT ![p] = Off] ELSE st
    /\ UNCHANGED <<lock, incarnation, index, rootNow, hist>>

-----------------------------------------------------------------------------
(* Election and the mandatory reconciliation H *)

\* Mutant: EWOULDBLOCK is taken for success.
BugFlockFree == TRUE

\* flock(LOCK_EX | LOCK_NB) would succeed.
FlockFree == lock = None

\* acquire_leader takes the flock.
TakeLock(p) ==
    /\ FlockFree /\ IndexOpen(p)
    /\ \/ /\ st[p].pc = "start"
          /\ st' = [st EXCEPT ![p].pc = "won", ![p].via = "start"]
       \/ /\ p \in Daemons /\ st[p].pc = "idle" /\ EmptyTakeover(p)
          /\ st' = [st EXCEPT ![p].pc = "won", ![p].via = "empty",
                              ![p].retry = TRUE, ![p].follows = 0]
       \/ /\ st[p].pc = "idle"
          /\ IF p \in Daemons THEN PendingTakeover(p) ELSE PendingLocal(p)
          /\ st' = [st EXCEPT ![p].pc = "won", ![p].via = "pending"]
    /\ lock' = p
    /\ UNCHANGED <<incarnation, index, rows, wtx, rootNow, used, hist>>

\* follower_session would succeed.
Followable(p) ==
    lock # None /\ IndexOpen(p) /\ index.marker = incarnation /\ incarnation # 0

\* The lock is busy: the process becomes a follower of the incarnation that the
\* index marker names.
Follow(p) ==
    /\ Followable(p) /\ p \in Daemons
    /\ \/ st[p].pc = "start"
       \/ st[p].pc = "idle" /\ EmptyTakeover(p)
    /\ st' = [st EXCEPT ![p].pc = "idle", ![p].follows = incarnation,
                        ![p].retry = (st[p].pc = "idle")]
    /\ UNCHANGED <<lock, incarnation, index, rows, wtx, rootNow, used, hist>>

\* An empty takeover that can neither lead nor follow loses the old session and
\* keeps its trigger.
FollowRefused(p) ==
    /\ p \in Daemons /\ st[p].pc = "idle" /\ Live(p)
    /\ st[p].follows # 0 /\ EmptyTakeover(p)
    /\ ~Followable(p) /\ ~(FlockFree /\ IndexOpen(p))
    /\ st' = [st EXCEPT ![p].follows = 0, ![p].retry = TRUE]
    /\ UNCHANGED <<lock, incarnation, index, rows, wtx, rootNow, used, hist>>

\* The fresh incarnation is written and synced before anything else.
WriteIncarnation(p) ==
    /\ st[p].pc = "won"
    /\ incarnation' = incarnation + 1
    /\ st' = [st EXCEPT ![p].pc = "elected", ![p].inc = incarnation + 1]
    /\ UNCHANGED <<lock, index, rows, wtx, rootNow, used, hist>>

\* leader_with_owner binds a readable published head to the new incarnation.
Rebind(p) ==
    /\ st[p].pc = "elected" /\ IndexOpen(p)
    /\ index' = IF index.pin.rev > 0 THEN [index EXCEPT !.marker = st[p].inc] ELSE index
    /\ st' = [st EXCEPT ![p].pc = "rebound"]
    /\ UNCHANGED <<lock, incarnation, rows, wtx, rootNow, used, hist>>

\* Mutant: a readable head already carries the new incarnation, so H is skipped.
BugResolveRoots(p) ==
    /\ st[p].pc = "rebound" /\ IndexOpen(p) /\ wtx = NoTx
    /\ rows' = FailChangedRoot(p, st[p].inc)
    /\ st' = [st EXCEPT ![p].pc = IF index.pin.rev > 0 THEN "attestH" ELSE "h"]
    /\ UNCHANGED <<lock, incarnation, index, wtx, rootNow, used, hist>>

\* Rows of another root are failed before H.
ResolveRoots(p) ==
    /\ st[p].pc = "rebound" /\ IndexOpen(p) /\ wtx = NoTx
    /\ rows' = FailChangedRoot(p, st[p].inc)
    /\ st' = [st EXCEPT ![p].pc = "h"]
    /\ UNCHANGED <<lock, incarnation, index, wtx, rootNow, used, hist>>

\* H commits one complete revision under the new incarnation; no row is touched.
CommitH(p) ==
    /\ st[p].pc = "h" /\ IndexOpen(p)
    /\ Publish(p)
    /\ hist' = [hist EXCEPT !.hs = @ \cup {st[p].inc}]
    /\ st' = [st EXCEPT ![p].pc = "attestH"]
    /\ UNCHANGED <<lock, incarnation, rows, wtx, rootNow, used>>

\* attest_post_acquisition_reconciliation mints the claim authority, and the
\* session is retained.
AttestH(p) ==
    /\ st[p].pc = "attestH" /\ IndexOpen(p) /\ index.marker = st[p].inc
    /\ st' = [st EXCEPT ![p].pc = "lead", ![p].att = st[p].inc, ![p].follows = 0,
                        ![p].retry = @ /\ st[p].via \in {"pending", "kept"}]
    /\ UNCHANGED <<lock, incarnation, index, rows, wtx, rootNow, used, hist>>

\* Any storage error before H is attested drops the unreconciled session. A CLI
\* waits on contention inside leader_session and exits on every later error.
ElectionFault(p) ==
    /\ st[p].pc \in {"won", "elected", "rebound", "h", "attestH", "swap"}
    /\ Fault
    /\ \/ DropElected(p)
       \/ /\ p \in Clis /\ st[p].pc \in {"won", "elected"}
          /\ st' = [st EXCEPT ![p].pc = "idle", ![p].inc = 0]
          /\ lock' = None
    /\ UNCHANGED <<incarnation, index, rows, wtx, rootNow, hist>>

\* H's COMMIT took effect but returned an error: nobody may infer success.
AmbiguousH(p) ==
    /\ st[p].pc = "h" /\ IndexOpen(p) /\ Fault
    /\ Publish(p)
    /\ hist' = [hist EXCEPT !.hs = @ \cup {st[p].inc}]
    /\ DropElected(p)
    /\ UNCHANGED <<incarnation, rows, wtx, rootNow>>

-----------------------------------------------------------------------------
(* Draining the FIFO *)

\* drain_requests: resolve other roots' rows and the cached completion first. A
\* completion cached under an older incarnation is forgotten.
DrainStart(p) ==
    /\ st[p].pc = "lead" /\ Live(p) /\ wtx = NoTx
    /\ p \in Clis => PendingLocal(p) \/ st[p].cutoff # 0 \/ OwnSlot(p)
    /\ rows' = FailChangedRoot(p, st[p].inc)
    /\ st' = [st EXCEPT ![p].pc = IF OwnSlot(p) THEN "finish" ELSE "drain",
                        ![p].slot = IF OwnSlot(p) THEN @ ELSE NoSlot,
                        ![p].acked = FALSE]
    /\ UNCHANGED <<lock, incarnation, index, wtx, rootNow, used, hist>>

InCutoff(p, i) == st[p].cutoff = 0 \/ i <= st[p].cutoff

HeldByMe(p, i) == rows[i].state = "running" /\ rows[i].claim = st[p].inc

\* Mutant: the claimed row's root is not verified.
BugOwnRoot(p, i) == TRUE

\* verify_request_root: the row was accepted for the root this process serves.
OwnRoot(p, i) == rows[i].root = st[p].root

\* claim_request: the FIFO head, by a leader whose H is attested. A head left
\* running by an older incarnation is reclaimed.
Claim(p, i) ==
    /\ st[p].pc = "drain" /\ Live(p) /\ wtx = NoTx
    /\ st[p].att = st[p].inc
    /\ IsFifoHead(i) /\ InCutoff(p, i)
    /\ OwnRoot(p, i) /\ ~HeldByMe(p, i)
    /\ rows' = [rows EXCEPT ![i].state = "running", ![i].claim = st[p].inc]
    /\ st' = [st EXCEPT ![p].pc = "claimed", ![p].job = i]
    /\ UNCHANGED <<lock, incarnation, index, wtx, rootNow, used, hist>>

ClaimNone(p) ==
    /\ st[p].pc = "drain" /\ Live(p) /\ wtx = NoTx
    /\ \A i \in Unfinished : IsFifoHead(i) => ~InCutoff(p, i) \/ HeldByMe(p, i)
    /\ st' = [st EXCEPT ![p] = EndDrain(p, st[p].acked \/ st[p].cutoff # 0, Unfinished)]
    /\ UNCHANGED <<lock, incarnation, index, rows, wtx, rootNow, used, hist>>

\* The head belongs to another root: the claim fails and the session is dropped.
ClaimForeign(p) ==
    /\ st[p].pc = "drain" /\ Live(p) /\ wtx = NoTx
    /\ \E i \in Unfinished : IsFifoHead(i) /\ ~OwnRoot(p, i)
    /\ DropRetained(p)
    /\ UNCHANGED <<incarnation, index, rows, wtx, rootNow, used, hist>>

\* Mutants: an expected pin is not compared; a stale one is answered with the head.
BugStale(row) == FALSE
BugConflict == Done(index.pin)

\* prepare: the expected pin is not the current head.
Stale(row) == row.want \notin {NoPin, index.pin}

\* CompletionOutcome::from_result of that error.
Conflict == Failed("revision_conflict")

\* prepare_with_session: capture the baseline; a stale expected pin is a conflict.
Prepare(p) ==
    /\ st[p].pc = "claimed" /\ Live(p)
    /\ IF Stale(rows[st[p].job])
       THEN st' = [st EXCEPT ![p].pc = "finish",
                             ![p].slot = [row |-> st[p].job, inc |-> st[p].inc,
                                          out |-> Conflict]]
       ELSE st' = [st EXCEPT ![p].pc = "prepared", ![p].before = index.pin]
    /\ UNCHANGED <<lock, incarnation, index, rows, wtx, rootNow, used, hist>>

\* The publication transaction: compare-and-set against the captured baseline.
PublishCommit(p) ==
    /\ st[p].pc = "prepared" /\ Live(p) /\ index.pin = st[p].before
    /\ Publish(p)
    /\ hist' = [hist EXCEPT !.pubs = @ \cup
                   {[row |-> st[p].job, inc |-> st[p].inc, pin |-> Next1(index.pin)]}]
    /\ st' = [st EXCEPT ![p].pc = "attest"]
    /\ UNCHANGED <<lock, incarnation, rows, wtx, rootNow, used>>

\* The committed pin is attested and cached as this head's completion.
AttestJob(p) ==
    /\ st[p].pc = "attest" /\ Live(p)
    /\ index.marker = st[p].inc /\ index.pin = Next1(st[p].before)
    /\ st' = [st EXCEPT ![p].pc = "finish", ![p].att = st[p].inc,
                        ![p].slot = [row |-> st[p].job, inc |-> st[p].inc,
                                     out |-> Done(index.pin)]]
    /\ UNCHANGED <<lock, incarnation, index, rows, wtx, rootNow, used, hist>>

\* A publication that fails for good, before its COMMIT or in its attestation.
PublishFailed(p) ==
    /\ st[p].pc \in {"prepared", "attest"} /\ Live(p) /\ Fault
    /\ st' = [st EXCEPT ![p].pc = "finish",
                        ![p].slot = [row |-> st[p].job, inc |-> st[p].inc,
                                     out |-> Failed("index_failed")]]
    /\ UNCHANGED <<lock, incarnation, index, rows, wtx, rootNow, hist>>

\* Contention, or a capture that drifted; from "attest" the COMMIT already happened.
PublishBusy(p) ==
    /\ st[p].pc \in {"claimed", "prepared", "attest"} /\ Live(p) /\ Fault
    /\ st' = [st EXCEPT ![p].pc = "requeue",
                        ![p].before = IF st[p].pc = "claimed" THEN index.pin ELSE @]
    /\ UNCHANGED <<lock, incarnation, index, rows, wtx, rootNow, hist>>

\* Mutant: the head is not read again.
BugSameHead(p) == TRUE

\* The head is still the baseline of the attempt.
SameHead(p) == index.pin = st[p].before

\* requeue_busy_claim: only an unchanged head lets the same row be retried. A
\* changed head leaves it running and gives up the session.
Requeue(p) ==
    /\ st[p].pc = "requeue" /\ Live(p) /\ wtx = NoTx
    /\ LET i == st[p].job
           resolved == FailChangedRoot(p, st[p].inc)
       IN IF SameHead(p)
          THEN /\ rows' = [resolved EXCEPT ![i].state = "queued", ![i].claim = 0]
               /\ st' = [st EXCEPT ![p] = EndDrain(p, st[p].acked \/ st[p].cutoff # 0, {i})]
               /\ UNCHANGED lock
          ELSE /\ rows' = resolved
               /\ DropRetained(p)
    /\ UNCHANGED <<incarnation, index, wtx, rootNow, used, hist>>

\* The terminal row a cached completion stands for.
Terminal(row, out) ==
    [row EXCEPT !.state = IF out.err = "none" THEN "done" ELSE "failed",
                !.pin = out.pin, !.err = out.err]

\* After an acknowledgement: a drain stops at its one completion, unless it only
\* resolved a cached one or runs up to a CLI's release cutoff.
Acked(p) ==
    IF st[p].job # 0 /\ st[p].cutoff = 0
    THEN [EndDrain(p, TRUE, {}) EXCEPT !.slot = NoSlot]
    ELSE [st[p] EXCEPT !.pc = "drain", !.slot = NoSlot, !.job = 0,
                       !.before = NoPin, !.acked = TRUE]

\* finish_request_outcome: the row must still be held by this incarnation and a Done
\* pin must be the current head.
FinishRow(p) ==
    LET i == st[p].slot.row
        out == st[p].slot.out
    IN /\ wtx = NoTx /\ HeldByMe(p, i)
       /\ out.err = "none" => index.pin = out.pin
       /\ rows' = [rows EXCEPT ![i] = Terminal(@, out)]

\* retry_recorded_completion: a row that is already terminal must equal the cached
\* result.
Finish(p) ==
    /\ st[p].pc = "finish" /\ Live(p) /\ OwnSlot(p)
    /\ \/ FinishRow(p)
       \/ /\ st[p].slot.row \notin Unfinished
          /\ rows[st[p].slot.row].claim = st[p].inc
          /\ rows[st[p].slot.row] = Terminal(rows[st[p].slot.row], st[p].slot.out)
          /\ UNCHANGED rows
    /\ st' = [st EXCEPT ![p] = Acked(p)]
    /\ UNCHANGED <<lock, incarnation, index, wtx, rootNow, used, hist>>

\* Mutant: the watcher runs although a completion is cached.
BugKeepForRetry(p) ==
    [st[p] EXCEPT !.pc = "watch", !.job = 0, !.before = NoPin,
                  !.acked = FALSE, !.via = "kept"]

\* The tick ends with the session and the cached completion in place.
KeepForRetry(p) ==
    [st[p] EXCEPT !.pc = "lead", !.job = 0, !.before = NoPin,
                  !.acked = FALSE, !.via = "kept"]

\* The terminal write is busy, or committed with an error that its reread could
\* not resolve. The session and the cached completion are kept for the next tick;
\* a CLI at its release cutoff exits.
FinishBusy(p) ==
    /\ st[p].pc = "finish" /\ Live(p) /\ OwnSlot(p) /\ Fault
    /\ FinishRow(p) \/ UNCHANGED rows
    /\ IF st[p].cutoff = 0
       THEN st' = [st EXCEPT ![p] = KeepForRetry(p)] /\ UNCHANGED lock
       ELSE DropRetained(p)
    /\ UNCHANGED <<incarnation, index, wtx, rootNow, hist>>

\* A drain error that is not a retryable completion error drops the session: the
\* row, if any, stays as it is and a cached completion goes stale.
DrainFault(p) ==
    /\ \/ st[p].pc \in {"drain", "claimed", "prepared", "attest", "finish", "requeue"}
       \/ st[p].pc = "lead" /\ ~OwnSlot(p)
       \/ st[p].pc = "watch" /\ p \in Clis
    /\ Fault
    /\ DropRetained(p)
    /\ UNCHANGED <<incarnation, index, rows, wtx, rootNow, hist>>

\* reconcile_due: the watcher publishes an edited workspace, has nothing due, or
\* fails (a daemon keeps its session).
AfterWatch(p) ==
    IF st[p].cutoff # 0 /\ st[p].acked
    THEN DropRetained(p)
    ELSE st' = [st EXCEPT ![p].pc = "lead", ![p].acked = FALSE] /\ UNCHANGED lock

WatchPublish(p) ==
    /\ st[p].pc = "watch" /\ Live(p) /\ used.edits < MaxEdits
    /\ used' = [used EXCEPT !.edits = @ + 1]
    /\ Publish(p)
    /\ AfterWatch(p)
    /\ UNCHANGED <<incarnation, rows, wtx, rootNow, hist>>

WatchIdle(p) ==
    /\ st[p].pc = "watch" /\ (Live(p) \/ p \in Daemons)
    /\ AfterWatch(p)
    /\ UNCHANGED <<incarnation, index, rows, wtx, rootNow, used, hist>>

-----------------------------------------------------------------------------
(* The finite CLI command *)

OwnTerminal(p) == \A i \in st[p].local : i \notin Unfinished

\* A leading CLI whose row is done performs a bounded release: inventory, drain
\* up to the latest accepted row, inventory. A failed row ends it at once. A
\* completion it has cached is resolved first (retry_cli_recorded_completion).
CliRelease(p) ==
    /\ p \in Clis /\ st[p].pc = "lead" /\ Live(p) /\ st[p].cutoff = 0
    /\ OwnTerminal(p) /\ ~OwnSlot(p)
    /\ IF \E i \in st[p].local : rows[i].state = "failed"
       THEN DropRetained(p)
       ELSE /\ st' = [st EXCEPT ![p].pc = "watch", ![p].acked = FALSE,
                                ![p].cutoff = Len(rows)]
            /\ UNCHANGED lock
    /\ UNCHANGED <<incarnation, index, rows, wtx, rootNow, used, hist>>

\* A waiting CLI observes its terminal row, or a changed root, and exits.
CliExit(p) ==
    /\ p \in Clis /\ st[p].pc = "idle"
    /\ OwnTerminal(p) \/ ~Live(p)
    /\ st' = [st EXCEPT ![p] = Off]
    /\ UNCHANGED <<lock, incarnation, index, rows, wtx, rootNow, used, hist>>

-----------------------------------------------------------------------------
(* Root replacement *)

Electing == {"elected", "rebound", "h", "attestH"}
Draining == {"drain", "claimed", "prepared", "attest", "finish", "requeue"}

\* A RootLossOwnerLease protects leader_with_owner itself and, in queue_tick, the
\* whole takeover including its first drain.
Leased(p) ==
    \/ st[p].pc = "elected"
    \/ st[p].pc \in Electing /\ p \in Daemons /\ st[p].via \in {"empty", "pending"}
    \/ st[p].pc \in Draining /\ p \in Daemons /\ st[p].via = "pending"

\* The root-loss owner fails its own root's rows while it still holds EX.
RootLoss(p) ==
    /\ ~Live(p) /\ st[p].inc # 0 /\ wtx = NoTx
    /\ st[p].pc = "lead" \/ Leased(p)
    /\ rows' = FailChangedRoot(p, st[p].inc)
    /\ IF st[p].pc \in Electing THEN DropElected(p) ELSE DropRetained(p)
    /\ UNCHANGED <<incarnation, index, wtx, rootNow, used, hist>>

\* Elsewhere the first root check fails the step, and the session is dropped
\* without touching the queue.
RootError(p) ==
    /\ ~Live(p) /\ st[p].inc # 0
    /\ \/ st[p].pc \in Electing \cup Draining \cup {"swap"} /\ ~Leased(p)
       \/ st[p].pc = "watch" /\ p \in Clis
    /\ IF st[p].pc \in Electing \cup {"swap"} THEN DropElected(p) ELSE DropRetained(p)
    /\ UNCHANGED <<incarnation, index, rows, wtx, rootNow, used, hist>>

\* A follower of a replaced root gives up its session (and shared use lock).
FollowerRootLoss(p) ==
    /\ ~Live(p) /\ st[p].pc = "idle" /\ st[p].follows # 0
    /\ st' = [st EXCEPT ![p].follows = 0]
    /\ UNCHANGED <<lock, incarnation, index, rows, wtx, rootNow, used, hist>>

\* The registry retires a replaced runtime once its own root's queue is drained
\* and its flock is gone, and activates the new root.
Reopen(p) ==
    /\ p \in Daemons /\ ~Live(p) /\ st[p].pc \in {"start", "idle"}
    /\ lock # p /\ wtx.by # p
    /\ \A i \in Unfinished : rows[i].root # st[p].root
    /\ st' = [st EXCEPT ![p] = [Off EXCEPT !.pc = "start", !.root = rootNow]]
    /\ UNCHANGED <<lock, incarnation, index, rows, wtx, rootNow, used, hist>>

\* refresh_phase: the registry lets go of a session the scheduler already dropped.
PhaseRefresh(p) ==
    /\ lock = p /\ st[p].pc \in {"start", "idle"}
    /\ lock' = None
    /\ UNCHANGED <<incarnation, index, rows, wtx, rootNow, st, used, hist>>

\* recreate_pending_leader_session, first scope: a short-lived leader of the new
\* root fails every older row while the old index is still in place.
RecreateFail(p) ==
    /\ FlockFree /\ Live(p) /\ index.root # st[p].root /\ wtx = NoTx
    /\ incarnation < MaxRetries
    /\ \/ st[p].pc = "start"
       \/ st[p].pc = "idle" /\ PendingLocal(p)
    /\ incarnation' = incarnation + 1
    /\ rows' = FailChangedRoot(p, incarnation + 1)
    /\ st' = [st EXCEPT ![p].pc = "recreate", ![p].follows = 0,
                        ![p].via = IF st[p].pc = "start" THEN "start" ELSE "kept"]
    /\ UNCHANGED <<lock, index, wtx, rootNow, used, hist>>

\* Second scope: exclusive use of the index (no other session) and a new leader.
Unused(p) == \A q \in Proc \ {p} : st[q].inc = 0 /\ st[q].follows = 0

RecreateTake(p) ==
    /\ st[p].pc = "recreate" /\ Live(p)
    /\ FlockFree /\ Unused(p) /\ index.root # st[p].root
    /\ lock' = p
    /\ incarnation' = incarnation + 1
    /\ st' = [st EXCEPT ![p].pc = "swap", ![p].inc = incarnation + 1]
    /\ UNCHANGED <<index, rows, wtx, rootNow, used, hist>>

\* Busy, already recreated by another process, or the root moved again.
RecreateDefer(p) ==
    /\ st[p].pc = "recreate"
    /\ ~FlockFree \/ ~Unused(p) \/ ~Live(p) \/ index.root = st[p].root
    /\ st' = [st EXCEPT ![p].pc = Back(p)]
    /\ UNCHANGED <<lock, incarnation, index, rows, wtx, rootNow, used, hist>>

\* Mutant: the staged index keeps the generation.
BugFreshHead == [gen |-> index.pin.gen, rev |-> 1]

\* The head of a staged index.
FreshHead == [gen |-> index.pin.gen + 1, rev |-> 1]

\* The staged index replaces the old one: a new generation at revision one.
Swap(p) ==
    /\ st[p].pc = "swap" /\ Live(p) /\ index.root # st[p].root
    /\ index' = [pin |-> FreshHead, marker |-> st[p].inc, root |-> st[p].root]
    /\ hist' = [hist EXCEPT !.hs = @ \cup {st[p].inc}]
    /\ st' = [st EXCEPT ![p].pc = "attestH"]
    /\ UNCHANGED <<lock, incarnation, rows, wtx, rootNow, used>>

-----------------------------------------------------------------------------
Elect(p) ==
    \/ TakeLock(p) \/ Follow(p) \/ FollowRefused(p) \/ WriteIncarnation(p)
    \/ Rebind(p) \/ ResolveRoots(p) \/ CommitH(p) \/ AttestH(p)

Drain(p) ==
    \/ DrainStart(p) \/ (\E i \in DOMAIN rows : Claim(p, i)) \/ ClaimNone(p)
    \/ ClaimForeign(p) \/ Prepare(p) \/ PublishCommit(p) \/ AttestJob(p)
    \/ Requeue(p) \/ Finish(p) \/ WatchPublish(p) \/ WatchIdle(p)
    \/ CliRelease(p) \/ CliExit(p)

RootChange(p) ==
    \/ RootLoss(p) \/ RootError(p) \/ FollowerRootLoss(p) \/ Reopen(p)
    \/ RecreateFail(p) \/ RecreateTake(p) \/ RecreateDefer(p) \/ Swap(p)

\* What the code does on its own.
Step(p) == Elect(p) \/ Drain(p) \/ RootChange(p) \/ PhaseRefresh(p)

\* Storage errors.
Faulty(p) ==
    \/ ElectionFault(p) \/ AmbiguousH(p) \/ PublishFailed(p) \/ PublishBusy(p)
    \/ FinishBusy(p) \/ DrainFault(p)

EnqueueEnd(p) == EnqueueCommit(p) \/ EnqueueLost(p)

Next ==
    \/ MoveRoot
    \/ \E p \in Proc : \/ Start(p) \/ Crash(p) \/ EnqueueBegin(p) \/ EnqueueEnd(p)
                       \/ Step(p) \/ Faulty(p)

Spec == Init /\ [][Next]_vars

\* Every process keeps executing its ticks and loops, an open enqueue transaction
\* ends, and a dead daemon is launched again by the next client.
Fairness ==
    /\ \A p \in Proc : WF_vars(Step(p)) /\ WF_vars(EnqueueEnd(p))
    /\ \A p \in Daemons : WF_vars(Start(p))

FairSpec == Spec /\ Fairness

-----------------------------------------------------------------------------
(* Properties *)

IsTerminal(row) == row.state \in {"done", "failed"}

\* A leader session exists in at most one process, under the flock, and leader.lock
\* names its incarnation (LeaderGuard::verify can only fail by outside damage).
LeaderFenced ==
    \A p \in Proc : st[p].inc # 0 => lock = p /\ incarnation = st[p].inc

\* FIFO: a row is claimed, acknowledged or failed by its own work only after every
\* earlier accepted row is terminal (claim_request takes the earliest unfinished).
FifoOrder ==
    \A j \in DOMAIN rows :
        (rows[j].state \in {"running", "done"} \/ rows[j].err \in {"revision_conflict", "index_failed"})
        => \A i \in 1..(j - 1) : IsTerminal(rows[i])

\* No row is claimed by an incarnation that has not committed its mandatory H.
ClaimAfterH ==
    \A i \in DOMAIN rows :
        rows[i].claim # 0 /\ rows[i].err # "root_changed" => rows[i].claim \in hist.hs

\* Claims are in order: FIFO, and never ahead of the claimer's own H.
ClaimsInOrder == FifoOrder /\ ClaimAfterH

\* One incarnation publishes at most once for a row, whatever errors it sees.
OnePublication ==
    \A a, b \in hist.pubs : a.row = b.row /\ a.inc = b.inc => a = b

\* A done row names the very revision its acknowledging incarnation published for it.
DoneOwnPublication ==
    \A i \in DOMAIN rows : rows[i].state = "done" =>
        [row |-> i, inc |-> rows[i].claim, pin |-> rows[i].pin] \in hist.pubs

\* Acknowledged revisions follow the queue order, and no two rows share one.
AckedPinsGrow ==
    \A i, j \in DOMAIN rows :
        i < j /\ rows[i].state = "done" /\ rows[j].state = "done"
        => AtLeast(rows[j].pin, rows[i].pin) /\ rows[j].pin # rows[i].pin

\* A request with an expected pin is done only as that pin's immediate successor.
ExpectedHonoured ==
    \A i \in DOMAIN rows :
        rows[i].state = "done" /\ rows[i].want # NoPin => rows[i].pin = Next1(rows[i].want)

\* The pins a client was promised: acknowledged revisions grow along the queue, and a
\* compare-and-set request is acknowledged only as its expected pin's successor.
PinsHonoured == AckedPinsGrow /\ ExpectedHonoured

\* While its leader holds the lock, a cached success can always be written: the row
\* is still that leader's and the head is still the cached pin.
CachedCompletionValid ==
    \A p \in Proc :
        st[p].inc # 0 /\ OwnSlot(p) /\ st[p].slot.row \in Unfinished =>
            /\ HeldByMe(p, st[p].slot.row)
            /\ st[p].slot.out.err = "none" => index.pin = st[p].slot.out.pin

\* A request's work is published once and acknowledged as published, across lost
\* COMMIT replies, retries of the cached completion and reclaims.
PublishedOnce == OnePublication /\ DoneOwnPublication /\ CachedCompletionValid

\* Accepted rows are never removed, and a terminal row never changes.
TerminalStable ==
    [][/\ Len(rows') >= Len(rows)
       /\ \A i \in DOMAIN rows : IsTerminal(rows[i]) => rows'[i] = rows[i]]_vars

\* Work is published for a row only into the index of the row's own root, while the
\* pathname still names that root.
PublishedUnderOwnRoot ==
    [][\A u \in hist'.pubs \ hist.pubs :
        rows[u.row].root = index.root /\ index.root = rootNow]_vars

\* What a client can see of the queue.
RequestView ==
    [i \in DOMAIN rows |->
        [root |-> rows[i].root,
         answer |-> IF rows[i].state \in {"queued", "running"} THEN "open" ELSE rows[i].state]]

RQ == INSTANCE RequestQueue WITH RootIds <- 1..MaxRoots, queue <- RequestView

\* The durable queue implements the promise made to its clients: claims, requeues
\* and reclaims are invisible, answers come in order, and only a root change fails
\* rows out of order.
RefinesRequestQueue == RQ!Spec

\* Every accepted request reaches a terminal state.
EveryRequestFinishes ==
    \A i \in 1..MaxRows : (i \in DOMAIN rows) ~> (i \in DOMAIN rows /\ IsTerminal(rows[i]))

\* "A pre-COMMIT error must not strand an empty FIFO with serving_session=None"
\* (queue_tick): a running daemon whose checkout is intact gets a session again.
ServingResumes ==
    \A p \in Daemons :
        []<>(st[p].pc \in {"lead", "watch"} \cup Draining \/ st[p].follows # 0)

\* "Accepted FIFO work must reach root_changed while an old-owner EX still exists"
\* (queue_tick): an owner that loses its root resolves its rows before it lets go.
RootLossResolvesRows ==
    [][\A p \in Proc :
        /\ st[p].pc \in {"lead", "watch"} \cup Draining
        /\ ~Live(p) /\ st'[p].inc = 0 /\ used'.crashes = used.crashes
        => \A i \in DOMAIN rows : rows[i].root = st[p].root => IsTerminal(rows'[i])]_vars

\* The commands are alike: for TLC, states that differ by a renaming of them are one.
CliSymmetry == Permutations(Clis)

=============================================================================
