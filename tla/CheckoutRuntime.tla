--------------------------- MODULE CheckoutRuntime ---------------------------
(***************************************************************************)
(* The life of one checkout in the daemon (src/src/daemon/registry.rs):    *)
(* activation starts a worker that runs the mandatory reconciliation H and *)
(* retries it with a backoff, readers admit evidence from the runtime, and *)
(* the lifecycle releases an idle runtime after probing it.  The worker,   *)
(* the readers and the release share atomics (active, h_in_flight,         *)
(* retry_waiting, active_reads, epoch) and a phase mutex, and take the     *)
(* mutex for part of their steps only.                                     *)
(*                                                                         *)
(* A released checkout may be activated again: a new runtime object is     *)
(* made, while readers may still hold the old one.  What an admission      *)
(* proves about the index is module EvidenceRead; here an admission        *)
(* succeeds or fails, and what matters is whose runtime it is.             *)
(***************************************************************************)
EXTENDS Naturals, FiniteSets

CONSTANTS
    Readers,   \* calls that may be in flight at once
    MaxRuns    \* bound on the runtimes made for this checkout

Runs == 1..MaxRuns

Worker == {"none", "start", "run", "retain", "ready", "clear", "fail", "wait", "unarm", "sleep", "done"}

VARIABLES
    rt,       \* the runtimes made so far
    cur,      \* CheckoutRegistry::runtimes: the registered runtime, 0 when none
    attached, \* a session or browser client is attached
    queue,    \* an unfinished request row
    lost,     \* the root path has been replaced
    rel,      \* the release in progress (it holds the registry lock)
    rd,       \* the calls
    permit    \* idle_permits: a predecessor permit is kept for the next activation

vars == <<rt, cur, attached, queue, lost, rel, rd, permit>>

Fresh == [phase |-> "reconciling", active |-> FALSE, h |-> FALSE, retry |-> FALSE, reads |-> 0,
          epoch |-> 1, resources |-> FALSE, serving |-> FALSE, slot |-> FALSE,
          permit |-> FALSE, wk |-> "none"]

NoCall == [pc |-> "idle", run |-> 0, epoch |-> 0, kind |-> "strict"]

Init ==
    /\ rt = [g \in Runs |-> Fresh]
    /\ cur = 0 /\ attached = FALSE /\ queue = FALSE /\ lost = FALSE
    /\ rel = [pc |-> "idle", run |-> 0]
    /\ rd = [r \in Readers |-> NoCall]
    /\ permit = FALSE

Made == {g \in Runs : rt[g].wk # "none"}

\* The phase mutex: only the release keeps it over several steps.
PhaseFree(g) == ~(rel.run = g /\ rel.pc \in {"bump", "commit"})

\* refresh_phase: the scheduler's verified owner makes the phase, unless the
\* runtime is Transitional.
Refreshed(g) == IF rt[g].phase = "transitional" THEN "transitional"
                ELSE IF rt[g].serving THEN "ready" ELSE "reconciling"

RootLossRetired(g) == lost /\ ~rt[g].serving

QueuePending == queue

CatchingUp(g) ==
    \/ ~rt[g].resources
    \/ rt[g].h
    \/ IF RootLossRetired(g) THEN QueuePending
       ELSE Refreshed(g) # "ready" \/ QueuePending

(***************************************************************************)
(* Clients and activation, under the registry lock                         *)
(***************************************************************************)
RegistryFree == rel.pc = "idle"

Attach ==
    /\ RegistryFree /\ ~attached
    /\ attached' = TRUE
    /\ UNCHANGED <<rt, cur, queue, lost, rel, rd, permit>>

Disconnect ==
    /\ RegistryFree /\ attached
    /\ attached' = FALSE
    /\ UNCHANGED <<rt, cur, queue, lost, rel, rd, permit>>

\* activate: a kept permit and its epoch counter go to the new runtime, which
\* is made for the root that the path names now.
Activate ==
    /\ RegistryFree /\ attached /\ cur = 0
    /\ \E g \in Runs :
        /\ g = Cardinality(Made) + 1
        /\ cur' = g
        /\ rt' = [rt EXCEPT ![g] = [Fresh EXCEPT !.active = TRUE, !.h = TRUE, !.resources = TRUE,
                                    !.permit = permit, !.wk = "start",
                                    !.epoch = IF permit THEN rt[g - 1].epoch ELSE 1]]
    /\ permit' = FALSE
    /\ lost' = FALSE
    /\ UNCHANGED <<attached, queue, rel, rd>>

Enqueue ==
    /\ attached /\ cur # 0 /\ ~lost
    /\ queue' = TRUE
    /\ UNCHANGED <<rt, cur, attached, lost, rel, rd, permit>>

LoseRoot ==
    /\ cur # 0 /\ ~lost
    /\ lost' = TRUE
    /\ UNCHANGED <<rt, cur, attached, queue, rel, rd, permit>>

(***************************************************************************)
(* The worker of `start` and `reconcile`                                   *)
(***************************************************************************)
rest == <<cur, attached, queue, lost, rel, rd, permit>>

\* A kept permit elects through leader_for_idle_reattach and makes the runtime
\* Transitional; contention or another refusal leaves it Reconciling.
Reattach(g) ==
    /\ rt[g].wk = "start" /\ PhaseFree(g)
    /\ \E p \in IF rt[g].permit THEN {"transitional", "reconciling"} ELSE {rt[g].phase} :
        rt' = [rt EXCEPT ![g].wk = "run", ![g].phase = p]
    /\ UNCHANGED rest

\* The elected owner associates itself with the predecessor before its H.
Associate(g) ==
    /\ rt[g].wk = "run" /\ ~rt[g].slot
    /\ rt' = [rt EXCEPT ![g].slot = TRUE]
    /\ UNCHANGED rest

\* H committed; its attestation withdraws the association.
HCommits(g) ==
    /\ rt[g].wk = "run" /\ ~lost
    /\ rt' = [rt EXCEPT ![g].wk = "retain", ![g].slot = FALSE]
    /\ UNCHANGED rest

HFails(g) ==
    /\ rt[g].wk = "run"
    /\ rt' = [rt EXCEPT ![g].wk = "fail"]
    /\ UNCHANGED <<cur, attached, queue, lost, rel, rd, permit>>

RetainServing(g) ==
    /\ rt[g].wk = "retain"
    /\ rt' = [rt EXCEPT ![g].wk = IF rt[g].resources THEN "ready" ELSE "done",
                        ![g].serving = rt[g].resources]
    /\ UNCHANGED rest

BecomeReady(g) ==
    /\ rt[g].wk = "ready" /\ PhaseFree(g)
    /\ rt' = [rt EXCEPT ![g].wk = "clear", ![g].phase = "ready"]
    /\ UNCHANGED rest

ClearH(g) ==
    /\ rt[g].wk = "clear"
    /\ rt' = [rt EXCEPT ![g].wk = "done", ![g].h = FALSE]
    /\ UNCHANGED rest

\* revoke_restricted_predecessor, then retire_lost_root_h: a Transitional owner
\* fails the old root's requests first, any other one needs an empty queue.
AfterFailure(g) ==
    /\ rt[g].wk = "fail" /\ PhaseFree(g)
    /\ \/ /\ lost
          /\ rt[g].phase = "transitional" \/ ~queue
          /\ queue' = FALSE
          /\ rt' = [rt EXCEPT ![g].wk = "done", ![g].slot = FALSE, ![g].h = FALSE,
                              ![g].phase = "reconciling"]
       \/ /\ ~lost \/ queue
          /\ rt' = [rt EXCEPT ![g].wk = "wait", ![g].slot = FALSE]
          /\ UNCHANGED queue
    /\ UNCHANGED <<cur, attached, lost, rel, rd, permit>>

\* retry_waiting is stored before h_in_flight is cleared.
RetryWaiting(g) ==
    /\ rt[g].wk = "wait"
    /\ rt' = [rt EXCEPT ![g].wk = "unarm", ![g].retry = TRUE]
    /\ UNCHANGED rest

Unarm(g) ==
    /\ rt[g].wk = "unarm"
    /\ rt' = [rt EXCEPT ![g].wk = "sleep", ![g].h = FALSE]
    /\ UNCHANGED rest

\* The backoff is over: re-arm under the phase lock, or end when released.
Rearm(g) ==
    /\ rt[g].wk = "sleep" /\ PhaseFree(g)
    /\ rt' = IF rt[g].active THEN [rt EXCEPT ![g].wk = "start", ![g].h = TRUE, ![g].retry = FALSE]
                             ELSE [rt EXCEPT ![g].wk = "done"]
    /\ UNCHANGED rest

WorkerStep(g) ==
    \/ Reattach(g) \/ HCommits(g) \/ HFails(g) \/ RetainServing(g) \/ BecomeReady(g)
    \/ ClearH(g) \/ AfterFailure(g) \/ RetryWaiting(g) \/ Unarm(g) \/ Rearm(g)

(***************************************************************************)
(* The queue tick of the runtime's scheduler                               *)
(***************************************************************************)

\* A serving leader drains the queue; a lost root ends its requests and its
\* session; a lost session is won again by the tick's own takeover.
QueueTick(g) ==
    /\ rt[g].active /\ rt[g].resources /\ rt[g].wk \in {"ready", "clear", "done"}
    /\ \/ rt[g].serving /\ ~lost /\ queue /\ queue' = FALSE /\ UNCHANGED rt
       \/ rt[g].serving /\ lost /\ queue' = FALSE /\ rt' = [rt EXCEPT ![g].serving = FALSE]
       \/ ~rt[g].serving /\ ~lost /\ rt[g].wk = "done" /\ UNCHANGED queue
          /\ rt' = [rt EXCEPT ![g].serving = TRUE]
    /\ UNCHANGED <<cur, attached, lost, rel, rd, permit>>

\* Another process took the leader lock.
LoseServing(g) ==
    /\ rt[g].serving
    /\ rt' = [rt EXCEPT ![g].serving = FALSE]
    /\ UNCHANGED <<cur, attached, queue, lost, rel, rd, permit>>

(***************************************************************************)
(* release_runtime                                                         *)
(***************************************************************************)

\* release: refresh_pending_work and the clients, then release_runtime.
ReleaseBegins ==
    /\ RegistryFree /\ cur # 0 /\ ~attached
    /\ ~(CatchingUp(cur) /\ ~rt[cur].retry) /\ rt[cur].reads = 0 /\ ~QueuePending
    /\ rel' = [pc |-> "probe", run |-> cur]
    /\ UNCHANGED <<rt, cur, attached, queue, lost, rd, permit>>

\* The first look, without the phase lock held throughout.
ReleaseProbe ==
    /\ rel.pc = "probe"
    /\ LET x == rt[rel.run]
           busy == x.h \/ (CatchingUp(rel.run) /\ ~x.retry) \/ x.reads # 0 \/ QueuePending
       IN  rel' = [rel EXCEPT !.pc = IF busy THEN "idle" ELSE "gate"]
    /\ UNCHANGED <<rt, cur, attached, queue, lost, rd, permit>>

\* Mutant: the gate trusts the first look.
BugReleaseGate ==
    /\ rel.pc = "gate"
    /\ rt' = [rt EXCEPT ![rel.run].phase = Refreshed(rel.run)]
    /\ rel' = [rel EXCEPT !.pc = "bump"]
    /\ UNCHANGED <<cur, attached, queue, lost, rd, permit>>

\* The second look, under the phase lock, which is kept when it succeeds.
ReleaseGate ==
    /\ rel.pc = "gate"
    /\ LET x == rt[rel.run]
           p == Refreshed(rel.run)
           busy == x.h \/ (p = "transitional" /\ ~x.retry) \/ x.reads # 0
       IN  /\ rt' = [rt EXCEPT ![rel.run].phase = p]
           /\ rel' = [rel EXCEPT !.pc = IF busy THEN "idle" ELSE "bump"]
    /\ UNCHANGED <<cur, attached, queue, lost, rd, permit>>

ReleaseBump ==
    /\ rel.pc = "bump"
    /\ rt' = [rt EXCEPT ![rel.run].epoch = @ + 1]
    /\ rel' = [rel EXCEPT !.pc = "commit"]
    /\ UNCHANGED <<cur, attached, queue, lost, rd, permit>>

\* A Ready leader leaves a permit, if it can be minted; then `active` goes, the
\* scheduler stops, the resources and the registration are dropped.
ReleaseCommit ==
    /\ rel.pc = "commit"
    /\ \E minted \in {FALSE, rt[rel.run].phase = "ready" /\ rt[rel.run].serving} :
        permit' = minted
    /\ rt' = [rt EXCEPT ![rel.run].active = FALSE, ![rel.run].serving = FALSE,
                        ![rel.run].slot = FALSE,
                        ![rel.run].resources = FALSE, ![rel.run].phase = "reconciling"]
    /\ cur' = 0
    /\ rel' = [pc |-> "idle", run |-> 0]
    /\ UNCHANGED <<attached, queue, lost, rd>>

(***************************************************************************)
(* Calls: evidence_response and the guard CheckoutEvidence                 *)
(***************************************************************************)
restRead == <<cur, attached, queue, lost, rel, permit>>

Call(r) ==
    /\ rd[r].pc = "idle" /\ attached /\ cur # 0 /\ RegistryFree
    /\ rd' = [rd EXCEPT ![r] = [pc |-> "admit", run |-> cur, epoch |-> 0, kind |-> "strict"]]
    /\ UNCHANGED <<rt, restRead>>

Refuse(r) == rd' = [rd EXCEPT ![r] = NoCall]

\* Under the phase lock: admitted and counted, or refused for want of a ready
\* index, in which case a call with a predecessor of this epoch looks for a
\* restricted owner without the lock.
Admit(r) ==
    /\ rd[r].pc = "admit" /\ PhaseFree(rd[r].run)
    /\ LET g == rd[r].run IN
       IF ~rt[g].active \/ ~rt[g].resources THEN Refuse(r) /\ UNCHANGED rt
       ELSE \/ /\ rt[g].serving \/ rt[g].phase = "transitional"
               /\ rt' = [rt EXCEPT ![g].phase = Refreshed(g), ![g].reads = @ + 1]
               /\ rd' = [rd EXCEPT ![r].pc = "held"]
            \/ /\ ~rt[g].serving
               /\ rt' = [rt EXCEPT ![g].phase = Refreshed(g)]
               /\ \/ Refuse(r)
                  \/ rd' = [rd EXCEPT ![r].pc = "wait", ![r].epoch = rt[g].epoch]
    /\ UNCHANGED restRead

\* After the wait: the runtime must still be active in the captured epoch.
Recheck(r) ==
    /\ rd[r].pc = "wait"
    /\ LET x == rt[rd[r].run] IN
       IF x.active /\ x.epoch = rd[r].epoch
       THEN rd' = [rd EXCEPT ![r].pc = "restricted"]
       ELSE Refuse(r)
    /\ UNCHANGED <<rt, restRead>>

\* restricted_predecessor_read, with the association it finds.
ReadPredecessor(r) ==
    /\ rd[r].pc = "restricted"
    /\ IF rt[rd[r].run].slot
       THEN rd' = [rd EXCEPT ![r].pc = "got", ![r].kind = "restricted"]
       ELSE Refuse(r)
    /\ UNCHANGED <<rt, restRead>>

\* The counter of a restricted read is raised outside the phase lock.
CountRead(r) ==
    /\ rd[r].pc = "got"
    /\ rt' = [rt EXCEPT ![rd[r].run].reads = @ + 1]
    /\ rd' = [rd EXCEPT ![r].pc = "held"]
    /\ UNCHANGED restRead

\* finish: a restricted fence wants its epoch, a strict one the store that
\* admitted it (the rest of the fences, which only refuse more, is in EvidenceRead).
Finish(r) ==
    /\ rd[r].pc = "held"
    /\ LET x == rt[rd[r].run]
           ok == IF rd[r].kind = "restricted"
                 THEN x.epoch = rd[r].epoch ELSE TRUE
       IN  rd' = [rd EXCEPT ![r].pc = IF ok THEN "answer" ELSE "drop"]
    /\ UNCHANGED <<rt, restRead>>

\* The guard is dropped after the answer, or after the refusal.
DropGuard(r) ==
    /\ rd[r].pc \in {"answer", "drop"}
    /\ rt' = [rt EXCEPT ![rd[r].run].reads = @ - 1]
    /\ rd' = [rd EXCEPT ![r] = NoCall]
    /\ UNCHANGED restRead

ReadStep(r) ==
    Admit(r) \/ Recheck(r) \/ ReadPredecessor(r) \/ CountRead(r) \/ Finish(r) \/ DropGuard(r)

ReleaseStep == ReleaseProbe \/ ReleaseGate \/ ReleaseBump \/ ReleaseCommit

Next ==
    \/ Attach \/ Disconnect \/ Activate \/ Enqueue \/ LoseRoot
    \/ \E g \in Runs : WorkerStep(g) \/ Associate(g) \/ QueueTick(g) \/ LoseServing(g)
    \/ ReleaseBegins \/ ReleaseStep
    \/ \E r \in Readers : Call(r) \/ ReadStep(r)

Spec == Init /\ [][Next]_vars

(***************************************************************************)
(* Properties                                                              *)
(***************************************************************************)

TypeOK ==
    /\ rt \in [Runs -> [phase : {"reconciling", "transitional", "ready"}, active : BOOLEAN,
                        h : BOOLEAN, retry : BOOLEAN, reads : 0..Cardinality(Readers),
                        epoch : 1..(MaxRuns + 1), resources : BOOLEAN, serving : BOOLEAN,
                        slot : BOOLEAN, permit : BOOLEAN, wk : Worker]]
    /\ cur \in 0..MaxRuns
    /\ rel \in [pc : {"idle", "probe", "gate", "bump", "commit"}, run : 0..MaxRuns]
    /\ rd \in [Readers -> [pc : {"idle", "admit", "wait", "restricted", "got", "held", "answer", "drop"},
                           run : 0..MaxRuns, epoch : 0..(MaxRuns + 1),
                           kind : {"strict", "restricted"}]]

\* A released runtime runs no reconciliation and never will: its worker has
\* ended or is in the backoff that ends it (registry.rs:1704, "Re-arm only
\* under the phase lock, paired with release's final gate").
ReleasedIsQuiet ==
    \A g \in Made : ~rt[g].active => rt[g].wk \in {"sleep", "done"} /\ ~rt[g].h /\ ~rt[g].serving

\* One runtime of a checkout works at a time: a worker that reconciles belongs
\* to the registered runtime.
OneWorker ==
    \A g \in Made : rt[g].wk \in {"start", "run", "retain", "ready"} => cur = g

\* "idle release cannot drop its owner before this guard drops": a strictly
\* admitted read keeps its runtime.
StrictReadPins ==
    \A r \in Readers : rd[r].pc \in {"held", "answer"} /\ rd[r].kind = "strict"
                           => rt[rd[r].run].active /\ cur = rd[r].run

\* A call that answers did so from a runtime that had not been released when
\* its fence was checked, also when its counter came too late to pin it.
AnswersAlive ==
    \A r \in Readers :
       rd[r].pc = "held" /\ rd'[r].pc = "answer" => rt[rd[r].run].active

=============================================================================
