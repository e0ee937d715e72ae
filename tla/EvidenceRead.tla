---------------------------- MODULE EvidenceRead ----------------------------
(***************************************************************************)
(* Reads of one checkout's index against takeovers and publications.       *)
(*                                                                         *)
(* A read takes one SQLite snapshot, then proves twice (before and after   *)
(* it assembles the answer) that a leader is alive and that the lock file  *)
(* still carries the incarnation that reconciled the snapshot.  Readers    *)
(* prove liveness by trying to take the leader's flock themselves.  While  *)
(* a successor revalidates the index, a process that finished a read of    *)
(* the predecessor may serve that revision under a restricted permit.      *)
(***************************************************************************)
EXTENDS Naturals

CONSTANTS Procs,      \* processes that may lead
          Readers,    \* those that also read, one read at a time
          Followers,  \* readers elsewhere, of which only the probe is felt here
          None,       \* no process
          MaxInc,     \* bound: leader incarnations written
          MaxRev,     \* bound: published revisions
          MaxEpoch    \* bound: idle releases of a process, plus one

VARIABLES lock,    \* leader that holds the flock on leader.lock, or None
          probe,   \* reader whose liveness probe holds that flock, or None
          file,    \* incarnation in leader.lock; 0 while it is being rewritten
          incs,    \* incarnations issued so far (UUIDs are only compared)
          head,    \* index_metadata: published revision and reconciled marker
          hs,      \* history: incarnations whose reconciliation H committed
          st,      \* each process: its Store and its leader session
          rd       \* each process: the read in progress

vars == <<lock, probe, file, incs, head, hs, st, rd>>

\* PreHReadPermit: the predecessor's pin and incarnation, and the epoch it was made in.
Permits  == [rev : Nat, pred : Nat, epoch : Nat]
NoPermit == [rev |-> 0, pred |-> 0, epoch |-> 0]

\* none: no session.  pend: admission interval open.  won, trunc, inc: the flock is held and the
\* file is rewritten.  assoc, bound, serve: leader_with_owner.  trans: idle reattachment.
\* h: reconciliation committed.  att: attested.
Stages == {"none", "pend", "won", "trunc", "inc", "assoc", "bound", "serve", "trans", "h", "att"}
Holding == Stages \ {"none", "pend"}

Stores == [stage : Stages, via : {"elect", "reattach"}, inc : Nat, pred : Nat,
           latch : BOOLEAN, epoch : Nat, permit : Permits, idle : Permits,
           slot : Permits, pending : BOOLEAN, assoc : BOOLEAN]

ReadPCs == {"idle", "latch", "file", "probe0", "held", "read1", "probe", "read2", "use",
            "refused", "wait", "woken", "pre1", "pre2", "preEnd", "done"}

Reads == [pc : ReadPCs, pre : BOOLEAN, rev : Nat, marker : Nat, seen : Nat,
          left : 0..2, last : BOOLEAN, retried : BOOLEAN, own : Nat, epoch : Nat]

Idle == [pc |-> "idle", pre |-> FALSE, rev |-> 0, marker |-> 0, seen |-> 0, left |-> 0,
         last |-> FALSE, retried |-> FALSE, own |-> 0, epoch |-> 0]

Fresh == [stage |-> "none", via |-> "elect", inc |-> 0, pred |-> 0, latch |-> FALSE,
          epoch |-> 1, permit |-> NoPermit, idle |-> NoPermit, slot |-> NoPermit,
          pending |-> FALSE, assoc |-> FALSE]

TypeOK ==
    /\ lock \in Procs \cup {None} /\ probe \in Procs \cup Followers \cup {None}
    /\ file \in Nat /\ incs \in Nat
    /\ head \in [rev : Nat, marker : Nat] /\ hs \subseteq Nat
    /\ st \in [Procs -> Stores]
    /\ rd \in [Procs -> Reads]

\* Revision 1 was reconciled by incarnation 1, whose process has exited.
Init ==
    /\ lock = None /\ probe = None
    /\ file = 1 /\ incs = 1
    /\ head = [rev |-> 1, marker |-> 1] /\ hs = {1}
    /\ st = [p \in Procs |-> Fresh]
    /\ rd = [p \in Procs |-> Idle]

FlockFree == lock = None /\ probe = None

\* LeaderGuard::verify: this process's session still owns the file.
SessionOk(p) == st[p].stage \in Holding /\ file = st[p].inc
-----------------------------------------------------------------------------
(* Leadership.                                                              *)

\* leader_with_owner opens the read-admission interval before it asks for the flock.
OpenValidation(p) ==
    /\ st[p].stage = "none" /\ incs < MaxInc
    /\ st' = [st EXCEPT ![p].stage = "pend", ![p].via = "elect",
                        ![p].pending = TRUE, ![p].assoc = FALSE]
    /\ UNCHANGED <<lock, probe, file, incs, head, hs, rd>>

\* The idle permit of an earlier release asks for the flock without that interval.
OpenReattach(p) ==
    /\ st[p].stage = "none" /\ st[p].idle # NoPermit /\ incs < MaxInc
    /\ st' = [st EXCEPT ![p].stage = "pend", ![p].via = "reattach"]
    /\ UNCHANGED <<lock, probe, file, incs, head, hs, rd>>

\* Mutant: the interval is left open.
BugClosed(s) == s

\* The lease's Drop: every exit from leader_with_owner ends the interval.
Closed(s) == [s EXCEPT !.pending = FALSE, !.assoc = FALSE]

\* flock(LOCK_EX | LOCK_NB) succeeds; the predecessor is read before the file is rewritten.
TakeLock(p) ==
    /\ st[p].stage = "pend" /\ FlockFree
    /\ lock' = p
    /\ st' = [st EXCEPT ![p].stage = "won", ![p].pred = file]
    /\ UNCHANGED <<probe, file, incs, head, hs, rd>>

\* The flock is taken, by a leader or by a reader's probe: storage_busy.
LockBusy(p) ==
    /\ st[p].stage = "pend" /\ ~FlockFree
    /\ st' = [st EXCEPT ![p] = [Closed(st[p]) EXCEPT !.stage = "none"]]
    /\ UNCHANGED <<lock, probe, file, incs, head, hs, rd>>

Truncate(p) ==
    /\ st[p].stage = "won"
    /\ file' = 0
    /\ st' = [st EXCEPT ![p].stage = "trunc"]
    /\ UNCHANGED <<lock, probe, incs, head, hs, rd>>

WriteInc(p) ==
    /\ st[p].stage = "trunc"
    /\ incs' = incs + 1 /\ file' = incs + 1
    /\ st' = [st EXCEPT ![p].stage = "inc", ![p].inc = incs + 1]
    /\ UNCHANGED <<lock, probe, head, hs, rd>>

\* A session is given up: the flock is released and its association ends.
Dropped(s) == [Closed(s) EXCEPT !.stage = "none", !.inc = 0, !.pred = 0, !.slot = NoPermit]

\* The latch closes; the predecessor permit is associated when nobody led in between.
Associate(p) ==
    /\ st[p].stage = "inc" /\ st[p].via = "elect"
    /\ LET match == /\ st[p].permit # NoPermit
                    /\ st[p].permit.pred = st[p].pred
                    /\ st[p].permit.epoch = st[p].epoch
       IN  st' = [st EXCEPT ![p].stage = "assoc", ![p].latch = TRUE,
                            ![p].slot = IF match THEN st[p].permit ELSE @,
                            ![p].assoc = match]
    /\ UNCHANGED <<lock, probe, file, incs, head, hs, rd>>

\* leader_for_idle_reattach: an intervening leader refuses the permit and drops the flock.
Reattach(p) ==
    /\ st[p].stage = "inc" /\ st[p].via = "reattach"
    /\ IF st[p].pred = st[p].idle.pred
       THEN /\ st' = [st EXCEPT ![p].stage = "trans", ![p].latch = TRUE]
            /\ UNCHANGED lock
       ELSE /\ st' = [st EXCEPT ![p] = Dropped(st[p])]
            /\ lock' = None
    /\ UNCHANGED <<probe, file, incs, head, hs, rd>>

\* The head is bound to the new incarnation, before any reconciliation.
Rebind(p) ==
    /\ st[p].stage = "assoc"
    /\ head' = [head EXCEPT !.marker = st[p].inc]
    /\ st' = [st EXCEPT ![p].stage = "bound"]
    /\ UNCHANGED <<lock, probe, file, incs, hs, rd>>

\* leader_with_owner returns: the latch opens and the admission interval ends.
Owned(p) ==
    /\ st[p].stage = "bound"
    /\ st' = [st EXCEPT ![p] = [Closed(st[p]) EXCEPT !.stage = "serve", !.latch = FALSE]]
    /\ UNCHANGED <<lock, probe, file, incs, head, hs, rd>>

\* Any step of an election or of H fails: the session ends, the latch stays as it was.
ElectionFails(p) ==
    /\ st[p].stage \in Holding \ {"trans", "att"} /\ st[p].via = "elect"
    /\ st' = [st EXCEPT ![p] = Dropped(st[p])]
    /\ lock' = None
    /\ UNCHANGED <<probe, file, incs, head, hs, rd>>

\* A transitional phase keeps its session and tries H again.
ReattachRetries(p) ==
    /\ st[p].stage = "h" /\ st[p].via = "reattach"
    /\ st' = [st EXCEPT ![p].stage = "trans"]
    /\ UNCHANGED <<lock, probe, file, incs, head, hs, rd>>

\* The mandatory full reconciliation commits.
CommitH(p) ==
    /\ st[p].stage \in {"serve", "trans"} /\ head.rev < MaxRev /\ SessionOk(p)
    /\ head' = [rev |-> head.rev + 1, marker |-> st[p].inc]
    /\ hs' = hs \cup {st[p].inc}
    /\ st' = [st EXCEPT ![p].stage = "h", ![p].latch = FALSE]
    /\ UNCHANGED <<lock, probe, file, incs, rd>>

\* attest_post_acquisition_reconciliation ends with revoke_restricted_predecessor.
Attest(p) ==
    /\ st[p].stage = "h" /\ SessionOk(p)
    /\ st' = [st EXCEPT ![p].stage = "att", ![p].slot = NoPermit, ![p].assoc = FALSE,
                        ![p].idle = NoPermit]
    /\ UNCHANGED <<lock, probe, file, incs, head, hs, rd>>

\* A request or watcher publication of the attested leader.
Publish(p) ==
    /\ st[p].stage = "att" /\ head.rev < MaxRev /\ SessionOk(p)
    /\ head' = [rev |-> head.rev + 1, marker |-> st[p].inc]
    /\ UNCHANGED <<lock, probe, file, incs, hs, st, rd>>

\* release_runtime of an idle checkout: a new epoch, then a permit from a strict read of the head.
\* The Store goes away; only the registry's permit and epoch survive.
Release(p) ==
    /\ st[p].stage = "att" /\ st[p].epoch < MaxEpoch /\ SessionOk(p)
    /\ rd[p].pc \in {"idle", "refused", "wait", "woken", "pre1", "pre2"}
    /\ LET e == st[p].epoch + 1
           minted == head.marker = st[p].inc
       IN  st' = [st EXCEPT ![p] = [Fresh EXCEPT !.epoch = e,
                    !.idle = IF minted THEN [rev |-> head.rev, pred |-> head.marker, epoch |-> e]
                             ELSE NoPermit]]
    /\ lock' = None
    /\ UNCHANGED <<probe, file, incs, head, hs, rd>>

\* The process dies: the kernel releases its locks; its memory, reads included, is gone.
Crash(p) ==
    /\ st[p].stage \in Holding
    /\ st' = [st EXCEPT ![p] = Fresh]
    /\ rd' = [rd EXCEPT ![p] = Idle]
    /\ lock' = None
    /\ probe' = IF probe = p THEN None ELSE probe
    /\ UNCHANGED <<file, incs, head, hs>>
-----------------------------------------------------------------------------
(* Reads.                                                                   *)

\* A strict read: BEGIN DEFERRED fixes the snapshot at its first query.
Strict(again) == [Idle EXCEPT !.pc = "latch", !.rev = head.rev, !.marker = head.marker,
                              !.retried = again]

\* CheckoutRuntime::evidence_response: the transitional phase reads under its permit.
BeginRead(p) ==
    /\ rd[p].pc = "idle"
    /\ rd' = [rd EXCEPT ![p] = IF st[p].stage = "trans"
                               THEN [Idle EXCEPT !.pc = "pre1", !.epoch = st[p].epoch]
                               ELSE Strict(FALSE)]
    /\ UNCHANGED <<lock, probe, file, incs, head, hs, st>>

\* A refusal during the first admission may still find a restricted owner.
Refused(p) == IF rd[p].last \/ rd[p].retried THEN Idle ELSE [Idle EXCEPT !.pc = "refused"]

\* ensure_public_read_ready.
CheckLatch(p) ==
    /\ rd[p].pc = "latch"
    /\ rd' = [rd EXCEPT ![p] = IF st[p].latch THEN Refused(p) ELSE [@ EXCEPT !.pc = "file"]]
    /\ UNCHANGED <<lock, probe, file, incs, head, hs, st>>

\* TopologyRoots::follower reads the incarnation; an empty file is an error.
ReadFile(p) ==
    /\ rd[p].pc = "file"
    /\ rd' = [rd EXCEPT ![p] = IF file = 0 THEN Idle
                               ELSE [@ EXCEPT !.pc = "probe0", !.seen = file, !.left = 2]]
    /\ UNCHANGED <<lock, probe, file, incs, head, hs, st>>

\* The liveness probe: WouldBlock is the proof, success means that nobody leads.
Probe(p) ==
    /\ rd[p].pc \in {"probe0", "probe"}
    /\ IF FlockFree
       THEN /\ probe' = p
            /\ rd' = [rd EXCEPT ![p].pc = "held"]
       ELSE /\ rd' = [rd EXCEPT ![p].pc = IF @ = "probe0" THEN "read1" ELSE "read2"]
            /\ UNCHANGED probe
    /\ UNCHANGED <<lock, file, incs, head, hs, st>>

\* LOCK_UN after a probe that succeeded; the read is refused.
ReleaseProbe(p) ==
    /\ rd[p].pc = "held"
    /\ probe' = None
    /\ rd' = [rd EXCEPT ![p] = Refused(p)]
    /\ UNCHANGED <<lock, file, incs, head, hs, st>>

\* FollowerGuard::verify reads the incarnation before its probe ...
ReadBefore(p) ==
    /\ rd[p].pc = "read1"
    /\ rd' = [rd EXCEPT ![p] = IF file # rd[p].seen THEN Refused(p)
                               ELSE [@ EXCEPT !.pc = "probe"]]
    /\ UNCHANGED <<lock, probe, file, incs, head, hs, st>>

\* ... and after it; verify_follower_marker compares it with the snapshot's marker.
Verified(p) == file = rd[p].seen /\ rd[p].seen = rd[p].marker

\* The last verification of a phase: the answer may be assembled, or is delivered.
Passed(p) ==
    IF rd[p].left > 1 THEN [rd[p] EXCEPT !.pc = "read1", !.left = @ - 1]
    ELSE [rd[p] EXCEPT !.pc = IF rd[p].last THEN "done" ELSE "use"]

ReadAfter(p) ==
    /\ rd[p].pc = "read2"
    /\ rd' = [rd EXCEPT ![p] = IF Verified(p) THEN Passed(p) ELSE Refused(p)]
    /\ UNCHANGED <<lock, probe, file, incs, head, hs, st>>

\* The answer is assembled; finish verifies the same fence again.
Assemble(p) ==
    /\ rd[p].pc = "use"
    /\ rd' = [rd EXCEPT ![p].pc = IF rd[p].pre THEN "preEnd" ELSE "read1", ![p].last = TRUE]
    /\ UNCHANGED <<lock, probe, file, incs, head, hs, st>>

\* remember_read_only_predecessor keeps the newest finished strict revision of this epoch.
Remembered(s, r) ==
    IF r.pre \/ s.permit.rev > r.rev THEN s
    ELSE [s EXCEPT !.permit = [rev |-> r.rev, pred |-> r.marker, epoch |-> s.epoch]]

\* The answer is out.  The program's own reads also remember the revision.
EndRead(p) ==
    /\ rd[p].pc = "done"
    /\ rd' = [rd EXCEPT ![p] = Idle]
    /\ st' \in {st, [st EXCEPT ![p] = Remembered(st[p], rd[p])]}
    /\ UNCHANGED <<lock, probe, file, incs, head, hs>>

\* A refused read looks for a restricted owner only with a permit of this epoch.
Consider(p) ==
    /\ rd[p].pc = "refused"
    /\ rd' = [rd EXCEPT ![p] =
         IF st[p].permit = NoPermit \/ st[p].permit.epoch # st[p].epoch THEN Idle
         ELSE [Idle EXCEPT !.epoch = st[p].epoch, !.retried = TRUE,
                           !.pc = IF st[p].slot = NoPermit /\ st[p].pending
                                  THEN "wait" ELSE "woken"]]
    /\ UNCHANGED <<lock, probe, file, incs, head, hs, st>>

\* wait_for_restricted_owner: an association, or no association by the end or the timeout.
Wake(p) ==
    /\ rd[p].pc = "wait"
    /\ \/ st[p].assoc /\ rd' = [rd EXCEPT ![p].pc = "woken"]
       \/ ~st[p].assoc /\ rd' = [rd EXCEPT ![p] = Idle]
    /\ UNCHANGED <<lock, probe, file, incs, head, hs, st>>

\* An epoch change ends the read; otherwise the restricted owner decides, or one strict read.
Woken(p) ==
    /\ rd[p].pc = "woken"
    /\ rd' = [rd EXCEPT ![p] = IF st[p].epoch # rd[p].epoch THEN Idle
                               ELSE IF st[p].slot = NoPermit THEN Strict(TRUE)
                               ELSE [@ EXCEPT !.pc = "pre1"]]
    /\ UNCHANGED <<lock, probe, file, incs, head, hs, st>>

\* The permit of a restricted read: the association's, or the idle one of a transitional phase.
PreHPermit(p) == IF st[p].stage = "trans" THEN st[p].idle ELSE st[p].slot

\* A restricted admission that fails: the phase's read is refused, the other tries a strict read.
PreHRefused(p) == IF rd[p].retried THEN Strict(TRUE) ELSE Refused(p)

\* evidence_response_pre_h: own session, of the permit's epoch, directly after the predecessor.
PreHBegin(p) ==
    /\ rd[p].pc = "pre1"
    /\ LET permit == PreHPermit(p) IN
       rd' = [rd EXCEPT ![p] =
         IF /\ permit # NoPermit /\ permit.pred = st[p].pred
            /\ permit.epoch = st[p].epoch /\ SessionOk(p)
         THEN [@ EXCEPT !.pc = "pre2", !.pre = TRUE, !.rev = permit.rev, !.seen = permit.pred,
                        !.own = st[p].inc, !.epoch = permit.epoch]
         ELSE PreHRefused(p)]
    /\ UNCHANGED <<lock, probe, file, incs, head, hs, st>>

\* ReadFence::verify of a restricted fence.
PreHFence(p) == SessionOk(p) /\ st[p].inc = rd[p].own /\ st[p].epoch = rd[p].epoch

\* The fresh snapshot must be the permit's revision, still marked by the predecessor.
PreHSnapshot(p) ==
    /\ rd[p].pc = "pre2"
    /\ rd' = [rd EXCEPT ![p] =
         IF PreHFence(p) /\ head.rev = rd[p].rev /\ head.marker = rd[p].seen
         THEN [@ EXCEPT !.pc = "use", !.marker = head.marker]
         ELSE PreHRefused(p)]
    /\ UNCHANGED <<lock, probe, file, incs, head, hs, st>>

\* finish of a restricted read: H may have committed meanwhile.
PreHFinish(p) ==
    /\ rd[p].pc = "preEnd"
    /\ rd' = [rd EXCEPT ![p] = IF PreHFence(p) THEN [@ EXCEPT !.pc = "done"] ELSE Idle]
    /\ UNCHANGED <<lock, probe, file, incs, head, hs, st>>
-----------------------------------------------------------------------------
Lead(p) ==
    \/ OpenValidation(p) \/ OpenReattach(p) \/ TakeLock(p) \/ LockBusy(p)
    \/ Truncate(p) \/ WriteInc(p) \/ Associate(p) \/ Reattach(p)
    \/ Rebind(p) \/ Owned(p) \/ ElectionFails(p) \/ ReattachRetries(p)
    \/ CommitH(p) \/ Attest(p) \/ Publish(p) \/ Release(p) \/ Crash(p)

Read(p) ==
    \/ BeginRead(p) \/ CheckLatch(p) \/ ReadFile(p) \/ Probe(p) \/ ReleaseProbe(p)
    \/ ReadBefore(p) \/ ReadAfter(p) \/ Assemble(p) \/ EndRead(p)
    \/ Consider(p) \/ Wake(p) \/ Woken(p)
    \/ PreHBegin(p) \/ PreHSnapshot(p) \/ PreHFinish(p)

\* A reader elsewhere probes the free flock: an election finds it busy, and another
\* reader's probe takes it for a live leader.
FollowerProbe(q) ==
    /\ FlockFree
    /\ probe' = q
    /\ UNCHANGED <<lock, file, incs, head, hs, st, rd>>

FollowerLetsGo(q) ==
    /\ probe = q
    /\ probe' = None
    /\ UNCHANGED <<lock, file, incs, head, hs, st, rd>>

Next ==
    \/ \E p \in Procs : Lead(p)
    \/ \E p \in Readers : Read(p)
    \/ \E q \in Followers : FollowerProbe(q) \/ FollowerLetsGo(q)

Spec == Init /\ [][Next]_vars
-----------------------------------------------------------------------------
Delivers(p) == rd[p].pc # "done" /\ rd'[p].pc = "done"

\* An answer of a strict read is delivered only while its snapshot's leader is still the last one
\* that marked the index: no successor has rebound or reconciled it before the final check
\* (FollowerGuard::verify reads the incarnation after its probe, and a successor writes it first).
\* So it does no harm that the flock its probe found taken may have been another reader's probe.
StrictAnswerCurrent ==
    \A p \in Procs : Delivers(p) /\ ~rd[p].pre =>
       head.marker = rd[p].marker /\ rd[p].rev <= head.rev

\* A restricted answer is delivered only by the process that leads since that predecessor, and
\* whatever was published after the answered revision, this process published itself.
RestrictedAnswerOwn ==
    \A p \in Procs : Delivers(p) /\ rd[p].pre =>
       /\ lock = p
       /\ head.rev = rd[p].rev \/ head.marker = st[p].inc

\* Every exit from an election closes the admission interval (OwnerValidationLease), so a reader
\* waits in wait_for_restricted_owner only while this process is really taking over.
PendingHasOwner ==
    \A p \in Procs : st[p].pending =>
        st[p].via = "elect" /\ st[p].stage \in {"pend", "won", "trunc", "inc", "assoc", "bound"}

\* The association that admits restricted reads never outlives the session that it was made for.
AssociationLive ==
    \A p \in Procs : st[p].slot # NoPermit =>
        /\ lock = p /\ st[p].inc = file
        /\ st[p].slot.pred = st[p].pred /\ st[p].slot.epoch = st[p].epoch

=============================================================================
