---------------------------- MODULE LeaderWork ----------------------------
(***************************************************************************)
(* The leader's advisory watcher and its full inventories.                 *)
(*                                                                         *)
(* The notify callback runs on its own thread: it advances an atomic       *)
(* generation and offers the event to a bounded channel.  The queue tick   *)
(* drains the channel into a dirty batch, captures the tree, publishes it  *)
(* unless it is unchanged, and acknowledges the batch only if no further   *)
(* event was accepted meanwhile.  An acknowledged         *)
(* generation is certified to the causal witness (module CausalWitness).   *)
(***************************************************************************)
EXTENDS Naturals, Sequences, SequencesExt

CONSTANTS Cap,         \* capacity of the event channel
          DrainMax,    \* events taken by one drain
          MaxPaths,    \* MAX_DIRTY_PATHS
          Kinds,       \* kinds of filesystem events that occur
          CanLose,     \* the operating system may drop events silently
          MaxEdits,    \* bound: changes of the tree
          MaxFaults,   \* bound: failed captures, publications and lost events
          MaxOpts      \* bound: changes of the selected index options

VARIABLES tree,      \* the workspace, as a version number
          os,        \* events the operating system has not delivered
          cb,        \* the event in the callback, between its two atomic operations
          gen,       \* WatchSignals::generation
          chan,      \* the bounded channel
          overflow,  \* WatchSignals::overflow
          w,         \* the other fields of WatchSignals
          lw,        \* LeaderWork
          job,       \* the inventory in progress
          head,      \* the selected index: content and revision
          opts,      \* options recorded with the head
          faults,    \* faults so far
          cert,      \* the last generation certified to the causal witness, with its content
          seen       \* history: newest tree version whose event was accepted

vars == <<tree, os, cb, gen, chan, overflow, w, lw, job, head, opts, faults, cert, seen>>

watch == <<gen, chan, overflow, w>>

NoEvent == [kind |-> "none", ver |-> 0]
Events  == [kind : Kinds, ver : Nat]
Idle    == [pc |-> "idle", gen |-> 0, full |-> FALSE, cap |-> 0]

\* Registration may fail; either way the first batch is a full inventory.
NewWatch(degraded) ==
    [pgen |-> 1, full |-> TRUE, paths |-> 0, acked |-> 0, signal |-> "none",
     urgent |-> TRUE, degraded |-> degraded]

TypeOK ==
    /\ tree \in Nat /\ os \in Seq(Events) /\ cb \in Events \cup {NoEvent}
    /\ gen \in Nat /\ chan \in Seq(Events) /\ Len(chan) <= Cap /\ overflow \in BOOLEAN
    /\ w \in [pgen : Nat, full : BOOLEAN, paths : 0..MaxPaths, acked : Nat,
              signal : {"none", "fresh", "settled"}, urgent : BOOLEAN, degraded : BOOLEAN]
    /\ lw \in [opts : Nat, acct : Nat, pin : Nat, due : BOOLEAN, retry : BOOLEAN,
               reported : Nat, epoch : Nat]
    /\ job \in [pc : {"idle", "capture", "cutoff", "compare", "publish", "ack", "finish"},
                gen : Nat, full : BOOLEAN, cap : Nat]
    /\ head \in [content : Nat, rev : Nat] /\ opts \in Nat /\ faults \in Nat
    /\ cert \in [gen : Nat, content : Nat, need : Nat] /\ seen \in Nat

\* A verified leader constructs the watcher after its takeover reconciliation.
Init ==
    /\ tree = 1 /\ os = <<>> /\ cb = NoEvent
    /\ gen = 1 /\ chan = <<>> /\ overflow = FALSE
    /\ \E d \in BOOLEAN : w = NewWatch(d)
    /\ lw = [opts |-> 1, acct |-> 0, pin |-> 0, due |-> FALSE, retry |-> FALSE,
             reported |-> 0, epoch |-> 1]
    /\ job = Idle /\ head = [content |-> 1, rev |-> 1] /\ opts = 1 /\ faults = 0
    /\ cert = [gen |-> 0, content |-> 0, need |-> 0] /\ seen = 1
-----------------------------------------------------------------------------
(* The tree and the notify callback.                                        *)

\* A change; only an excluded path leaves the captured tree as it was.
Edit(k) ==
    /\ tree < MaxEdits /\ Len(os) < MaxEdits
    /\ tree' = IF k = "excluded" THEN tree ELSE tree + 1
    /\ os' = Append(os, [kind |-> k, ver |-> tree'])
    /\ UNCHANGED <<cb, watch, lw, job, head, opts, faults, cert, seen>>

\* Mutant: a change of a selected input inside an ignored directory is discarded too.
BugAccepted(k) == k \notin {"excluded", "input"}

\* Only a read-only access or a path that capture certainly excludes is discarded.
Accepted(k) == k # "excluded"

\* The callback first advances the generation.
Submit ==
    /\ os # <<>> /\ cb = NoEvent /\ ~w.degraded
    /\ os' = Tail(os)
    /\ IF Accepted(Head(os).kind)
       THEN /\ cb' = Head(os) /\ gen' = gen + 1
            /\ seen' = IF Head(os).ver > seen THEN Head(os).ver ELSE seen
       ELSE UNCHANGED <<cb, gen, seen>>
    /\ UNCHANGED <<tree, chan, overflow, w, lw, job, head, opts, faults, cert>>

\* Then it offers the event to the channel; a full channel sets the overflow flag.
Offer ==
    /\ cb # NoEvent
    /\ cb' = NoEvent
    /\ IF Len(chan) < Cap THEN chan' = Append(chan, cb) /\ UNCHANGED overflow
                          ELSE overflow' = TRUE /\ UNCHANGED chan
    /\ UNCHANGED <<tree, os, gen, w, lw, job, head, opts, faults, cert, seen>>

\* The system loses an event, or nobody receives it any more.
Lose ==
    /\ os # <<>>
    /\ w.degraded \/ (CanLose /\ faults < MaxFaults)
    /\ os' = Tail(os)
    /\ faults' = IF w.degraded THEN faults ELSE faults + 1
    /\ UNCHANGED <<tree, cb, watch, lw, job, head, opts, cert, seen>>
-----------------------------------------------------------------------------
(* WatchSignals.                                                            *)

Fail(s) == [s EXCEPT !.degraded = TRUE, !.full = TRUE, !.urgent = TRUE]

\* record: sources join the batch, everything uncertain asks for a full inventory.
Record(s, e) ==
    LET heard == [s EXCEPT !.signal = IF @ = "none" THEN "fresh" ELSE @]
    IN  CASE e.kind = "error"   -> Fail(s)
          [] e.kind = "unknown" -> [heard EXCEPT !.full = TRUE, !.urgent = TRUE]
          [] e.kind = "input"   -> [heard EXCEPT !.full = TRUE]
          [] OTHER -> IF s.paths < MaxPaths THEN [heard EXCEPT !.paths = @ + 1]
                      ELSE [heard EXCEPT !.full = TRUE, !.urgent = TRUE, !.paths = 0]

\* What one drain makes of the batch and what it leaves in the channel.
Drained ==
    LET n == IF Len(chan) < DrainMax THEN Len(chan) ELSE DrainMax
        r == FoldLeft(Record, w, SubSeq(chan, 1, n))
        f == r.full \/ overflow \/ r.degraded
    IN  [r EXCEPT !.pgen = gen, !.full = f, !.urgent = @ \/ overflow \/ r.degraded]

TakeChannel ==
    /\ chan' = SubSeq(chan, (IF Len(chan) < DrainMax THEN Len(chan) ELSE DrainMax) + 1, Len(chan))
    /\ overflow' = FALSE

\* The debounce deadline of the first signal passes.
Settle ==
    /\ w.signal = "fresh"
    /\ w' = [w EXCEPT !.signal = "settled"]
    /\ UNCHANGED <<tree, os, cb, gen, chan, overflow, lw, job, head, opts, faults, cert, seen>>

Ready(s) == s.urgent \/ s.degraded \/ s.signal = "settled"

\* accepted_unacked: visible at ingress, before any drain.
Unacked == IF w.degraded THEN gen # w.acked ELSE w.full \/ w.urgent \/ gen # w.acked

\* accepted_watch_intent: what keeps maintenance waiting.
Intent == lw.opts # opts \/ Unacked \/ (lw.due /\ ~lw.retry)

RequireFull(s) == [s EXCEPT !.full = TRUE, !.urgent = TRUE]
-----------------------------------------------------------------------------
(* LeaderWork::reconcile_due_with_cutoffs.                                  *)

\* A drained request recorded other options with the head.
ChangeOptions ==
    /\ job.pc = "idle" /\ opts < MaxOpts
    /\ opts' = opts + 1
    /\ head' = [content |-> tree, rev |-> head.rev + 1]
    /\ UNCHANGED <<tree, os, cb, watch, lw, job, faults, cert, seen>>

\* The tick replaces a watcher of other options; the old one's events are gone.
Rewatch ==
    /\ job.pc = "idle" /\ lw.opts # opts
    /\ \E d \in BOOLEAN : w' = NewWatch(d)
    /\ gen' = 1 /\ chan' = <<>> /\ overflow' = FALSE /\ os' = <<>> /\ cb' = NoEvent
    /\ lw' = [lw EXCEPT !.opts = opts, !.acct = 0, !.pin = 0, !.reported = 0, !.epoch = @ + 1]
    /\ UNCHANGED <<tree, job, head, opts, faults, cert, seen>>

\* After a failure the retry delay; then the periodic deadline, or a batch that is ready and
\* is not the degraded one already accounted for.
Proceed(s) ==
    /\ ~lw.retry
    /\ lw.due \/ (Ready(s) /\ ~(s.degraded /\ lw.acct = s.pgen))

\* The tick drains, reports a new generation and decides whether an inventory is due.
Tick ==
    /\ job.pc = "idle" /\ lw.opts = opts
    /\ LET s == Drained
       IN  /\ w' = s /\ TakeChannel
           /\ lw' = [lw EXCEPT !.reported = gen]
           /\ job' = IF Proceed(s) THEN [pc |-> "capture", gen |-> gen, full |-> s.full, cap |-> 0]
                     ELSE Idle
    /\ UNCHANGED <<tree, os, cb, gen, head, opts, faults, cert, seen>>

\* Capture::admit under the publication permit.
Capture ==
    /\ job.pc = "capture"
    /\ job' = [job EXCEPT !.pc = "cutoff", !.cap = tree]
    /\ UNCHANGED <<tree, os, cb, watch, lw, head, opts, faults, cert, seen>>

\* No event was accepted since the batch was taken.
Cutoff == gen = job.gen

Abandoned(retry) ==
    /\ gen' = gen + 1 /\ w' = RequireFull(w) /\ UNCHANGED <<chan, overflow>>
    /\ lw' = [lw EXCEPT !.retry = retry]
    /\ job' = Idle

\* The cutoff before the comparison and the one before the commit.
PassCutoff ==
    /\ job.pc \in {"cutoff", "compare"} /\ Cutoff
    /\ w' = Drained /\ TakeChannel
    /\ job' = [job EXCEPT !.pc = IF job.pc = "cutoff" THEN "compare"
                                 ELSE IF head.content = job.cap THEN "ack" ELSE "publish"]
    /\ UNCHANGED <<tree, os, cb, gen, lw, head, opts, faults, cert, seen>>

\* CutoffChanged: the inventory is thrown away and a full one is required at once.
CutoffChanged ==
    /\ job.pc \in {"cutoff", "compare"} /\ ~Cutoff
    /\ Abandoned(FALSE)
    /\ UNCHANGED <<tree, os, cb, head, opts, faults, cert, seen>>

\* The captured inputs are verified once more before COMMIT.
Publish ==
    /\ job.pc = "publish" /\ job.cap = tree
    /\ head' = [content |-> job.cap, rev |-> head.rev + 1]
    /\ job' = [job EXCEPT !.pc = "ack"]
    /\ UNCHANGED <<tree, os, cb, watch, lw, opts, faults, cert, seen>>

\* A capture that cannot be read or no longer verifies, or a failed publication.
JobFails ==
    /\ \/ job.pc = "publish" /\ job.cap # tree /\ UNCHANGED faults
       \/ job.pc \in {"capture", "compare", "publish"} /\ faults < MaxFaults /\ faults' = faults + 1
    /\ Abandoned(TRUE)
    /\ UNCHANGED <<tree, os, cb, head, opts, cert, seen>>

\* The first half of acknowledge: drain and compare with the batch.
Ackable == gen = job.gen /\ (Drained.full => job.full)

Cleared(s) == [s EXCEPT !.paths = 0, !.full = s.degraded, !.signal = "none", !.urgent = s.degraded]

Acknowledge ==
    /\ job.pc = "ack" /\ Ackable
    /\ w' = Cleared(Drained) /\ TakeChannel
    /\ job' = [job EXCEPT !.pc = "finish"]
    /\ UNCHANGED <<tree, os, cb, gen, lw, head, opts, faults, cert, seen>>

\* A hint that raced the inventory stays dirty for the next tick.
NotAccounted ==
    /\ \/ job.pc = "ack" /\ ~Ackable
       \/ job.pc = "finish" /\ gen # job.gen
    /\ gen' = gen + 1 /\ w' = RequireFull(Drained) /\ TakeChannel
    /\ lw' = [lw EXCEPT !.pin = 0, !.due = FALSE, !.retry = FALSE]
    /\ job' = Idle
    /\ UNCHANGED <<tree, os, cb, head, opts, faults, cert, seen>>

\* The generation is acknowledged, and certified when nothing new is intended.
Accounted ==
    /\ job.pc = "finish" /\ gen = job.gen
    /\ w' = [w EXCEPT !.acked = job.gen]
    /\ lw' = [lw EXCEPT !.acct = job.gen, !.pin = head.rev, !.due = FALSE, !.retry = FALSE]
    /\ cert' = IF w.degraded \/ ~(w.full \/ w.urgent)
               THEN [gen |-> job.gen, content |-> head.content, need |-> seen]
               ELSE cert
    /\ job' = Idle
    /\ UNCHANGED <<tree, os, cb, gen, chan, overflow, head, opts, faults, seen>>

\* Sixty seconds since the last inventory; the retry delay of a failed one.
Elapse ==
    /\ \/ ~lw.due /\ lw' = [lw EXCEPT !.due = TRUE]
       \/ lw.retry /\ lw' = [lw EXCEPT !.retry = FALSE]
    /\ UNCHANGED <<tree, os, cb, watch, job, head, opts, faults, cert, seen>>

Inventory == Capture \/ PassCutoff \/ CutoffChanged \/ Publish \/ JobFails
             \/ Acknowledge \/ NotAccounted \/ Accounted

Next ==
    \/ \E k \in Kinds : Edit(k)
    \/ Submit \/ Offer \/ Lose \/ Settle
    \/ ChangeOptions \/ Rewatch \/ Tick \/ Inventory \/ Elapse

Spec == Init /\ [][Next]_vars
-----------------------------------------------------------------------------
(* Properties.                                                              *)

\* While the watcher works, a clean one (nothing undelivered, nothing unacknowledged) means
\* that the selected index is the tree: no acknowledgement covers a change its inventory missed.
CleanMeansCurrent ==
    (~CanLose /\ ~w.degraded /\ os = <<>> /\ cb = NoEvent /\ ~Unacked /\ lw.opts = opts)
        => head.content = tree

\* A certified generation contains every change whose event was accepted before it.
AckCovers == cert.content >= cert.need

=============================================================================
