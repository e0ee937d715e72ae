------------------------------ MODULE CliWait ------------------------------
(***************************************************************************)
(* The finite `trellis index` command (enqueue_and_wait_observed_inner in  *)
(* src/index_coordinator.rs): it commits its row, then waits for another   *)
(* owner to finish it, or becomes the leader and drains the queue itself,  *)
(* and at the end proves the publication and leaves through a release      *)
(* fence. Module NativeQueue has the queue with all its owners; here the   *)
(* command's loop is modelled step by step beside one other owner.         *)
(***************************************************************************)
EXTENDS Naturals, Sequences

CONSTANTS
    MaxRows,     \* bound: accepted requests
    MaxEdits,    \* bound: edits of the workspace
    MaxFaults    \* bound: storage contention, capture drift, owner changes

VARIABLES
    rows,      \* requests.db: state, generation of the pin, edits it covers
    gen,       \* generation of the index
    broken,    \* index.db is damaged and needs recreation
    edit,      \* edits so far
    indexed,   \* edits the published head covers
    lock,      \* holder of the leader lock
    other,     \* the other owner: reconciled, the row it works on, edits it captured
    cli,       \* the command
    faults,
    cancel,    \* Ctrl-C
    lost       \* the workspace pathname names another directory

vars == <<rows, gen, broken, edit, indexed, lock, other, cli, faults, cancel, lost>>

Open(i) == rows[i].state = "open"
OpenRows == {i \in DOMAIN rows : Open(i)}
FirstOpen == CHOOSE i \in OpenRows : \A j \in OpenRows : i <= j
NewRow == [state |-> "open", gen |-> 0, covers |-> 0]
Idle == [h |-> FALSE, row |-> 0, cap |-> 0]
NoFence == [cutoff |-> 0, mark |-> 0]

TypeOK ==
    /\ Len(rows) <= MaxRows + 1 /\ gen \in 1..MaxFaults + 2 /\ broken \in BOOLEAN
    /\ edit \in 0..MaxEdits /\ indexed \in 0..edit /\ lock \in {"free", "cli", "other"}
    /\ other.row \in 0..Len(rows) /\ other.cap \in 0..edit
    /\ cli.pc \in {"start", "look", "acquire", "drain", "retry", "due", "fence1", "fence2", "fence3", "prove", "end"}
    /\ cli.out \in {"none", "ok", "failed", "root", "interrupted", "busy", "ambiguous", "notready", "unverified"}
    /\ (cli.out = "none") = (cli.pc # "end")
    /\ cli.mine \in 0..Len(rows) /\ faults \in 0..MaxFaults
    \* The command holds the lock from its acquisition to its end.
    /\ (lock = "cli") = cli.held
    /\ lock # "other" => other = Idle

Init ==
    /\ rows = <<>> /\ gen = 1 /\ broken \in BOOLEAN /\ edit = 0 /\ indexed = 0 /\ lock = "free" /\ other = Idle
    /\ cli = [pc |-> "start", out |-> "none", mine |-> 0, asked |-> 0, recreate |-> broken, held |-> FALSE,
              slot |-> 0, pubs |-> 0, fence |-> NoFence]
    /\ faults = 0 /\ cancel = FALSE /\ lost = FALSE

(***************************************************************************)
(* The workspace, other clients and the other owner.                       *)
(***************************************************************************)
EditTree ==
    /\ edit < MaxEdits /\ edit' = edit + 1
    /\ UNCHANGED <<rows, gen, broken, indexed, lock, other, cli, faults, cancel, lost>>

Interrupt ==
    /\ ~cancel /\ cancel' = TRUE
    /\ UNCHANGED <<rows, gen, broken, edit, indexed, lock, other, cli, faults, lost>>

LoseRoot ==
    /\ ~lost /\ lost' = TRUE
    /\ UNCHANGED <<rows, gen, broken, edit, indexed, lock, other, cli, faults, cancel>>

OtherEnqueues ==
    /\ Len(rows) < MaxRows /\ rows' = Append(rows, NewRow)
    /\ UNCHANGED <<gen, broken, edit, indexed, lock, other, cli, faults, cancel, lost>>

\* index.db is damaged while nobody holds it.
Damage ==
    /\ lock = "free" /\ ~broken /\ faults < MaxFaults /\ faults' = faults + 1
    /\ broken' = TRUE
    /\ UNCHANGED <<rows, gen, edit, indexed, lock, other, cli, cancel, lost>>

\* Another owner takes the lock.
OtherLeads ==
    /\ lock = "free" /\ faults < MaxFaults /\ faults' = faults + 1
    /\ lock' = "other"
    /\ UNCHANGED <<rows, gen, broken, edit, indexed, other, cli, cancel, lost>>

\* Before it claims a row it recreates an index that needs it, or reconciles.
OtherReconciles ==
    /\ lock = "other" /\ ~other.h
    /\ other' = [other EXCEPT !.h = TRUE]
    /\ gen' = IF broken THEN gen + 1 ELSE gen
    /\ broken' = FALSE /\ indexed' = edit
    /\ UNCHANGED <<rows, edit, lock, cli, faults, cancel, lost>>

\* It claims the first row and captures the workspace for it.
OtherClaims ==
    /\ lock = "other" /\ other.h /\ other.row = 0 /\ OpenRows # {}
    /\ other' = [other EXCEPT !.row = FirstOpen, !.cap = edit]
    /\ UNCHANGED <<rows, gen, broken, edit, indexed, lock, cli, faults, cancel, lost>>

\* Only the claimed row is finished by its publication.
Acknowledge(i, c) == [rows EXCEPT ![i] = [state |-> "done", gen |-> gen, covers |-> c]]

OtherPublishes ==
    /\ other.row # 0
    /\ \/ rows' = Acknowledge(other.row, other.cap) /\ indexed' = other.cap
       \/ rows' = [rows EXCEPT ![other.row].state = "failed"] /\ UNCHANGED indexed
    /\ other' = [other EXCEPT !.row = 0, !.cap = 0]
    /\ UNCHANGED <<gen, broken, edit, lock, cli, faults, cancel, lost>>

\* It ends, with a row unfinished or not.
OtherLeaves ==
    /\ lock = "other" /\ faults < MaxFaults /\ faults' = faults + 1
    /\ lock' = "free" /\ other' = Idle
    /\ UNCHANGED <<rows, gen, broken, edit, indexed, cli, cancel, lost>>

(***************************************************************************)
(* The command.                                                            *)
(***************************************************************************)
env == <<edit, cancel, lost, other>>
Goto(pc) == cli' = [cli EXCEPT !.pc = pc]

\* It returns; the session, and with it the lock, is dropped.
Return(out) ==
    /\ cli' = [cli EXCEPT !.pc = "end", !.out = out, !.held = FALSE]
    /\ lock' = IF cli.held THEN "free" ELSE lock

Enqueue ==
    /\ cli.pc = "start"
    /\ rows' = Append(rows, NewRow)
    /\ cli' = [cli EXCEPT !.pc = "look", !.mine = Len(rows) + 1, !.asked = edit]
    /\ UNCHANGED <<gen, broken, indexed, lock, faults, env>>

\* fail_changed_root_requests: the holder fails what waits for the old directory.
AllFailed == [j \in DOMAIN rows |-> IF Open(j) THEN [rows[j] EXCEPT !.state = "failed"] ELSE rows[j]]

\* follower_session: a leader is alive and has reconciled.
Followable == lock = "other" /\ other.h

\* reopen_existing_current_root: the repaired index replaces the old disposition.
Refresh == cli' = [cli EXCEPT !.pc = "look", !.recreate = FALSE]

\* The top of the loop: the workspace pathname first, then the row.
LookLost ==
    /\ cli.pc = "look" /\ lost
    /\ Return("root") /\ rows' = (IF cli.held THEN AllFailed ELSE rows)
    /\ UNCHANGED <<gen, broken, indexed, faults, env>>

LookFailed ==
    /\ cli.pc = "look" /\ ~lost /\ rows[cli.mine].state = "failed"
    /\ Return("failed")
    /\ UNCHANGED <<rows, gen, broken, indexed, faults, env>>

\* Finished under this leader, or by another owner who must still be followable.
LookDone ==
    /\ cli.pc = "look" /\ ~lost /\ rows[cli.mine].state = "done"
    /\ \/ cli.held /\ Goto("fence1") /\ UNCHANGED lock
       \/ ~cli.held /\ broken /\ Return("unverified")
       \/ ~cli.held /\ ~broken /\ cli.recreate /\ Refresh /\ UNCHANGED lock
       \/ ~cli.held /\ ~broken /\ ~cli.recreate /\ Followable /\ Goto("prove") /\ UNCHANGED lock
       \/ ~cli.held /\ ~broken /\ ~cli.recreate /\ ~Followable /\ Return("notready")
    /\ UNCHANGED <<rows, gen, broken, indexed, faults, env>>

LookOpen ==
    /\ cli.pc = "look" /\ ~lost /\ Open(cli.mine)
    /\ IF cancel THEN Return("interrupted")
       ELSE Goto(IF cli.held THEN "drain" ELSE "acquire") /\ UNCHANGED lock
    /\ UNCHANGED <<rows, gen, broken, indexed, faults, env>>

\* Not the leader: recreate the index under the exclusive lock, adopt a repair of
\* it that came first, take over with a full reconciliation that finishes no row,
\* find the index damaged, or wait for the owner.
Acquire ==
    /\ cli.pc = "acquire"
    /\ \/ /\ lock = "free" /\ cli.recreate /\ broken
          /\ gen' = gen + 1 /\ broken' = FALSE /\ indexed' = edit /\ lock' = "cli"
          /\ cli' = [cli EXCEPT !.pc = "drain", !.recreate = FALSE, !.held = TRUE]
       \/ /\ lock = "free" /\ cli.recreate /\ ~broken
          /\ Refresh /\ UNCHANGED <<gen, broken, indexed, lock>>
       \/ /\ lock = "free" /\ ~cli.recreate /\ ~broken
          /\ indexed' = edit /\ lock' = "cli"
          /\ cli' = [cli EXCEPT !.pc = "drain", !.held = TRUE] /\ UNCHANGED <<gen, broken>>
       \/ /\ lock = "free" /\ ~cli.recreate /\ broken
          /\ cli' = [cli EXCEPT !.pc = "look", !.recreate = TRUE] /\ UNCHANGED <<gen, broken, indexed, lock>>
       \/ lock # "free" /\ Goto("look") /\ UNCHANGED <<gen, broken, indexed, lock>>
    /\ UNCHANGED <<rows, faults, env>>

\* SQLite contention at admission is waited for, but not for ever.
AcquireBusy ==
    /\ cli.pc = "acquire" /\ ~cli.recreate /\ faults < MaxFaults /\ faults' = faults + 1
    /\ \/ Goto("look") /\ UNCHANGED lock
       \/ Return("busy")
    /\ UNCHANGED <<rows, gen, broken, indexed, env>>

Count(i) == IF i = cli.mine THEN cli.pubs + 1 ELSE cli.pubs

\* One row is claimed, published and finished, or fails.
DrainOne(i, next) ==
    \/ /\ rows' = Acknowledge(i, edit) /\ indexed' = edit
       /\ cli' = [cli EXCEPT !.pc = next, !.pubs = Count(i)]
    \/ /\ rows' = [rows EXCEPT ![i].state = "failed"] /\ Goto(next) /\ UNCHANGED indexed

Drain ==
    /\ cli.pc = "drain" /\ ~lost /\ ~cancel
    /\ IF OpenRows = {} THEN Goto("due") /\ UNCHANGED <<rows, indexed>> ELSE DrainOne(FirstOpen, "due")
    /\ UNCHANGED <<gen, broken, lock, faults, env>>

(* Mutant: the row is drained again although its publication is recorded. *)
BugAfterBusy == "drain"
\* A completion that could not be written is retried, never published again.
AfterBusy == "retry"

\* A drain, of the loop or of the fence, starts with the pathname and the interrupt.
DrainStopped ==
    /\ cli.pc \in {"drain", "fence2"}
    /\ \/ lost /\ Return("root") /\ rows' = AllFailed
       \/ ~lost /\ cancel /\ Return("interrupted") /\ UNCHANGED rows
    /\ UNCHANGED <<gen, broken, indexed, faults, env>>

\* The faults of a drain: the row is published but its completion is busy; the
\* commit is ambiguous; the capture drifted and the row is requeued; Ctrl-C.
DrainFault ==
    /\ cli.pc = "drain" /\ ~lost /\ OpenRows # {} /\ faults < MaxFaults /\ faults' = faults + 1
    /\ \/ /\ cli' = [cli EXCEPT !.pc = AfterBusy, !.slot = FirstOpen, !.pubs = Count(FirstOpen)]
          /\ indexed' = edit /\ UNCHANGED lock
       \/ Return("ambiguous") /\ indexed' \in {indexed, edit}
       \/ Goto("due") /\ UNCHANGED <<indexed, lock>>
       \/ cancel /\ Return("interrupted") /\ indexed' \in {indexed, edit}
    /\ UNCHANGED <<rows, gen, broken, env>>

\* retry_cli_recorded_completion: the cached outcome is written, or busy once more.
Retry ==
    /\ cli.pc = "retry"
    /\ IF cancel \/ lost THEN Return(IF cancel THEN "interrupted" ELSE "root") /\ UNCHANGED rows
       ELSE /\ rows' = Acknowledge(cli.slot, indexed)
            /\ cli' = [cli EXCEPT !.pc = "drain", !.slot = 0] /\ UNCHANGED lock
    /\ UNCHANGED <<gen, broken, indexed, faults, env>>

\* reconcile_due after a drain: what the watcher or the period calls for.
Due ==
    /\ cli.pc = "due" /\ indexed' \in {indexed, edit} /\ Goto("look")
    /\ UNCHANGED <<rows, gen, broken, lock, faults, env>>

\* The release fence: an inventory and a cutoff, the rows up to it, and a second
\* inventory for what changed while they were drained.
Fence1 ==
    /\ cli.pc = "fence1"
    /\ cli' = [cli EXCEPT !.pc = "fence2", !.fence = [cutoff |-> Len(rows), mark |-> 0]] /\ indexed' = edit
    /\ UNCHANGED <<rows, gen, broken, lock, faults, env>>

Drained == \A i \in OpenRows : i > cli.fence.cutoff

Fence2 ==
    /\ cli.pc = "fence2" /\ ~lost /\ ~cancel
    /\ IF Drained
       THEN cli' = [cli EXCEPT !.pc = "fence3", !.fence.mark = edit] /\ UNCHANGED <<rows, indexed>>
       ELSE DrainOne(FirstOpen, "fence2")
    /\ UNCHANGED <<gen, broken, lock, faults, env>>

SecondInventory == edit

Fence3 ==
    /\ cli.pc = "fence3" /\ indexed' = SecondInventory /\ Goto("prove")
    /\ UNCHANGED <<rows, gen, broken, lock, faults, env>>

\* An inventory of the fence is interrupted, or finds another directory.
FenceStopped ==
    /\ cli.pc \in {"fence1", "fence3"}
    /\ \/ lost /\ Return("root")
       \/ cancel /\ Return("interrupted")
    /\ UNCHANGED <<rows, gen, broken, indexed, faults, env>>

\* Contention in the fence ends the command, which has no second try for it.
FenceFault ==
    /\ cli.pc \in {"fence1", "fence2", "fence3"} /\ faults < MaxFaults /\ faults' = faults + 1
    /\ Return("busy")
    /\ UNCHANGED <<rows, gen, broken, indexed, env>>

\* evidence_response and validate_pin: the row's pin is served by this index.
Proven == rows[cli.mine].gen = gen /\ (~cli.held => Followable)

Prove ==
    /\ cli.pc = "prove"
    /\ Return(IF Proven THEN "ok" ELSE "unverified")
    /\ UNCHANGED <<rows, gen, broken, indexed, faults, env>>

Step ==
    \/ Enqueue \/ LookLost \/ LookFailed \/ LookDone \/ LookOpen \/ Acquire \/ Drain \/ DrainStopped \/ Retry \/ Due \/ Fence1 \/ Fence2 \/ Fence3 \/ FenceStopped \/ Prove
Other == OtherReconciles \/ OtherClaims \/ OtherPublishes
Next ==
    \/ EditTree \/ Interrupt \/ LoseRoot \/ OtherEnqueues \/ Damage \/ OtherLeads \/ OtherLeaves \/ Other
    \/ AcquireBusy \/ DrainFault \/ FenceFault \/ Step

Spec == Init /\ [][Next]_vars

(***************************************************************************)
(* Properties.                                                             *)
(***************************************************************************)
\* A command that ends well has a finished row, and the published index covers
\* every edit made before the command's row was accepted, whoever published it.
OkCoversAsked ==
    cli.out = "ok" => rows[cli.mine].state = "done" /\ rows[cli.mine].covers >= cli.asked /\ indexed >= cli.asked

\* Success is never reported from the queue alone: the row's pin was of the index
\* then served, although another owner may have recreated it.
OkIsServed == (cli.pc = "prove" /\ cli'.out = "ok") => (~broken /\ rows[cli.mine].gen = gen)

\* A command that led leaves no row accepted before its cutoff unfinished, and no
\* edit unindexed that was made before those rows were drained.
FenceHolds ==
    (cli.pc = "prove" /\ cli.held /\ cli'.out = "ok") =>
       /\ \A i \in 1..cli.fence.cutoff : ~Open(i)
       /\ indexed >= cli.fence.mark

\* This owner publishes at most once for its own row, however often the completion
\* of the row has to be repeated.
PublishedOnce == cli.pubs <= 1

====
