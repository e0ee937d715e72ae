--------------------------- MODULE MaintenanceLane ---------------------------
(***************************************************************************)
(* The low-priority maintenance lane of one checkout (maintenance_tick in  *)
(* src/http.rs, cooperative_maintenance_unit in src/index_coordinator.rs)  *)
(* against the foreground: the native stream, the process's own FIFO,      *)
(* request rows of other processes, accepted watcher intent, publications  *)
(* at the gate, session replacement, root loss and idle release. The lane  *)
(* asks for priority at every stage of a unit; between two of its          *)
(* questions the foreground may do anything. What one unit deletes is in   *)
(* module Retention.                                                       *)
(***************************************************************************)
EXTENDS Naturals

CONSTANTS
    Sessions,     \* serving sessions, in the order they are established
    MaxDebt,      \* bound: units of retention debt
    MaxWork       \* bound: pieces of foreground work

VARIABLES
    lane,      \* pc: where the lane is, own: the session it sampled
    wait,      \* retention_last_run: 0 due, 1 in 250 ms, 2 in a minute
    debt,      \* units of retention work left
    fg,        \* foreground work known here: fifo, watch, ack (set of names)
    rows,      \* another process's request row is in the queue
    stream,    \* native_stream: free, held, or held at the gate
    gate,      \* publication_gate: active for none, maint or pub
    waiting,   \* publications waiting at the gate
    serving,   \* serving_session, 0 for none
    live,      \* the session's leadership and root still verify
    stopped,   \* checkout_runtime_stopped
    released,  \* release_checkout_runtime has returned
    late,      \* units committed since foreground work was first pending
    work       \* foreground work that has arrived

vars == <<lane, wait, debt, fg, rows, stream, gate, waiting, serving, live,
          stopped, released, late, work>>
laneVars == <<lane, wait, debt, gate, late>>
fgVars == <<fg, rows, stream, waiting, serving, live, stopped, released, work>>

Kinds == {"fifo", "watch", "ack"}
Idle == [pc |-> "idle", own |-> 0]
Foreground == fg # {} \/ rows \/ stream # "free"

TypeOK ==
    /\ lane \in [pc : {"idle", "picked", "entered", "probed", "selected", "writing"},
                 own : Sessions \cup {0}]
    /\ wait \in 0..2 /\ debt \in 0..MaxDebt /\ late \in Nat /\ work \in 0..MaxWork
    /\ fg \subseteq Kinds /\ rows \in BOOLEAN /\ stream \in {"free", "held", "gate"}
    /\ gate \in {"none", "maint", "pub"} /\ waiting \in 0..1
    /\ serving \in Sessions \cup {0} /\ live \in BOOLEAN
    /\ stopped \in BOOLEAN /\ released \in BOOLEAN
    \* The permit lives exactly as long as the lane's unit.
    /\ (gate = "maint") = (lane.pc \in {"entered", "probed", "selected", "writing"})

Init ==
    /\ lane = Idle /\ wait = 2 /\ debt = MaxDebt /\ fg = {} /\ rows = FALSE
    /\ stream = "free" /\ gate = "none" /\ waiting = 0 /\ serving = 0 /\ live = TRUE
    /\ stopped = FALSE /\ released = FALSE /\ late = 0 /\ work = 0

\* maintenance_priority_reason is None: the stream is free, the sampled session
\* still leads and serves, no FIFO entry, unacknowledged completion or intent.
Priority(s) == stream = "free" /\ live /\ fg = {} /\ serving = s

\* probe.check() == Clear.
QueueClear == ~rows

\* The lane's deadline passes.
Tick == wait > 0 /\ wait' = wait - 1 /\ UNCHANGED <<lane, debt, gate, late, fgVars>>

\* The unit ends: its permit is dropped and the next deadline set.
End(next) ==
    /\ lane' = Idle /\ wait' = next
    /\ gate' = IF gate = "maint" THEN "none" ELSE gate
    /\ UNCHANGED <<debt, late>>

\* Deferred: try again in 250 ms.
Defer == End(1)

(* Mutant: the lane does not look at the stop flag. *)
BugMayStart == TRUE
MayStart == ~stopped

\* maintenance_tick up to its first question.
Pick ==
    /\ lane = Idle /\ MayStart /\ wait = 0 /\ serving # 0
    /\ IF Priority(serving)
       THEN lane' = [pc |-> "picked", own |-> serving] /\ UNCHANGED <<wait, debt, gate, late>>
       ELSE Defer
    /\ UNCHANGED fgVars

\* The gate admits maintenance only when it is free and nobody waits.
Enter ==
    /\ lane.pc = "picked"
    /\ IF Priority(lane.own) /\ gate = "none" /\ waiting = 0
       THEN gate' = "maint" /\ lane' = [lane EXCEPT !.pc = "entered"] /\ UNCHANGED <<wait, debt, late>>
       ELSE Defer
    /\ UNCHANGED fgVars

\* open_maintenance_queue_probe and its first check.
Probe ==
    /\ lane.pc = "entered"
    /\ IF QueueClear /\ Priority(lane.own)
       THEN lane' = [lane EXCEPT !.pc = "probed"] /\ UNCHANGED <<wait, debt, gate, late>>
       ELSE Defer
    /\ UNCHANGED fgVars

\* Store::maintenance_priority.
Clear == waiting = 0 /\ QueueClear /\ Priority(lane.own)

\* maintenance_step's read phase: without debt the lane rests for a minute.
Select ==
    /\ lane.pc = "probed"
    /\ CASE ~Clear -> Defer
         [] Clear /\ debt = 0 -> End(2)
         [] OTHER -> lane' = [lane EXCEPT !.pc = "selected"] /\ UNCHANGED <<wait, debt, gate, late>>
    /\ UNCHANGED fgVars

OpenWriter ==
    /\ lane.pc = "selected"
    /\ IF Clear
       THEN lane' = [lane EXCEPT !.pc = "writing"] /\ UNCHANGED <<wait, debt, gate, late>>
       ELSE Defer
    /\ UNCHANGED fgVars

\* A publication that waits aborts the open transaction (MaintenanceProgress);
\* otherwise the unit commits and the lane stays due.
Commit ==
    /\ lane.pc = "writing"
    /\ IF waiting # 0
       THEN Defer
       ELSE /\ debt' = debt - 1 /\ lane' = Idle /\ gate' = "none"
            /\ late' = IF Foreground THEN late + 1 ELSE late
            /\ UNCHANGED wait
    /\ UNCHANGED fgVars

\* SQLite contention defers, any other failure rests for a minute.
Contended == lane.pc \in {"probed", "selected", "writing"} /\ Defer /\ UNCHANGED fgVars
Failed == lane.pc \in {"entered", "probed", "selected", "writing"} /\ End(2) /\ UNCHANGED fgVars

\* Foreground work arrives: a queue row here, a row elsewhere, a watch event.
Arrive ==
    /\ work < MaxWork /\ work' = work + 1
    /\ \/ \E k \in {"fifo", "watch"} : fg' = fg \cup {k} /\ UNCHANGED rows
       \/ rows' = TRUE /\ UNCHANGED fg
    /\ UNCHANGED <<laneVars, stream, waiting, serving, live, stopped, released>>

\* The queue tick takes the native stream.
TakeStream ==
    /\ stream = "free" /\ ~stopped /\ (fg # {} \/ rows)
    /\ stream' = "held"
    /\ UNCHANGED <<laneVars, fg, rows, waiting, serving, live, stopped, released, work>>

\* enter_publication: straight in, or wait for at most 250 ms.
AtGate ==
    /\ stream = "held" /\ serving # 0 /\ "ack" \notin fg /\ (fg # {} \/ rows)
    /\ IF gate = "none" THEN gate' = "pub" /\ waiting' = waiting ELSE gate' = gate /\ waiting' = 1
    /\ stream' = "gate"
    /\ UNCHANGED <<lane, wait, debt, late, fg, rows, serving, live, stopped, released, work>>

Granted ==
    /\ waiting = 1 /\ gate = "none" /\ gate' = "pub" /\ waiting' = 0
    /\ UNCHANGED <<lane, wait, debt, late, fg, rows, stream, serving, live, stopped, released, work>>

GateTimeout ==
    /\ waiting = 1 /\ waiting' = 0 /\ stream' = "held"
    /\ UNCHANGED <<laneVars, fg, rows, serving, live, stopped, released, work>>

\* The publication commits; its completion is acknowledged in a later tick,
\* before any other work.
Publish ==
    /\ stream = "gate" /\ gate = "pub"
    /\ gate' = "none" /\ stream' = "free" /\ rows' = FALSE /\ fg' = {"ack"}
    /\ UNCHANGED <<lane, wait, debt, late, waiting, serving, live, stopped, released, work>>

Acknowledge ==
    /\ stream = "held" /\ "ack" \in fg
    /\ fg' = fg \ {"ack"}
    /\ IF fg' = {} /\ ~rows THEN stream' = "free" /\ late' = 0 ELSE UNCHANGED <<stream, late>>
    /\ UNCHANGED <<lane, wait, debt, gate, rows, waiting, serving, live, stopped, released, work>>

\* The stream is released without work done: a busy store, a follower.
DropStream ==
    /\ stream = "held" /\ stream' = "free"
    /\ UNCHANGED <<laneVars, fg, rows, waiting, serving, live, stopped, released, work>>

\* A session is established or replaces a lost one: under the native stream, held
\* by a queue tick or taken for just this by retain_serving_session.
Replace ==
    /\ stream # "gate" /\ ~released
    /\ \E s \in Sessions : s > serving /\ serving' = s
    /\ live' = TRUE
    /\ UNCHANGED <<laneVars, fg, rows, stream, waiting, stopped, released, work>>

LoseLeader ==
    /\ live /\ serving # 0 /\ live' = FALSE
    /\ UNCHANGED <<laneVars, fg, rows, stream, waiting, serving, stopped, released, work>>

\* release_checkout_runtime: the flag first, then both streams, then the session.
Stop ==
    /\ ~stopped /\ stopped' = TRUE
    /\ UNCHANGED <<laneVars, fg, rows, stream, waiting, serving, live, released, work>>

LaneFree == lane = Idle

Release ==
    /\ stopped /\ ~released /\ stream = "free" /\ LaneFree
    /\ released' = TRUE /\ serving' = 0
    /\ UNCHANGED <<laneVars, fg, rows, stream, waiting, live, stopped, work>>

Next ==
    \/ Tick \/ Pick \/ Enter \/ Probe \/ Select \/ OpenWriter \/ Commit \/ Contended \/ Failed
    \/ Arrive \/ TakeStream \/ AtGate \/ Granted \/ GateTimeout \/ Publish \/ Acknowledge
    \/ DropStream \/ Replace \/ LoseLeader \/ Stop \/ Release

Spec == Init /\ [][Next]_vars

\* One unit's own steps.
UnitStep == Enter \/ Probe \/ Select \/ OpenWriter \/ Commit

\* Steps of a leader that lasts, on a store that nobody contends for.
LiveNext ==
    \/ Tick \/ Pick \/ UnitStep
    \/ Arrive \/ TakeStream \/ AtGate \/ Granted \/ GateTimeout \/ Publish \/ Acknowledge
    \/ Replace

(***************************************************************************)
(* Properties.                                                             *)
(***************************************************************************)
\* Foreground work that is pending is overtaken by at most one maintenance unit,
\* the one whose last question was asked before it arrived.
AtMostOneLateUnit == late <= 1

\* After release_checkout_runtime has returned, no maintenance unit runs.
ReleasedIsQuiet == released => lane.pc = "idle" /\ gate # "maint"

\* No unit starts once the runtime has been told to stop.
NoUnitAfterStop == stopped /\ lane = Idle => lane' = Idle

====
