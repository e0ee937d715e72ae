----------------------------- MODULE Retention -----------------------------
(***************************************************************************)
(* Revision retention inside one live index.                               *)
(*                                                                         *)
(* A publication supersedes the head and stamps it with the wall clock.    *)
(* Maintenance releases a superseded revision once its grace is over: in   *)
(* bounded transactions it moves manifest entries to a candidate journal   *)
(* and deletes the version, graph and class rows no other manifest uses.   *)
(* Publications interleave with the units of one release and may adopt a   *)
(* document version that a release has already half deleted.               *)
(***************************************************************************)
EXTENDS Integers, FiniteSets, FiniteSetsExt

CONSTANTS Entries,     \* manifest entries <<document version, projection variant>>
          Classed,     \* those that also have a class projection
          Snapshots,   \* the manifests a publication may capture
          Size,        \* child rows of a version, a graph and a class projection
          Batch,       \* child rows deleted by one statement
          Unit,        \* manifest entries and candidates handled by one transaction
          Keep,        \* seconds of grace
          Slack,       \* seconds the wall clock may run ahead of the process clock
          Skews,       \* bound: wall clock minus true time, values a clock step sets
          MaxTime,     \* bound: seconds of true time
          MaxRev,      \* bound: revisions of one generation
          MaxWaits,    \* bound: read snapshots and waits of publishers
          MaxOpens     \* bound: processes that open the store

VARIABLES time,       \* true time
          skew,       \* wall clock minus true time
          origin,     \* RetentionClock of the live process: wall and monotonic start
          opens,      \* processes so far
          head,       \* index_metadata.index_revision
          inventory,  \* native_revisions.source_inventory, kept after a release
          manifest,   \* revision_documents
          marker,     \* revision_capture_inputs: release markers
          tables,     \* the supersession and release tables are installed
          sup,        \* native_revision_supersessions
          debt,       \* native_revision_release_debt
          cand,       \* the three native_release_candidate tables
          rows,       \* 0: absent; n + 1: the parent row and n child rows
          m,          \* the maintenance unit in progress
          waiting,    \* a publisher waits for the gate
          reading,    \* a read snapshot is open
          waits,      \* snapshots and waits so far
          born        \* history: true time at which a revision was superseded

clock == <<time, skew, origin, opens>>
db    == <<head, inventory, manifest, marker, tables, sup, debt, cand, rows, born>>
vars  == <<clock, db, m, waiting, reading, waits>>

Docs    == {e[1] : e \in Entries}
Objects == ({"version"} \X Docs) \cup ({"graph"} \X Entries) \cup ({"class"} \X Classed)

\* The rows a manifest entry names.
Parts(e) == {<<"version", e[1]>>, <<"graph", e>>}
            \cup (IF e \in Classed THEN {<<"class", e>>} ELSE {})

Named(man) == UNION {Parts(e) : e \in UNION {man[r] : r \in DOMAIN man}}

\* Projections of a version, class projections of a graph projection.
Dependents(o) == {x \in Objects :
    \/ o[1] = "version" /\ x[1] = "graph" /\ x[2][1] = o[2]
    \/ o[1] = "graph" /\ x = <<"class", o[2]>>}

Revs  == 1..head
Free  == [pc |-> "idle", rev |-> 0, head |-> 0, now |-> 0]
wall  == time + skew

TypeOK ==
    /\ time \in 0..MaxTime /\ skew \in Int
    /\ origin \in [wall : Int, time : Nat] /\ opens \in Nat
    /\ head \in 1..MaxRev
    /\ inventory \in [Revs -> SUBSET Entries]
    /\ manifest \in [Revs -> SUBSET Entries]
    /\ marker \in [Revs -> {"none", "pending", "released"}]
    /\ tables \in BOOLEAN /\ DOMAIN sup \subseteq Revs
    /\ \A r \in DOMAIN sup : sup[r] \in [stamp : Int, state : {"retained", "pending", "released"}]
    /\ debt \subseteq Revs /\ cand \subseteq Revs \X Objects
    /\ rows \in [Objects -> Nat] /\ \A o \in Objects : rows[o] <= Size[o[1]] + 1
    /\ m \in [pc : {"idle", "selected"}, rev : Nat, head : Nat, now : Int]
    /\ waiting \in BOOLEAN /\ reading \in BOOLEAN /\ waits \in Nat
    /\ born \in [DOMAIN sup -> Nat]

Full(s) == [o \in Objects |-> IF o \in UNION {Parts(e) : e \in s} THEN Size[o[1]] + 1 ELSE 0]

\* Two revisions that a version without retention left, or one with the tables in place.
Init ==
    /\ time = 0 /\ skew = 0 /\ origin = [wall |-> 0, time |-> 0] /\ opens = 1
    /\ tables \in BOOLEAN
    /\ head = IF tables THEN 1 ELSE 2
    /\ inventory \in [Revs -> Snapshots] /\ manifest = inventory
    /\ rows = Full(UNION {inventory[r] : r \in Revs})
    /\ marker = [r \in Revs |-> "none"]
    /\ sup = <<>> /\ debt = {} /\ cand = {} /\ born = <<>>
    /\ m = Free /\ waiting = FALSE /\ reading = FALSE /\ waits = 0
-----------------------------------------------------------------------------
(* Clocks and processes.                                                    *)

Tick ==
    /\ time < MaxTime
    /\ time' = time + 1
    /\ UNCHANGED <<skew, origin, opens, db, m, waiting, reading, waits>>

\* The wall clock is stepped.
StepClock ==
    /\ \E s \in Skews \ {skew} : skew' = s
    /\ UNCHANGED <<time, origin, opens, db, m, waiting, reading, waits>>

\* The process dies and another opens the store; SQLite rolls the open transaction back.
Reopen ==
    /\ opens < MaxOpens
    /\ opens' = opens + 1
    /\ origin' = [wall |-> wall, time |-> time]
    /\ m' = Free /\ waiting' = FALSE
    /\ UNCHANGED <<time, skew, db, reading, waits>>

\* retention_due, and the same bound as it stands in the queries.
Due(now, stamp) == now - stamp >= Keep

\* Wall time may not outrun the monotonic clock of this process.
Plausible(now) == now <= origin.wall + (time - origin.time) + Slack
-----------------------------------------------------------------------------
(* Publication.                                                             *)

Superseded(stamp) == [stamp |-> stamp, state |-> "retained"]

\* install_supersessions: history without rows is stamped now and keeps its tombstones.
Installed ==
    IF tables THEN sup
    ELSE [r \in 1..head - 1 |->
            [stamp |-> wall, state |-> IF marker[r] = "released" THEN "released" ELSE "retained"]]

\* A leader installs the tables when it takes over, before it publishes.
Install ==
    /\ ~tables /\ ~reading
    /\ tables' = TRUE /\ sup' = Installed
    /\ born' = [r \in 1..head - 1 |-> time]
    /\ UNCHANGED <<clock, head, inventory, manifest, marker, debt, cand, rows, m, waiting,
                    reading, waits>>

\* ImmutableAppend: documents reused from the head are skipped; every other row is compared,
\* or inserted when it is missing.
Appended(s) ==
    LET reused == UNION {Parts(e) : e \in s \cap manifest[head]}
        named  == UNION {Parts(e) : e \in s}
    IN  [o \in Objects |-> IF o \in named \ reused THEN Size[o[1]] + 1 ELSE rows[o]]

\* ImmutableAppend::finish: a reused parent has exactly the expected child rows.
Complete(s, rs) == \A e \in s : \A o \in Parts(e) : rs[o] = Size[o[1]] + 1

\* The header of index d's revision r agrees with its manifest, its release marker, its
\* supersession row and its debt (paired_manifest_query).
WellPaired(d, r) ==
    LET superseded == r \in DOMAIN d.sup
        state      == d.sup[r].state
    IN  /\ r = d.head => ~superseded /\ r \notin d.debt /\ d.man[r] = d.inv[r]
        /\ r # d.head =>
              /\ superseded
              /\ r \in d.debt <=> state = "pending"
              /\ d.mark[r] = IF state = "retained" THEN "none" ELSE state
              /\ state = "retained" => d.man[r] = d.inv[r]
              /\ state = "released" => d.man[r] = {}
              /\ d.man[r] \subseteq d.inv[r]

\* Every journaled candidate belongs to a pending revision.
NoStrayCandidate(d) ==
    \A c \in d.cand : c[1] \in DOMAIN d.sup /\ d.sup[c[1]].state = "pending"

\* Publishing takes the gate, so no maintenance unit is running, and needs the
\* exclusive SQLite lock, so no snapshot is open.
Publish(s) ==
    /\ m.pc = "idle" /\ ~reading /\ head < MaxRev
    /\ Complete(s, Appended(s))
    /\ LET grow(f, x) == [r \in 1..head + 1 |-> IF r = head + 1 THEN x ELSE f[r]]
           d == [head |-> head + 1, inv |-> grow(inventory, s), man |-> grow(manifest, s),
                 mark |-> grow(marker, "none"), debt |-> debt, cand |-> cand,
                 sup |-> [r \in 1..head |-> IF r = head THEN Superseded(wall)
                                            ELSE Installed[r]]]
       IN  /\ \A r \in {head, head + 1} \cup debt : WellPaired(d, r)
           /\ NoStrayCandidate(d)
           /\ head' = d.head /\ inventory' = d.inv /\ manifest' = d.man
           /\ marker' = d.mark /\ sup' = d.sup
    /\ rows' = Appended(s)
    /\ born' = [r \in 1..head |-> IF r \in DOMAIN born THEN born[r] ELSE time]
    /\ tables' = TRUE /\ waiting' = FALSE
    /\ UNCHANGED <<clock, debt, cand, m, reading, waits>>

\* An incompatible or corrupt generation is replaced, never appended to.
Rebaseline(s) ==
    /\ m.pc = "idle" /\ ~reading /\ head > 1
    /\ head' = 1
    /\ inventory' = [r \in {1} |-> s] /\ manifest' = [r \in {1} |-> s]
    /\ marker' = [r \in {1} |-> "none"]
    /\ rows' = Full(s)
    /\ tables' = TRUE /\ sup' = <<>> /\ born' = <<>> /\ debt' = {} /\ cand' = {}
    /\ waiting' = FALSE
    /\ UNCHANGED <<clock, m, reading, waits>>

\* A publisher announces itself, or work enters the durable queue: a maintenance unit that
\* has not committed must yield.
WaitForGate ==
    /\ ~waiting /\ m.pc = "selected" /\ waits < MaxWaits
    /\ waiting' = TRUE /\ waits' = waits + 1
    /\ UNCHANGED <<clock, db, m, reading>>

\* The waiting publication is cancelled.
StopWaiting ==
    /\ waiting /\ waiting' = FALSE
    /\ UNCHANGED <<clock, db, m, reading, waits>>
-----------------------------------------------------------------------------
(* Reads hold SQLite's shared lock for one snapshot.                        *)

BeginRead ==
    /\ ~reading /\ waits < MaxWaits
    /\ reading' = TRUE /\ waits' = waits + 1
    /\ UNCHANGED <<clock, db, m, waiting>>

EndRead ==
    /\ reading /\ reading' = FALSE
    /\ UNCHANGED <<clock, db, m, waiting, waits>>
-----------------------------------------------------------------------------
(* Maintenance.                                                             *)

\* Stamps may be ahead of a clock that was set back.
Now == Max({wall} \cup {sup[r].stamp : r \in DOMAIN sup})

DueRevs == {r \in DOMAIN sup : sup[r].state = "retained" /\ Due(Now, sup[r].stamp)}

\* A read-only probe chooses pending debt first, then the oldest due revision.
Select ==
    /\ m.pc = "idle" /\ ~waiting /\ tables
    /\ \E r \in Revs :
          /\ \/ r \in debt
             \/ /\ debt = {} /\ Plausible(Now) /\ r \in DueRevs
                /\ \A x \in DueRevs : sup[r].stamp <= sup[x].stamp
          /\ m' = [pc |-> "selected", rev |-> r, head |-> head, now |-> Now]
    /\ UNCHANGED <<clock, db, waiting, reading, waits>>

\* Conditions re-read inside the IMMEDIATE transaction and before COMMIT.
Committable == m.pc = "selected" /\ m.head = head /\ m.rev # head /\ ~waiting /\ ~reading

\* A publisher, queued work or a SQLite lock makes the unit roll back.
Defer ==
    /\ m.pc = "selected" /\ (waiting \/ reading)
    /\ m' = Free
    /\ UNCHANGED <<clock, db, waiting, reading, waits>>

\* First unit: the revision leaves retention and its pin expires.
MarkPending ==
    /\ Committable /\ sup[m.rev].state = "retained" /\ Due(m.now, sup[m.rev].stamp)
    /\ sup' = [sup EXCEPT ![m.rev].state = "pending"]
    /\ debt' = debt \cup {m.rev}
    /\ marker' = [marker EXCEPT ![m.rev] = "pending"]
    /\ m' = Free
    /\ UNCHANGED <<clock, head, inventory, manifest, tables, cand, rows, born, waiting, reading,
                    waits>>

\* Mutant: only this revision's own manifest is asked for references.
BugReferenced(o, r, man) == o \in UNION {Parts(e) : e \in man[r]}

\* still_referenced: any manifest row of any revision.
Referenced(o, r, man) == o \in Named(man)

\* Mutant: a candidate that is still used stays in the journal.
BugKept(s, r, k, man) ==
    LET o == CHOOSE x \in Objects : <<r, x>> \in s.cand /\ x[1] = k
    IN  IF Referenced(o, r, man) THEN [s EXCEPT !.stop = TRUE]
        ELSE [s EXCEPT !.rows[o] = 0, !.cand = @ \ {<<r, o>>}]

\* One candidate: un-journal it when it is still used, journal its first dependent, delete a
\* batch of children, or delete the parent.
CleanOne(s, r, k, man) ==
    LET o    == CHOOSE x \in Objects : <<r, x>> \in s.cand /\ x[1] = k
        left == {x \in Dependents(o) : s.rows[x] > 0}
        gone == [s EXCEPT !.cand = @ \ {<<r, o>>}]
    IN  IF Referenced(o, r, man) THEN gone
        ELSE IF left # {} THEN
            [s EXCEPT !.cand = @ \cup {<<r, CHOOSE x \in left : TRUE>>}, !.stop = TRUE]
        ELSE IF s.rows[o] > Batch THEN [s EXCEPT !.rows[o] = @ - Batch, !.stop = TRUE]
        ELSE [gone EXCEPT !.rows[o] = 0]

\* At most Unit candidates of one kind in one transaction.
Cleanup(s, r, k, man) ==
    LET done(x) == x.stop \/ \A o \in Objects : o[1] = k => <<r, o>> \notin x.cand
        after[n \in 0..Unit] ==
            IF n = 0 THEN s
            ELSE IF done(after[n - 1]) THEN after[n - 1]
            ELSE CleanOne(after[n - 1], r, k, man)
    IN  [after[Unit] EXCEPT !.stop = FALSE]

\* Nothing of the revision is left in a manifest or in the journal.
Drained(r, man, left) == man[r] = {} /\ \A c \in left : c[1] # r

\* Later units: move entries to the journal, clean up, and finish when nothing is left.
Drain ==
    /\ Committable /\ sup[m.rev].state = "pending"
    /\ LET r     == m.rev
           n     == Min({Unit, Cardinality(manifest[r])})
           moved == CHOOSE t \in SUBSET manifest[r] : Cardinality(t) = n
           man   == [manifest EXCEPT ![r] = @ \ moved]
           s0    == [rows |-> rows, stop |-> FALSE,
                     cand |-> cand \cup {<<r, o>> : o \in UNION {Parts(e) : e \in moved}}]
       IN  \E c \in {Cleanup(s0, r, "class", man)} :
           \E g \in {Cleanup(c, r, "graph", man)} :
           \E v \in {Cleanup(g, r, "version", man)} :
             /\ manifest' = man /\ cand' = v.cand /\ rows' = v.rows
             /\ IF Drained(r, man, v.cand)
                THEN /\ debt' = debt \ {r}
                     /\ marker' = [marker EXCEPT ![r] = "released"]
                     /\ sup' = [sup EXCEPT ![r].state = "released"]
                ELSE UNCHANGED <<debt, marker, sup>>
    /\ m' = Free
    /\ UNCHANGED <<clock, head, inventory, tables, born, waiting, reading, waits>>

Next ==
    \/ Tick \/ StepClock \/ Reopen \/ Install
    \/ \E s \in Snapshots : Publish(s) \/ Rebaseline(s)
    \/ WaitForGate \/ StopWaiting \/ BeginRead \/ EndRead
    \/ Select \/ Defer \/ MarkPending \/ Drain

Spec == Init /\ [][Next]_vars
-----------------------------------------------------------------------------
(* Properties.                                                              *)

\* A pin that a read admits (read_revision_for: no release marker) still has its whole
\* manifest, and every version and projection it names has all its rows.
ReadablePinsWhole ==
    \A r \in Revs : marker[r] = "none" =>
        manifest[r] = inventory[r] /\ Complete(manifest[r], rows)

\* Whatever publications and releases commit passes the checks that admission makes on the
\* whole history (paired_manifest_query and the stray-candidate query); otherwise the next
\* start would refuse the index and rebuild it.
AdmissionAccepts ==
    tables => LET d == [head |-> head, inv |-> inventory, man |-> manifest, mark |-> marker,
                        sup |-> sup, debt |-> debt, cand |-> cand]
              IN  (\A r \in Revs : WellPaired(d, r)) /\ NoStrayCandidate(d)

\* No foreign key is broken: a projection's version, a class projection's graph and the rows
\* a manifest names exist.  A broken one would make every later COMMIT of the drain fail.
NoDanglingRow ==
    /\ \A o \in Objects : rows[o] = 0 => \A x \in Dependents(o) : rows[x] = 0
    /\ \A o \in Named(manifest) : rows[o] > 0

\* Rows of released revisions do not leak: what exists is named by a manifest, journaled, or
\* hangs below something that is.
NoLeakedRow ==
    LET kept == Named(manifest) \cup {c[2] : c \in cand}
        held == kept \cup UNION {Dependents(o) : o \in kept}
    IN  \A o \in Objects : rows[o] > 0 => o \in held \cup UNION {Dependents(x) : x \in held}

\* Decision 0006: a revision superseded less than the grace ago keeps its pin, up to the
\* slack the process clock allows.
GraceHonoured == \A r \in DOMAIN sup : marker[r] # "none" => time - born[r] >= Keep - Slack

=============================================================================
