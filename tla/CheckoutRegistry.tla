--------------------------- MODULE CheckoutRegistry ---------------------------
(***************************************************************************)
(* The checkout registry of the daemon (src/src/daemon/registry.rs):       *)
(* entries with their clients, the capacity of active checkouts, the idle  *)
(* clocks that release a checkout and end the daemon, browser requests as  *)
(* clients that expire, registrations of `serve`, and a checkout whose     *)
(* root is replaced under the same path.  Every operation runs under the   *)
(* registry mutex and is one action; what a release of a runtime does is   *)
(* module CheckoutRuntime.                                                 *)
(*                                                                         *)
(* Clocks are kept relative to now: a deadline is the time left to it.  A  *)
(* unit of Tick stands for minutes; the lifecycle tick (250 ms) may come   *)
(* late by at most MaxLate units, and the orphan scan is cached for less   *)
(* than one unit.                                                          *)
(***************************************************************************)
EXTENDS Integers, FiniteSets, FiniteSetsExt

CONSTANTS
    Keys,          \* root keys
    Sessions,      \* connections
    Options,       \* registered option sets
    MaxIdent,      \* bound on the identities that a path has in turn
    MAX_ACTIVE_CHECKOUTS,
    BROWSER_IDLE_DELAY,
    CHECKOUT_RELEASE_DELAY,
    DAEMON_IDLE_DELAY,
    MaxLate        \* bound on the lateness of the lifecycle tick

\* No deadline: longer than any clock.
None == BROWSER_IDLE_DELAY + CHECKOUT_RELEASE_DELAY + DAEMON_IDLE_DELAY

VARIABLES
    disk,     \* identity that the path of a key has now
    entry,    \* entries: identity 0 when there is none
    runtime,  \* runtimes: the options a live runtime was activated with, or "none"
    busy,     \* H, a read or a queued row keeps the runtime busy
    exitIn,   \* idle_exit_at
    scan,     \* orphan_scan_cache: "none", "pending" or "clear"
    orphan,   \* a root that is not active has an unfinished request
    asked,    \* a browser request between its two critical sections
    since,    \* history: time since a key last had a client, capped
    exited    \* the lifecycle has returned

vars == <<disk, entry, runtime, busy, exitIn, scan, orphan, asked, since, exited>>

NoEntry == [ident |-> 0, registration |-> "none", sessions |-> {}, released |-> TRUE,
            pending |-> FALSE, browser |-> None, release |-> None]

NoAsk == [key |-> "none", ident |-> 0]

Init ==
    /\ disk = [k \in Keys |-> 1]
    /\ entry = [k \in Keys |-> NoEntry]
    /\ runtime = [k \in Keys |-> "none"] /\ busy = [k \in Keys |-> FALSE]
    /\ exitIn = DAEMON_IDLE_DELAY /\ scan = "none" /\ orphan \in BOOLEAN
    /\ asked = NoAsk
    /\ since = [k \in Keys |-> 0] /\ exited = FALSE

HasClient(e) == e.sessions # {} \/ e.browser # None

Known == {k \in Keys : entry[k].ident # 0}

\* active_count, after an entry of another identity of k is gone.
ActiveCount(k, ident) ==
    Cardinality({j \in Known : /\ j = k => entry[k].ident = ident
                               /\ ~entry[j].released \/ entry[j].pending})

(***************************************************************************)
(* Release, and the retirement of a replaced identity                      *)
(***************************************************************************)

\* refresh_pending_work: a live runtime is asked, otherwise the last answer stands.
Pending(k) == IF runtime[k] # "none" THEN busy[k] ELSE entry[k].pending

\* release: refused with a client or pending work.
Releasable(k) == ~HasClient(entry[k]) /\ ~Pending(k)

\* can_retire_replaced, with the release that retire_replaced then does: the
\* new identity must be the one found on disk, and the old one quiescent.
CanRetire(k, ident) ==
    /\ ~HasClient(entry[k]) /\ ~entry[k].pending
    /\ ident = disk[k] /\ entry[k].ident # ident
    /\ Releasable(k)

\* retire_replaced succeeds when there is nothing to retire or it retires.
Retired(k, ident) == entry[k].ident \in {0, ident} \/ CanRetire(k, ident)

\* The entry that an operation on `ident` then finds.
Found(k, ident) == IF entry[k].ident = ident THEN entry[k] ELSE NoEntry

DropReplaced(k, ident) ==
    /\ runtime' = IF entry[k].ident = ident THEN runtime ELSE [runtime EXCEPT ![k] = "none"]
    /\ busy' = IF entry[k].ident = ident THEN busy ELSE [busy EXCEPT ![k] = FALSE]

(***************************************************************************)
(* Clients                                                                 *)
(***************************************************************************)

\* Mutant: an entry that is known is never refused.
BugCapacityLeft(k, ident) == Found(k, ident).ident # 0 \/ ActiveCount(k, ident) < MAX_ACTIVE_CHECKOUTS

\* attach: the capacity counts for a released or unknown entry.
CapacityLeft(k, ident) ==
    ~Found(k, ident).released \/ ActiveCount(k, ident) < MAX_ACTIVE_CHECKOUTS

\* The common part of attach: identity verified on disk, then the entry is live.
Attached(k, ident, sessions, browser) ==
    [Found(k, ident) EXCEPT !.ident = ident, !.released = FALSE, !.release = None,
                            !.sessions = @ \cup sessions,
                            !.browser = IF browser = None THEN @ ELSE browser]

MayAttach(k, ident) == ~exited /\ ident = disk[k] /\ Retired(k, ident) /\ CapacityLeft(k, ident)

\* attach_launch and select, up to attach: the identity was verified before.
Attach(s, k) ==
    /\ MayAttach(k, disk[k])
    /\ \A j \in Keys : s \in entry[j].sessions => j # k
    /\ DropReplaced(k, disk[k])
    /\ entry' = [entry EXCEPT ![k] = Attached(k, disk[k], {s}, None)]
    /\ exitIn' = None
    /\ since' = [since EXCEPT ![k] = Min({@, 0})]
    /\ UNCHANGED <<disk, scan, orphan, asked, exited>>

\* browser_identity: an unknown or replaced key is registered as discovered.
BrowserIdentity(k) ==
    /\ ~exited /\ asked = NoAsk
    /\ Retired(k, disk[k])
    /\ DropReplaced(k, disk[k])
    /\ entry' = [entry EXCEPT ![k] = [Found(k, disk[k]) EXCEPT !.ident = disk[k]]]
    /\ asked' = [key |-> k, ident |-> disk[k]]
    /\ UNCHANGED <<disk, exitIn, scan, orphan, since, exited>>

\* browser_request_at, with the identity found before the lock was given up.
BrowserRequest ==
    /\ asked # NoAsk
    /\ LET k == asked.key IN
       /\ MayAttach(k, asked.ident)
       /\ DropReplaced(k, asked.ident)
       /\ entry' = [entry EXCEPT ![k] = Attached(k, asked.ident, {}, BROWSER_IDLE_DELAY)]
       /\ since' = [since EXCEPT ![k] = -BROWSER_IDLE_DELAY]
    /\ exitIn' = None /\ asked' = NoAsk
    /\ UNCHANGED <<disk, scan, orphan, exited>>

BrowserRefused ==
    /\ asked # NoAsk /\ ~MayAttach(asked.key, asked.ident)
    /\ asked' = NoAsk
    /\ UNCHANGED <<disk, entry, runtime, busy, exitIn, scan, orphan, since, exited>>

(***************************************************************************)
(* Expiry of browsers and the idle deadlines                               *)
(***************************************************************************)
Expired(es) == {k \in Keys : es[k].browser <= 0}

\* expire_browsers: the grace counts from the deadline, not from this tick.
AfterExpiry(es) ==
    [k \in Keys |-> IF k \notin Expired(es) THEN es[k]
                    ELSE [es[k] EXCEPT !.browser = None,
                                       !.release = IF es[k].sessions = {}
                                                   THEN es[k].browser + CHECKOUT_RELEASE_DELAY ELSE @]]

\* The instant, relative to now, at which the last expired client went.
ExpiredAt(es) ==
    LET gone == {es[k].browser : k \in {j \in Expired(es) : es[j].sessions = {}}}
    IN  IF gone = {} THEN 0 ELSE Max(gone)

\* update_exit_deadline.
ExitDeadline(es, in, at) ==
    IF \E k \in Keys : HasClient(es[k]) THEN None
    ELSE IF in = None THEN at + DAEMON_IDLE_DELAY ELSE in

\* disconnect_at: every entry of the session.
Disconnect(s) ==
    /\ ~exited /\ \E k \in Keys : s \in entry[k].sessions
    /\ LET es == AfterExpiry(entry)
           out == [k \in Keys |->
                      IF s \notin es[k].sessions THEN es[k]
                      ELSE [es[k] EXCEPT !.sessions = @ \ {s},
                                         !.release = IF es[k].sessions = {s} /\ es[k].browser = None
                                                     THEN CHECKOUT_RELEASE_DELAY ELSE @]]
       IN  /\ entry' = out
           /\ exitIn' = IF \E k \in Keys : HasClient(out[k]) THEN None ELSE DAEMON_IDLE_DELAY
    /\ UNCHANGED <<disk, runtime, busy, scan, orphan, asked, since, exited>>

Due(es) == {k \in Keys : es[k].release <= 0}

\* orphan_queue_pending through its cache.
OrphanPending == IF scan = "none" THEN orphan ELSE scan = "pending"

\* advance: expire, move the exit deadline, release what is due and idle, and
\* leave when the daemon has been idle for long and no queue has work.
Advance ==
    /\ ~exited
    /\ LET es == AfterExpiry(entry)
           in == ExitDeadline(es, exitIn, ExpiredAt(entry))
           gone == {k \in Due(es) : ~HasClient(es[k]) /\ ~Pending(k)}
           left == [k \in Keys |->
                      IF k \in gone THEN [es[k] EXCEPT !.released = TRUE, !.release = None, !.pending = FALSE]
                      ELSE [es[k] EXCEPT !.pending = Pending(k)]]
           candidate == /\ in <= 0
                        /\ \A k \in Keys : ~left[k].pending /\ ~HasClient(left[k])
       IN  /\ entry' = left
           /\ exitIn' = in
           /\ runtime' = [k \in Keys |-> IF k \in gone THEN "none" ELSE runtime[k]]
           /\ busy' = [k \in Keys |-> busy[k] /\ k \notin gone]
           /\ scan' = IF candidate THEN (IF OrphanPending THEN "pending" ELSE "clear") ELSE scan
           /\ exited' = (candidate /\ ~OrphanPending)
    /\ UNCHANGED <<disk, orphan, asked, since>>

(***************************************************************************)
(* Registration and activation                                             *)
(***************************************************************************)

\* can_register and register: options of a live checkout are not replaced.
MayRegister(k, o) ==
    /\ Retired(k, disk[k])
    /\ LET e == Found(k, disk[k]) IN
       ~(/\ e.registration # o
         /\ e.registration # "none" \/ (e.ident # 0 /\ runtime[k] # "none")
         /\ ~e.released \/ e.pending \/ e.sessions # {})

Register(k, o) ==
    /\ ~exited /\ MayRegister(k, o) /\ entry[k].registration # o
    /\ DropReplaced(k, disk[k])
    /\ entry' = [entry EXCEPT ![k] = [Found(k, disk[k]) EXCEPT !.ident = disk[k], !.registration = o]]
    /\ UNCHANGED <<disk, exitIn, scan, orphan, asked, since, exited>>

\* activate: only an attached checkout whose identity is still on disk.
Activate(k) ==
    /\ ~exited /\ entry[k].ident = disk[k]
    /\ ~entry[k].released /\ HasClient(entry[k]) /\ runtime[k] = "none"
    /\ runtime' = [runtime EXCEPT ![k] = IF entry[k].registration = "none" THEN "default"
                                         ELSE entry[k].registration]
    /\ busy' = [busy EXCEPT ![k] = TRUE]
    /\ UNCHANGED <<disk, entry, exitIn, scan, orphan, asked, since, exited>>

(***************************************************************************)
(* The environment                                                         *)
(***************************************************************************)

\* The runtime's work begins while a client is there, and ends.
WorkBegins(k) ==
    /\ ~exited /\ runtime[k] # "none" /\ ~busy[k] /\ HasClient(entry[k])
    /\ busy' = [busy EXCEPT ![k] = TRUE]
    /\ UNCHANGED <<disk, entry, runtime, exitIn, scan, orphan, asked, since, exited>>

WorkEnds(k) ==
    /\ ~exited /\ busy[k]
    /\ busy' = [busy EXCEPT ![k] = FALSE]
    /\ UNCHANGED <<disk, entry, runtime, exitIn, scan, orphan, asked, since, exited>>

OrphanEnds ==
    /\ ~exited /\ orphan
    /\ orphan' = FALSE
    /\ UNCHANGED <<disk, entry, runtime, busy, exitIn, scan, asked, since, exited>>

ReplaceRoot(k) ==
    /\ ~exited /\ disk[k] < MaxIdent
    /\ disk' = [disk EXCEPT ![k] = @ + 1]
    /\ UNCHANGED <<entry, runtime, busy, exitIn, scan, orphan, asked, since, exited>>

Sooner(x, low) == IF x = None THEN None ELSE Max({x - 1, low})

Tick ==
    /\ ~exited
    /\ \A k \in Keys : entry[k].browser > -MaxLate
    /\ entry' = [k \in Keys |-> [entry[k] EXCEPT !.browser = Sooner(@, -MaxLate),
                                                 !.release = Sooner(@, 0)]]
    /\ exitIn' = Sooner(exitIn, 0)
    /\ scan' = "none"
    /\ since' = [k \in Keys |-> IF entry[k].sessions # {} THEN Min({since[k] + 1, 0})
                                ELSE Min({since[k] + 1, DAEMON_IDLE_DELAY})]
    /\ UNCHANGED <<disk, runtime, busy, orphan, asked, exited>>

Next ==
    \/ \E k \in Keys : \/ \E s \in Sessions : Attach(s, k)
                       \/ \E o \in Options : Register(k, o)
                       \/ BrowserIdentity(k) \/ Activate(k) \/ WorkBegins(k) \/ WorkEnds(k)
                       \/ ReplaceRoot(k)
    \/ \E s \in Sessions : Disconnect(s)
    \/ BrowserRequest \/ BrowserRefused \/ OrphanEnds \/ Advance \/ Tick

Spec == Init /\ [][Next]_vars

(***************************************************************************)
(* Properties                                                              *)
(***************************************************************************)

TypeOK ==
    /\ \A k \in Keys :
        /\ disk[k] \in 1..MaxIdent /\ entry[k].ident \in 0..disk[k]
        /\ entry[k].registration \in Options \cup {"none"}
        /\ entry[k].sessions \subseteq Sessions
        /\ entry[k].browser \in (-MaxLate)..BROWSER_IDLE_DELAY \cup {None}
        /\ entry[k].release \in 0..CHECKOUT_RELEASE_DELAY \cup {None}
        /\ runtime[k] \in Options \cup {"none", "default"}
        /\ since[k] \in (-BROWSER_IDLE_DELAY)..DAEMON_IDLE_DELAY
    /\ exitIn \in 0..DAEMON_IDLE_DELAY \cup {None}

\* No more runtimes than places, although places are counted by entries.
CapacityHeld == Cardinality({k \in Keys : runtime[k] # "none"}) <= MAX_ACTIVE_CHECKOUTS

\* A runtime is released only after its checkout had no client for the grace
\* period, or because its path names another checkout now.
ReleaseGrace ==
    \A k \in Keys : runtime[k] # "none" /\ runtime'[k] = "none" =>
       since[k] >= CHECKOUT_RELEASE_DELAY \/ entry[k].ident # disk[k]

\* The daemon ends only when no checkout had a client for the idle period.
ExitGrace == exited => \A k \in Keys : since[k] >= DAEMON_IDLE_DELAY

\* The daemon ends with no work left behind: no busy runtime, and no unfinished
\* request of a root that nobody attached ("not permission to abandon work").
ExitAbandonsNothing ==
    exited' /\ ~exited => ~orphan /\ \A k \in Keys : ~busy[k]

\* A checkout under use is never replaced by another identity of its path.
ClientKeepsIdentity ==
    \A k \in Keys : HasClient(entry[k]) \/ (runtime[k] # "none" /\ busy[k])
       => entry'[k].ident = entry[k].ident

\* A live runtime runs with the options registered for its checkout.
OptionsAgree ==
    \A k \in Keys : runtime[k] \notin {"none", "default"} => runtime[k] = entry[k].registration

=============================================================================
