------------------------------ MODULE IndexGc ------------------------------
(***************************************************************************)
(* Automatic garbage collection of derived indexes (store/topology.rs,     *)
(* automatic_gc_at; store.rs, gc_unlink_sqlite; http.rs, gc_tick): the     *)
(* leader of some checkout, at most once a day, removes the index          *)
(* directories whose root is gone or that nobody opened for 30 days, while *)
(* other processes open those indexes, roots vanish and come back, clocks  *)
(* are set back, and collectors and openers die.                           *)
(*                                                                         *)
(* A use lock is taken in one step here; RecordStore models how taking it  *)
(* survives the unlinking of the lock file.                                *)
(***************************************************************************)
EXTENDS Naturals, FiniteSets

CONSTANTS
    Keys,           \* indexes other than the collectors' own
    Collectors,     \* leaders that run automatic GC
    Openers,        \* processes that open indexes
    Day,            \* the interval between attempts (24 h)
    Age,            \* an index unopened for this long may go (30 days)
    MaxNow          \* bound: the clock

None == "none"
Names == {"dir", "index", "requests", "leader", "lock"}

VARIABLES
    now,            \* wall clock; it may be set back
    stamp,          \* gc-last-run: time of the last attempt, 0 when there is none
    files,          \* per key: the names that exist
    root,           \* per key: the root the index records, now
    away,           \* keys whose root was not there at some time since their lock was taken
    opened,         \* per key: last_opened_at
    held,           \* per key: who holds the use lock, [who -> "sh" or "ex"]
    gpc, gtime, gtodo, gkey,    \* per collector: step, its clock, keys to visit, candidate
    opc, okey       \* per opener: step and key

vars == <<now, stamp, files, root, away, opened, held, gpc, gtime, gtodo, gkey, opc, okey>>
gvars == <<gpc, gtime, gtodo, gkey>>
ovars == <<opc, okey>>
world == <<now, stamp, files, root, away, opened, held>>

Procs == Collectors \cup Openers

TypeOK ==
    /\ now \in 1..MaxNow /\ stamp \in 0..MaxNow
    /\ files \in [Keys -> SUBSET Names]
    /\ \A k \in Keys : files[k] \cap {"index", "requests", "leader"} # {} => "dir" \in files[k]
    /\ root \in [Keys -> {"same", "missing", "replaced"}]
    /\ away \subseteq Keys /\ opened \in [Keys -> 0..MaxNow]
    /\ held \in [Keys -> [Procs -> {None, "sh", "ex"}]]
    /\ gpc \in [Collectors -> {"idle", "stage", "scan", "admit", "unlinkIndex",
                               "unlinkRequests", "unlinkLeader", "rmdir", "unlinkLock"}]
    /\ gtime \in [Collectors -> 0..MaxNow] /\ gtodo \in [Collectors -> SUBSET Keys]
    /\ gkey \in [Collectors -> Keys \cup {None}]
    /\ opc \in [Openers -> {"idle", "prepare", "lock", "use", "open"}]
    /\ okey \in [Openers -> Keys \cup {None}]

Init ==
    /\ now = 1 /\ stamp = 0
    /\ files = [k \in Keys |-> {}] /\ root = [k \in Keys |-> "same"]
    /\ away = {} /\ opened = [k \in Keys |-> 0]
    /\ held = [k \in Keys |-> [p \in Procs |-> None]]
    /\ gpc = [g \in Collectors |-> "idle"] /\ gtime = [g \in Collectors |-> 0]
    /\ gtodo = [g \in Collectors |-> {}] /\ gkey = [g \in Collectors |-> None]
    /\ opc = [o \in Openers |-> "idle"] /\ okey = [o \in Openers |-> None]

Holders(k) == {p \in Procs : held[k][p] # None}
Exclusive(k) == {p \in Procs : held[k][p] = "ex"}

----------------------------------------------------------------------------
(* An opener: prepare_index makes the directory, index_use waits for the   *)
(* shared lock and makes its file, then leader.lock and index.db are made  *)
(* where they are missing and the open is recorded.                        *)
Want(o, k) ==
    /\ opc[o] = "idle"
    /\ opc' = [opc EXCEPT ![o] = "prepare"] /\ okey' = [okey EXCEPT ![o] = k]
    /\ UNCHANGED <<world, gvars>>

Prepare(o) ==
    /\ opc[o] = "prepare"
    /\ files' = [files EXCEPT ![okey[o]] = @ \cup {"dir"}]
    /\ opc' = [opc EXCEPT ![o] = "lock"]
    /\ UNCHANGED <<now, stamp, root, away, opened, held, gvars, okey>>

Lock(o) ==
    /\ opc[o] = "lock" /\ Exclusive(okey[o]) = {}
    /\ files' = [files EXCEPT ![okey[o]] = @ \cup {"lock"}]
    /\ held' = [held EXCEPT ![okey[o]][o] = "sh"]
    /\ opc' = [opc EXCEPT ![o] = "use"]
    /\ UNCHANGED <<now, stamp, root, away, opened, gvars, okey>>

\* An index made for another root is recreated by its new leader.
Use(o) ==
    /\ opc[o] = "use" /\ "dir" \in files[okey[o]] /\ root[okey[o]] # "missing"
    /\ files' = [files EXCEPT ![okey[o]] = @ \cup {"index", "leader", "requests"}]
    /\ opened' = [opened EXCEPT ![okey[o]] = now]
    /\ root' = [root EXCEPT ![okey[o]] = "same"]
    /\ opc' = [opc EXCEPT ![o] = "open"]
    /\ UNCHANGED <<now, stamp, away, held, gvars, okey>>

Release(o, step) ==
    /\ held' = [held EXCEPT ![okey[o]][o] = None]
    /\ opc' = [opc EXCEPT ![o] = step]
    /\ UNCHANGED <<now, stamp, files, root, away, opened, gvars>>

\* The directory was collected after prepare_index: refused, and tried again.
TryAgain(o) ==
    /\ opc[o] = "use" /\ ("dir" \notin files[okey[o]] \/ root[okey[o]] = "missing")
    /\ Release(o, "prepare") /\ UNCHANGED okey

Close(o) ==
    /\ opc[o] \in {"lock", "use", "open"}
    /\ Release(o, "idle") /\ okey' = [okey EXCEPT ![o] = None]

----------------------------------------------------------------------------
(* The collector.                                                          *)
GoG(g, step) == gpc' = [gpc EXCEPT ![g] = step]

\* The attempt ends: done, refused, yielded to foreground work, or the process died.
Stop(g) ==
    /\ GoG(g, "idle")
    /\ gkey' = [gkey EXCEPT ![g] = None] /\ gtodo' = [gtodo EXCEPT ![g] = {}]
    /\ gtime' = [gtime EXCEPT ![g] = 0]
    /\ held' = [k \in Keys |-> [held[k] EXCEPT ![g] = None]]

\* gc-schedule.lock: one attempt at a time.
Scheduled(g) == \A h \in Collectors \ {g} : gpc[h] = "idle"

\* Mutant: a stamp later than the clock is ignored.
BugDue == stamp = 0 \/ now < stamp \/ now - stamp >= Day

\* The stamp must not lie in the future, and a day must have passed.
Due == stamp = 0 \/ (stamp <= now /\ now - stamp >= Day)

Begin(g) ==
    /\ gpc[g] = "idle" /\ Scheduled(g) /\ Due
    /\ GoG(g, "stage")
    /\ gtime' = [gtime EXCEPT ![g] = now]
    /\ UNCHANGED <<world, gtodo, gkey, ovars>>

\* The new stamp replaces the old one before any candidate is opened.
Stamp(g) ==
    /\ gpc[g] = "stage"
    /\ stamp' = gtime[g]
    /\ GoG(g, "scan")
    /\ gtodo' = [gtodo EXCEPT ![g] = {k \in Keys : "dir" \in files[k]}]
    /\ UNCHANGED <<now, files, root, away, opened, held, gtime, gkey, ovars>>

\* The use lock of a candidate, existing and exclusive, without waiting.
Free(k) == "lock" \in files[k] /\ Holders(k) = {}

Take(g, k) ==
    /\ gpc[g] = "scan" /\ k \in gtodo[g]
    /\ gtodo' = [gtodo EXCEPT ![g] = @ \ {k}]
    /\ \/ /\ Free(k)
          /\ held' = [held EXCEPT ![k][g] = "ex"]
          /\ gkey' = [gkey EXCEPT ![g] = k] /\ GoG(g, "admit")
          /\ away' = IF root[k] = "same" THEN away \ {k} ELSE away \cup {k}
       \/ ~Free(k) /\ UNCHANGED <<away, held, gkey, gpc>>
    /\ UNCHANGED <<now, stamp, files, root, opened, gtime, ovars>>

Finish(g) ==
    /\ gpc[g] = "scan" /\ gtodo[g] = {}
    /\ Stop(g)
    /\ UNCHANGED <<now, stamp, files, root, away, opened, ovars>>

\* classify_index_age: an open in the future is unknown, not old.
Old(g, k) == opened[k] <= gtime[g] /\ gtime[g] - opened[k] >= Age

\* gc_remove_candidate's admission, inspect_index included.
Eligible(g, k) ==
    /\ {"dir", "index", "leader"} \subseteq files[k]
    /\ 0 < opened[k] /\ opened[k] <= gtime[g]
    /\ root[k] # "same" \/ Old(g, k)

Admit(g) ==
    /\ gpc[g] = "admit"
    /\ \/ Eligible(g, gkey[g]) /\ GoG(g, "unlinkIndex") /\ UNCHANGED <<held, gkey>>
       \/ /\ ~Eligible(g, gkey[g])
          /\ GoG(g, "scan")
          /\ held' = [held EXCEPT ![gkey[g]][g] = None]
          /\ gkey' = [gkey EXCEPT ![g] = None]
    /\ UNCHANGED <<now, stamp, files, root, away, opened, gtime, gtodo, ovars>>

\* One name is removed under the lock; the lock file goes last.
Unlink(g, from, name, to) ==
    /\ gpc[g] = from
    /\ files' = [files EXCEPT ![gkey[g]] = @ \ {name}]
    /\ GoG(g, to)
    /\ UNCHANGED <<now, stamp, root, away, opened, held, gtime, gtodo, gkey, ovars>>

UnlinkIndex(g) == Unlink(g, "unlinkIndex", "index", "unlinkRequests")
UnlinkRequests(g) == Unlink(g, "unlinkRequests", "requests", "unlinkLeader")
UnlinkLeader(g) == Unlink(g, "unlinkLeader", "leader", "rmdir")
RemoveDir(g) == Unlink(g, "rmdir", "dir", "unlinkLock")

UnlinkLock(g) ==
    /\ gpc[g] = "unlinkLock"
    /\ files' = [files EXCEPT ![gkey[g]] = @ \ {"lock"}]
    /\ held' = [held EXCEPT ![gkey[g]][g] = None]
    /\ GoG(g, "scan") /\ gkey' = [gkey EXCEPT ![g] = None]
    /\ UNCHANGED <<now, stamp, root, away, opened, gtime, gtodo, ovars>>

\* gc_tick's priority hook: foreground work ends an attempt, but not a removal.
Yield(g) ==
    /\ gpc[g] \in {"stage", "scan", "unlinkIndex"}
    /\ Stop(g)
    /\ UNCHANGED <<now, stamp, files, root, away, opened, ovars>>

----------------------------------------------------------------------------
(* Process death, the clock and the roots.                                 *)
CrashG(g) ==
    /\ gpc[g] # "idle"
    /\ Stop(g)
    /\ UNCHANGED <<now, stamp, files, root, away, opened, ovars>>

Clock ==
    /\ now' \in {now + 1, now - 1} \cap (1..MaxNow)
    /\ UNCHANGED <<stamp, files, root, away, opened, held, gvars, ovars>>

\* A root goes away, comes back, or another one takes its pathname.
Root(k) ==
    /\ root' \in {[root EXCEPT ![k] = r] : r \in
                    IF root[k] = "missing" THEN {"same", "replaced"} ELSE {"missing"}}
    /\ away' = IF root'[k] = "same" THEN away ELSE away \cup {k}
    /\ UNCHANGED <<now, stamp, files, opened, held, gvars, ovars>>

Collect(g) ==
    \/ Begin(g) \/ Stamp(g) \/ Finish(g) \/ Admit(g)
    \/ UnlinkIndex(g) \/ UnlinkRequests(g) \/ UnlinkLeader(g) \/ RemoveDir(g) \/ UnlinkLock(g)
    \/ \E k \in Keys : Take(g, k)

Opening(o) == Prepare(o) \/ Lock(o) \/ Use(o) \/ TryAgain(o)

Next ==
    \/ \E g \in Collectors : Collect(g) \/ Yield(g) \/ CrashG(g)
    \/ \E o \in Openers : Opening(o) \/ Close(o) \/ \E k \in Keys : Want(o, k)
    \/ Clock
    \/ \E k \in Keys : Root(k)

Spec == Init /\ [][Next]_vars

----------------------------------------------------------------------------
(* An index loses a file only under the collector's exclusive use: never   *)
(* while another process has it open, waits with its directory checked, or *)
(* collects it too (gc_remove_candidate, gc_unlink_sqlite).                *)
RemovedAlone ==
    \A k \in Keys : ~(files[k] \subseteq files'[k]) =>
       \E g \in Collectors : Holders(k) = {g} /\ gkey[g] = k

(* The database of an index whose root was there all the time it was       *)
(* locked goes only when its last open lies at least Age before the        *)
(* attempt, however the clock was set and whoever opened it after the      *)
(* attempt began (inspect_index, classify_index_age).                      *)
LiveIndexKept ==
    \A k \in Keys : "index" \in files[k] /\ "index" \notin files'[k] /\ k \notin away =>
       \E g \in Collectors : gkey[g] = k /\ opened[k] + Age <= gtime[g]

(* Attempts are a day apart by their own stamps, although collectors race, *)
(* die after stamping and yield, and the clock is set back                 *)
(* (automatic_gc_at_with_hook).                                            *)
DailyAttempts == stamp' # stamp /\ stamp # 0 => stamp' >= stamp + Day

----------------------------------------------------------------------------
(* The three hold for any indexes, collectors and openers, and any day and *)
(* age.  What a collector found at its admission stays true until it       *)
(* unlinks because the candidate is its own: nobody else holds the use     *)
(* lock, so nobody opens the index, and only one attempt runs at a time.   *)

World ==
    /\ Collectors \cap Openers = {} /\ None \notin Keys
    /\ Day \in Nat /\ Age \in Nat /\ MaxNow \in Nat \ {0}

Removing == {"unlinkIndex", "unlinkRequests", "unlinkLeader", "rmdir", "unlinkLock"}
Holding == Removing \cup {"admit"}

\* A collector with a candidate is its only holder, and knows whether the root was
\* there since it took the lock; it removes the names of the index one by one.
CollectorInv(g) ==
    /\ gpc[g] \in Holding =>
          /\ gkey[g] \in Keys /\ held[gkey[g]][g] = "ex"
          /\ \A q \in Procs : q # g => held[gkey[g]][q] = None
          /\ root[gkey[g]] # "same" => gkey[g] \in away
    /\ gpc[g] = "unlinkIndex" /\ gkey[g] \notin away => opened[gkey[g]] + Age <= gtime[g]
    /\ gpc[g] = "stage" => stamp = 0 \/ stamp + Day <= gtime[g]
    /\ gpc[g] \in Removing \ {"unlinkIndex"} => "index" \notin files[gkey[g]]
    /\ gpc[g] \in {"unlinkLeader", "rmdir", "unlinkLock"} => "requests" \notin files[gkey[g]]
    /\ gpc[g] \in {"rmdir", "unlinkLock"} => "leader" \notin files[gkey[g]]

OpenerInv(o) ==
    /\ opc[o] # "idle" => okey[o] \in Keys
    /\ opc[o] \in {"use", "open"} => held[okey[o]][o] = "sh"

GcInv ==
    /\ TypeOK
    /\ \A g, h \in Collectors : gpc[g] # "idle" /\ gpc[h] # "idle" => g = h
    /\ \A g \in Collectors : CollectorInv(g)
    /\ \A o \in Openers : OpenerInv(o)

\* What no step may do to files and stamp.
GcAllows == RemovedAlone /\ LiveIndexKept /\ DailyAttempts
=============================================================================
