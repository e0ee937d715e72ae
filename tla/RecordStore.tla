---------------------------- MODULE RecordStore ----------------------------
(***************************************************************************)
(* The durable record of one workspace (store/topology.rs, DurableRecords, *)
(* UseGuard and forget): a directory with one SQLite database, guarded by  *)
(* an adjacent lock file that forget unlinks last and a first save makes   *)
(* again.  Processes save, delete and list items, report and forget the    *)
(* record, and die between any two steps.                                  *)
(*                                                                         *)
(* Lock files and databases are inodes: a pathname may come to name        *)
(* another inode while a process still holds the old one.                  *)
(***************************************************************************)
EXTENDS Naturals, FiniteSets

CONSTANTS
    Procs,
    Items,          \* saved views and annotations, by ID
    Targets,        \* nodes an item may be about
    Anchors,        \* captured anchors
    Attempts,       \* tries to lock the inode the pathname names (20)
    MaxLocks,       \* bound: lock inodes ever created
    MaxDbs          \* bound: database inodes ever created

None == 0
Absent == [target |-> "none", anchor |-> "none"]
Row == [target : Targets, anchor : Anchors] \cup {Absent}
Jobs == [op : {"save"}, item : Items, target : Targets, anchor : Anchors]
            \cup [op : {"delete"}, item : Items]
            \cup [op : {"list", "report", "forget"}]
NoJob == [op |-> "none"]

VARIABLES
    lockName, lockMade,         \* the lock inode the pathname names; inodes made
    dir,                        \* the record directory exists
    dbName, dbMade, ready, hot, \* database inode named; made; schema committed; hot journal
    rows,                       \* [database inode -> [Items -> Row]]
    pc, job, fd, mode, tries,   \* per process: step, job, lock file, lock held, tries
    making,                     \* per process: this is a first save
    conn,                       \* per process: open database
    acked,                      \* item -> the first row acknowledged since it last was absent
    shown                       \* per process: the inventory its user is asked to confirm

vars == <<lockName, lockMade, dir, dbName, dbMade, ready, hot, rows,
          pc, job, fd, mode, tries, making, conn, acked, shown>>
files == <<lockName, lockMade, dir, dbName, dbMade, ready, hot, rows>>
ghost == <<acked, shown>>

Steps == {"idle", "open", "flock", "recheck", "locked", "mkdb", "commit", "sync",
          "return", "read", "confirm", "unlinkDb", "rmdir", "unlinkLock"}

TypeOK ==
    /\ lockMade \in 0..MaxLocks /\ lockName \in 0..lockMade
    /\ dir \in BOOLEAN /\ hot \in BOOLEAN
    /\ dbMade \in 0..MaxDbs /\ dbName \in 0..dbMade /\ ready \subseteq 1..dbMade
    /\ rows \in [1..MaxDbs -> [Items -> Row]]
    /\ pc \in [Procs -> Steps] /\ job \in [Procs -> Jobs \cup {NoJob}]
    /\ fd \in [Procs -> 0..lockMade] /\ mode \in [Procs -> {"none", "sh", "ex"}]
    /\ tries \in [Procs -> 0..(Attempts - 1)] /\ making \in [Procs -> BOOLEAN]
    /\ conn \in [Procs -> 0..dbMade]
    /\ acked \in [Items -> Row] /\ shown \in [Procs -> SUBSET Items]

Init ==
    /\ lockName = None /\ lockMade = 0
    /\ dir = FALSE /\ dbName = None /\ dbMade = 0 /\ ready = {} /\ hot = FALSE
    /\ rows = [d \in 1..MaxDbs |-> [i \in Items |-> Absent]]
    /\ pc = [p \in Procs |-> "idle"] /\ job = [p \in Procs |-> NoJob]
    /\ fd = [p \in Procs |-> None] /\ mode = [p \in Procs |-> "none"]
    /\ tries = [p \in Procs |-> 0] /\ making = [p \in Procs |-> FALSE]
    /\ conn = [p \in Procs |-> None]
    /\ acked = [i \in Items |-> Absent] /\ shown = [p \in Procs |-> {}]

Goto(p, step) == pc' = [pc EXCEPT ![p] = step]

\* The call returns, fails or its process dies: lock and database are closed.
Leave(p) ==
    /\ Goto(p, "idle")
    /\ job' = [job EXCEPT ![p] = NoJob]
    /\ fd' = [fd EXCEPT ![p] = None] /\ mode' = [mode EXCEPT ![p] = "none"]
    /\ tries' = [tries EXCEPT ![p] = 0] /\ making' = [making EXCEPT ![p] = FALSE]
    /\ conn' = [conn EXCEPT ![p] = None]
    /\ shown' = [shown EXCEPT ![p] = {}]

Refuse(p) == Leave(p) /\ UNCHANGED <<files, acked>>

\* Steps that only move a process on, with its lock and database kept.
Keep(p, step) == Goto(p, step) /\ UNCHANGED <<job, fd, mode, tries, making, conn>>

----------------------------------------------------------------------------
(* save, delete, list, report and forget begin with existing() or          *)
(* existing_record_paths(): is there a record directory?                   *)
Begin(p, j) ==
    /\ pc[p] = "idle"
    /\ dir \/ j.op = "save"
    /\ job' = [job EXCEPT ![p] = j]
    /\ making' = [making EXCEPT ![p] = ~dir]
    /\ Goto(p, "open")
    /\ UNCHANGED <<files, fd, mode, tries, conn, ghost>>

----------------------------------------------------------------------------
(* UseGuard::acquire_mode: open, flock, look at the pathname again.        *)
(* Only the first save may create the lock file.                           *)
OpenLock(p) ==
    /\ pc[p] = "open"
    /\ \/ /\ lockName # None
          /\ fd' = [fd EXCEPT ![p] = lockName]
          /\ UNCHANGED <<lockName, lockMade>>
       \/ /\ lockName = None /\ making[p] /\ lockMade < MaxLocks
          /\ lockMade' = lockMade + 1 /\ lockName' = lockMade'
          /\ fd' = [fd EXCEPT ![p] = lockMade']
    /\ Goto(p, "flock")
    /\ UNCHANGED <<dir, dbName, dbMade, ready, hot, rows, job, mode, tries, making, conn, ghost>>

NoLock(p) == pc[p] = "open" /\ lockName = None /\ ~making[p] /\ Refuse(p)

\* Every call but a list asks for the exclusive lock.
Wants(p) == IF job[p].op = "list" THEN "sh" ELSE "ex"

\* flock is by inode, whatever its pathname names by now.
Blocked(p) ==
    \E q \in Procs \ {p} : fd[q] = fd[p] /\ mode[q] # "none" /\ "ex" \in {mode[q], Wants(p)}

Flock(p) ==
    /\ pc[p] = "flock" /\ ~Blocked(p)
    /\ mode' = [mode EXCEPT ![p] = Wants(p)]
    /\ Goto(p, "recheck")
    /\ UNCHANGED <<files, job, fd, tries, making, conn, ghost>>

\* Every exclusive request is nonblocking: storage_busy.  A list waits.
Busy(p) == pc[p] = "flock" /\ Blocked(p) /\ Wants(p) = "ex" /\ Refuse(p)

Recheck(p) ==
    /\ pc[p] = "recheck"
    /\ \/ lockName = fd[p] /\ Keep(p, "locked") /\ UNCHANGED <<files, ghost>>
       \/ /\ lockName # fd[p] /\ tries[p] + 1 < Attempts
          /\ Goto(p, "open")
          /\ tries' = [tries EXCEPT ![p] = @ + 1]
          /\ fd' = [fd EXCEPT ![p] = None] /\ mode' = [mode EXCEPT ![p] = "none"]
          /\ UNCHANGED <<files, job, making, conn, ghost>>
       \/ lockName # fd[p] /\ tries[p] + 1 = Attempts /\ Refuse(p)

----------------------------------------------------------------------------
(* The first save, under the exclusive lock.  Where the code verifies once *)
(* more what this lock already protects, a failed check has no step here:  *)
(* ExclusiveUse says that it cannot fail.                                  *)

\* Another process finished the creation before: save into its record.
Overtaken(p) ==
    /\ pc[p] = "locked" /\ making[p] /\ dir
    /\ Goto(p, "open")
    /\ making' = [making EXCEPT ![p] = FALSE]
    /\ fd' = [fd EXCEPT ![p] = None] /\ mode' = [mode EXCEPT ![p] = "none"]
    /\ tries' = [tries EXCEPT ![p] = 0]
    /\ UNCHANGED <<files, job, conn, ghost>>

MakeDir(p) ==
    /\ pc[p] = "locked" /\ making[p] /\ ~dir
    /\ dir' = TRUE
    /\ Keep(p, "mkdb")
    /\ UNCHANGED <<lockName, lockMade, dbName, dbMade, ready, hot, rows, ghost>>

\* create_new, then a transaction that is not committed yet.
MakeDb(p) ==
    /\ pc[p] = "mkdb"
    /\ dbName = None /\ dir /\ dbMade < MaxDbs
    /\ dbMade' = dbMade + 1 /\ dbName' = dbMade'
    /\ conn' = [conn EXCEPT ![p] = dbMade']
    /\ Goto(p, "commit")
    /\ UNCHANGED <<lockName, lockMade, dir, ready, hot, rows, job, fd, mode, tries, making, ghost>>

----------------------------------------------------------------------------
(* db() and inspect_record: the database must exist, without a journal, with its schema       *)
(* committed; otherwise the record is incomplete and refused.              *)
Usable == dbName # None /\ dbName \in ready /\ ~hot

OpenDb(p) ==
    /\ pc[p] = "locked" /\ ~making[p]
    /\ \/ /\ Usable
          /\ conn' = [conn EXCEPT ![p] = dbName]
          /\ Goto(p, CASE job[p].op \in {"save", "delete"} -> "commit"
                       [] job[p].op \in {"list", "report"} -> "read"
                       [] job[p].op = "forget" -> "confirm")
          /\ shown' = [shown EXCEPT ![p] = {i \in Items : rows[dbName][i] # Absent}]
          /\ UNCHANGED <<files, job, fd, mode, tries, making, acked>>
       \/ ~Usable /\ Refuse(p)

\* Mutant: saving an item again stores the anchor captured for this save.
BugMerged(p) == [target |-> job[p].target, anchor |-> job[p].anchor]

\* merge_item: a saved item keeps its target and its first anchor.
Merged(p) ==
    LET j == job[p]
        old == rows[conn[p]][j.item]
    IN  [target |-> j.target, anchor |-> IF old = Absent THEN j.anchor ELSE old.anchor]

MergeRefused(p) ==
    /\ pc[p] = "commit" /\ job[p].op = "save"
    /\ rows[conn[p]][job[p].item] \notin {Absent} \cup [target : {job[p].target}, anchor : Anchors]
    /\ Refuse(p)

\* The transaction of a save; guard.verify() looks at the pathname first.
CommitSave(p) ==
    /\ pc[p] = "commit" /\ job[p].op = "save"
    /\ rows[conn[p]][job[p].item] \in {Absent} \cup [target : {job[p].target}, anchor : Anchors]
    /\ lockName = fd[p]
    /\ rows' = [rows EXCEPT ![conn[p]][job[p].item] = Merged(p)]
    /\ ready' = ready \cup {conn[p]}
    /\ Keep(p, "sync")
    /\ UNCHANGED <<lockName, lockMade, dir, dbName, dbMade, hot, ghost>>

CommitDelete(p) ==
    /\ pc[p] = "commit" /\ job[p].op = "delete" /\ lockName = fd[p]
    /\ rows' = [rows EXCEPT ![conn[p]][job[p].item] = Absent]
    /\ acked' = [acked EXCEPT ![job[p].item] = Absent]
    /\ Goto(p, "return")
    /\ UNCHANGED <<lockName, lockMade, dir, dbName, dbMade, ready, hot,
                   job, fd, mode, tries, making, conn, shown>>

\* The syncs after a first commit; then the save is acknowledged.
Sync(p) ==
    /\ pc[p] = "sync"
    /\ acked' = [acked EXCEPT ![job[p].item] =
                     IF @ = Absent THEN rows[conn[p]][job[p].item] ELSE @]
    /\ Keep(p, "return")
    /\ UNCHANGED <<files, shown>>

Return(p) == pc[p] = "return" /\ Refuse(p)

\* list and gc_report read one snapshot and verify their lock afterwards.
Read(p) ==
    /\ pc[p] = "read" /\ lockName = fd[p]
    /\ Keep(p, "return")
    /\ UNCHANGED <<files, ghost>>

----------------------------------------------------------------------------
(* forget_with_confirmation: inventory, confirmation and removal under one *)
(* exclusive lock; the lock file goes last.                                *)
Decline(p) == pc[p] = "confirm" /\ Refuse(p)

Confirm(p) ==
    /\ pc[p] = "confirm" /\ lockName = fd[p] /\ Usable
    /\ Keep(p, "unlinkDb")
    /\ UNCHANGED <<files, ghost>>

UnlinkDb(p) ==
    /\ pc[p] = "unlinkDb"
    /\ dbName' = None
    /\ acked' = [i \in Items |-> IF i \in shown[p] THEN Absent ELSE acked[i]]
    /\ Keep(p, "rmdir")
    /\ UNCHANGED <<lockName, lockMade, dir, dbMade, ready, hot, rows, shown>>

\* remove_dir fails when something is in the directory.
RemoveDir(p) ==
    /\ pc[p] = "rmdir"
    /\ dbName = None /\ dir' = FALSE
    /\ Keep(p, "unlinkLock")
    /\ UNCHANGED <<lockName, lockMade, dbName, dbMade, ready, hot, rows, ghost>>

\* UseGuard::remove_last.
UnlinkLock(p) ==
    /\ pc[p] = "unlinkLock"
    /\ lockName = fd[p] /\ lockName' = None
    /\ Leave(p)
    /\ UNCHANGED <<lockMade, dir, dbName, dbMade, ready, hot, rows, acked>>

----------------------------------------------------------------------------
(* A process dies.  An open transaction may leave its journal behind.      *)
Crash(p) ==
    /\ pc[p] # "idle"
    /\ hot' \in IF pc[p] = "commit" /\ conn[p] = dbName THEN {hot, TRUE} ELSE {hot}
    /\ Leave(p)
    /\ UNCHANGED <<lockName, lockMade, dir, dbName, dbMade, ready, rows, acked>>

Step(p) ==
    \/ OpenLock(p) \/ NoLock(p) \/ Flock(p) \/ Busy(p) \/ Recheck(p)
    \/ Overtaken(p) \/ MakeDir(p) \/ MakeDb(p) \/ OpenDb(p)
    \/ MergeRefused(p) \/ CommitSave(p) \/ CommitDelete(p) \/ Sync(p) \/ Read(p) \/ Return(p)
    \/ Decline(p) \/ Confirm(p) \/ UnlinkDb(p) \/ RemoveDir(p) \/ UnlinkLock(p)

Next == \E p \in Procs : Step(p) \/ Crash(p) \/ \E j \in Jobs : Begin(p, j)

Spec == Init /\ [][Next]_vars

----------------------------------------------------------------------------
(* An acknowledged save stays in the database that the record's path names *)
(* with the target and the anchor of its first save, until it is deleted   *)
(* or forgotten by a user who was shown it: no first save, second save,    *)
(* crash or forget under an old lock file or an old inventory takes it     *)
(* away (save_with_first_save_hook, merge_item, forget_with_confirmation). *)
AckedKept ==
    \A i \in Items : acked[i] # Absent => dbName # None /\ rows[dbName][i] = acked[i]

(* Nobody works under an exclusive lock while another process works under  *)
(* a lock of the same record, although forget unlinks the lock file and a  *)
(* first save makes a new one (UseGuard::acquire_mode, remove_last).       *)
Working(p) == pc[p] \in {"locked", "mkdb", "commit", "sync", "read", "confirm",
                         "unlinkDb", "rmdir", "unlinkLock"}
ExclusiveUse ==
    \A p, q \in Procs : p # q /\ Working(p) /\ Working(q) => {mode[p], mode[q]} = {"sh"}

============================================================================
