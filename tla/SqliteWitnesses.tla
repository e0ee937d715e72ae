--------------------------- MODULE SqliteWitnesses ---------------------------
(***************************************************************************)
(* The process-wide registry of verified SQLite files                      *)
(* (RetainedSqliteWitnesses in src/store.rs). Closing any descriptor of a  *)
(* database inode drops every fcntl lock the process holds on it, another  *)
(* thread's included. Each database file that was checked therefore keeps  *)
(* one open descriptor, shared by reference count, and a descriptor is     *)
(* given up only where no connection and no borrower can be left. Every    *)
(* action below but Return runs under the registry's mutex. The exclusive  *)
(* use lock that authorises replacement and removal is not modelled: here  *)
(* they may be tried at any time.                                          *)
(***************************************************************************)
EXTENDS Naturals, FiniteSets

CONSTANTS
    Inodes,     \* file identities
    Conns,      \* connection slots
    Holders,    \* threads that may hold a clone of a witness
    None,
    Index, Stage, \* the two path names: index.db and index.db.tmp-<uuid>
    Capacity    \* MAX_RETAINED_SQLITE_WITNESSES

Paths == {Index, Stage}

VARIABLES
    named,    \* the directory: which inode a path names
    held,     \* by_path: the inodes whose descriptor is registered for a path
    count,    \* the registry's own count of descriptors
    retired,  \* paths whose Store is gone
    conn,     \* open connections: path, inode, inside a write transaction
    clone,    \* the witness each holder has cloned
    locks,    \* inodes on which the process holds its fcntl locks
    discard   \* a failed stage, unlinked and not yet released

vars == <<named, held, count, retired, conn, clone, locks, discard>>

Open == {c \in Conns : conn[c] # None}
On(p, i) == {c \in Open : conn[c].path = p /\ conn[c].ino = i}
OnPath(p) == {c \in Open : conn[c].path = p}
\* Arc::strong_count of the descriptor of i.
Strong(i) == Cardinality({p \in Paths : i \in held[p]})
             + Cardinality({h \in Holders : clone[h] = i})
Held == UNION {held[p] : p \in Paths}
InUse == {named[p] : p \in Paths} \cup Held \cup {conn[c].ino : c \in Open}
         \cup {clone[h] : h \in Holders}
Fresh == Inodes \ InUse

TypeOK ==
    /\ named \in [Paths -> Inodes \cup {None}]
    /\ held \in [Paths -> SUBSET Inodes]
    /\ count \in 0..Capacity
    /\ retired \subseteq Paths
    /\ conn \in [Conns -> {None} \cup [path : Paths, ino : Inodes, locked : BOOLEAN]]
    /\ clone \in [Holders -> Inodes \cup {None}]
    /\ locks \subseteq Inodes
    /\ discard \in Inodes \cup {None}

Init ==
    /\ named \in [Paths -> Inodes \cup {None}] /\ named[Stage] = None
    /\ held = [p \in Paths |-> {}] /\ count = 0 /\ retired = {}
    /\ conn = [c \in Conns |-> None] /\ clone = [h \in Holders |-> None]
    /\ locks = {} /\ discard = None

(***************************************************************************)
(* Checking a file.                                                        *)
(***************************************************************************)
\* The fixed cap fails closed, before anything is opened.
Room == count < Capacity

\* retained_sqlite_file: the registered descriptor of the named inode is
\* cloned, under whichever path it is registered; only an unknown inode is opened.
Borrow(h, p) ==
    LET i == named[p]
    IN  /\ clone[h] = None /\ i # None
        /\ \/ i \in Held /\ UNCHANGED count
           \/ i \notin Held /\ Room /\ count' = count + 1
        /\ held' = [held EXCEPT ![p] = @ \cup {i}]
        /\ clone' = [clone EXCEPT ![h] = i]
        /\ UNCHANGED <<named, retired, conn, locks, discard>>

(* Mutant: a check opens a descriptor of its own and closes it when it is done. *)
BugReturn(h) ==
    /\ clone[h] # None
    /\ clone' = [clone EXCEPT ![h] = None]
    /\ locks' = locks \ {clone[h]}
    /\ UNCHANGED <<named, held, count, retired, conn, discard>>
\* A clone is dropped; the last one closes the descriptor.
Return(h) ==
    /\ clone[h] # None
    /\ clone' = [clone EXCEPT ![h] = None]
    /\ locks' = IF Strong(clone[h]) = 1 THEN locks \ {clone[h]} ELSE locks
    /\ UNCHANGED <<named, held, count, retired, conn, discard>>

(***************************************************************************)
(* Connections.                                                            *)
(***************************************************************************)
Witnessed(p) == named[p] # None /\ named[p] \in held[p]

\* protected_sqlite_open.
OpenConn(c, p) ==
    /\ conn[c] = None /\ Witnessed(p)
    /\ conn' = [conn EXCEPT ![c] = [path |-> p, ino |-> named[p], locked |-> FALSE]]
    /\ UNCHANGED <<named, held, count, retired, clone, locks, discard>>

\* SQLite takes and gives back its write lock; one writer per database.
Lock(c) ==
    /\ c \in Open /\ \A d \in Open : conn[d].ino = conn[c].ino => ~conn[d].locked
    /\ conn' = [conn EXCEPT ![c].locked = TRUE]
    /\ locks' = locks \cup {conn[c].ino}
    /\ UNCHANGED <<named, held, count, retired, clone, discard>>

Unlock(c) ==
    /\ c \in Open /\ conn[c].locked
    /\ conn' = [conn EXCEPT ![c].locked = FALSE]
    /\ locks' = locks \ {conn[c].ino}
    /\ UNCHANGED <<named, held, count, retired, clone, discard>>

\* The path can be cleaned: no connection is left on any of its witnesses (the
\* one being closed aside) and nobody has a clone.
Idle(p, without) == \A i \in held[p] : On(p, i) \subseteq without /\ Strong(i) = 1

\* clean_retired_sqlite_witness, with the retired set it is called on.
Cleaned(p, ret, without) ==
    /\ held' = IF p \in ret /\ Idle(p, without) THEN [held EXCEPT ![p] = {}] ELSE held
    /\ count' = IF p \in ret /\ Idle(p, without) THEN count - Cardinality(held[p]) ELSE count
    /\ retired' = IF Idle(p, without) THEN ret \ {p} ELSE ret

\* The locks that are left once the descriptors that just lost their last
\* reference are closed.
Surviving(before) == before \ {i \in Held : i \notin UNION {held'[p] : p \in Paths}}

\* ProtectedSqliteConnection::drop: SQLite rolls back and closes, then a retired
\* path is cleaned.
CloseConn(c) ==
    /\ c \in Open
    /\ conn' = [conn EXCEPT ![c] = None]
    /\ Cleaned(conn[c].path, retired, {c})
    /\ locks' = Surviving(IF conn[c].locked THEN locks \ {conn[c].ino} ELSE locks)
    /\ UNCHANGED <<named, clone, discard>>

\* SqliteWitnessRetirement::drop.
Retire(p) ==
    /\ p \notin retired \/ held[p] # {}
    /\ Cleaned(p, retired \cup {p}, {})
    /\ locks' = Surviving(locks)
    /\ UNCHANGED <<named, conn, clone, discard>>

(***************************************************************************)
(* Stages, replacement and removal.                                        *)
(***************************************************************************)
\* create_retained_staged_sqlite_file: capacity first, then a new file.
CreateStage(h) ==
    /\ clone[h] = None /\ named[Stage] = None /\ Room
    /\ \E i \in Fresh :
          /\ named' = [named EXCEPT ![Stage] = i]
          /\ held' = [held EXCEPT ![Stage] = @ \cup {i}]
          /\ clone' = [clone EXCEPT ![h] = i]
    /\ count' = count + 1
    /\ UNCHANGED <<retired, conn, locks, discard>>

OneStaged == Cardinality(held[Stage]) = 1

\* The stage's file and its witness become the index's.
Moved(rest) == [p \in Paths |-> IF p = Index THEN rest \cup held[Stage] ELSE {}]
Renamed == [named EXCEPT ![Index] = named[Stage], ![Stage] = None]

\* initialize, its block under the mutex; the stage's own clone is dropped next.
Initialize(h) ==
    /\ named[Stage] # None /\ clone[h] = named[Stage] /\ named[Index] = None
    /\ OnPath(Stage) = {} /\ OnPath(Index) = {} /\ OneStaged
    /\ named' = Renamed /\ held' = Moved(held[Index])
    /\ UNCHANGED <<count, retired, conn, clone, locks, discard>>

ObsoleteFree(i) == On(Index, i) = {} /\ i \in held[Index] /\ Strong(i) = 2

\* replace_index_and_release_obsolete: h holds the old index's witness.
Replace(h) ==
    LET i == named[Index]
    IN  /\ i # None /\ clone[h] = i /\ named[Stage] # None
        /\ ObsoleteFree(i) /\ OnPath(Stage) = {} /\ OneStaged
        /\ named' = Renamed
        /\ clone' = [clone EXCEPT ![h] = None]
        /\ held' = Moved(held[Index] \ {i})
        /\ count' = count - 1
        /\ locks' = Surviving(locks)
        /\ UNCHANGED <<retired, conn, discard>>

\* gc_unlink_sqlite: the only witness of the path, idle and not borrowed.
GcUnlink ==
    LET i == named[Index]
    IN  /\ i # None /\ OnPath(Index) = {} /\ held[Index] = {i} /\ Strong(i) = 1
        /\ named' = [named EXCEPT ![Index] = None]
        /\ held' = [held EXCEPT ![Index] = {}]
        /\ count' = count - 1
        /\ locks' = Surviving(locks)
        /\ UNCHANGED <<retired, conn, clone, discard>>

\* cleanup_failed_staged_index: unlink, drop the stage's clone, ...
DiscardStage(h) ==
    LET i == named[Stage]
    IN  /\ i # None /\ clone[h] = i /\ discard = None
        /\ On(Stage, i) = {} /\ OneStaged /\ Strong(i) = 2
        /\ named' = [named EXCEPT ![Stage] = None]
        /\ clone' = [clone EXCEPT ![h] = None]
        /\ discard' = i
        /\ UNCHANGED <<held, count, retired, conn, locks>>

\* ... then release_deleted_sqlite_witness_kind, which refuses a descriptor that
\* is in use, linked again or whose path is taken.
ReleaseStage ==
    /\ discard # None
    /\ IF /\ named[Stage] = None /\ discard \in held[Stage] /\ On(Stage, discard) = {}
          /\ Strong(discard) = 1
       THEN /\ held' = [held EXCEPT ![Stage] = @ \ {discard}]
            /\ count' = count - 1
            /\ locks' = Surviving(locks)
       ELSE UNCHANGED <<held, count, locks>>
    /\ discard' = None
    /\ UNCHANGED <<named, retired, conn, clone>>

(***************************************************************************)
(* Other processes.                                                        *)
(***************************************************************************)
\* Another process unlinks a file, installs another inode, or renames the stage.
Foreign ==
    /\ \/ \E p \in Paths : named[p] # None /\ named' = [named EXCEPT ![p] = None]
       \/ \E i \in Fresh : named' = [named EXCEPT ![Index] = i]
       \/ named[Stage] # None /\ named' = Renamed
    /\ UNCHANGED <<held, count, retired, conn, clone, locks, discard>>

Next ==
    \/ \E h \in Holders, p \in Paths : Borrow(h, p)
    \/ \E h \in Holders : Return(h) \/ CreateStage(h) \/ Initialize(h) \/ Replace(h) \/ DiscardStage(h)
    \/ \E c \in Conns, p \in Paths : OpenConn(c, p)
    \/ \E c \in Conns : Lock(c) \/ Unlock(c) \/ CloseConn(c)
    \/ \E p \in Paths : Retire(p)
    \/ GcUnlink \/ ReleaseStage \/ Foreign

Spec == Init /\ [][Next]_vars

(***************************************************************************)
(* Properties.                                                             *)
(***************************************************************************)
\* A connection inside a write transaction still has its file locks: no thread
\* closed the last reference to a descriptor of its inode.
LocksSurvive == \A c \in Open : conn[c].locked => conn[c].ino \in locks

\* The descriptor of every open connection's file stays registered under the
\* connection's path, so nobody opens a second one to check the file.
ConnectionsWitnessed == \A c \in Open : conn[c].ino \in held[conn[c].path]

\* The registry's count is the number of descriptors it keeps open, whatever
\* sequence of borrowing, moving and releasing led there; the cap counts on it.
CountExact == count = Cardinality(Held)
====
