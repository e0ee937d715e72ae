--------------------------- MODULE PrivateLedger ---------------------------
(***************************************************************************)
(* The private ledger that live_jev.rs and acp.rs keep in a directory of   *)
(* their own: a lock file that serialises opening, a marker `initialized', *)
(* and an SQLite database with a binding (workspace and cap) and one row   *)
(* per attempt.  Processes open it, crash and reopen it; the machine may   *)
(* lose power, and the database may be lost or truncated behind their back.*)
(*                                                                         *)
(* A directory entry is "cached" until its directory is synced: a power    *)
(* loss may then keep it or drop it.  A committed transaction is durable   *)
(* (synchronous = FULL).                                                   *)
(***************************************************************************)
EXTENDS Naturals, FiniteSets, FiniteSetTheorems, TLAPS

CONSTANTS Procs,       \* processes that may have the ledger open
          Caps,        \* caps that they may be configured with
          Ids,         \* the attempt identifiers (fresh UUIDs)
          Unit,        \* what one attempt reserves of the cap
          Resync,      \* an opener syncs a marker that it found (acp.rs)
          MaxFaults    \* bound on crashes, power losses and lost databases

None == "none"

VARIABLES marker,      \* the file `initialized': none, cached or durable
          db,          \* the database: entry, user_version, bound cap, rows
          initLock,    \* the holder of initialize.lock
          pc,          \* how far a process is with open
          cap,         \* the cap a process was configured with
          fresh,       \* the opener found no marker
          intact,      \* nobody has removed or truncated the database
          faults       \* faults so far

ledgerVars == <<marker, db, initLock, pc, cap, fresh, intact, faults>>

Entry == {"none", "cached", "durable"}
Statuses == {"reserved_incomplete", "received_unvalidated",
             "transport_failed", "failed", "success"}
NoRows == [i \in {} |-> ""]
NoDb == [entry |-> "none", version |-> 0, bound |-> 0, rows |-> NoRows]

LedgerTypeOK ==
  /\ marker \in Entry
  /\ db.entry \in Entry /\ db.version \in {0, 1} /\ db.bound \in Caps \cup {0}
  /\ DOMAIN db.rows \subseteq Ids
  /\ \A i \in DOMAIN db.rows : db.rows[i] \in Statuses
  /\ initLock \in Procs \cup {None}
  /\ pc \in [Procs -> {"down", "locked", "marked", "file", "schema", "sync", "open"}]
  /\ cap \in [Procs -> Caps]
  /\ fresh \in [Procs -> BOOLEAN]
  /\ intact \in BOOLEAN
  /\ faults \in 0..MaxFaults

LedgerInit ==
  /\ marker = "none" /\ db = NoDb /\ initLock = None
  /\ pc = [p \in Procs |-> "down"]
  /\ cap \in [Procs -> Caps]
  /\ fresh = [p \in Procs |-> FALSE]
  /\ intact = TRUE /\ faults = 0

------------------------------------------------------------------------------
(* Opening. *)

Goto(p, s) == pc' = [pc EXCEPT ![p] = s]

(* An error drops the File that holds the flock. *)
OpenFails(p) ==
  /\ Goto(p, "down")
  /\ initLock' = None
  /\ UNCHANGED <<marker, db, cap, fresh, intact, faults>>

LockInit(p) ==
  /\ pc[p] = "down" /\ initLock = None
  /\ \E c \in Caps : cap' = [cap EXCEPT ![p] = c]
  /\ initLock' = p
  /\ Goto(p, "locked")
  /\ UNCHANGED <<marker, db, fresh, intact, faults>>

(* The marker is looked up, and created when it is missing. *)
Mark(p) ==
  /\ pc[p] = "locked"
  /\ fresh' = [fresh EXCEPT ![p] = marker = "none"]
  /\ marker' = IF marker = "none" THEN "cached" ELSE marker
  /\ Goto(p, "marked")
  /\ UNCHANGED <<db, initLock, cap, intact, faults>>

SyncMarker(p) ==
  /\ pc[p] = "marked"
  /\ marker' = IF fresh[p] \/ Resync THEN "durable" ELSE marker
  /\ Goto(p, "file")
  /\ UNCHANGED <<db, initLock, cap, fresh, intact, faults>>

MayCreate(p) == fresh[p]

CheckDb(p) ==
  /\ pc[p] = "file"
  /\ IF db.entry = "none" /\ ~MayCreate(p)
     THEN OpenFails(p)
     ELSE /\ db' = IF db.entry = "none" THEN [NoDb EXCEPT !.entry = "cached"]
                                        ELSE db
          /\ Goto(p, "schema")
          /\ UNCHANGED <<marker, initLock, cap, fresh, intact, faults>>

Bound(p, d) == d.version = 1 /\ d.bound = cap[p]

(* One IMMEDIATE transaction: the version is read, a version 0 that this     *)
(* opener was allowed to create gets its tables and binding, and the binding *)
(* is compared.  What fails is rolled back.                                  *)
Schema(p) ==
  /\ pc[p] = "schema"
  /\ LET d == IF db.version = 0 THEN [db EXCEPT !.version = 1, !.bound = cap[p]] ELSE db
     IN  IF \/ db.entry = "none"
            \/ db.version = 0 /\ ~MayCreate(p)
            \/ ~Bound(p, d)
         THEN OpenFails(p)
         ELSE /\ db' = d
              /\ Goto(p, "sync")
              /\ UNCHANGED <<marker, initLock, cap, fresh, intact, faults>>

(* The directory is synced before the ledger is handed out and the lock goes. *)
SyncDir(p) ==
  /\ pc[p] = "sync"
  /\ marker' = IF marker = "none" THEN "none" ELSE "durable"
  /\ db' = IF db.entry = "none" THEN db ELSE [db EXCEPT !.entry = "durable"]
  /\ initLock' = None
  /\ Goto(p, "open")
  /\ UNCHANGED <<cap, fresh, intact, faults>>

OpenStep(p) ==
  \/ LockInit(p) \/ Mark(p) \/ SyncMarker(p) \/ CheckDb(p)
  \/ Schema(p) \/ SyncDir(p)

------------------------------------------------------------------------------
(* Use. *)

(* A connection reaches a database with the tables and this binding. *)
Usable(p) == db.entry # "none" /\ Bound(p, db)

Reserved == Unit * Cardinality(DOMAIN db.rows)

(* Mutant: any remainder is enough for one more reservation. *)
BugRoom(p) == cap[p] > Reserved

Room(p) == Reserved <= cap[p] /\ cap[p] - Reserved >= Unit

(* The reservation's transaction inserts row i; it is serialised by SQLite. *)
InsertRow(p, i) ==
  /\ Usable(p) /\ Room(p)
  /\ i \notin DOMAIN db.rows
  /\ db' = [db EXCEPT !.rows = [k \in DOMAIN db.rows \cup {i} |->
                 IF k = i THEN "reserved_incomplete" ELSE db.rows[k]]]
  /\ UNCHANGED <<marker, initLock, pc, cap, fresh, intact, faults>>

CanUpdate(p, i) == Usable(p) /\ i \in DOMAIN db.rows

UpdateRow(p, i, status) ==
  /\ CanUpdate(p, i)
  /\ db' = [db EXCEPT !.rows[i] = status]
  /\ UNCHANGED <<marker, initLock, pc, cap, fresh, intact, faults>>

------------------------------------------------------------------------------
(* Faults. *)

(* A process dies; the kernel drops its flock. *)
Die(p) ==
  /\ pc[p] # "down" /\ faults < MaxFaults
  /\ faults' = faults + 1
  /\ Goto(p, "down")
  /\ initLock' = IF initLock = p THEN None ELSE initLock
  /\ UNCHANGED <<marker, db, cap, fresh, intact>>

(* Every process dies, and each unsynced directory entry is kept or dropped. *)
LosePower ==
  /\ faults < MaxFaults /\ faults' = faults + 1
  /\ pc' = [p \in Procs |-> "down"]
  /\ initLock' = None
  /\ marker' \in IF marker = "cached" THEN {"none", "durable"} ELSE {marker}
  /\ db' \in IF db.entry = "cached"
             THEN {NoDb, [db EXCEPT !.entry = "durable"]} ELSE {db}
  /\ UNCHANGED <<cap, fresh, intact>>

(* The database disappears, or is truncated to an empty file. *)
LoseDb ==
  /\ faults < MaxFaults /\ faults' = faults + 1
  /\ db.entry # "none"
  /\ db' \in {NoDb, [NoDb EXCEPT !.entry = db.entry]}
  /\ intact' = FALSE
  /\ UNCHANGED <<marker, initLock, pc, cap, fresh>>

------------------------------------------------------------------------------
(* What the ledger answers for, whoever uses it.  A database exists only     *)
(* once the marker is durable, so only the first opener finds none; whoever  *)
(* is past the schema agrees with the binding; and attempts that were made   *)
(* have a row each until the database is damaged, after which none is made.  *)

World == Caps \subseteq Nat /\ Unit \in Nat /\ MaxFaults \in Nat /\ None \notin Procs

Databases == [entry : Entry, version : {0, 1}, bound : Caps \cup {0},
              rows : UNION {[S -> Statuses] : S \in SUBSET Ids}]

OpenerInv(p) ==
  /\ pc[p] \in {"locked", "marked", "file", "schema", "sync"} => initLock = p
  /\ pc[p] = "marked" => marker # "none"
  /\ pc[p] \in {"sync", "open"} =>
       marker = "durable" /\ (db.version = 1 => db.bound = cap[p])
  /\ pc[p] = "open" /\ db.version = 1 => db.entry = "durable"
  /\ pc[p] \in {"marked", "file", "schema"} /\ fresh[p] =>
       /\ pc[p] # "marked" => marker = "durable"
       /\ \A q \in Procs : pc[q] \notin {"sync", "open"}

LedgerInv ==
  /\ LedgerTypeOK /\ db \in Databases
  /\ IsFiniteSet(DOMAIN db.rows)
  /\ db.version = 0 => DOMAIN db.rows = {}
  /\ db.version = 1 => db.entry # "none" /\ Unit * Cardinality(DOMAIN db.rows) <= db.bound
  /\ db.entry # "none" => marker = "durable"
  /\ DOMAIN db.rows # {} => db.entry = "durable"
  /\ \A p \in Procs : OpenerInv(p)

\* How many attempts may have been made, for all that the ledger and its openers say.
Spendable ==
  {n \in Nat :
     /\ marker # "durable" => n = 0
     /\ \A p \in Procs : /\ pc[p] \in {"marked", "file", "schema"} /\ fresh[p] => n = 0
                         /\ pc[p] \in {"sync", "open"} => Unit * n <= cap[p]
     /\ db.version = 1 => n <= Cardinality(DOMAIN db.rows)}

\* Arithmetic on what is reserved.
LEMMA Products ==
    ASSUME NEW u \in Nat, NEW m \in Nat, NEW n \in Nat
    PROVE  u * (n + 1) = u * n + u /\ (m <= n => u * m <= u * n) /\ u * n \in Nat /\ u * 0 = 0
  OBVIOUS

\* If so many attempts may have been made, fewer may have been.
LEMMA SpendableDown ==
    ASSUME World, LedgerInv, NEW n \in Spendable, NEW m \in Nat, m <= n
    PROVE  m \in Spendable
  <1>1. n \in Nat /\ Unit \in Nat /\ Cardinality(DOMAIN db.rows) \in Nat
    BY FS_CardinalityType DEF Spendable, World, LedgerInv
  <1>2. Unit * m <= Unit * n /\ Unit * m \in Nat /\ Unit * n \in Nat
    BY <1>1, Products
  <1>3. ASSUME NEW p \in Procs, pc[p] \in {"sync", "open"} PROVE Unit * m <= cap[p]
    <2>1. Unit * n <= cap[p] /\ cap[p] \in Nat
      BY <1>3 DEF Spendable, World, LedgerInv, LedgerTypeOK
    <2> QED BY <1>2, <2>1
  <1>4. n = 0 => m = 0
    BY <1>1
  <1>5. db.version = 1 => m <= Cardinality(DOMAIN db.rows)
    BY <1>1 DEF Spendable
  <1> QED BY <1>3, <1>4, <1>5 DEF Spendable

LEMMA LedgerInitOK == World /\ LedgerInit => LedgerInv /\ 0 \in Spendable
  <1> SUFFICES ASSUME World, LedgerInit PROVE LedgerInv /\ 0 \in Spendable
    OBVIOUS
  <1>1. NoRows \in [{} -> Statuses] /\ DOMAIN NoRows = {}
    BY DEF NoRows
  <1>2. db \in Databases /\ db.version = 0 /\ db.entry = "none" /\ DOMAIN db.rows = {}
    BY <1>1 DEF LedgerInit, NoDb, Databases, Entry
  <1>3. LedgerTypeOK
    BY <1>2 DEF LedgerInit, LedgerTypeOK, World, Entry, Databases
  <1>4. IsFiniteSet(DOMAIN db.rows)
    BY <1>2, FS_EmptySet
  <1> QED BY <1>2, <1>3, <1>4 DEF LedgerInv, OpenerInv, LedgerInit, Spendable

\* Opening, one step at a time.
LEMMA OpenStepKeeps ==
    ASSUME World, LedgerInv, NEW p \in Procs, OpenStep(p)
    PROVE  /\ LedgerInv' /\ Spendable \subseteq Spendable'
           /\ intact' = intact /\ DOMAIN db'.rows = DOMAIN db.rows
           /\ \A k \in DOMAIN db.rows : db'.rows[k] = db.rows[k]
           /\ pc[p] # "open" /\ \A q \in Procs \ {p} : pc'[q] = pc[q]
  <1> USE DEF Goto
  <1>0. pc[p] # "open" /\ \A q \in Procs \ {p} : pc'[q] = pc[q]
    BY DEF OpenStep, LockInit, Mark, SyncMarker, CheckDb, Schema, SyncDir, OpenFails, LedgerInv,
           LedgerTypeOK
  <1>1. ASSUME OpenFails(p), pc[p] \in {"file", "schema"}
        PROVE  /\ LedgerInv' /\ Spendable \subseteq Spendable' /\ UNCHANGED <<db, intact>>
    BY <1>1 DEF OpenFails, LedgerInv, LedgerTypeOK, OpenerInv, Spendable, World
  <1>2. CASE LockInit(p)
    BY <1>0, <1>2 DEF LockInit, LedgerInv, LedgerTypeOK, OpenerInv, Spendable, World
  <1>3. CASE Mark(p)
    <2>1. /\ fresh' = [fresh EXCEPT ![p] = marker = "none"] /\ pc' = [pc EXCEPT ![p] = "marked"]
          /\ marker' = (IF marker = "none" THEN "cached" ELSE marker)
          /\ UNCHANGED <<db, initLock, cap, intact, faults>> /\ pc[p] = "locked"
      BY <1>3 DEF Mark
    <2>2. marker' \in Entry /\ marker' # "none" /\ (marker' = "durable" <=> marker = "durable")
      BY <2>1 DEF LedgerInv, LedgerTypeOK, Entry
    <2>3. fresh' \in [Procs -> BOOLEAN] /\ (fresh'[p] <=> marker = "none")
          /\ \A q \in Procs \ {p} : fresh'[q] = fresh[q]
      BY <2>1 DEF LedgerInv, LedgerTypeOK
    <2>4. LedgerTypeOK'
      BY <2>1, <2>2, <2>3 DEF LedgerInv, LedgerTypeOK
    <2>5. ASSUME NEW q \in Procs PROVE OpenerInv(q)'
      BY <2>1, <2>2, <2>3 DEF LedgerInv, LedgerTypeOK, OpenerInv
    <2>6. LedgerInv'
      BY <2>1, <2>2, <2>4, <2>5 DEF LedgerInv
    <2>7. Spendable \subseteq Spendable'
      BY <2>1, <2>2, <2>3 DEF LedgerInv, LedgerTypeOK, Spendable
    <2> QED BY <1>0, <2>1, <2>6, <2>7
  <1>4. CASE SyncMarker(p)
    BY <1>0, <1>4 DEF SyncMarker, LedgerInv, LedgerTypeOK, OpenerInv, Spendable, World, Entry
  <1>5. CASE CheckDb(p)
    <2>1. CASE db.entry = "none" /\ ~MayCreate(p)
      BY <1>0, <1>1, <1>5, <2>1 DEF CheckDb
    <2>2. CASE db.entry # "none"
      BY <1>0, <1>5, <2>2 DEF CheckDb, LedgerInv, LedgerTypeOK, OpenerInv, Spendable, World
    <2>3. CASE db.entry = "none" /\ MayCreate(p)
      <3>1. /\ db' = [NoDb EXCEPT !.entry = "cached"] /\ pc' = [pc EXCEPT ![p] = "schema"]
            /\ UNCHANGED <<marker, initLock, cap, fresh, intact, faults>>
            /\ pc[p] = "file" /\ fresh[p] /\ db.version = 0 /\ DOMAIN db.rows = {}
        BY <1>5, <2>3 DEF CheckDb, MayCreate, LedgerInv, LedgerTypeOK
      <3>2. NoRows \in [{} -> Statuses] /\ DOMAIN NoRows = {}
        BY DEF NoRows
      <3>3. db' = [entry |-> "cached", version |-> 0, bound |-> 0, rows |-> NoRows]
        BY <3>1 DEF NoDb
      <3>4. db' \in Databases /\ db'.version = 0 /\ db'.entry = "cached" /\ DOMAIN db'.rows = {}
            /\ db'.bound = 0
        BY <3>2, <3>3 DEF Databases, Entry
      <3>5. LedgerTypeOK'
        BY <3>1, <3>4 DEF LedgerInv, LedgerTypeOK, Entry
      <3>6. ASSUME NEW q \in Procs PROVE OpenerInv(q)'
        BY <3>1, <3>4 DEF LedgerInv, LedgerTypeOK, OpenerInv
      <3>7. LedgerInv'
        BY <3>1, <3>4, <3>5, <3>6, FS_EmptySet DEF LedgerInv, OpenerInv
      <3>8. Spendable \subseteq Spendable'
        BY <3>1, <3>4 DEF LedgerInv, LedgerTypeOK, Spendable
      <3> QED BY <1>0, <3>1, <3>4, <3>7, <3>8
    <2> QED BY <2>1, <2>2, <2>3
  <1>6. CASE Schema(p)
    <2> DEFINE d == IF db.version = 0 THEN [db EXCEPT !.version = 1, !.bound = cap[p]] ELSE db
    <2>0. /\ pc[p] = "schema"
          /\ IF db.entry = "none" \/ (db.version = 0 /\ ~MayCreate(p)) \/ ~Bound(p, d)
             THEN OpenFails(p)
             ELSE /\ db' = d /\ Goto(p, "sync")
                  /\ UNCHANGED <<marker, initLock, cap, fresh, intact, faults>>
      BY <1>6 DEF Schema
    <2>1. CASE db.entry = "none" \/ (db.version = 0 /\ ~MayCreate(p)) \/ ~Bound(p, d)
      BY <1>0, <1>1, <1>6, <2>0, <2>1 DEF Schema
    <2>2. CASE ~(db.entry = "none" \/ (db.version = 0 /\ ~MayCreate(p)) \/ ~Bound(p, d))
      <3>1. /\ db' = d /\ pc' = [pc EXCEPT ![p] = "sync"] /\ pc[p] = "schema"
            /\ UNCHANGED <<marker, initLock, cap, fresh, intact, faults>>
            /\ db.entry # "none" /\ (db.version = 0 => fresh[p])
            /\ d.version = 1 /\ d.bound = cap[p]
        <4> HIDE DEF d
        <4> QED BY <2>0, <2>2 DEF Bound, MayCreate
      <3>2. /\ db' \in Databases /\ db'.entry = db.entry /\ db'.rows = db.rows
            /\ db'.version = 1 /\ db'.bound = cap[p]
            /\ db.version = 1 => db' = db
        <4>0. db \in Databases /\ cap[p] \in Caps
          BY DEF LedgerInv, LedgerTypeOK
        <4>1. CASE db.version = 0
          <5>1. db' = [db EXCEPT !.version = 1, !.bound = cap[p]]
            BY <3>1, <4>1
          <5>2. db' = [entry |-> db.entry, version |-> 1, bound |-> cap[p], rows |-> db.rows]
            BY <4>0, <5>1 DEF Databases
          <5> QED BY <4>0, <4>1, <5>2 DEF Databases
        <4>2. CASE db.version # 0
          BY <3>1, <4>0, <4>2 DEF Databases
        <4> QED BY <4>1, <4>2
      <3>3. LedgerTypeOK'
        BY <3>1, <3>2 DEF LedgerInv, LedgerTypeOK, Databases
      <3>4. ASSUME NEW q \in Procs PROVE OpenerInv(q)'
        BY <3>1, <3>2 DEF LedgerInv, LedgerTypeOK, OpenerInv
      <3>5. Unit * Cardinality(DOMAIN db'.rows) <= db'.bound
        <4>1. CASE db.version = 1
          BY <3>1, <3>2, <4>1 DEF LedgerInv
        <4>2. CASE db.version = 0
          <5>1. Cardinality(DOMAIN db.rows) = 0
            BY <4>2, FS_EmptySet DEF LedgerInv
          <5> QED BY <3>1, <3>2, <5>1 DEF LedgerInv, LedgerTypeOK, World
        <4> QED BY <4>1, <4>2 DEF LedgerInv, Databases
      <3>6. LedgerInv'
        BY <3>1, <3>2, <3>3, <3>4, <3>5 DEF LedgerInv
      <3>7. ASSUME NEW n \in Spendable PROVE n \in Spendable'
        <4>1. n \in Nat /\ n <= Cardinality(DOMAIN db.rows)
              /\ Cardinality(DOMAIN db.rows) \in Nat
          <5>1. Cardinality(DOMAIN db.rows) \in Nat
            BY FS_CardinalityType DEF LedgerInv
          <5> QED BY <3>1, <5>1 DEF Spendable, LedgerInv, Databases
        <4>2. Unit * n <= Unit * Cardinality(DOMAIN db.rows)
          BY <4>1, Products DEF World
        <4>3. Unit * n <= cap[p]
          <5>1. Unit * Cardinality(DOMAIN db.rows) <= cap[p]
            BY <3>2, <3>5
          <5>2. Unit * n \in Nat /\ Unit * Cardinality(DOMAIN db.rows) \in Nat /\ cap[p] \in Nat
            BY <4>1, Products DEF World, LedgerInv, LedgerTypeOK
          <5> QED BY <4>2, <5>1, <5>2
        <4> QED BY <3>1, <3>2, <4>1, <4>3 DEF Spendable, LedgerInv, LedgerTypeOK
      <3> QED BY <1>0, <3>1, <3>2, <3>6, <3>7
    <2> QED BY <2>1, <2>2
  <1>7. CASE SyncDir(p)
    <2>1. /\ pc[p] = "sync" /\ pc' = [pc EXCEPT ![p] = "open"] /\ initLock' = None
          /\ marker = "durable" /\ marker' = "durable"
          /\ UNCHANGED <<cap, fresh, intact, faults>>
      BY <1>7 DEF SyncDir, LedgerInv, OpenerInv
    <2>2. /\ db' \in Databases /\ db'.version = db.version /\ db'.bound = db.bound
          /\ db'.rows = db.rows
          /\ db'.entry = (IF db.entry = "none" THEN "none" ELSE "durable")
      BY <1>7 DEF SyncDir, LedgerInv, Databases, Entry
    <2>3. LedgerTypeOK'
      BY <2>1, <2>2 DEF LedgerInv, LedgerTypeOK, Databases
    <2>4. ASSUME NEW q \in Procs PROVE OpenerInv(q)'
      BY <2>1, <2>2 DEF LedgerInv, LedgerTypeOK, OpenerInv, World
    <2>5. LedgerInv'
      BY <2>1, <2>2, <2>3, <2>4 DEF LedgerInv, Databases
    <2>6. Spendable \subseteq Spendable'
      BY <2>1, <2>2 DEF LedgerInv, LedgerTypeOK, Spendable
    <2> QED BY <1>0, <2>1, <2>2, <2>5, <2>6
  <1> QED BY <1>2, <1>3, <1>4, <1>5, <1>6, <1>7 DEF OpenStep

\* A row is reserved by a process that has the ledger open: one more attempt is covered.
LEMMA InsertKeeps ==
    ASSUME World, LedgerInv, NEW p \in Procs, pc[p] = "open", NEW i \in Ids, InsertRow(p, i)
    PROVE  /\ LedgerInv' /\ \A n \in Spendable : n \in Spendable' /\ n + 1 \in Spendable'
           /\ intact' = intact /\ i \notin DOMAIN db.rows
           /\ DOMAIN db'.rows = DOMAIN db.rows \cup {i}
           /\ \A k \in DOMAIN db.rows : db'.rows[k] = db.rows[k]
  <1> DEFINE D == DOMAIN db.rows
  <1>1. /\ UNCHANGED <<marker, initLock, pc, cap, fresh, intact, faults>>
        /\ i \notin D /\ db.version = 1 /\ db.bound = cap[p] /\ db.entry = "durable"
        /\ Room(p)
    BY DEF InsertRow, Usable, Bound, LedgerInv, OpenerInv
  <1>2. /\ db' \in Databases /\ db'.entry = db.entry /\ db'.version = 1 /\ db'.bound = cap[p]
        /\ DOMAIN db'.rows = D \cup {i} /\ \A k \in D : db'.rows[k] = db.rows[k]
    <2>1. PICK S \in SUBSET Ids : db.rows \in [S -> Statuses]
      BY DEF LedgerInv, Databases
    <2> DEFINE new == [k \in D \cup {i} |-> IF k = i THEN "reserved_incomplete" ELSE db.rows[k]]
    <2>2. new \in [D \cup {i} -> Statuses] /\ D \cup {i} \in SUBSET Ids
      BY <2>1 DEF Statuses
    <2>3. new \in UNION {[T -> Statuses] : T \in SUBSET Ids} /\ DOMAIN new = D \cup {i}
          /\ \A k \in D : new[k] = db.rows[k]
      BY <1>1, <2>2
    <2>4. db' = [db EXCEPT !.rows = new]
      BY DEF InsertRow
    <2> HIDE DEF new
    <2>5. db' = [entry |-> db.entry, version |-> db.version, bound |-> db.bound, rows |-> new]
      BY <2>4 DEF LedgerInv, Databases
    <2> QED BY <1>1, <2>3, <2>5 DEF LedgerInv, Databases
  <1>3. /\ IsFiniteSet(D) /\ Cardinality(D) \in Nat /\ IsFiniteSet(DOMAIN db'.rows)
        /\ Cardinality(DOMAIN db'.rows) = Cardinality(D) + 1
    BY <1>1, <1>2, FS_AddElement, FS_CardinalityType DEF LedgerInv
  <1>4. /\ Unit * Cardinality(DOMAIN db'.rows) <= cap[p] /\ cap[p] \in Nat
        /\ Unit * Cardinality(D) <= cap[p]
    <2>1. cap[p] \in Nat /\ Unit \in Nat /\ Unit * Cardinality(D) \in Nat
      BY <1>3, Products DEF World, LedgerInv, LedgerTypeOK
    <2>2. Unit * Cardinality(D) <= cap[p] /\ cap[p] - Unit * Cardinality(D) >= Unit
      BY <1>1 DEF Room, Reserved
    <2>3. Unit * (Cardinality(D) + 1) = Unit * Cardinality(D) + Unit
      BY <1>3, <2>1, Products
    <2>4. Unit * (Cardinality(D) + 1) <= cap[p]
      BY <2>1, <2>2, <2>3
    <2> QED BY <1>3, <2>1, <2>2, <2>4
  <1>5. LedgerTypeOK'
    BY <1>1, <1>2 DEF LedgerInv, LedgerTypeOK, Databases
  <1>6. ASSUME NEW q \in Procs PROVE OpenerInv(q)'
    BY <1>1, <1>2 DEF LedgerInv, OpenerInv
  <1>7. LedgerInv'
    BY <1>1, <1>2, <1>3, <1>4, <1>5, <1>6 DEF LedgerInv
  <1>8. ASSUME NEW n \in Spendable, NEW m \in Nat, m <= n + 1 PROVE m \in Spendable'
    <2>1. n \in Nat /\ n <= Cardinality(D)
      BY <1>1, <1>3 DEF Spendable
    <2>2. Cardinality(D) + 1 \in Nat /\ Unit \in Nat /\ m <= Cardinality(D) + 1
      BY <1>3, <1>8, <2>1 DEF World
    <2>3. Unit * m <= cap[p]
      <3>1. Unit * m <= Unit * (Cardinality(D) + 1)
        BY <2>2, Products
      <3>2. Unit * m \in Nat /\ Unit * (Cardinality(D) + 1) \in Nat
        BY <2>2, Products
      <3>3. Unit * (Cardinality(D) + 1) <= cap[p]
        BY <1>3, <1>4
      <3> QED BY <1>4, <3>1, <3>2, <3>3
    <2>4. ASSUME NEW q \in Procs, pc[q] \in {"sync", "open"} PROVE Unit * m <= cap[q]
      BY <1>1, <2>3, <2>4 DEF LedgerInv, OpenerInv
    <2>5. ASSUME NEW q \in Procs PROVE ~(pc[q] \in {"marked", "file", "schema"} /\ fresh[q])
      BY DEF LedgerInv, OpenerInv
    <2>6. marker = "durable"
      BY DEF LedgerInv, OpenerInv
    <2> QED BY <1>1, <1>2, <1>3, <2>2, <2>4, <2>5, <2>6 DEF Spendable
  <1>9. \A n \in Spendable : n \in Nat /\ n <= n + 1 /\ n + 1 \in Nat
    BY DEF Spendable
  <1> QED BY <1>1, <1>2, <1>7, <1>8, <1>9

\* A row records how its attempt ended.
LEMMA UpdateKeeps ==
    ASSUME World, LedgerInv, NEW p, NEW i, NEW status \in Statuses, UpdateRow(p, i, status)
    PROVE  /\ LedgerInv' /\ Spendable \subseteq Spendable'
           /\ UNCHANGED <<pc, intact>> /\ i \in DOMAIN db.rows
           /\ DOMAIN db'.rows = DOMAIN db.rows /\ db'.rows[i] = status
           /\ \A k \in DOMAIN db.rows \ {i} : db'.rows[k] = db.rows[k]
  <1>1. /\ UNCHANGED <<marker, initLock, pc, cap, fresh, intact, faults>>
        /\ i \in DOMAIN db.rows /\ db' = [db EXCEPT !.rows = [@ EXCEPT ![i] = status]]
    BY DEF UpdateRow, CanUpdate
  <1>2. PICK S \in SUBSET Ids : db.rows \in [S -> Statuses]
    BY DEF LedgerInv, Databases
  <1> DEFINE new == [db.rows EXCEPT ![i] = status]
  <1>3. /\ new \in [S -> Statuses] /\ DOMAIN new = DOMAIN db.rows /\ new[i] = status
        /\ \A k \in DOMAIN db.rows \ {i} : new[k] = db.rows[k]
    BY <1>1, <1>2
  <1> HIDE DEF new
  <1>4. db' = [entry |-> db.entry, version |-> db.version, bound |-> db.bound, rows |-> new]
    BY <1>1 DEF LedgerInv, Databases, new
  <1>5. /\ db' \in Databases /\ db'.entry = db.entry /\ db'.version = db.version
        /\ db'.bound = db.bound /\ db'.rows = new /\ DOMAIN db'.rows = DOMAIN db.rows
    BY <1>2, <1>3, <1>4 DEF LedgerInv, Databases
  <1>6. LedgerTypeOK'
    BY <1>1, <1>5 DEF LedgerInv, LedgerTypeOK, Databases
  <1>7. ASSUME NEW q \in Procs PROVE OpenerInv(q)'
    BY <1>1, <1>5 DEF LedgerInv, OpenerInv
  <1>8. LedgerInv' /\ Spendable \subseteq Spendable'
    BY <1>1, <1>5, <1>6, <1>7 DEF LedgerInv, Spendable
  <1> QED BY <1>1, <1>3, <1>5, <1>8

\* A process or the machine goes down: what is reserved stays reserved.
LEMMA CrashKeeps ==
    ASSUME World, LedgerInv, LosePower \/ \E p \in Procs : Die(p)
    PROVE  /\ LedgerInv' /\ Spendable \subseteq Spendable'
           /\ intact' = intact /\ DOMAIN db'.rows = DOMAIN db.rows
           /\ \A k \in DOMAIN db.rows : db'.rows[k] = db.rows[k]
  <1>1. ASSUME NEW p \in Procs, Die(p)
        PROVE  LedgerInv' /\ Spendable \subseteq Spendable' /\ UNCHANGED <<db, intact>>
    <2>1. /\ UNCHANGED <<marker, db, cap, fresh, intact>> /\ pc' = [pc EXCEPT ![p] = "down"]
          /\ initLock' = (IF initLock = p THEN None ELSE initLock) /\ faults' \in 0..MaxFaults
      BY <1>1 DEF Die, Goto, LedgerInv, LedgerTypeOK, World
    <2>2. ASSUME NEW q \in Procs PROVE OpenerInv(q)'
      BY <2>1 DEF LedgerInv, LedgerTypeOK, OpenerInv
    <2>3. LedgerTypeOK'
      BY <2>1 DEF LedgerInv, LedgerTypeOK
    <2>4. Spendable \subseteq Spendable'
      BY <2>1 DEF LedgerInv, LedgerTypeOK, Spendable
    <2> QED BY <2>1, <2>2, <2>3, <2>4 DEF LedgerInv
  <1>2. CASE LosePower
    <2>1. /\ UNCHANGED <<cap, fresh, intact>> /\ pc' = [p \in Procs |-> "down"]
          /\ initLock' = None /\ faults' \in 0..MaxFaults
          /\ marker' \in Entry /\ (marker = "durable" <=> marker' = "durable" /\ marker # "cached")
      BY <1>2 DEF LosePower, LedgerInv, LedgerTypeOK, Entry, World
    <2>2. /\ db' \in Databases
          /\ db'.version = 0 => DOMAIN db'.rows = {}
          /\ DOMAIN db'.rows = DOMAIN db.rows
          /\ \A k \in DOMAIN db.rows : db'.rows[k] = db.rows[k]
          /\ db'.version = 1 => db'.entry # "none" /\ db.version = 1 /\ db'.bound = db.bound
          /\ db'.entry # "none" => db.entry # "none"
          /\ DOMAIN db'.rows # {} => db'.entry = "durable"
      <3>1. CASE db.entry = "cached" /\ db' = NoDb
        <4>1. NoRows \in [{} -> Statuses] /\ DOMAIN NoRows = {} /\ DOMAIN db.rows = {}
          BY <3>1 DEF NoRows, LedgerInv
        <4>2. db' = [entry |-> "none", version |-> 0, bound |-> 0, rows |-> NoRows]
          BY <3>1 DEF NoDb
        <4>3. /\ db' \in Databases /\ db'.version = 0 /\ db'.entry = "none"
              /\ db'.rows = NoRows
          BY <4>1, <4>2 DEF Databases, Entry
        <4> QED BY <4>1, <4>3
      <3>2. CASE db.entry = "cached" /\ db' = [db EXCEPT !.entry = "durable"]
        <4>1. db' = [entry |-> "durable", version |-> db.version, bound |-> db.bound,
                     rows |-> db.rows]
          BY <3>2 DEF LedgerInv, Databases
        <4>2. /\ db' \in Databases /\ db'.version = db.version /\ db'.rows = db.rows
              /\ db'.bound = db.bound /\ db'.entry = "durable"
          BY <4>1 DEF LedgerInv, Databases, Entry
        <4> QED BY <3>2, <4>2 DEF LedgerInv
      <3>3. CASE db' = db
        BY <3>3 DEF LedgerInv
      <3> QED BY <1>2, <3>1, <3>2, <3>3 DEF LosePower
    <2>3. LedgerTypeOK'
      BY <2>1, <2>2 DEF LedgerInv, LedgerTypeOK, Databases
    <2>4. ASSUME NEW q \in Procs PROVE OpenerInv(q)'
      BY <2>1 DEF OpenerInv
    <2>5. db'.entry # "none" => marker' = "durable"
      BY <1>2, <2>2 DEF LosePower, LedgerInv
    <2>6. LedgerInv'
      BY <2>1, <2>2, <2>3, <2>4, <2>5 DEF LedgerInv
    <2>7. Spendable \subseteq Spendable'
      BY <2>1, <2>2 DEF LedgerInv, LedgerTypeOK, Spendable
    <2> QED BY <2>1, <2>2, <2>6, <2>7
  <1> QED BY <1>1, <1>2

\* The database is damaged: what was made stays counted against those who have it open.
LEMMA LoseDbKeeps ==
    ASSUME World, LedgerInv, LoseDb
    PROVE  LedgerInv' /\ Spendable \subseteq Spendable' /\ UNCHANGED pc /\ ~intact'
  <1>1. /\ UNCHANGED <<marker, initLock, pc, cap, fresh>> /\ faults' \in 0..MaxFaults
        /\ intact' = FALSE /\ db.entry # "none"
    BY DEF LoseDb, LedgerInv, LedgerTypeOK, World
  <1>2. NoRows \in [{} -> Statuses] /\ DOMAIN NoRows = {}
    BY DEF NoRows
  <1>3. PICK e \in {"none", db.entry} :
            db' = [entry |-> e, version |-> 0, bound |-> 0, rows |-> NoRows]
    BY DEF LoseDb, NoDb
  <1>3a. e \in Entry /\ {} \in SUBSET Ids
    BY DEF Entry, LedgerInv, LedgerTypeOK
  <1>4. db' \in Databases /\ db'.version = 0 /\ DOMAIN db'.rows = {}
        /\ (db'.entry = "none" \/ db'.entry = db.entry)
    BY <1>2, <1>3, <1>3a DEF Databases
  <1>5. LedgerTypeOK'
    BY <1>1, <1>4 DEF LedgerInv, LedgerTypeOK, Databases
  <1>6. ASSUME NEW q \in Procs PROVE OpenerInv(q)'
    BY <1>1, <1>4 DEF LedgerInv, OpenerInv
  <1>7. LedgerInv'
    BY <1>1, <1>4, <1>5, <1>6, FS_EmptySet DEF LedgerInv
  <1>8. Spendable \subseteq Spendable'
    BY <1>1, <1>4 DEF Spendable
  <1> QED BY <1>1, <1>7, <1>8
==============================================================================
