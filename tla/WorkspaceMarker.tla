-------------------------- MODULE WorkspaceMarker --------------------------
(***************************************************************************)
(* The workspace UUID marker <git-dir>/trellis/workspace-id, which names   *)
(* the durable record of a checkout (store/topology.rs, marker_at).        *)
(* Several processes may open or create it at the same time, any of them   *)
(* may die, the owner may remove a marker that was left short, and the     *)
(* machine may lose power: then unsynced bytes and unsynced directory      *)
(* entries may or may not have reached the disk.                           *)
(*                                                                         *)
(* A creation makes one inode and writes one fresh UUID to it, so an inode *)
(* and the UUID meant for it are the same number here.                     *)
(***************************************************************************)
EXTENDS Naturals, FiniteSets, FiniteSetTheorems, TLAPS

CONSTANTS
    Procs,          \* processes that open the checkout
    MaxInodes,      \* bound: markers ever created
    Attempts,       \* reads of a short marker before giving up (20)
    MaxLosses       \* bound: power losses

Inodes == 1..MaxInodes
None == 0

VARIABLES
    trellis,        \* [now, disk]: the private directory exists
    name,           \* [now, disk]: the inode the marker's pathname names
    written,        \* inodes that hold their whole UUID
    synced,         \* ... and whose content is on disk
    made,           \* inodes ever created
    pc, fd, first, tries,   \* per process: step, open file, first short file, reads
    promised,       \* UUIDs some open returned
    losses

vars == <<trellis, name, written, synced, made, pc, fd, first, tries, promised, losses>>
disk == <<trellis, name, written, synced, made>>

Steps == {"idle", "mksync", "open", "create", "adopt", "read", "retry", "write",
          "syncFile", "syncDir", "syncGit", "return"}

TypeOK ==
    /\ trellis \in [now : BOOLEAN, disk : BOOLEAN]
    /\ name \in [now : Inodes \cup {None}, disk : Inodes \cup {None}]
    /\ made \in 0..MaxInodes
    /\ written \subseteq 1..made /\ synced \subseteq written
    /\ pc \in [Procs -> Steps]
    /\ fd \in [Procs -> 0..made] /\ first \in [Procs -> 0..made]
    /\ tries \in [Procs -> 0..Attempts]
    /\ promised \subseteq 1..made
    /\ losses \in 0..MaxLosses

Init ==
    /\ trellis = [now |-> FALSE, disk |-> FALSE]
    /\ name = [now |-> None, disk |-> None]
    /\ written = {} /\ synced = {} /\ made = 0
    /\ pc = [p \in Procs |-> "idle"]
    /\ fd = [p \in Procs |-> None] /\ first = [p \in Procs |-> None]
    /\ tries = [p \in Procs |-> 0]
    /\ promised = {} /\ losses = 0

Goto(p, step) == pc' = [pc EXCEPT ![p] = step]

\* The process returns, fails or dies: its descriptors are closed.
Leave(p) ==
    /\ Goto(p, "idle")
    /\ fd' = [fd EXCEPT ![p] = None] /\ first' = [first EXCEPT ![p] = None]
    /\ tries' = [tries EXCEPT ![p] = 0]

\* private_file: the pathname still names the open inode.
Named(p) == name.now = fd[p]

Refuse(p) == Leave(p) /\ UNCHANGED <<disk, promised, losses>>

----------------------------------------------------------------------------
(* make_private(trellis): create the directory and sync its parent. *)
Start(p) ==
    /\ pc[p] = "idle"
    /\ IF trellis.now
       THEN Goto(p, "open") /\ UNCHANGED trellis
       ELSE Goto(p, "mksync") /\ trellis' = [trellis EXCEPT !.now = TRUE]
    /\ UNCHANGED <<name, written, synced, made, fd, first, tries, promised, losses>>

MkSync(p) ==
    /\ pc[p] = "mksync"
    /\ trellis' = [trellis EXCEPT !.disk = trellis.now]
    /\ Goto(p, "open")
    /\ UNCHANGED <<name, written, synced, made, fd, first, tries, promised, losses>>

(* Only an absent pathname at the first open starts a new UUID. *)
Open(p) ==
    /\ pc[p] = "open"
    /\ fd' = [fd EXCEPT ![p] = name.now]
    /\ Goto(p, IF name.now = None THEN "create" ELSE "read")
    /\ UNCHANGED <<disk, first, tries, promised, losses>>

(* create_new: at most one creator gets the pathname. *)
Create(p) ==
    /\ pc[p] = "create"
    /\ \/ /\ name.now = None /\ trellis.now /\ made < MaxInodes
          /\ made' = made + 1
          /\ name' = [name EXCEPT !.now = made']
          /\ fd' = [fd EXCEPT ![p] = made']
          /\ Goto(p, "write")
          /\ UNCHANGED <<trellis, written, synced, first, tries, promised, losses>>
       \/ /\ name.now # None
          /\ Goto(p, "adopt")
          /\ UNCHANGED <<disk, fd, first, tries, promised, losses>>

(* The loser of the creation opens the winner's file. *)
Adopt(p) ==
    /\ pc[p] = "adopt"
    /\ IF name.now = None
       THEN Refuse(p)
       ELSE /\ fd' = [fd EXCEPT ![p] = name.now]
            /\ Goto(p, "read")
            /\ UNCHANGED <<disk, first, tries, promised, losses>>

Write(p) ==
    /\ pc[p] = "write"
    /\ written' = written \cup {fd[p]}
    /\ Goto(p, "syncFile")
    /\ UNCHANGED <<trellis, name, synced, made, fd, first, tries, promised, losses>>

\* Mutant: a UUID read from another process's marker is returned at once.
BugRead(p) ==
    /\ pc[p] = "read"
    /\ IF ~Named(p) \/ (fd[p] \notin written /\ tries[p] + 1 = Attempts)
       THEN Refuse(p)
       ELSE /\ IF fd[p] \in written
               THEN Goto(p, "return") /\ UNCHANGED <<first, tries>>
               ELSE /\ Goto(p, "retry")
                    /\ tries' = [tries EXCEPT ![p] = @ + 1]
                    /\ first' = [first EXCEPT ![p] = IF @ = None THEN fd[p] ELSE @]
            /\ UNCHANGED <<disk, fd, promised, losses>>

(* classify_marker_file and read_marker_during_creation: a whole UUID is   *)
(* made durable before it is used; a short one is read again for a while.  *)
Read(p) ==
    /\ pc[p] = "read"
    /\ IF ~Named(p) \/ (fd[p] \notin written /\ tries[p] + 1 = Attempts)
       THEN Refuse(p)
       ELSE /\ IF fd[p] \in written
               THEN Goto(p, "syncFile") /\ UNCHANGED <<first, tries>>
               ELSE /\ Goto(p, "retry")
                    /\ tries' = [tries EXCEPT ![p] = @ + 1]
                    /\ first' = [first EXCEPT ![p] = IF @ = None THEN fd[p] ELSE @]
            /\ UNCHANGED <<disk, fd, promised, losses>>

(* The file read again must be the one first seen short. *)
Retry(p) ==
    /\ pc[p] = "retry"
    /\ IF name.now # first[p]
       THEN Refuse(p)
       ELSE /\ fd' = [fd EXCEPT ![p] = name.now]
            /\ Goto(p, "read")
            /\ UNCHANGED <<disk, first, tries, promised, losses>>

----------------------------------------------------------------------------
(* durable_marker: file, trellis directory and Git directory are synced in *)
(* this order, each after the pathname was found to name the open file.    *)
SyncFile(p) ==
    /\ pc[p] = "syncFile"
    /\ IF ~Named(p) THEN Refuse(p)
       ELSE /\ synced' = synced \cup {fd[p]}
            /\ Goto(p, "syncDir")
            /\ UNCHANGED <<trellis, name, written, made, fd, first, tries, promised, losses>>

SyncDir(p) ==
    /\ pc[p] = "syncDir"
    /\ IF ~Named(p) THEN Refuse(p)
       ELSE /\ name' = [name EXCEPT !.disk = name.now]
            /\ Goto(p, "syncGit")
            /\ UNCHANGED <<trellis, written, synced, made, fd, first, tries, promised, losses>>

SyncGit(p) ==
    /\ pc[p] = "syncGit"
    /\ IF ~Named(p) THEN Refuse(p)
       ELSE /\ trellis' = [trellis EXCEPT !.disk = trellis.now]
            /\ Goto(p, "return")
            /\ UNCHANGED <<name, written, synced, made, fd, first, tries, promised, losses>>

(* marker_at returns the UUID; the caller attaches the record of that name. *)
Return(p) ==
    /\ pc[p] = "return"
    /\ IF ~Named(p) THEN Refuse(p)
       ELSE /\ promised' = promised \cup {fd[p]}
            /\ Leave(p)
            /\ UNCHANGED <<disk, losses>>

----------------------------------------------------------------------------
(* A process is killed, or one of its calls fails. *)
Crash(p) == pc[p] # "idle" /\ Refuse(p)

(* The owner removes a marker that was left short. *)
OwnerRemoves ==
    /\ name.now # None /\ name.now \notin written
    /\ name' = [name EXCEPT !.now = None]
    /\ UNCHANGED <<trellis, written, synced, made, pc, fd, first, tries, promised, losses>>

(* Power is lost: every unsynced change reached the disk or did not. *)
PowerLoss ==
    /\ losses < MaxLosses
    /\ losses' = losses + 1
    /\ \E dir \in {trellis.now, trellis.disk}, entry \in {name.now, name.disk},
          kept \in SUBSET (written \ synced) :
         LET survives == IF dir THEN entry ELSE None
         IN  /\ trellis' = [now |-> dir, disk |-> dir]
             /\ name' = [now |-> survives, disk |-> survives]
             /\ written' = synced \cup kept /\ synced' = written'
    /\ pc' = [p \in Procs |-> "idle"]
    /\ fd' = [p \in Procs |-> None] /\ first' = [p \in Procs |-> None]
    /\ tries' = [p \in Procs |-> 0]
    /\ UNCHANGED <<made, promised>>

Step(p) ==
    \/ Start(p) \/ MkSync(p) \/ Open(p) \/ Create(p) \/ Adopt(p) \/ Write(p)
    \/ Read(p) \/ Retry(p) \/ SyncFile(p) \/ SyncDir(p) \/ SyncGit(p) \/ Return(p)

Next == OwnerRemoves \/ PowerLoss \/ \E p \in Procs : Step(p) \/ Crash(p)

Spec == Init /\ [][Next]_vars

----------------------------------------------------------------------------
(* Two opens of one checkout never return different UUIDs, whoever created *)
(* the marker, died, lost the creation race or came after a power loss:    *)
(* otherwise saved views would be split over two records (marker_at).      *)
OneIdentity == Cardinality(promised) <= 1

(* A UUID that was returned is what the marker holds from then on, even    *)
(* when power is lost at once: every creator and every adopter completes   *)
(* the three syncs of durable_marker before it returns.                    *)
PromiseDurable ==
    promised # {} =>
        /\ trellis.disk
        /\ name.disk = name.now /\ name.now \in promised
        /\ name.now \in synced

----------------------------------------------------------------------------
(* Both hold for every set of processes and any number of markers, reads   *)
(* and power losses.  A returned UUID is safe because the pathname stops   *)
(* moving once the file it names is whole: only an owner removes a marker, *)
(* and only a short one, a creation needs an absent one, and a power loss  *)
(* finds the file, its entry and its directory on disk.                    *)

Bounds == MaxInodes \in Nat /\ Attempts \in Nat \ {0} /\ MaxLosses \in Nat

\* What a process has achieved on the file it holds open, by its step.
HeldInv(p) ==
    /\ tries[p] < Attempts
    /\ pc[p] # "idle" => trellis.now
    /\ pc[p] = "write" => fd[p] \in 1..made
    /\ pc[p] = "syncFile" => fd[p] \in written
    /\ pc[p] \in {"syncDir", "syncGit", "return"} => fd[p] \in synced
    /\ pc[p] \in {"syncGit", "return"} /\ Named(p) => name.disk = fd[p]
    /\ pc[p] = "return" => trellis.disk

MarkerInv ==
    /\ TypeOK
    /\ trellis.disk => trellis.now
    /\ name.now \in 0..made /\ name.disk \in 0..made
    /\ promised \subseteq {name.now}
    /\ PromiseDurable
    /\ \A p \in Procs : HeldInv(p)

\* No directory, no marker and no process satisfy the invariant.
LEMMA MarkerInit == Bounds /\ Init => MarkerInv
  BY DEF Bounds, Init, MarkerInv, TypeOK, HeldInv, PromiseDurable, Named, Inodes, None, Steps

\* A process that leaves has nothing to keep.
LEMMA LeaveKeeps ==
    ASSUME Bounds, MarkerInv, NEW p \in Procs, Leave(p), UNCHANGED disk, UNCHANGED losses,
           promised' \in {promised, promised \cup {name.now}},
           promised' # promised => /\ trellis.disk /\ name.now \in synced
                                   /\ name.disk = name.now
    PROVE  MarkerInv'
  BY DEF Bounds, MarkerInv, TypeOK, HeldInv, PromiseDurable, Named, Leave, Goto, disk, Inodes,
         None, Steps

\* A step of one process that changes neither the pathname nor what was promised.
LEMMA StepKeeps ==
    ASSUME Bounds, MarkerInv, NEW p \in Procs,
           UNCHANGED <<name, made, promised, losses>>,
           trellis' \in [now : BOOLEAN, disk : BOOLEAN],
           trellis.now => trellis'.now, trellis.disk => trellis'.disk,
           trellis'.disk => trellis'.now,
           written \subseteq written', synced \subseteq synced', written' \subseteq 1..made,
           synced' \subseteq written',
           \E step \in Steps : Goto(p, step),
           \A q \in Procs \ {p} : fd'[q] = fd[q] /\ tries'[q] = tries[q],
           fd' \in [Procs -> 0..made], first' \in [Procs -> 0..made],
           tries' \in [Procs -> 0..Attempts],
           HeldInv(p)'
    PROVE  MarkerInv'
  <1>1. TypeOK' /\ PromiseDurable'
    BY DEF MarkerInv, TypeOK, PromiseDurable, Goto
  <1>2. ASSUME NEW q \in Procs \ {p} PROVE HeldInv(q)'
    BY <1>2 DEF MarkerInv, TypeOK, HeldInv, Named, Goto
  <1> QED BY <1>1, <1>2 DEF MarkerInv

\* Every step of every process, of the owner and of the machine keeps the invariant.
LEMMA MarkerStep == Bounds /\ MarkerInv /\ [Next]_vars => MarkerInv'
  <1> SUFFICES ASSUME Bounds, MarkerInv, [Next]_vars PROVE MarkerInv'
    OBVIOUS
  <1> USE DEF Goto, Steps
  <1>1. ASSUME NEW p \in Procs, Start(p) PROVE MarkerInv'
    <2>1. HeldInv(p)'
      BY <1>1 DEF Start, MarkerInv, TypeOK, HeldInv, Named
    <2> QED BY <1>1, <2>1, StepKeeps DEF Start, MarkerInv, TypeOK
  <1>2. ASSUME NEW p \in Procs, MkSync(p) PROVE MarkerInv'
    <2>1. HeldInv(p)'
      BY <1>2 DEF MkSync, MarkerInv, TypeOK, HeldInv, Named
    <2> QED BY <1>2, <2>1, StepKeeps DEF MkSync, MarkerInv, TypeOK, HeldInv
  <1>3. ASSUME NEW p \in Procs, Open(p) PROVE MarkerInv'
    <2>1. HeldInv(p)'
      BY <1>3 DEF Open, MarkerInv, TypeOK, HeldInv, Named, disk
    <2> QED BY <1>3, <2>1, StepKeeps DEF Open, MarkerInv, TypeOK, disk
  <1>4. ASSUME NEW p \in Procs, Create(p) PROVE MarkerInv'
    <2>1. CASE name.now = None
      <3>0. promised = {}
        BY <2>1 DEF MarkerInv, TypeOK, PromiseDurable, None
      <3>1. /\ promised' = {} /\ made + 1 \in 1..MaxInodes
            /\ made' = made + 1 /\ name' = [name EXCEPT !.now = made']
        BY <1>4, <2>1, <3>0 DEF Create, MarkerInv, TypeOK, Bounds
      <3>2. TypeOK'
        BY <1>4, <2>1, <3>1 DEF Create, MarkerInv, TypeOK, Inodes
      <3>3. ASSUME NEW q \in Procs PROVE HeldInv(q)'
        BY <1>4, <2>1, <3>1 DEF Create, MarkerInv, TypeOK, HeldInv, Named, None
      <3> QED BY <1>4, <2>1, <3>1, <3>2, <3>3
              DEF Create, MarkerInv, TypeOK, PromiseDurable, Inodes
    <2>2. CASE name.now # None
      <3>1. HeldInv(p)'
        BY <1>4, <2>2 DEF Create, MarkerInv, TypeOK, HeldInv, Named, disk
      <3> QED BY <1>4, <2>2, <3>1, StepKeeps DEF Create, MarkerInv, TypeOK, disk
    <2> QED BY <2>1, <2>2
  <1>5. ASSUME NEW p \in Procs, Refuse(p) PROVE MarkerInv'
    BY <1>5, LeaveKeeps DEF Refuse
  <1>6. ASSUME NEW p \in Procs, Adopt(p) PROVE MarkerInv'
    <2>1. CASE name.now = None
      BY <1>5, <1>6, <2>1 DEF Adopt
    <2>2. CASE name.now # None
      <3>1. HeldInv(p)'
        BY <1>6, <2>2 DEF Adopt, MarkerInv, TypeOK, HeldInv, Named, disk
      <3> QED BY <1>6, <2>2, <3>1, StepKeeps DEF Adopt, MarkerInv, TypeOK, disk
    <2> QED BY <2>1, <2>2
  <1>7. ASSUME NEW p \in Procs, Write(p) PROVE MarkerInv'
    <2>1. HeldInv(p)'
      BY <1>7 DEF Write, MarkerInv, TypeOK, HeldInv, Named
    <2> QED BY <1>7, <2>1, StepKeeps DEF Write, MarkerInv, TypeOK, HeldInv
  <1>8. ASSUME NEW p \in Procs, Read(p) PROVE MarkerInv'
    <2>1. CASE ~Named(p) \/ (fd[p] \notin written /\ tries[p] + 1 = Attempts)
      BY <1>5, <1>8, <2>1 DEF Read
    <2>2. CASE ~(~Named(p) \/ (fd[p] \notin written /\ tries[p] + 1 = Attempts))
      <3>0. tries[p] \in 0..Attempts /\ tries[p] < Attempts /\ Attempts \in Nat
        BY DEF MarkerInv, TypeOK, HeldInv, Bounds
      <3>1. HeldInv(p)'
        BY <1>8, <2>2, <3>0 DEF Read, MarkerInv, TypeOK, HeldInv, Named, disk
      <3>2. /\ UNCHANGED <<disk, fd, promised, losses>>
            /\ \E step \in Steps : Goto(p, step)
            /\ tries' \in [Procs -> 0..Attempts] /\ first' \in [Procs -> 0..made]
            /\ \A q \in Procs \ {p} : tries'[q] = tries[q]
        BY <1>8, <2>2, <3>0 DEF Read, MarkerInv, TypeOK
      <3> QED BY <3>1, <3>2, StepKeeps DEF MarkerInv, TypeOK, disk
    <2> QED BY <2>1, <2>2
  <1>9. ASSUME NEW p \in Procs, Retry(p) PROVE MarkerInv'
    <2>1. CASE name.now # first[p]
      BY <1>5, <1>9, <2>1 DEF Retry
    <2>2. CASE name.now = first[p]
      <3>1. HeldInv(p)'
        BY <1>9, <2>2 DEF Retry, MarkerInv, TypeOK, HeldInv, Named, disk
      <3> QED BY <1>9, <2>2, <3>1, StepKeeps DEF Retry, MarkerInv, TypeOK, disk
    <2> QED BY <2>1, <2>2
  <1>10. ASSUME NEW p \in Procs, SyncFile(p) PROVE MarkerInv'
    <2>1. CASE ~Named(p)
      BY <1>5, <1>10, <2>1 DEF SyncFile
    <2>2. CASE Named(p)
      <3>1. HeldInv(p)'
        BY <1>10, <2>2 DEF SyncFile, MarkerInv, TypeOK, HeldInv, Named
      <3>2. /\ fd[p] \in written /\ synced' = synced \cup {fd[p]} /\ Goto(p, "syncDir")
            /\ UNCHANGED <<trellis, name, written, made, fd, first, tries, promised, losses>>
        BY <1>10, <2>2 DEF SyncFile, MarkerInv, HeldInv
      <3>3. "syncDir" \in Steps
        BY DEF Steps
      <3> QED BY <3>1, <3>2, <3>3, StepKeeps DEF MarkerInv, TypeOK
    <2> QED BY <2>1, <2>2
  <1>11. ASSUME NEW p \in Procs, SyncDir(p) PROVE MarkerInv'
    <2>1. CASE ~Named(p)
      BY <1>5, <1>11, <2>1 DEF SyncDir
    <2>2. CASE Named(p)
      <3>1. TypeOK' /\ PromiseDurable'
        BY <1>11, <2>2 DEF SyncDir, MarkerInv, TypeOK, PromiseDurable, Inodes
      <3>2. ASSUME NEW q \in Procs PROVE HeldInv(q)'
        BY <1>11, <2>2 DEF SyncDir, MarkerInv, TypeOK, HeldInv, Named
      <3> QED BY <1>11, <2>2, <3>1, <3>2 DEF SyncDir, MarkerInv, TypeOK
    <2> QED BY <2>1, <2>2
  <1>12. ASSUME NEW p \in Procs, SyncGit(p) PROVE MarkerInv'
    <2>1. CASE ~Named(p)
      BY <1>5, <1>12, <2>1 DEF SyncGit
    <2>2. CASE Named(p)
      <3>1. HeldInv(p)'
        BY <1>12, <2>2 DEF SyncGit, MarkerInv, TypeOK, HeldInv, Named
      <3> QED BY <1>12, <2>2, <3>1, StepKeeps DEF SyncGit, MarkerInv, TypeOK, HeldInv
    <2> QED BY <2>1, <2>2
  <1>13. ASSUME NEW p \in Procs, Return(p) PROVE MarkerInv'
    <2>1. CASE ~Named(p)
      BY <1>5, <1>13, <2>1 DEF Return
    <2>2. CASE Named(p)
      BY <1>13, <2>2, LeaveKeeps DEF Return, MarkerInv, HeldInv, Named
    <2> QED BY <2>1, <2>2
  <1>14. CASE OwnerRemoves
    <2>1. promised = {} /\ promised' = {}
      BY <1>14 DEF OwnerRemoves, MarkerInv, TypeOK, PromiseDurable
    <2>2. TypeOK'
      BY <1>14 DEF OwnerRemoves, MarkerInv, TypeOK, None
    <2>3. ASSUME NEW q \in Procs PROVE HeldInv(q)'
      BY <1>14 DEF OwnerRemoves, MarkerInv, TypeOK, HeldInv, Named, None
    <2> QED BY <1>14, <2>1, <2>2, <2>3 DEF OwnerRemoves, MarkerInv, TypeOK, PromiseDurable, None
  <1>15. CASE PowerLoss
    <2>1. PICK dir \in {trellis.now, trellis.disk}, entry \in {name.now, name.disk},
               kept \in SUBSET (written \ synced) :
            /\ trellis' = [now |-> dir, disk |-> dir]
            /\ name' = [now |-> IF dir THEN entry ELSE None, disk |-> IF dir THEN entry ELSE None]
            /\ written' = synced \cup kept /\ synced' = written'
      BY <1>15 DEF PowerLoss
    <2>2. /\ losses' = losses + 1 /\ losses < MaxLosses /\ made' = made /\ promised' = promised
          /\ pc' = [p \in Procs |-> "idle"]
          /\ fd' = [p \in Procs |-> None] /\ first' = [p \in Procs |-> None]
          /\ tries' = [p \in Procs |-> 0]
      BY <1>15 DEF PowerLoss
    <2>3. TypeOK'
      BY <2>1, <2>2 DEF MarkerInv, TypeOK, Bounds, None, Inodes
    <2>4. ASSUME promised # {}
          PROVE  dir = TRUE /\ entry = name.now
      BY <2>1, <2>4 DEF MarkerInv, PromiseDurable, TypeOK
    <2>5. promised' \subseteq {name'.now} /\ PromiseDurable'
      BY <2>1, <2>2, <2>4 DEF MarkerInv, PromiseDurable, TypeOK
    <2>6. ASSUME NEW q \in Procs PROVE HeldInv(q)'
      BY <2>2 DEF HeldInv, Bounds
    <2> QED BY <2>1, <2>2, <2>3, <2>5, <2>6 DEF MarkerInv, TypeOK, None
  <1>16. CASE UNCHANGED vars
    BY <1>16 DEF vars, MarkerInv, TypeOK, HeldInv, PromiseDurable, Named
  <1> QED
    BY <1>1, <1>2, <1>3, <1>4, <1>5, <1>6, <1>7, <1>8, <1>9, <1>10, <1>11, <1>12, <1>13, <1>14,
       <1>15, <1>16 DEF Next, Step, Crash

\* A returned UUID is the one the pathname holds, so there is one.
LEMMA MarkerImplies == MarkerInv => TypeOK /\ OneIdentity /\ PromiseDurable
  <1>1. ASSUME NEW S, NEW x, S \subseteq {x} PROVE Cardinality(S) <= 1
    <2>1. Cardinality({}) = 0 /\ Cardinality({x}) = 1
      BY FS_EmptySet, FS_Singleton
    <2>2. CASE S = {}
      BY <2>1, <2>2
    <2>3. CASE S = {x}
      BY <2>1, <2>3
    <2> QED BY <1>1, <2>2, <2>3
  <1> QED BY <1>1 DEF MarkerInv, OneIdentity

\* For every set of processes, one checkout has one identity, and an identity that
\* was returned survives every later crash and power loss (marker_at, durable_marker).
THEOREM MarkerSafe ==
    ASSUME MaxInodes \in Nat, Attempts \in Nat \ {0}, MaxLosses \in Nat
    PROVE  Spec => [](TypeOK /\ OneIdentity /\ PromiseDurable)
  <1>1. Bounds
    BY DEF Bounds
  <1>2. Init => MarkerInv
    BY <1>1, MarkerInit
  <1>3. MarkerInv /\ [Next]_vars => MarkerInv'
    BY <1>1, MarkerStep
  <1> QED BY <1>2, <1>3, MarkerImplies, PTL DEF Spec

============================================================================
