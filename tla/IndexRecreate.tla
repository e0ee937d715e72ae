---------------------------- MODULE IndexRecreate ----------------------------
(***************************************************************************)
(* Replacing a corrupt index file (recreate_index_exclusive in             *)
(* src/store.rs). A complete new index is built and validated beside the   *)
(* old one, the old index's hot journal is moved out of the way, and the   *)
(* new file is renamed over the old one. The process may fail, crash or    *)
(* lose power between any two steps. Directory changes are durable only    *)
(* once the directory is synced; until then a power loss keeps any subset  *)
(* of them. A journal left beside a database it does not belong to would   *)
(* be rolled back into that database.                                      *)
(***************************************************************************)
EXTENDS Naturals, Sequences

CONSTANT MaxTries   \* bound: recreation attempts

VARIABLES
    dir,      \* what each name of the index directory holds
    disk,     \* the directory as last synced
    pend,     \* directory changes since then
    synced,   \* the staged file's contents are on disk
    mine,     \* the journal this attempt found beside the old index
    pc,       \* where the attempt is; it holds the use lock exclusively
    disp,     \* RecoveryDisposition of this process
    tries

vars == <<dir, disk, pend, synced, mine, pc, disp, tries>>

Names == {"db", "journal", "backup", "stage"}
None == "none"

\* A directory change: the names it sets.
Put(d, op) == [n \in Names |-> IF n \in DOMAIN op THEN op[n] ELSE d[n]]
Change(op) == dir' = Put(dir, op) /\ pend' = Append(pend, op) /\ UNCHANGED disk
Sync == disk' = dir /\ pend' = <<>> /\ UNCHANGED dir

\* What a power loss may leave of the directory: of the changes that were not synced
\* some were kept, and a name holds what the last kept change of it set.
LastOf(S) == CHOOSE k \in S : \A j \in S : j <= k
Outcomes ==
    LET Left(kept) == [n \in Names |->
            LET of == {k \in kept : n \in DOMAIN pend[k]}
            IN  IF of = {} THEN disk[n] ELSE pend[LastOf(of)][n]]
    IN  {Left(kept) : kept \in SUBSET (1..Len(pend))}

Rename(from, to) == [n \in {from, to} |-> IF n = to THEN dir[from] ELSE None]
Unlink(n) == [x \in {n} |-> None]

TypeOK ==
    /\ \A d \in {dir, disk} :
          /\ d["db"] \in {"bad", "moved", "fixed", "new"} /\ d["stage"] \in {None, "new"}
          /\ d["journal"] \in {None, "hot"} /\ d["backup"] \in {None, "hot"}
    /\ synced \in BOOLEAN /\ mine \in BOOLEAN
    /\ disp \in {"Unopened", "RecreatePending", "RootReplaced", "Ready"}
    /\ pc \in {"idle", "admitted", "staged", "built", "valid", "checked", "moved", "clear",
               "renamed", "durable", "tidy", "live"}
    /\ tries \in 0..MaxTries

Init ==
    /\ \E old \in {"bad", "moved"}, journal \in {None, "hot"} :
          dir = [n \in Names |-> CASE n = "db" -> old [] n = "journal" -> journal [] OTHER -> None]
    /\ disk = dir /\ pend = <<>> /\ synced = FALSE /\ mine = FALSE
    /\ pc = "idle" /\ disp = "Unopened" /\ tries = 0

\* open_with_stage_hook: a corrupt index is classified, a readable one adopted
\* (observe_external_ready_recovery does the same for an open Store).
OpenStore ==
    /\ pc = "idle" /\ disp # "Ready"
    /\ disp' = CASE dir["db"] = "bad" -> "RecreatePending"
                 [] dir["db"] = "moved" -> "RootReplaced"
                 [] OTHER -> "Ready"
    /\ UNCHANGED <<dir, disk, pend, synced, mine, pc, tries>>

\* Another process repairs the old index; it needs the use lock too.
Repair ==
    /\ pc = "idle" /\ dir["db"] \in {"bad", "moved"}
    /\ dir' = [dir EXCEPT !["db"] = "fixed", !["journal"] = None]
    /\ disk' = dir' /\ pend' = <<>>
    /\ UNCHANGED <<synced, mine, pc, disp, tries>>

(* Mutant: the classification made when the Store was opened is trusted. *)
BugAuthority == TRUE
\* Reclassified under EX: still corrupt, or still of another root and at rest.
Authority ==
    \/ disp = "RecreatePending" /\ dir["db"] = "bad"
    \/ disp = "RootReplaced" /\ dir["db"] = "moved" /\ dir["journal"] = None

Admit ==
    /\ pc = "idle" /\ disp \in {"RecreatePending", "RootReplaced"} /\ tries < MaxTries
    /\ tries' = tries + 1
    /\ IF Authority
       THEN pc' = "admitted" /\ mine' = (dir["journal"] = "hot")
       ELSE UNCHANGED <<pc, mine>>
    /\ UNCHANGED <<dir, disk, pend, synced, disp>>

\* create_staged_index.
CreateStage ==
    /\ pc = "admitted"
    /\ Change([n \in {"stage"} |-> "new"])
    /\ synced' = FALSE /\ pc' = "staged"
    /\ UNCHANGED <<mine, disp, tries>>

\* publish_native_to_stage. SQLite's
\* commits there (synchronous FULL) sync the directory with each rollback journal.
Build ==
    /\ pc = "staged" /\ Sync /\ pc' = "built"
    /\ UNCHANGED <<synced, mine, disp, tries>>

\* validate_replacement_index on the stage.
Validate ==
    /\ pc = "built" /\ pc' = "valid"
    /\ UNCHANGED <<dir, disk, pend, synced, mine, disp, tries>>

SyncStage == TRUE

\* stage.file.sync_all and the last checks before the rename.
Check ==
    /\ pc = "valid" /\ synced' = SyncStage /\ pc' = "checked"
    /\ UNCHANGED <<dir, disk, pend, mine, disp, tries>>

\* The hot journal is renamed to a backup, ...
MoveJournal ==
    /\ pc = "checked"
    /\ IF mine
       THEN Change(Rename("journal", "backup")) /\ pc' = "moved"
       ELSE UNCHANGED <<dir, disk, pend>> /\ pc' = "clear"
    /\ UNCHANGED <<synced, mine, disp, tries>>

JournalDurable == Sync

\* ... and the backup is made durable.
SyncBackup ==
    /\ pc = "moved" /\ JournalDurable /\ pc' = "clear"
    /\ UNCHANGED <<synced, mine, disp, tries>>

\* replace_index_and_release_obsolete.
Activate ==
    /\ pc = "clear" /\ Change(Rename("stage", "db")) /\ pc' = "renamed"
    /\ UNCHANGED <<synced, mine, disp, tries>>

ActivationDurable == Sync

SyncDir ==
    /\ pc = "renamed" /\ ActivationDurable /\ pc' = "durable"
    /\ UNCHANGED <<synced, mine, disp, tries>>

\* The backup is removed and the directory synced once more.
DropBackup ==
    /\ pc = "durable"
    /\ IF mine
       THEN Change(Unlink("backup")) /\ pc' = "tidy"
       ELSE UNCHANGED <<dir, disk, pend>> /\ pc' = "live"
    /\ UNCHANGED <<synced, mine, disp, tries>>

SyncTidy == pc = "tidy" /\ Sync /\ pc' = "live" /\ UNCHANGED <<synced, mine, disp, tries>>

\* Validated in place, the use lock downgraded, then the flags.
Finish ==
    /\ pc = "live" /\ pc' = "idle" /\ disp' = "Ready"
    /\ UNCHANGED <<dir, disk, pend, synced, mine, tries>>

\* restore_index_journal (rename back, sync), then the stage is unlinked.
Restored == IF mine /\ pc \in {"moved", "clear"}
            THEN Put(dir, Rename("backup", "journal")) ELSE dir

\* A step fails before the rename: cancelled, changed capture, lost lock.
FailBefore ==
    /\ pc \in {"admitted", "staged", "built", "valid", "checked", "moved", "clear"}
    /\ dir' = Put(Restored, Unlink("stage"))
    /\ IF Restored # dir
       THEN disk' = Restored /\ pend' = <<Unlink("stage")>>
       ELSE disk' = disk /\ pend' = IF pc = "admitted" THEN pend ELSE Append(pend, Unlink("stage"))
    /\ pc' = "idle"
    /\ UNCHANGED <<synced, mine, disp, tries>>

\* A step fails after the rename: the new index stays, nothing is unlinked.
FailAfter ==
    /\ pc \in {"renamed", "durable", "tidy", "live"}
    /\ pc' = "idle"
    /\ UNCHANGED <<dir, disk, pend, synced, mine, disp, tries>>

Crash ==
    /\ disp # "Unopened"
    /\ pc' = "idle" /\ disp' = "Unopened"
    /\ UNCHANGED <<dir, disk, pend, synced, mine, tries>>

PowerLoss ==
    /\ dir' \in Outcomes /\ disk' = dir' /\ pend' = <<>>
    /\ pc' = "idle" /\ disp' = "Unopened"
    /\ UNCHANGED <<synced, mine, tries>>

Next ==
    \/ OpenStore \/ Repair \/ Admit \/ CreateStage \/ Build \/ Validate \/ Check \/ MoveJournal
    \/ SyncBackup \/ Activate \/ SyncDir \/ DropBackup \/ SyncTidy \/ Finish
    \/ FailBefore \/ FailAfter \/ Crash \/ PowerLoss

Spec == Init /\ [][Next]_vars

(***************************************************************************)
(* Properties.                                                             *)
(***************************************************************************)
\* Whatever a power loss leaves, the old index's hot journal is never beside the
\* new index, where SQLite would roll it back into it.
NoForeignJournal ==
    \A d \in Outcomes \cup {dir} : ~(d["db"] = "new" /\ d["journal"] = "hot")

\* Whatever a power loss leaves, the name index.db never holds a replacement
\* whose contents had not reached the disk.
NoTornIndex == \A d \in Outcomes : d["db"] = "new" => synced

\* A Store that reports Ready at the end of an attempt has an index that no power
\* loss takes back to the old one.
ReadyIsDurable ==
    disp' = "Ready" /\ pc = "live" => \A d \in Outcomes : d["db"] = "new"

\* An attempt replaces only the index it was admitted for: one that was repaired
\* since it was classified is never replaced.
RepairKept == dir["db"] = "fixed" => pc = "idle"

\* A failed attempt, whatever the step, leaves the old index with its hot journal.
JournalBack ==
    (pc # "idle" /\ pc' = "idle" /\ disp' # "Unopened" /\ dir'["db"] = "bad") =>
       (mine => dir'["journal"] = "hot")
====
