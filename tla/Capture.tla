------------------------------ MODULE Capture ------------------------------
(***************************************************************************)
(* Capture::admit and Capture::verify (src/capture.rs): the bytes of one   *)
(* indexing pass are read file by file while an editor writes, creates and *)
(* deletes files. The workspace is one directory with two sources, one     *)
(* configuration file and one ignore file, whose content 1 hides the       *)
(* second source. A file's stamp (inode, length, times) changes with every *)
(* edit, or, under CoarseClock, may stay.                                  *)
(***************************************************************************)
EXTENDS Naturals, Sequences, FiniteSets

CONSTANTS
    MaxEdits,      \* bound: edits of the tree
    CoarseClock    \* two edits may leave the same stamp

Sources == <<"a", "b">>
Inputs == <<"config", "ignore">>
Paths == {"a", "b", "config", "ignore"}
IsSource(p) == p \in {"a", "b"}
None == <<0, 0>>        \* the observation of a path that is absent
Absent == [id |-> 0, stamp |-> 0, content |-> 2]

VARIABLES
    node,     \* path -> its file: identity, stamp, content; hard links share all three
    dir,      \* stamp of the directory
    exe,      \* the running image's inode: mtime and bytes
    edits,    \* edits so far; also the clock
    cap,      \* the capture being taken
    snap,     \* the tree when the last verification began
    held,     \* path -> the contents it had since then
    touched   \* paths edited since the capture began

vars == <<node, dir, exe, edits, cap, snap, held, touched>>
disk == <<node, dir, exe, edits, touched>>

Obs(p) == <<node[p].id, node[p].stamp>>
Present(p) == node[p].id # 0
NoObs == [p \in Paths |-> None]
NoBytes == [p \in Paths |-> 2]
Fresh == [pc |-> "root", round |-> "admit", left |-> <<>>, root |-> 0, dirs |-> 0, list |-> <<>>,
          inv |-> NoObs, inputs |-> NoObs, bytes |-> NoBytes, dirs2 |-> 0, list2 |-> <<>>, inv2 |-> NoObs]

TypeOK ==
    /\ \A p \in Paths : node[p].id \in Nat /\ node[p].stamp \in 0..MaxEdits /\ node[p].content \in 0..2
    /\ dir \in 0..MaxEdits /\ edits \in 0..MaxEdits
    /\ cap.pc \in {"root", "list", "stat", "admit", "input", "exe", "source", "end", "recheck", "reread",
                   "admitted", "published", "drift", "failed", "gaveup"}
    /\ cap.round \in {"admit", "verify", "cutoff"}
    /\ touched \subseteq Paths \cup {"exe"}
    \* A finished capture has bytes of exactly the files it observed.
    /\ cap.pc \in {"admitted", "published"} =>
         \A p \in Paths : (cap.bytes[p] = 2) = ((IF IsSource(p) THEN cap.inv[p] ELSE cap.inputs[p]) = None)

\* The second source and the ignore file may be absent; two files may be links to
\* one inode.
Init ==
    /\ \E there \in {Paths, Paths \ {"b", "ignore"}}, twins \in {{}, {"a", "b"}, {"a", "config"}, {"config", "ignore"}} :
          /\ twins \subseteq there
          /\ node = [p \in Paths |->
                IF p \notin there THEN Absent
                ELSE [id |-> IF p \in twins THEN 1
                             ELSE CASE p = "a" -> 2 [] p = "b" -> 3 [] p = "config" -> 4 [] p = "ignore" -> 5,
                      stamp |-> 0, content |-> 0]]
    /\ dir = 0 /\ edits = 0 /\ exe = [mtime |-> 0, body |-> 0]
    /\ cap = Fresh /\ snap = [tree |-> node, exe |-> 0] /\ held = [p \in Paths |-> {}] /\ touched = {}

(***************************************************************************)
(* The editor.                                                             *)
(***************************************************************************)
Stamps(old) == {edits + 1} \cup IF CoarseClock THEN {old} ELSE {}
Editing == edits < MaxEdits /\ cap.pc \notin {"published", "drift", "failed", "gaveup"}
Hold == held' = [p \in Paths |-> held[p] \cup {node'[p].content}]

WriteFile(p, c) ==
    /\ Present(p) /\ c # node[p].content /\ Editing
    /\ \E s \in Stamps(node[p].stamp) :
          node' = [q \in Paths |-> IF node[q].id = node[p].id THEN [node[q] EXCEPT !.stamp = s, !.content = c]
                                   ELSE node[q]]
    /\ edits' = edits + 1 /\ touched' = touched \cup {q \in Paths : node[q].id = node[p].id}
    /\ Hold /\ UNCHANGED <<dir, exe, cap, snap>>

CreateFile(p, c) ==
    /\ ~Present(p) /\ Editing
    /\ node' = [node EXCEPT ![p] = [id |-> 6 + edits, stamp |-> edits + 1, content |-> c]]
    /\ dir' \in Stamps(dir) /\ edits' = edits + 1 /\ touched' = touched \cup {p}
    /\ Hold /\ UNCHANGED <<exe, cap, snap>>

\* Removing one of two links changes the ctime of the other.
DeleteFile(p) ==
    /\ Present(p) /\ Editing
    /\ \E s \in Stamps(node[p].stamp) :
          node' = [q \in Paths |-> IF q = p THEN Absent
                                   ELSE IF node[q].id = node[p].id THEN [node[q] EXCEPT !.stamp = s] ELSE node[q]]
    /\ dir' \in Stamps(dir) /\ edits' = edits + 1
    /\ touched' = touched \cup {q \in Paths : node[q].id = node[p].id}
    /\ Hold /\ UNCHANGED <<exe, cap, snap>>

\* An upgrade that replaces the pathname leaves the running inode; a write in
\* place does not.
OverwriteExe ==
    /\ Editing /\ exe.body = 0
    /\ exe' = [mtime |-> edits + 1, body |-> 1] /\ edits' = edits + 1 /\ touched' = touched \cup {"exe"}
    /\ UNCHANGED <<node, dir, cap, snap, held>>

(***************************************************************************)
(* The capture.                                                            *)
(***************************************************************************)
Working == cap.pc \notin {"admitted", "published", "drift", "failed", "gaveup"}
Set(c) == cap' = c /\ UNCHANGED <<disk, snap, held>>
End(pc) == Set([Fresh EXCEPT !.pc = pc])
Fail == End("failed")

\* Cancelled, unreadable, oversized, not UTF-8, or over the size limits.
Abandon == Working /\ End("gaveup")

\* metadata of the workspace root; a verification compares it and is where the
\* tree must have been the captured one.
Root ==
    /\ cap.pc = "root"
    /\ IF cap.round # "admit" /\ cap.root # dir
       THEN Fail
       ELSE /\ cap' = [cap EXCEPT !.pc = "list", !.root = dir]
            /\ snap' = [tree |-> node, exe |-> exe.body] /\ held' = [p \in Paths |-> {node[p].content}]
            /\ UNCHANGED disk

Ignored(tree) == IF tree["ignore"].content = 1 THEN {"b"} ELSE {}
Visible(tree) == SelectSeq(Sources, LAMBDA p : tree[p].id # 0 /\ p \notin Ignored(tree))

\* walk: the directory's own entry and its ignore file, then its names.
List ==
    /\ cap.pc = "list"
    /\ LET l == Visible(node) IN
       Set(IF cap.round = "admit"
           THEN [cap EXCEPT !.pc = "stat", !.dirs = dir, !.list = l, !.left = l, !.inv = NoObs]
           ELSE [cap EXCEPT !.pc = "stat", !.dirs2 = dir, !.list2 = l, !.left = l, !.inv2 = NoObs])

\* walk: the metadata of one listed source.
Stat ==
    /\ cap.pc = "stat" /\ cap.left # <<>>
    /\ LET p == Head(cap.left) IN
       IF ~Present(p) THEN Fail
       ELSE Set(IF cap.round = "admit" THEN [cap EXCEPT !.left = Tail(@), !.inv[p] = Obs(p)]
                ELSE [cap EXCEPT !.left = Tail(@), !.inv2[p] = Obs(p)])

Listed == {cap.list[i] : i \in 1..Len(cap.list)}

\* Two sources with one identity are refused.
Identities ==
    /\ cap.pc = "stat" /\ cap.left = <<>> /\ cap.round = "admit"
    /\ IF \E p, q \in Listed : p # q /\ cap.inv[p][1] = cap.inv[q][1]
       THEN Fail
       ELSE Set([cap EXCEPT !.pc = "admit", !.left = Inputs])

SameInventory == cap.dirs2 = cap.dirs /\ cap.list2 = cap.list /\ cap.inv2 = cap.inv

\* verify: the second walk must equal the first.
Compare ==
    /\ cap.pc = "stat" /\ cap.left = <<>> /\ cap.round # "admit"
    /\ IF SameInventory THEN Set([cap EXCEPT !.pc = "recheck", !.left = Inputs]) ELSE End("drift")

\* admit_input: absent, refused, an alias of an input already read, or to be read.
Admit ==
    /\ cap.pc = "admit" /\ cap.left # <<>>
    /\ LET p == Head(cap.left)
           twins == {q \in {"config", "ignore"} \ {p} : cap.inputs[q] # None /\ cap.inputs[q][1] = node[p].id}
       IN IF ~Present(p) THEN Set([cap EXCEPT !.left = Tail(@)])
          ELSE IF \E q \in Listed : cap.inv[q][1] = node[p].id THEN Fail
          ELSE IF twins # {}
          THEN LET q == CHOOSE q \in twins : TRUE IN
               IF Obs(q) # cap.inputs[q] THEN Fail
               ELSE Set([cap EXCEPT !.left = Tail(@), !.inputs[p] = Obs(p), !.bytes[p] = cap.bytes[q]])
          ELSE Set([cap EXCEPT !.pc = "input", !.inputs[p] = Obs(p)])

\* regular_read: the opened file, and afterwards the path, have the expected stamp.
SameFile(p, expected) == Obs(p) = expected

ReadInput ==
    /\ cap.pc = "input"
    /\ LET p == Head(cap.left) IN
       IF SameFile(p, cap.inputs[p]) THEN Set([cap EXCEPT !.pc = "end", !.bytes[p] = node[p].content]) ELSE Fail

ReadEnd ==
    /\ cap.pc = "end"
    /\ LET p == Head(cap.left) IN
       IF SameFile(p, IF IsSource(p) THEN cap.inv[p] ELSE cap.inputs[p])
       THEN Set([cap EXCEPT !.pc = IF IsSource(p) THEN "source" ELSE "admit", !.left = Tail(@)])
       ELSE Fail

\* check_file: kind, length, identity and mtime of the image opened at startup.
SameImage == exe.mtime = 0

\* admit_running_executable, or its check in verify, which ends the verification.
Exe ==
    /\ cap.left = <<>> /\ cap.pc \in {"admit", "recheck"}
    /\ IF ~SameImage THEN Fail
       ELSE Set(CASE cap.pc = "admit" -> [cap EXCEPT !.pc = "source", !.left = cap.list]
                  [] cap.pc = "recheck" /\ cap.round = "verify" -> [cap EXCEPT !.pc = "admitted"]
                  [] cap.pc = "recheck" /\ cap.round = "cutoff" -> [cap EXCEPT !.pc = "published"])

ReadSource ==
    /\ cap.pc = "source" /\ cap.left # <<>>
    /\ LET p == Head(cap.left) IN
       IF SameFile(p, cap.inv[p]) THEN Set([cap EXCEPT !.pc = "end", !.bytes[p] = node[p].content]) ELSE Fail

\* admit ends with a verification, and the publication repeats it at its cutoff.
Verify ==
    \/ cap.pc = "source" /\ cap.left = <<>> /\ Set([cap EXCEPT !.pc = "root", !.round = "verify"])
    \/ cap.pc = "admitted" /\ Set([cap EXCEPT !.pc = "root", !.round = "cutoff"])

\* verify: an input's stamp.
Recheck ==
    /\ cap.pc = "recheck" /\ cap.left # <<>>
    /\ LET p == Head(cap.left) IN
       IF Obs(p) # cap.inputs[p] THEN Fail
       ELSE Set(IF Present(p) THEN [cap EXCEPT !.pc = "reread"] ELSE [cap EXCEPT !.left = Tail(@)])

(* Mutant: equal stamps are taken for equal bytes. *)
BugSameBytes(p) == TRUE
\* verify: the bytes themselves, since a filesystem may report an unchanged stat.
SameBytes(p) == node[p].content = cap.bytes[p]

Reread ==
    /\ cap.pc = "reread"
    /\ LET p == Head(cap.left) IN
       IF SameFile(p, cap.inputs[p]) /\ SameBytes(p)
       THEN Set([cap EXCEPT !.pc = "recheck", !.left = Tail(@)])
       ELSE Fail

Next ==
    \/ \E p \in Paths, c \in {0, 1} : WriteFile(p, c) \/ CreateFile(p, c)
    \/ \E p \in Paths : DeleteFile(p)
    \/ OverwriteExe
    \/ Abandon \/ Root \/ List \/ Stat \/ Identities \/ Compare \/ Admit \/ ReadInput \/ ReadEnd \/ Exe
    \/ ReadSource \/ Verify \/ Recheck \/ Reread

Spec == Init /\ [][Next]_vars

(***************************************************************************)
(* Properties.                                                             *)
(***************************************************************************)
\* A capture read file by file is a tree that existed at one instant: when its
\* last verification began, the sources then visible, and their bytes and the
\* inputs' bytes, were the captured ones.
CaptureIsSnapshot ==
    cap.pc \in {"admitted", "published"} =>
        /\ cap.list = Visible(snap.tree)
        /\ \A p \in Listed \cup {"config", "ignore"} : cap.bytes[p] = snap.tree[p].content

\* The digest of the extractor recorded with a publication is of the image that
\* measured: it was not overwritten before the last verification began.
ExeIsPinned == cap.pc = "published" => snap.exe = 0

\* Also where stamps do not tell two edits apart, the inputs' bytes are ones they
\* had after the last verification began.
InputBytesHeld ==
    cap.pc \in {"admitted", "published"} => \A p \in {"config", "ignore"} : cap.bytes[p] \in held[p]

====
