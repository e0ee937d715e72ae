------------------------------ MODULE FileTree ------------------------------
(***************************************************************************)
(* The browser's view of the workspace directory (src/file_tree.rs and the *)
(* `tree` route of src/http.rs): one directory is listed page by page, and *)
(* one file is read, while other programs change both. Every page is a     *)
(* directory scan of its own.                                              *)
(***************************************************************************)
EXTENDS Naturals, Sequences, FiniteSets, SequencesExt, FiniteSetsExt

CONSTANTS
    Names,       \* names of the directory, ordered
    Unusable,    \* names that are no UTF-8 or no valid path
    Indexed,     \* names the published revision has a document for
    SCAN_LIMIT, MAX_BYTES,
    MaxChanges,  \* bound: changes of the directory
    MaxSize      \* bound: size of the file

VARIABLES
    dir,      \* name -> "none", "file" or "directory"
    changes,
    root,     \* the workspace pathname still names its directory
    list,     \* the scan of the current request
    client,   \* the browser: the page size and the pages so far
    size,     \* size of the file that is read
    rd        \* the read

vars == <<dir, changes, root, list, client, size, rd>>

NoScan == [pc |-> "idle", offset |-> 0, returned |-> {}, entries |-> {}, scanned |-> 0, truncated |-> FALSE, steady |-> {}, at |-> 0]
Entry(n, k) == [name |-> n, kind |-> k, indexed |-> FALSE]

TypeOK ==
    /\ dir \in [Names -> {"none", "file", "directory"}] /\ changes \in 0..MaxChanges
    /\ list.pc \in {"idle", "scan", "stat", "page"} /\ list.scanned <= SCAN_LIMIT
    /\ list.steady \subseteq {n \in Names : dir[n] # "none"} /\ Cardinality(list.entries) <= list.scanned
    /\ client.pc \in {"ask", "wait", "done", "error"} /\ client.limit \in 1..2
    /\ size \in 0..MaxSize /\ rd.pc \in {"none", "start", "open", "done", "refused"}

Init ==
    /\ dir \in [Names -> {"none", "file", "directory"}] /\ changes = 0 /\ root = TRUE
    /\ list = NoScan
    \* The browser lists, or it reads: the two share nothing.
    /\ \E l \in 1..2, listing \in BOOLEAN :
         /\ client = [pc |-> IF listing THEN "ask" ELSE "done", limit |-> l, next |-> 0, pages |-> <<>>,
                      truncated |-> FALSE, quiet |-> listing]
         /\ size \in IF listing THEN {0} ELSE 0..MaxSize
         /\ rd = [pc |-> IF listing THEN "none" ELSE "start", len |-> 0]

(***************************************************************************)
(* Other programs.                                                         *)
(***************************************************************************)
Change ==
    /\ rd.pc = "none" /\ changes < MaxChanges /\ changes' = changes + 1
    /\ \E n \in Names, k \in {"none", "file", "directory"} :
         /\ dir[n] # k /\ dir' = [dir EXCEPT ![n] = k]
         /\ list' = [list EXCEPT !.steady = @ \ {n}]
    /\ client' = [client EXCEPT !.quiet = client.pages = <<>> /\ client.pc = "ask"]
    /\ UNCHANGED <<root, size, rd>>

LoseRoot ==
    /\ rd.pc = "none" /\ root /\ changes < MaxChanges /\ changes' = changes + 1 /\ root' = FALSE
    /\ UNCHANGED <<dir, list, client, size, rd>>

Grow ==
    /\ rd.pc \in {"start", "open"} /\ size < MaxSize /\ size' = size + 1
    /\ UNCHANGED <<dir, changes, root, list, client, rd>>

(***************************************************************************)
(* A listing.                                                              *)
(***************************************************************************)
Fail(c) == client' = [c EXCEPT !.pc = "error"] /\ list' = NoScan

\* The route verifies the directory and opens it for itself.
Ask ==
    /\ client.pc = "ask"
    /\ IF ~root THEN Fail(client)
       ELSE /\ client' = [client EXCEPT !.pc = "wait"]
            /\ list' = [NoScan EXCEPT !.pc = "scan", !.offset = client.next, !.steady = {n \in Names : dir[n] # "none"}]
    /\ UNCHANGED <<dir, changes, root, size, rd>>

(* Mutant: a name that cannot be shown is skipped without a word. *)
BugUnnamed(l) == l
Unnamed(l) == [l EXCEPT !.truncated = TRUE]

AtLimit == list.scanned = SCAN_LIMIT

\* readdir returns a name that is there, in any order and each once.
ReadDir ==
    /\ list.pc = "scan"
    /\ \E n \in Names \ list.returned : \E l \in {[list EXCEPT !.returned = @ \cup {n}, !.scanned = @ + 1]} :
         /\ dir[n] # "none"
         /\ list' = IF AtLimit THEN [list EXCEPT !.pc = "page", !.truncated = TRUE]
                    ELSE IF n \in Unusable THEN Unnamed(l)
                    ELSE [l EXCEPT !.pc = "stat", !.at = n]
    /\ UNCHANGED <<dir, changes, root, client, size, rd>>

\* The end of the stream: what stayed in the directory was returned.
EndOfDir ==
    /\ list.pc = "scan" /\ list.steady \subseteq list.returned
    /\ list' = [list EXCEPT !.pc = "page"]
    /\ UNCHANGED <<dir, changes, root, client, size, rd>>

\* fstatat: an entry that vanished fails the whole listing.
Stat ==
    /\ list.pc = "stat"
    /\ IF dir[list.at] = "none" THEN Fail(client)
       ELSE /\ list' = [list EXCEPT !.pc = "scan", !.entries = @ \cup {Entry(list.at, dir[list.at])}]
            /\ UNCHANGED client
    /\ UNCHANGED <<dir, changes, root, size, rd>>

\* Directories first, then by name.
Before(a, b) == IF a.kind = b.kind \/ (a.kind # "directory" /\ b.kind # "directory") THEN a.name < b.name ELSE a.kind = "directory"
Sorted(S) == SetToSortSeq(S, Before)

\* 0 when this page is the last.
NextOffset(off, lim, len) == IF off + lim < len THEN off + lim ELSE 0

\* tree_metadata: files the revision has a document for.
Overlay(e) == [e EXCEPT !.indexed = e.kind = "file" /\ e.name \in Indexed]

Page ==
    /\ list.pc = "page"
    /\ IF ~root THEN Fail(client)
       ELSE \E s \in {Sorted(list.entries)} : \E nx \in {NextOffset(list.offset, client.limit, Len(s))} :
              /\ client' = [client EXCEPT !.pc = IF nx = 0 THEN "done" ELSE "ask", !.next = nx,
                                          !.truncated = @ \/ list.truncated,
                                          !.pages = Append(@, [i \in 1..Min({client.limit, Max({0, Len(s) - list.offset})}) |->
                                                                 Overlay(s[list.offset + i])])]
              /\ list' = NoScan
    /\ UNCHANGED <<dir, changes, root, size, rd>>

(***************************************************************************)
(* A read.                                                                 *)
(***************************************************************************)
Open ==
    /\ rd.pc = "start"
    /\ rd' = [rd EXCEPT !.pc = IF size > MAX_BYTES THEN "refused" ELSE "open"]
    /\ UNCHANGED <<dir, changes, root, list, client, size>>

TooLong(n) == n > MAX_BYTES

\* take(MAX_BYTES + 1): one byte more than allowed shows that the file grew.
Read ==
    /\ rd.pc = "open"
    /\ \E n \in {Min({size, MAX_BYTES + 1})} :
         rd' = IF TooLong(n) THEN [rd EXCEPT !.pc = "refused"] ELSE [pc |-> "done", len |-> n]
    /\ UNCHANGED <<dir, changes, root, list, client, size>>

Next == Change \/ LoseRoot \/ Grow \/ Ask \/ ReadDir \/ EndOfDir \/ Stat \/ Page \/ Open \/ Read
Spec == Init /\ [][Next]_vars

(***************************************************************************)
(* Properties.                                                             *)
(***************************************************************************)
\* A scan that does not call itself truncated lists every entry that was in the
\* directory all the time, whatever was added or removed meanwhile.
ScanHonest ==
    (list.pc = "page" /\ ~list.truncated) => \A n \in list.steady : Entry(n, dir[n]) \in list.entries

\* In a directory that nobody changes, the pages of an untruncated listing put
\* together are the directory: every entry once, directories first.
PagesWhole ==
    (client.pc = "done" /\ client.quiet /\ ~client.truncated) =>
       FlattenSeq(client.pages) = LET s == Sorted({Entry(n, dir[n]) : n \in {x \in Names : dir[x] # "none"}})
                                  IN [i \in 1..Len(s) |-> Overlay(s[i])]

\* A read returns the whole file as it was when its last byte was read, never the
\* first part of one that outgrew the limit.
ReadWhole == rd.pc = "done" => rd.len = size
====
