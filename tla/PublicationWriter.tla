-------------------------- MODULE PublicationWriter --------------------------
(***************************************************************************)
(* How one publication reaches the index database (run_with_capture in     *)
(* src/index_coordinator.rs and the writers of src/store.rs). A captured   *)
(* tree is published by one of three routes: an unchanged tree copies the  *)
(* head's manifest, a proved single-body edit relinks every other          *)
(* document of the head, anything else is measured in full and reuses only *)
(* rows it has attested. Rows are content addressed and immutable: a       *)
(* document version is named by path and text, not by what was measured.   *)
(* Meanwhile the user edits the tree, the daemon restarts with another     *)
(* executable, and somebody rewrites rows with SQL behind the daemon.      *)
(* The publication gate and the leader lock keep other publishers out, so  *)
(* there is one job; the metadata row itself is not rewritten here.        *)
(***************************************************************************)
EXTENDS Naturals, Sequences, FiniteSets, FiniteSetsExt

CONSTANTS
    Trees,      \* the workspaces edits move between: [files, labels]
    Builds,     \* executables the daemon may run
    Measures,   \* what each executable measures in a text, by its number of symbols
    None,       \* a path that is not in the tree, an absent value
    MaxRev,     \* bound: revisions of one generation
    MaxGen,     \* bound: generations
    MaxRewrites \* bound: rewritten rows in the database at a time

VARIABLES
    tree,      \* the workspace on disk
    build,     \* the executable the daemon runs
    disp,      \* RecoveryDisposition: Ready or Rebuild
    head,      \* index_metadata: generation and revision
    revs,      \* the generation's manifests, by revision
    native,    \* document_versions and their fact rows
    graphs,    \* graph projections: intact, or rewritten
    job        \* the publication under way

vars == <<tree, build, disp, head, revs, native, graphs, job>>

Paths == DOMAIN (CHOOSE t \in Trees : TRUE).files
Present(t) == {p \in Paths : t.files[p] # None}
Junk == 0  \* never measured

Idle == [stage |-> "idle", cap |-> None, path |-> None,
         moved |-> FALSE, keepNative |-> {}, keepGraph |-> {}]

Doc(t, p, b) ==
    LET text == t.files[p]
    IN  [version |-> <<p, text>>, graph |-> <<p, text, t.labels, Measures[b][text]>>]

TypeOK ==
    /\ tree \in Trees /\ build \in Builds /\ disp \in {"Ready", "Rebuild"}
    /\ head \in [gen : 1..MaxGen, rev : 0..MaxRev]
    /\ DOMAIN revs = 1..head.rev
    /\ \A v \in DOMAIN native : native[v].bytes \in BOOLEAN
    /\ \A g \in DOMAIN graphs : graphs[g] \in BOOLEAN
    /\ job.stage \in {"idle", "sameOpen", "same", "plan", "prepared", "local",
                      "full", "localOpen", "fullOpen", "localReady", "fullReady"}

Init ==
    /\ tree \in Trees /\ build \in Builds /\ disp = "Ready"
    /\ head = [gen |-> 1, rev |-> 0]
    /\ revs = <<>> /\ native = <<>> /\ graphs = <<>>
    /\ job = Idle

(***************************************************************************)
(* The database as the publication reads it.                               *)
(***************************************************************************)
Published == head.rev > 0
Selected == revs[head.rev]
Ready == disp = "Ready" /\ Published
\* revision_producer_bindings: the executable that published the head.
SameBuild == Selected.build = build
\* selected_source_row_for: the stored bytes of the head's documents hash right.
BytesIntact == \A p \in DOMAIN Selected.docs : native[Selected.docs[p].version].bytes

\* An ensure! of the writer fails: the transaction is dropped, nothing is kept.
Fail == job' = Idle /\ UNCHANGED <<disp, head, revs, native, graphs>>

(***************************************************************************)
(* The surroundings.                                                       *)
(***************************************************************************)
Edit == \E t \in Trees : t # tree /\ tree' = t
                      /\ UNCHANGED <<build, disp, head, revs, native, graphs, job>>

\* A crash or a restart; the next daemon may be another executable.
Restart ==
    \E b \in Builds :
        /\ build' = b /\ disp' = "Ready" /\ job' = Idle
        /\ b # build \/ job # Idle \/ disp # "Ready"
        /\ UNCHANGED <<tree, head, revs, native, graphs>>

Rewritten ==
    {v \in DOMAIN native : ~native[v].bytes \/ native[v].facts # native[v].wit}
        \cup {g \in DOMAIN graphs : ~graphs[g]}

\* Out-of-band SQL on rows of the evidence: every open connection sees its
\* data_version move.
Rewrite ==
    /\ Cardinality(Rewritten) < MaxRewrites
    /\ job' = [job EXCEPT !.moved = job.stage # "idle"]
    /\ \/ /\ \E v \in DOMAIN native :
                \E bad \in {[native[v] EXCEPT !.bytes = FALSE], [native[v] EXCEPT !.facts = Junk]} :
                    native' = [native EXCEPT ![v] = bad] /\ native' # native
          /\ UNCHANGED graphs
       \/ /\ \E g \in DOMAIN graphs : graphs[g] /\ graphs' = [graphs EXCEPT ![g] = FALSE]
          /\ UNCHANGED native
    /\ UNCHANGED <<tree, build, disp, head, revs>>

Intact(doc) ==
    /\ native[doc.version].bytes
    /\ native[doc.version].facts = native[doc.version].wit
    /\ graphs[doc.graph]

HeadIntact == \A p \in DOMAIN Selected.docs : Intact(Selected.docs[p])

\* A selected read attests what it returns; a mismatch asks for a rebuild.
Read ==
    /\ Ready
    /\ ~HeadIntact
    /\ disp' = "Rebuild"
    /\ UNCHANGED <<tree, build, head, revs, native, graphs, job>>

(***************************************************************************)
(* run_with_capture: admit a capture and choose the route.                 *)
(***************************************************************************)
Begin ==
    /\ job.stage = "idle"
    /\ head.rev < MaxRev /\ head.gen < MaxGen
    /\ \E fast \in BOOLEAN :
          job' = [Idle EXCEPT !.stage = IF fast /\ Ready THEN "sameOpen" ELSE "plan",
                              !.cap = tree]
    /\ UNCHANGED <<tree, build, disp, head, revs, native, graphs>>

\* compare_capture_snapshot finds nothing changed and the head was published by
\* the executable that runs now.
Unchanged == SameBuild /\ Selected.cap = job.cap

\* publish_unchanged_native_recovery up to the lock.
CheckUnchanged ==
    /\ job.stage = "sameOpen"
    /\ \/ ~Unchanged /\ job' = [job EXCEPT !.stage = "plan"] /\ UNCHANGED <<disp, head, revs, native, graphs>>
       \/ /\ Unchanged /\ BytesIntact /\ ~job.moved
          /\ job' = [job EXCEPT !.stage = "same"]
          /\ UNCHANGED <<disp, head, revs, native, graphs>>
       \/ Unchanged /\ (~BytesIntact \/ job.moved) /\ Fail
    /\ UNCHANGED <<tree, build>>

\* The head's header, capture inputs and documents are copied to a new revision.
NewManifest == Append(revs, [Selected EXCEPT !.cap = job.cap, !.route = "same"])

\* The rest of it, under BEGIN IMMEDIATE.
PublishUnchanged ==
    /\ job.stage = "same"
    /\ IF job.moved \/ tree # job.cap
       THEN Fail
       ELSE /\ revs' = NewManifest
            /\ head' = [head EXCEPT !.rev = @ + 1]
            /\ disp' = "Ready" /\ job' = Idle
            /\ UNCHANGED <<native, graphs>>
    /\ UNCHANGED <<tree, build>>

Changed == {p \in Present(job.cap) : Selected.cap.files[p] # job.cap.files[p]}

\* measure_persisted_change: one document changed, and only in its body.
BodyEdit(p) ==
    /\ Present(Selected.cap) = Present(job.cap)
    /\ Changed = {p}
    /\ Selected.cap.files[p].sig = job.cap.files[p].sig

\* prepare_local_revision: the same executable, the same presentation inputs.
Comparable == SameBuild /\ Selected.cap.labels = job.cap.labels

\* prepare_local_revision, in one read snapshot; an incomplete coverage of the
\* edited document falls back to the full route.
PrepareLocal ==
    /\ job.stage = "plan"
    /\ \/ Ready /\ Comparable /\ ~BytesIntact /\ Fail
       \/ /\ (Ready /\ Comparable) => BytesIntact
          /\ job' = [job EXCEPT !.stage = "full"]
          /\ UNCHANGED <<disp, head, revs, native, graphs>>
       \/ /\ Ready /\ Comparable /\ BytesIntact
          /\ \E p \in Paths :
                BodyEdit(p) /\ job' = [job EXCEPT !.stage = "prepared", !.path = p]
          /\ UNCHANGED <<disp, head, revs, native, graphs>>
    /\ UNCHANGED <<tree, build>>

\* compose_local_revision: a class cap or a warning that moves falls back too.
ComposeLocal ==
    /\ job.stage = "prepared"
    /\ \E route \in {"local", "full"} : job' = [job EXCEPT !.stage = route]
    /\ UNCHANGED <<tree, build, disp, head, revs, native, graphs>>

(***************************************************************************)
(* publish_inner_checked_target_with_local.                                *)
(***************************************************************************)
\* The connection is opened and its data_version noted.
OpenWriter ==
    /\ job.stage \in {"local", "full"}
    /\ job' = [job EXCEPT !.stage = IF @ = "local" THEN "localOpen" ELSE "fullOpen",
                          !.moved = FALSE]
    /\ UNCHANGED <<tree, build, disp, head, revs, native, graphs>>

(* Mutant: the edited document is linked again as well. *)
BugRelinked == Present(job.cap)
Relinked == Present(job.cap) \ {job.path}

\* preflight_local_reuse: every document but the edited one is linked again.
PreflightLocal ==
    /\ job.stage = "localOpen"
    /\ IF job.moved \/ ~Published
       THEN Fail
       ELSE /\ job' = [job EXCEPT !.stage = "localReady",
                                  !.keepNative = Relinked, !.keepGraph = Relinked]
            /\ UNCHANGED <<disp, head, revs, native, graphs>>
    /\ UNCHANGED <<tree, build>>

\* Decision 0003: a text the index knows must measure as it did before.
Drifted == \E p \in Present(job.cap) :
    LET doc == Doc(job.cap, p, build)
    IN  /\ doc.version \in DOMAIN native
        /\ native[doc.version].wit # Measures[build][job.cap.files[p]]

Kept(field) == {p \in Present(job.cap) \cap DOMAIN Selected.docs :
                   Selected.docs[p][field] = Doc(job.cap, p, build)[field]}

\* selected_reusable_native: bytes, context and the witness over all fact rows.
NativeAttested(p) ==
    LET row == native[Selected.docs[p].version] IN row.bytes /\ row.facts = row.wit
\* verify_reusable_projection: the hash over the projection's rows.
GraphAttested(p) == graphs[Selected.docs[p].graph]
Attested == (\A p \in Kept("version") : NativeAttested(p))
            /\ (\A p \in Kept("graph") : GraphAttested(p))

\* preflight_reuse: nothing is reused unless the head is trusted.
PreflightFull ==
    /\ job.stage = "fullOpen"
    /\ \/ /\ ~Ready /\ ~job.moved
          /\ job' = [job EXCEPT !.stage = "fullReady"]
          /\ UNCHANGED <<disp, head, revs, native, graphs>>
       \/ /\ job.moved \/ (Ready /\ ((~SameBuild /\ Drifted) \/ ~Attested))
          /\ Fail
       \/ /\ Ready /\ ~job.moved /\ (SameBuild \/ ~Drifted) /\ Attested
          /\ job' = [job EXCEPT !.stage = "fullReady", !.keepNative = Kept("version"),
                                !.keepGraph = Kept("graph")]
          /\ UNCHANGED <<disp, head, revs, native, graphs>>
    /\ UNCHANGED <<tree, build>>

Row(p) == LET facts == Measures[build][job.cap.files[p]]
          IN  [bytes |-> TRUE, facts |-> facts, wit |-> facts]

\* ImmutableAppend.insert: an existing row must be the row that would be written.
Differs(docs) ==
    \/ \E p \in DOMAIN docs \ job.keepNative :
          docs[p].version \in DOMAIN native /\ native[docs[p].version] # Row(p)
    \/ \E p \in DOMAIN docs \ job.keepGraph :
          docs[p].graph \in DOMAIN graphs /\ ~graphs[docs[p].graph]

\* data_version read again under BEGIN IMMEDIATE, capture.verify before COMMIT.
Fenced == ~job.moved /\ tree = job.cap

\* The symbols of the given documents, as an executable measures them.
Symbols(t, ps, b) == MapThenSumSet(LAMBDA p : Measures[b][t.files[p]], ps)

\* compose_local_revision adjusts the head's summary by the one edited document;
\* a full publication counts again.
Stats == IF job.stage = "localReady"
         THEN (Selected.stats - Symbols(Selected.cap, {job.path}, build)) + Symbols(job.cap, {job.path}, build)
         ELSE Symbols(job.cap, Present(job.cap), build)

\* revision_documents: a reused document keeps the ids of the head.
Manifest == [p \in Present(job.cap) |->
                IF p \in job.keepNative \cap job.keepGraph THEN Selected.docs[p]
                ELSE Doc(job.cap, p, build)]

Revision == [docs |-> Manifest, build |-> build, cap |-> job.cap, stats |-> Stats,
             route |-> IF job.stage = "localReady" THEN "local" ELSE "full"]

\* The rows this publication writes: those it does not reuse.
NativeRows(docs) == [v \in {docs[p].version : p \in DOMAIN docs \ job.keepNative} |->
                        Row(CHOOSE p \in DOMAIN docs : docs[p].version = v)]
GraphRows(docs) == [g \in {docs[p].graph : p \in DOMAIN docs \ job.keepGraph} |-> TRUE]

\* What stays of a table: everything, unless the generation is replaced.
Base(f) == IF disp = "Rebuild" THEN <<>> ELSE f
Join(f, g) == [x \in DOMAIN f \cup DOMAIN g |-> IF x \in DOMAIN f THEN f[x] ELSE g[x]]

\* A revision replaces an untrusted generation, or is appended to a trusted one.
WriteRevision ==
    /\ native' = Join(Base(native), NativeRows(Manifest))
    /\ graphs' = Join(Base(graphs), GraphRows(Manifest))
    /\ revs' = Append(IF disp = "Rebuild" THEN <<>> ELSE revs, Revision)
    /\ head' = IF disp = "Rebuild" THEN [gen |-> head.gen + 1, rev |-> 1]
               ELSE [head EXCEPT !.rev = @ + 1]

\* A generation found untrusted after rows of it were reused cannot be replaced
\* and fails on its dangling links; a differing row makes it untrusted.
Publish ==
    /\ job.stage \in {"localReady", "fullReady"}
    /\ \/ ~Fenced /\ Fail
       \/ Fenced /\ job.keepNative # {} /\ disp = "Rebuild" /\ Fail
       \/ /\ Fenced /\ disp = "Ready" /\ Differs(Manifest)
          /\ disp' = "Rebuild" /\ job' = Idle
          /\ UNCHANGED <<head, revs, native, graphs>>
       \/ /\ Fenced /\ (disp = "Ready" => ~Differs(Manifest))
          /\ job.keepNative = {} \/ disp = "Ready"
          /\ WriteRevision /\ disp' = "Ready" /\ job' = Idle
    /\ UNCHANGED <<tree, build>>

Next ==
    \/ Edit \/ Restart \/ Rewrite \/ Read
    \/ Begin \/ CheckUnchanged \/ PublishUnchanged \/ PrepareLocal \/ ComposeLocal
    \/ OpenWriter \/ PreflightLocal \/ PreflightFull \/ Publish

Spec == Init /\ [][Next]_vars

(***************************************************************************)
(* Properties.                                                             *)
(***************************************************************************)
\* Whichever route published it, the manifest of every retained revision lists
\* exactly the documents of its capture, at their captured text and labels, and
\* every row it names is in the database.
ManifestIsCapture ==
    \A r \in DOMAIN revs :
        LET rev == revs[r]
        IN  /\ DOMAIN rev.docs = Present(rev.cap)
            /\ \A p \in Present(rev.cap) :
                  /\ rev.docs[p].version = <<p, rev.cap.files[p]>>
                  /\ SubSeq(rev.docs[p].graph, 1, 3) = <<p, rev.cap.files[p], rev.cap.labels>>
                  /\ rev.docs[p].version \in DOMAIN native
                  /\ rev.docs[p].graph \in DOMAIN graphs

\* Every fact a retained revision links was measured as the executable bound to
\* that revision measures it, although the version's name does not include the
\* executable and its row may have been written by another one.
FactsOfItsBuild ==
    \A r \in DOMAIN revs : \A p \in DOMAIN revs[r].docs :
        LET doc == revs[r].docs[p]
            facts == Measures[revs[r].build][doc.version[2]]
        IN  native[doc.version].wit = facts /\ doc.graph[4] = facts

FullHead == Published /\ Selected.route = "full"

\* A full publication never links a row that was rewritten behind the daemon,
\* however the rewrite falls between the attestation and the commit.
FullIsAttested ==
    (head' # head /\ FullHead') => HeadIntact'

\* The stored summary counts the symbols of the revision's own documents, however
\* many local edits it was adjusted by since it was last counted.
StatsAddUp ==
    \A r \in DOMAIN revs :
        revs[r].stats = Symbols(revs[r].cap, Present(revs[r].cap), revs[r].build)

\* A retained pin keeps its manifest and its rows: a publication either appends
\* the next revision and only adds rows, or starts a new generation at one.
HistoryKept ==
    head' # head =>
      \/ head'.gen = head.gen + 1 /\ head'.rev = 1
      \/ /\ head' = [head EXCEPT !.rev = @ + 1]
         /\ \A r \in DOMAIN revs : revs'[r] = revs[r]
         /\ \A v \in DOMAIN native : native'[v] = native[v]
         /\ \A g \in DOMAIN graphs : graphs'[g] = graphs[g]
====
