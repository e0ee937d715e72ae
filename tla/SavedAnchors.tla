---------------------------- MODULE SavedAnchors ----------------------------
(***************************************************************************)
(* Saved views and annotations (src/store/anchors.rs and their callers in  *)
(* src/store.rs): an item is saved on a declaration of one revision with   *)
(* an anchor, and later lists say whether it is still attached, or why it  *)
(* is orphaned, while revisions are published in between. Identities of    *)
(* declarations are positional: the same identity may come to name another *)
(* declaration after an edit. How records are stored is in RecordStore,    *)
(* how a snapshot is admitted and fenced in EvidenceRead.                  *)
(***************************************************************************)
EXTENDS Naturals, Sequences, FiniteSets

CONSTANTS
    Members,     \* declarations; one also stands for its body's text
    Shapes,      \* <<group, header>>: container, kind, name and signature; and the header
    Calls,       \* requests about the saved item
    NoItem, NoAnchor, NoPin,
    MaxSize,     \* bound: declarations of the document
    MaxFirst,    \* bound: declarations of its first revision
    MaxRev       \* bound: revisions

VARIABLES
    revs,    \* the published revisions: the document's declarations in source order
    item,    \* the saved record: its node and its anchor
    call     \* where each request is

vars == <<revs, item, call>>

Declarations == [who : Members, group : {s[1] : s \in Shapes}, header : {s[2] : s \in Shapes}]
Texts == {t \in UNION {[1..n -> Declarations] : n \in 0..MaxSize} :
            /\ \A i \in DOMAIN t : <<t[i].group, t[i].header>> \in Shapes
            /\ \A i, j \in DOMAIN t : t[i].who = t[j].who => i = j}

----------------------------------------------------------------------------
\* The identity of a declaration: its key and its ordinal among equal keys.
SyntaxId(t, i) == <<t[i].group, Cardinality({j \in 1..(i - 1) : t[j].group = t[i].group})>>

Nodes == {s[1] : s \in Shapes} \X (0..(MaxSize - 1))

measured_group(t, g) == SelectSeq(t, LAMBDA d : d.group = g)
headers(t, g) == LET s == measured_group(t, g) IN [i \in DOMAIN s |-> s[i].header]

identical(hs, h) == Cardinality({i \in DOMAIN hs : hs[i] = h})

\* revision_id: a digest of every captured byte.
revision_id(pin) == revs[pin]

\* The members `who` and `pin` are what the properties compare with; no code reads them.
capture_anchor(pin, id) ==
    LET t == revs[pin]
        i == CHOOSE k \in DOMAIN t : SyntaxId(t, k) = id
        hs == headers(t, id[1])
    IN  [id |-> id, revision |-> revision_id(pin), header |-> t[i].header, group_hash |-> hs,
         count |-> Len(hs), same |-> identical(hs, t[i].header), who |-> t[i].who, pin |-> pin]

\* Mutant: only the count at capture decides whether the group matters.
Bugduplicated(a, same) == a.same > 1

duplicated(a, same) == a.same > 1 \/ same > 1

group_changed(a, hs, same) ==
    duplicated(a, same) /\ (hs # a.group_hash \/ Len(hs) # a.count \/ same # a.same)

\* Nothing proves continuity between two different revisions: the callers pass none.
unproven(a, same, pin) == duplicated(a, same) /\ a.revision # revision_id(pin)

audit_anchor(a, pin) ==
    LET t == revs[pin]
        current == {i \in DOMAIN t : SyntaxId(t, i) = a.id}
        hs == headers(t, a.id[1])
        same == identical(hs, a.header)
    IN  IF current = {} THEN "missing"
        ELSE IF \A i \in current : t[i].header # a.header THEN "headerMismatch"
        ELSE IF group_changed(a, hs, same) THEN "groupChanged"
        ELSE IF unproven(a, same, pin) THEN "unprovenContinuity"
        ELSE "attached"

anchor_attachment(rec, pin) ==
    IF rec.anchor = NoAnchor THEN "anchorless" ELSE audit_anchor(rec.anchor, pin)

----------------------------------------------------------------------------
Idle == [at |-> "idle", via |-> "store", want |-> NoPin, rec |-> NoItem, pin |-> NoPin, result |-> "none"]

Init ==
    /\ revs \in {<<t>> : t \in {u \in Texts : Len(u) <= MaxFirst}}
    /\ item \in {NoItem, [node |-> CHOOSE n \in Nodes : n[2] = 0, anchor |-> NoAnchor]}   \* or one from before anchors
    /\ call = [c \in Calls |-> Idle]

HeadPin == Len(revs)

\* The leader publishes what the user made of the tree.
Publish ==
    /\ HeadPin < MaxRev
    /\ \E t \in Texts : revs' = Append(revs, t)
    /\ UNCHANGED <<item, call>>

Set(c, r) == call' = [call EXCEPT ![c] = r]
Fail(c) == Set(c, [Idle EXCEPT !.at = "done", !.result = "failed"])

\* resolve_view or resolve_annotation on what was read, and the fence at the end.
Finish(c, rec, pin) ==
    \/ Set(c, [call[c] EXCEPT !.at = "done", !.rec = rec, !.pin = pin,
                              !.result = IF rec = NoItem THEN "none" ELSE anchor_attachment(rec, pin)])
    \/ Fail(c)

\* Store reads the record and then takes a snapshot; EvidenceResponse already has its snapshot.
RecordsFirst(via) == via = "store"

\* A list begins, for the head or for a revision that is still retained.
List(c, via) ==
    /\ call[c].at = "idle"
    /\ \E want \in {NoPin} \cup DOMAIN revs :
         Set(c, [Idle EXCEPT !.at = IF RecordsFirst(via) THEN "records" ELSE "admit", !.via = via, !.want = want])
    /\ UNCHANGED <<revs, item>>

ReadRecord(c) ==
    /\ call[c].at = "records"
    /\ IF RecordsFirst(call[c].via) THEN Set(c, [call[c] EXCEPT !.at = "admit", !.rec = item])
                                    ELSE Finish(c, item, call[c].pin)
    /\ UNCHANGED <<revs, item>>

\* evidence_response and saved_pin.
Admit(c) ==
    LET pin == IF call[c].want = NoPin THEN HeadPin ELSE call[c].want
    IN  /\ call[c].at = "admit"
        /\ IF RecordsFirst(call[c].via) THEN Finish(c, call[c].rec, pin)
                                        ELSE Set(c, [call[c] EXCEPT !.at = "records", !.pin = pin])
        /\ UNCHANGED <<revs, item>>

\* The index may be unreadable at any time: a Store list without a pin then shows the
\* records as unavailable, others fail.
NotAdmitted(c) ==
    /\ call[c].at = "admit"
    /\ IF call[c].via = "store" /\ call[c].want = NoPin
       THEN Set(c, [Idle EXCEPT !.at = "done", !.result = "unavailable"])
       ELSE Fail(c)
    /\ UNCHANGED <<revs, item>>

Declared(pin, id) == \E i \in DOMAIN revs[pin] : SyntaxId(revs[pin], i) = id

\* save_view_at and save_annotation_at: the client's pin must be the head of the snapshot. The
\* client has the node from that revision or from the saved item.
Save(c, node) ==
    /\ call[c].at = "idle"
    /\ Declared(HeadPin, node) \/ (item # NoItem /\ item.node = node)
    /\ Set(c, [Idle EXCEPT !.at = "write", !.want = HeadPin, !.pin = HeadPin,
                           !.rec = [node |-> node, anchor |-> NoAnchor]])
    /\ UNCHANGED <<revs, item>>

\* merge_item: an item keeps its node and its first anchor; a new one is anchored in the snapshot.
Write(c) ==
    LET node == call[c].rec.node
        anchor == IF item = NoItem THEN capture_anchor(call[c].pin, node) ELSE item.anchor
    IN  /\ call[c].at = "write"
        /\ IF item = NoItem THEN Declared(call[c].pin, node) ELSE item.node = node
        /\ item' = [node |-> node, anchor |-> anchor]
        /\ Finish(c, item', call[c].pin)
        /\ UNCHANGED revs

WriteRefused(c) ==
    /\ call[c].at = "write"
    /\ IF item = NoItem THEN ~Declared(call[c].pin, call[c].rec.node) ELSE item.node # call[c].rec.node
    /\ Fail(c)
    /\ UNCHANGED <<revs, item>>

Delete(c) ==
    /\ call[c].at = "idle"
    /\ item' = NoItem
    /\ Set(c, [Idle EXCEPT !.at = "done"])
    /\ UNCHANGED revs

Next ==
    \/ Publish
    \/ \E c \in Calls :
         \/ \E via \in {"store", "response"} : List(c, via)
         \/ ReadRecord(c) \/ Admit(c) \/ NotAdmitted(c) 
         \/ \E node \in Nodes : Save(c, node)
         \/ Write(c) \/ WriteRefused(c) \/ Delete(c)

Spec == Init /\ [][Next]_vars

----------------------------------------------------------------------------
Anchors ==
    [id : Nodes, revision : Texts, header : {s[2] : s \in Shapes},
     group_hash : UNION {[1..n -> {s[2] : s \in Shapes}] : n \in 1..MaxSize},
     count : 1..MaxSize, same : 1..MaxSize, who : Members, pin : 1..MaxRev]

\* Every value has its type, and every anchor is one that DurableAnchor::validate accepts.
TypeOK ==
    /\ Len(revs) \in 1..MaxRev /\ \A r \in DOMAIN revs : revs[r] \in Texts
    /\ item = NoItem \/ /\ item.node \in Nodes
                        /\ item.anchor = NoAnchor \/ (item.anchor \in Anchors /\ item.anchor.same <= item.anchor.count)
    /\ \A c \in Calls : call[c].at \in {"idle", "records", "admit", "write", "done"}

Judged(c) == call[c].at = "done" /\ call[c].rec # NoItem /\ call[c].pin # NoPin
             /\ call[c].rec.anchor # NoAnchor

\* An item that is shown as attached is shown on the declaration it was saved on, unless that
\* declaration left its group or its header was edited: while it is still there, no edit of the
\* siblings makes another declaration take its place (audit_anchor, contract-v1.md "Durable anchors").
NeverMisattached ==
    \A c \in Calls : Judged(c) /\ call[c].result = "attached" =>
        LET a == call[c].rec.anchor
            t == revs[call[c].pin]
        IN  \A i \in DOMAIN t :
                t[i].who = a.who /\ t[i].group = a.id[1] /\ t[i].header = a.header => SyntaxId(t, i) = a.id

Alone(t, i) == \A j \in DOMAIN t : j # i /\ t[j].group = t[i].group => t[j].header # t[i].header

\* An item is not orphaned without need: it stays attached in the revision it was saved in, also
\* after that revision's bytes came back, and wherever its declaration kept place and header and
\* is the only one with that header, whatever else was edited (audit_anchor).
KeptWhenUnmoved ==
    \A c \in Calls : Judged(c) =>
        LET a == call[c].rec.anchor
            then == revs[a.pin]
            now == revs[call[c].pin]
        IN  (\E i \in DOMAIN now, j \in DOMAIN then :
                /\ now[i].who = a.who /\ then[j].who = a.who
                /\ SyntaxId(now, i) = a.id /\ now[i].header = a.header
                /\ (Alone(now, i) /\ Alone(then, j)) \/ then = now)
            => call[c].result = "attached"

\* A list of Store for the head never judges an item by a revision older than the one it was
\* saved in: the records are read before the snapshot is taken (saved_views_at).
JudgedForward ==
    \A c \in Calls : Judged(c) /\ call[c].via = "store" /\ call[c].want = NoPin =>
        call[c].rec.anchor.pin <= call[c].pin
=============================================================================
