--------------------------- MODULE SelectedRoutes ---------------------------
(***************************************************************************)
(* One browser request to a selected checkout (provisioned_core and        *)
(* provisioned_core_answer in src/http.rs): a read, a cached question, a   *)
(* saved record, a paid provider run, a catalog refresh or an index        *)
(* request. Between any two steps the leader publishes or is replaced, and *)
(* the directory may be replaced. What the client is told about the        *)
(* effects of a request must be true. How a snapshot and its fence work is *)
(* in module EvidenceRead, the record files in RecordStore, the providers  *)
(* in JevBudget and AcpAttempts.                                           *)
(***************************************************************************)
EXTENDS Naturals

CONSTANTS
    MaxHead,      \* bound: revisions published
    MaxOwner      \* bound: serving owners

VARIABLES
    head,      \* the published revision
    owner,     \* the serving owner's incarnation
    strict,    \* H is done: reads are not of a predecessor
    root,      \* the checkout directory is still the registered one
    oldest,    \* the oldest revision retained
    packet,    \* revision of the cached question packet, 0 for none
    catalog,   \* revision of the installed dependency catalog, 0 for none
    req,       \* the request
    effect,    \* what it has done: record, call, refresh, row
    reply,     \* what the client was told
    called     \* the revision published when a provider was called

vars == <<head, owner, strict, root, oldest, packet, catalog, req, effect, reply, called>>

Reads == {"read", "pinned", "catalog", "preview", "question"}
Kinds == Reads \cup {"save", "delete", "provider", "refresh", "index"}
Mutations == {"save", "delete", "provider", "refresh"}
NoReply == [sent |-> FALSE, ok |-> FALSE, outcome |-> "none"]
NoReq == [kind |-> "none", pc |-> "idle", pin |-> 0, snap |-> 0, low |-> 0, owner |-> 0]

TypeOK ==
    /\ head \in 1..MaxHead /\ owner \in 1..MaxOwner /\ strict \in BOOLEAN /\ root \in BOOLEAN
    /\ oldest \in 1..head /\ packet \in 0..head /\ catalog \in 0..head /\ called \in 0..MaxHead
    /\ req.kind \in Kinds \cup {"none"} /\ req.pin \in 0..MaxHead /\ req.snap \in 0..head
    /\ req.low \in 0..oldest
    /\ req.owner \in 0..MaxOwner
    /\ req.pc \in {"idle", "named", "active", "snapped", "kept", "fenced", "ready", "posted", "worked",
                   "failed", "ran", "final", "done"}
    /\ effect \in {"none", "record", "call", "refresh", "row"}
    /\ reply \in [sent : BOOLEAN, ok : BOOLEAN, outcome : {"none", "committed", "unknown"}]
    \* The client hears once, at the end.
    /\ reply.sent = (req.pc \in {"final", "done"})

Init ==
    /\ head = 1 /\ owner = 1 /\ strict \in BOOLEAN /\ root = TRUE /\ oldest = 1 /\ packet \in {0, 1} /\ catalog = 0
    /\ req = NoReq /\ effect = "none" /\ reply = NoReply /\ called = 0

(***************************************************************************)
(* The rest of the system.                                                 *)
(***************************************************************************)
PublishHead ==
    /\ head < MaxHead /\ strict /\ head' = head + 1
    /\ UNCHANGED <<owner, strict, root, oldest, packet, catalog, req, effect, reply, called>>

ReplaceOwner ==
    /\ owner < MaxOwner /\ owner' = owner + 1 /\ strict' = FALSE
    /\ UNCHANGED <<head, root, oldest, packet, catalog, req, effect, reply, called>>

FinishH ==
    /\ ~strict /\ strict' = TRUE
    /\ UNCHANGED <<head, owner, root, oldest, packet, catalog, req, effect, reply, called>>

LoseRoot ==
    /\ root /\ root' = FALSE
    /\ UNCHANGED <<head, owner, strict, oldest, packet, catalog, req, effect, reply, called>>

\* Retention drops the oldest superseded revision.
Retire ==
    /\ oldest < head /\ oldest' = oldest + 1
    /\ UNCHANGED <<head, owner, strict, root, packet, catalog, req, effect, reply, called>>

\* The catalog's driver installs a catalog of the published revision.
InstallCatalog ==
    /\ catalog < head /\ catalog' = head
    /\ UNCHANGED <<head, owner, strict, root, oldest, packet, req, effect, reply, called>>

world == <<head, owner, strict, root, oldest, catalog>>

(***************************************************************************)
(* The request.                                                            *)
(***************************************************************************)
Answer(ok, outcome) ==
    /\ reply' = [sent |-> TRUE, ok |-> ok, outcome |-> outcome]
    /\ req' = [req EXCEPT !.pc = "final"]
Refuse == Answer(FALSE, "none")
Goto(pc) == req' = [req EXCEPT !.pc = pc] /\ UNCHANGED reply

\* provisioned_core: the root key must name a registered checkout.
Begin ==
    /\ req.pc = "idle"
    /\ \E k \in Kinds, p \in 0..head :
          IF root THEN req' = [NoReq EXCEPT !.kind = k, !.pin = p, !.pc = "named"] /\ UNCHANGED reply
          ELSE req' = [NoReq EXCEPT !.kind = k, !.pc = "final"] /\ reply' = [NoReply EXCEPT !.sent = TRUE]
    /\ UNCHANGED <<world, packet, effect, called>>

\* The runtime is activated, or capacity or storage refuse; then the route's own
\* checks of query and body, which answer 400 or 404.
Activate ==
    /\ req.pc = "named"
    /\ \/ Goto("active")
       \/ Refuse
    /\ UNCHANGED <<world, packet, effect, called>>

\* POST index: the durable row is the whole work.
Enqueue ==
    /\ req.pc = "active" /\ req.kind = "index"
    /\ \/ effect' = "row" /\ Answer(TRUE, "none")
       \/ effect' = effect /\ Refuse
    /\ UNCHANGED <<world, packet, called>>

\* require_mutation_ready: not a predecessor's snapshot.
MayMutate == strict

\* evidence_response: an immutable snapshot under the present owner.
Snapshot ==
    /\ req.pc = "active" /\ req.kind # "index"
    /\ IF root /\ (req.kind \in Mutations => MayMutate)
       THEN req' = [req EXCEPT !.pc = "snapped", !.snap = head, !.low = oldest, !.owner = owner] /\ UNCHANGED reply
       ELSE Refuse
    /\ UNCHANGED <<world, packet, effect, called>>

\* CheckoutEvidence::finish: same owner, same root.
Fence == root /\ owner = req.owner

\* A pinned read: its revision is retained in the snapshot; no pin reads the head.
PinBasis == req.pin # 0 => req.pin \in req.low..req.snap

\* Symbols and sources of dependencies: the installed catalog is of this revision.
CatalogBasis == catalog = req.snap

\* A cached packet answers only for the revision it was built from.
PacketBasis == packet = req.snap

\* Records are anchored in the head, and questions asked of it: a pin that is no
\* longer the head is refused.
HeadBasis == req.pin = req.snap

\* What the snapshot must be for this request.
Basis ==
    /\ req.kind = "pinned" => PinBasis
    /\ req.kind = "catalog" => CatalogBasis
    /\ req.kind \in {"save", "preview"} => HeadBasis
    /\ req.kind \in {"question", "provider"} => PacketBasis

\* selected_evidence_map: the work on the snapshot, the fence, the answer.
Read ==
    /\ req.pc = "snapped" /\ req.kind \in Reads \ {"preview"}
    /\ IF Basis /\ Fence THEN Answer(TRUE, "none") ELSE Refuse
    /\ UNCHANGED <<world, packet, effect, called>>

\* A preview is remembered under a fence of its own before the answer's fence.
Remember ==
    /\ req.pc = "snapped" /\ req.kind = "preview"
    /\ IF Basis /\ Fence THEN packet' = req.snap /\ Goto("kept") ELSE packet' = packet /\ Refuse
    /\ UNCHANGED <<world, effect, called>>

Preview ==
    /\ req.pc = "kept"
    /\ IF Fence THEN Answer(TRUE, "none") ELSE Refuse
    /\ UNCHANGED <<world, packet, effect, called>>

\* selected_mutation and selected_provider_preflight: the basis and two fences.
Preflight ==
    /\ req.pc = "snapped" /\ req.kind \in Mutations
    /\ IF Basis /\ Fence THEN Goto("fenced") ELSE Refuse
    /\ UNCHANGED <<world, packet, effect, called>>

SecondFence ==
    /\ req.pc = "fenced"
    /\ IF Fence THEN Goto("ready") ELSE Refuse
    /\ UNCHANGED <<world, packet, effect, called>>

\* The record is written; an error leaves it unknown whether it was.
Write ==
    /\ req.pc = "ready" /\ req.kind \in {"save", "delete"}
    /\ \E done \in BOOLEAN, ok \in BOOLEAN :
          /\ ok => done
          /\ effect' = IF done THEN "record" ELSE effect
          /\ Goto(IF ok THEN "worked" ELSE "failed")
    /\ UNCHANGED <<world, packet, called>>

(* Mutant: a failed write is reported like a finished one. *)
BugCommitted == Answer(req.pc = "worked" /\ Fence, "committed")
\* Every answer after the write carries its outcome.
AfterWrite ==
    IF req.pc = "failed" THEN Answer(FALSE, "unknown") ELSE Answer(Fence, "committed")

Written ==
    /\ req.pc \in {"worked", "failed"} /\ AfterWrite
    /\ UNCHANGED <<world, packet, effect, called>>

\* selected_provider_postflight: a new strict snapshot, still of this revision.
Postflight == root /\ strict /\ head = req.snap

\* Before the call: a disabled provider, a stopped index and a moved head refuse.
FirstPostflight ==
    /\ req.pc = "ready" /\ req.kind \in {"provider", "refresh"}
    /\ \/ Postflight /\ Goto("posted")
       \/ Refuse
    /\ UNCHANGED <<world, packet, effect, called>>

\* The provider is called, or the catalog's next generation is scheduled.
Call ==
    /\ req.pc = "posted"
    /\ effect' = IF req.kind = "provider" THEN "call" ELSE "refresh"
    /\ called' = IF req.kind = "provider" THEN head ELSE called
    /\ Goto("ran")
    /\ UNCHANGED <<world, packet>>

\* ok: the provider answered and its answer was assembled.
AfterCall(ok) ==
    CASE req.kind = "refresh" -> Answer(Postflight, "committed")
      [] req.kind = "provider" /\ ~Postflight -> Answer(FALSE, "unknown")
      [] req.kind = "provider" /\ Postflight -> Answer(ok, IF ok THEN "committed" ELSE "unknown")

Ran ==
    /\ req.pc = "ran" /\ \E ok \in BOOLEAN : AfterCall(ok)
    /\ UNCHANGED <<world, packet, effect, called>>

Replaced == [reply EXCEPT !.ok = FALSE]

\* provisioned_core at the end: a root that was replaced is an error, with the
\* outcome the answer already carried.
Last ==
    /\ req.pc = "final"
    /\ reply' = IF root THEN reply ELSE Replaced
    /\ req' = [req EXCEPT !.pc = "done"]
    /\ UNCHANGED <<world, packet, effect, called>>

\* The next request.
Again ==
    /\ req.pc = "done"
    /\ req' = NoReq /\ effect' = "none" /\ reply' = NoReply /\ called' = 0
    /\ UNCHANGED <<world, packet>>

Next ==
    \/ PublishHead \/ ReplaceOwner \/ FinishH \/ LoseRoot \/ Retire \/ InstallCatalog
    \/ Begin \/ Activate \/ Enqueue \/ Snapshot \/ Read \/ Remember \/ Preview \/ Preflight \/ SecondFence
    \/ Write \/ Written \/ FirstPostflight \/ Call \/ Ran \/ Last \/ Again

Spec == Init /\ [][Next]_vars

(***************************************************************************)
(* Properties.                                                             *)
(***************************************************************************)
\* An error without a mutation outcome promises that no record was written, no
\* provider called and no refresh scheduled: the client may simply retry.
PlainErrorMeansNothingDone ==
    (req.pc = "done" /\ ~reply.ok /\ reply.outcome = "none") => effect \in {"none", "row"}

\* An answer that says "committed" is about something that did happen.
CommittedMeansDone == reply.outcome = "committed" => effect # "none"

\* A provider's answer is shown only if the packet's revision was the published
\* one when the provider was called, although publications run meanwhile.
ProviderBasisHeld == (reply.ok /\ req.kind = "provider") => called = req.snap

\* Questions are answered from a packet, and dependency pages from a catalog, of
\* the revision the answer's snapshot is of, although both are replaced meanwhile.
AnswerOfItsRevision ==
    reply'.ok /\ ~reply.sent =>
       /\ req.kind = "question" => packet = req.snap
       /\ req.kind = "catalog" => catalog = req.snap
====
