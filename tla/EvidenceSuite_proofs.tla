------------------------ MODULE EvidenceSuite_proofs ------------------------
(***************************************************************************)
(* For any processes, revisions, requests and bounds: what the evidence    *)
(* run checks of the routes, the reads, the caches and the writer.  The    *)
(* suite's parts share no variables: a component's inductive invariant     *)
(* holds while part names it.                                              *)
(***************************************************************************)
EXTENDS EvidenceSuite, FiniteSetTheorems, SequenceTheorems, TLAPS

----------------------------------------------------------------------------
(* The routes of a selected checkout (SelectedRoutes).                     *)

RoutesPlaces == {"idle", "named", "active", "snapped", "kept", "fenced", "ready", "posted",
                 "worked", "failed", "ran", "final", "done"}
RoutesReqs == [kind : Routes!Kinds \cup {"none"}, pc : RoutesPlaces, pin : 0..MaxHead,
               snap : 0..MaxHead, low : 0..MaxHead, owner : 0..MaxOwner]
RoutesReplies == [sent : BOOLEAN, ok : BOOLEAN, outcome : {"none", "committed", "unknown"}]

RoutesTypes ==
    /\ routesHead \in 1..MaxHead /\ owner \in 1..MaxOwner
    /\ strict \in BOOLEAN /\ root \in BOOLEAN
    /\ oldest \in 1..routesHead /\ packet \in 0..routesHead /\ catalog \in 0..routesHead
    /\ called \in 0..routesHead
    /\ req \in RoutesReqs
    /\ req.snap <= routesHead /\ req.low <= oldest
    /\ effect \in {"none", "record", "call", "refresh", "row"}
    /\ reply \in RoutesReplies

\* What a request has done and told at every step of its way.
RoutesPhase ==
    /\ req.pc \in {"final", "done"} <=> reply.sent
    /\ ~reply.sent => ~reply.ok /\ reply.outcome = "none"
    /\ req.pc \in {"idle", "named", "active", "snapped", "kept", "fenced", "ready", "posted"} =>
          effect = "none"
    /\ req.pc \in {"worked", "failed"} => req.kind \in {"save", "delete"}
    /\ req.pc \in {"posted", "ran"} => req.kind \in {"provider", "refresh"}
    /\ req.pc \in {"worked", "ran"} => effect # "none"
    /\ req.pc = "kept" => req.kind = "preview"
    /\ req.pc = "ran" /\ req.kind = "provider" => req.snap <= called /\ called <= routesHead
    /\ reply.sent =>
          /\ reply.outcome = "committed" => effect # "none"
          /\ reply.outcome = "none" => effect \in {"none", "row"}
          /\ reply.ok /\ req.kind = "provider" => called = req.snap

RoutesInv == RoutesTypes /\ RoutesPhase

LEMMA RoutesInitOK == Routes!Init => RoutesInv
  <1> SUFFICES ASSUME Routes!Init PROVE RoutesInv
    OBVIOUS
  <1>1. Routes!NoReq \in RoutesReqs /\ Routes!NoReply \in RoutesReplies
    BY RoutesConstants DEF RoutesReqs, RoutesReplies, RoutesPlaces, Routes!NoReq, Routes!NoReply
  <1>2. RoutesTypes
    BY <1>1, RoutesConstants DEF Routes!Init, RoutesTypes, Routes!NoReq
  <1>3. RoutesPhase
    BY DEF Routes!Init, RoutesPhase, Routes!NoReq, Routes!NoReply
  <1> QED BY <1>2, <1>3 DEF RoutesInv

\* The leader publishes or is replaced, revisions retire, the directory goes.
LEMMA RoutesWorld ==
    ASSUME RoutesInv,
           \/ Routes!PublishHead \/ Routes!ReplaceOwner \/ Routes!FinishH \/ Routes!LoseRoot
           \/ Routes!Retire \/ Routes!InstallCatalog
    PROVE  RoutesInv' /\ Routes!AnswerOfItsRevision
  <1>1. /\ UNCHANGED <<packet, req, effect, reply, called>>
        /\ routesHead' \in 1..MaxHead /\ routesHead <= routesHead' /\ owner' \in 1..MaxOwner
        /\ oldest' \in 1..routesHead' /\ oldest <= oldest' /\ catalog' \in 0..routesHead'
    <2>0. /\ routesHead \in 1..MaxHead /\ owner \in 1..MaxOwner /\ MaxHead \in Nat
          /\ MaxOwner \in Nat
          /\ oldest \in 1..routesHead /\ catalog \in 0..routesHead
      BY RoutesConstants DEF RoutesInv, RoutesTypes, RoutesReqs, RoutesReplies
    <2>1. CASE Routes!PublishHead
      BY <2>0, <2>1 DEF Routes!PublishHead
    <2>2. CASE Routes!ReplaceOwner
      BY <2>0, <2>2 DEF Routes!ReplaceOwner
    <2>3. CASE Routes!FinishH
      BY <2>0, <2>3 DEF Routes!FinishH
    <2>4. CASE Routes!LoseRoot
      BY <2>0, <2>4 DEF Routes!LoseRoot
    <2>5. CASE Routes!Retire
      BY <2>0, <2>5 DEF Routes!Retire
    <2>6. CASE Routes!InstallCatalog
      BY <2>0, <2>6 DEF Routes!InstallCatalog
    <2> QED BY <2>1, <2>2, <2>3, <2>4, <2>5, <2>6
  <1>5. strict' \in BOOLEAN /\ root' \in BOOLEAN
    <2>1. strict \in BOOLEAN /\ root \in BOOLEAN
      BY DEF RoutesInv, RoutesTypes
    <2>2. strict' \in {strict, TRUE, FALSE} /\ root' \in {root, FALSE}
      BY Zenon DEF Routes!PublishHead, Routes!ReplaceOwner, Routes!FinishH, Routes!LoseRoot,
         Routes!Retire, Routes!InstallCatalog
    <2> QED BY <2>1, <2>2
  <1>2. RoutesTypes'
    BY <1>1, <1>5 DEF RoutesInv, RoutesTypes, RoutesReqs, RoutesReplies
  <1>3. RoutesPhase'
    BY <1>1 DEF RoutesInv, RoutesTypes, RoutesReqs, RoutesReplies, RoutesPhase
  <1>4. Routes!AnswerOfItsRevision
    BY <1>1 DEF RoutesInv, RoutesPhase, Routes!AnswerOfItsRevision
  <1> QED BY <1>2, <1>3, <1>4 DEF RoutesInv

\* The end of a request whose effect and reply agree.
LEMMA RoutesAnswers ==
    ASSUME RoutesInv, NEW ok \in BOOLEAN, NEW outcome \in {"none", "committed", "unknown"},
           Routes!Answer(ok, outcome), UNCHANGED Routes!world, UNCHANGED <<packet, called>>,
           effect' \in {"none", "record", "call", "refresh", "row"}, req.pc \notin {"final", "done"},
           outcome = "committed" => effect' # "none",
           outcome = "none" => effect' \in {"none", "row"},
           ok /\ req.kind = "provider" => called = req.snap
    PROVE  RoutesInv'
  <1>1. /\ reply' = [sent |-> TRUE, ok |-> ok, outcome |-> outcome]
        /\ req' = [req EXCEPT !.pc = "final"]
        /\ UNCHANGED <<routesHead, owner, strict, root, oldest, catalog, packet, called>>
    BY DEF Routes!Answer, Routes!world
  <1>2. RoutesTypes'
    BY <1>1 DEF RoutesInv, RoutesTypes, RoutesReqs, RoutesReplies, RoutesPlaces
  <1>3. /\ req'.pc = "final" /\ req'.kind = req.kind /\ req'.snap = req.snap
        /\ reply'.sent /\ reply'.ok = ok /\ reply'.outcome = outcome
    BY <1>1 DEF RoutesInv, RoutesTypes, RoutesReqs, RoutesReplies
  <1>4. RoutesPhase'
    BY <1>1, <1>3 DEF RoutesPhase
  <1> QED BY <1>2, <1>4 DEF RoutesInv

\* A step on the way.
LEMMA RoutesGoes ==
    ASSUME RoutesInv, NEW pc \in RoutesPlaces \ {"final", "done"}, Routes!Goto(pc),
           UNCHANGED Routes!world, packet' \in 0..routesHead, called' \in 0..routesHead,
           effect' \in {"none", "record", "call", "refresh", "row"}, req.pc \notin {"final", "done"},
           pc \in {"idle", "named", "active", "snapped", "kept", "fenced", "ready", "posted"} =>
               effect' = "none",
           pc \in {"worked", "failed"} => req.kind \in {"save", "delete"},
           pc \in {"posted", "ran"} => req.kind \in {"provider", "refresh"},
           pc \in {"worked", "ran"} => effect' # "none", pc = "kept" => req.kind = "preview",
           pc = "ran" /\ req.kind = "provider" => req.snap <= called'
    PROVE  RoutesInv'
  <1>1. /\ req' = [req EXCEPT !.pc = pc]
        /\ UNCHANGED <<routesHead, owner, strict, root, oldest, catalog, reply>>
    BY DEF Routes!Goto, Routes!world
  <1>2. /\ req' \in RoutesReqs
        /\ req'.low = req.low
    BY <1>1 DEF RoutesInv, RoutesTypes, RoutesReqs, RoutesReplies
  <1>3. req'.pc = pc /\ req'.kind = req.kind /\ req'.snap = req.snap
    BY <1>1 DEF RoutesInv, RoutesTypes, RoutesReqs, RoutesReplies
  <1>5. RoutesTypes'
    BY <1>1, <1>2, <1>3 DEF RoutesInv, RoutesTypes, RoutesReqs, RoutesReplies
  <1>4. RoutesPhase'
    BY <1>1, <1>3 DEF RoutesInv, RoutesTypes, RoutesReqs, RoutesReplies, RoutesPhase, RoutesPlaces
  <1> QED BY <1>4, <1>5 DEF RoutesInv

\* The request's own steps.
LEMMA RoutesRequest ==
    ASSUME RoutesInv,
           \/ Routes!Activate \/ Routes!Enqueue \/ Routes!Snapshot \/ Routes!Read
           \/ Routes!Remember \/ Routes!Preview \/ Routes!Preflight \/ Routes!SecondFence
           \/ Routes!Write \/ Routes!Written \/ Routes!FirstPostflight \/ Routes!Call
           \/ Routes!Ran
    PROVE  RoutesInv' /\ Routes!AnswerOfItsRevision
  <1> USE DEF Routes!AnswerOfItsRevision
  <1>0. /\ effect \in {"none", "record", "call", "refresh", "row"} /\ req.snap \in 0..MaxHead
        /\ req.kind \in Routes!Kinds \cup {"none"} /\ called \in 0..routesHead
        /\ packet \in 0..routesHead /\ routesHead \in 1..MaxHead /\ req.snap <= routesHead
        /\ req.pc \notin {"final", "done"} => reply = Routes!NoReply
        /\ UNCHANGED reply => ~(reply'.ok /\ ~reply.sent)
    BY DEF RoutesInv, RoutesTypes, RoutesReqs, RoutesReplies, RoutesPhase, Routes!NoReply
  <1>a. ASSUME NEW ok \in BOOLEAN, NEW outcome \in {"none", "committed", "unknown"},
               Routes!Answer(ok, outcome)
        PROVE  reply'.ok = ok
    BY <1>a DEF Routes!Answer
  <1>1. CASE Routes!Activate
    <2>1. effect = "none" /\ UNCHANGED Routes!world /\ UNCHANGED <<packet, effect, called>>
          /\ req.pc = "named"
      BY <1>1 DEF RoutesInv, RoutesPhase, Routes!Activate
    <2>2. CASE Routes!Goto("active")
      BY <1>0, <2>1, <2>2, RoutesGoes DEF Routes!Goto, RoutesPlaces, RoutesInv, RoutesTypes
    <2>3. CASE Routes!Refuse
      BY <1>0, <1>a, <2>1, <2>3, RoutesAnswers DEF Routes!Refuse
    <2> QED BY <1>1, <2>2, <2>3 DEF Routes!Activate
  <1>2. CASE Routes!Enqueue
    <2>1. /\ UNCHANGED Routes!world /\ UNCHANGED <<packet, called>>
          /\ req.pc = "active" /\ req.kind = "index" /\ effect = "none"
      BY <1>2 DEF RoutesInv, RoutesPhase, Routes!Enqueue
    <2>2. CASE effect' = "row" /\ Routes!Answer(TRUE, "none")
      BY <2>1, <2>2, RoutesAnswers
    <2>3. CASE effect' = effect /\ Routes!Refuse
      BY <2>1, <2>3, RoutesAnswers DEF Routes!Refuse
    <2> QED BY <1>2, <2>1, <2>2, <2>3 DEF Routes!Enqueue
  <1>3. CASE Routes!Snapshot
    <2>1. /\ effect = "none" /\ UNCHANGED Routes!world /\ UNCHANGED <<packet, effect, called>>
          /\ req.pc = "active"
      BY <1>3 DEF RoutesInv, RoutesPhase, Routes!Snapshot
    <2>2. CASE Routes!Refuse
      BY <1>0, <1>a, <2>1, <2>2, RoutesAnswers DEF Routes!Refuse
    <2>3. CASE ~Routes!Refuse
      <3>1. /\ req' = [req EXCEPT !.pc = "snapped", !.snap = routesHead, !.low = oldest, !.owner = owner]
            /\ UNCHANGED <<routesHead, owner, strict, root, oldest, catalog, packet, effect, called,
                           reply>>
        BY <1>3, <2>1, <2>3 DEF Routes!Snapshot, Routes!world
      <3>2. /\ req' \in RoutesReqs
            /\ req'.low = oldest /\ req'.snap = routesHead /\ req'.pc = "snapped"
        <4>1. /\ routesHead \in 0..MaxHead /\ oldest \in 0..MaxHead /\ owner \in 0..MaxOwner
              /\ req \in RoutesReqs
          BY RoutesConstants DEF RoutesInv, RoutesTypes
        <4> QED BY <3>1, <4>1 DEF RoutesReqs, RoutesPlaces
      <3>3. RoutesTypes' /\ RoutesPhase'
        BY <2>1, <3>1, <3>2 DEF RoutesInv, RoutesTypes, RoutesReqs, RoutesReplies, RoutesPhase
      <3> QED BY <1>0, <3>1, <3>3 DEF RoutesInv
    <2> QED BY <2>2, <2>3
  <1>4. CASE Routes!Read \/ Routes!Preview
    <2>1. /\ effect = "none" /\ UNCHANGED Routes!world /\ UNCHANGED <<packet, effect, called>>
          /\ req.pc \in {"snapped", "kept"} /\ req.kind \in Routes!Reads
          /\ Routes!Answer(TRUE, "none") \/ Routes!Refuse
          /\ Routes!Answer(TRUE, "none") /\ req.kind = "question" => packet = req.snap
          /\ Routes!Answer(TRUE, "none") /\ req.kind = "catalog" => catalog = req.snap
      BY <1>4, <1>a DEF RoutesInv, RoutesPhase, Routes!Read, Routes!Preview, Routes!Reads, Routes!Refuse,
         Routes!Basis, Routes!PacketBasis, Routes!CatalogBasis
    <2>2. req.kind # "provider"
      BY <2>1 DEF Routes!Reads
    <2> QED BY <1>0, <1>a, <2>1, <2>2, RoutesAnswers DEF Routes!Refuse
  <1>5. CASE Routes!Remember
    <2>1. /\ effect = "none" /\ UNCHANGED Routes!world /\ UNCHANGED <<effect, called>>
          /\ req.pc = "snapped" /\ req.kind = "preview"
          /\ \/ packet' = req.snap /\ Routes!Goto("kept")
             \/ packet' = packet /\ Routes!Refuse
      BY <1>5 DEF RoutesInv, RoutesPhase, Routes!Remember
    <2>2. CASE packet' = req.snap /\ Routes!Goto("kept")
      BY <1>0, <2>1, <2>2, RoutesGoes DEF Routes!Goto, RoutesPlaces
    <2>3. CASE packet' = packet /\ Routes!Refuse
      BY <1>0, <1>a, <2>1, <2>3, RoutesAnswers DEF Routes!Refuse
    <2> QED BY <2>1, <2>2, <2>3
  <1>6. CASE Routes!Preflight \/ Routes!SecondFence
    <2>1. /\ effect = "none" /\ UNCHANGED Routes!world /\ UNCHANGED <<packet, effect, called>>
          /\ req.pc \in {"snapped", "fenced"}
          /\ Routes!Goto("fenced") \/ Routes!Goto("ready") \/ Routes!Refuse
      BY <1>6 DEF RoutesInv, RoutesPhase, Routes!Preflight, Routes!SecondFence
    <2>2. ASSUME NEW pc \in {"fenced", "ready"}, Routes!Goto(pc)
          PROVE  RoutesInv' /\ Routes!AnswerOfItsRevision
      BY <1>0, <2>1, <2>2, RoutesGoes DEF Routes!Goto, RoutesPlaces
    <2>3. CASE Routes!Refuse
      BY <1>0, <1>a, <2>1, <2>3, RoutesAnswers DEF Routes!Refuse
    <2> QED BY <2>1, <2>2, <2>3
  <1>7. CASE Routes!Write
    <2>1. PICK done \in BOOLEAN, ok \in BOOLEAN :
              /\ ok => done
              /\ effect' = IF done THEN "record" ELSE effect
              /\ Routes!Goto(IF ok THEN "worked" ELSE "failed")
      BY <1>7 DEF Routes!Write
    <2>2. /\ effect = "none" /\ UNCHANGED Routes!world /\ UNCHANGED <<packet, called>>
          /\ req.pc = "ready" /\ req.kind \in {"save", "delete"}
      BY <1>7 DEF RoutesInv, RoutesPhase, Routes!Write
    <2>3. ASSUME NEW pc \in {"worked", "failed"}, Routes!Goto(pc), pc = "worked" => effect' = "record"
          PROVE  RoutesInv' /\ Routes!AnswerOfItsRevision
      <3>1. effect' \in {"none", "record"}
        BY <2>1, <2>2
      <3> QED BY <1>0, <2>2, <2>3, <3>1, RoutesGoes DEF Routes!Goto, RoutesPlaces
    <2> QED BY <2>1, <2>3
  <1>8. CASE Routes!Written
    <2>1. /\ UNCHANGED Routes!world /\ UNCHANGED <<packet, effect, called>>
          /\ req.pc \in {"worked", "failed"} /\ req.kind \in {"save", "delete"}
          /\ req.pc = "worked" => effect # "none"
          /\ req.pc = "failed" => Routes!Answer(FALSE, "unknown")
          /\ req.pc = "worked" => Routes!Answer(Routes!Fence, "committed")
      BY <1>8 DEF RoutesInv, RoutesPhase, Routes!Written, Routes!AfterWrite
    <2>2. Routes!Fence \in BOOLEAN
      BY DEF Routes!Fence, RoutesInv, RoutesTypes
    <2> QED BY <1>0, <2>1, <2>2, RoutesAnswers
  <1>9. CASE Routes!FirstPostflight
    <2>1. /\ effect = "none" /\ UNCHANGED Routes!world /\ UNCHANGED <<packet, effect, called>>
          /\ req.pc = "ready" /\ req.kind \in {"provider", "refresh"}
          /\ Routes!Goto("posted") \/ Routes!Refuse
      BY <1>9 DEF RoutesInv, RoutesPhase, Routes!FirstPostflight
    <2>2. CASE Routes!Goto("posted")
      BY <1>0, <2>1, <2>2, RoutesGoes DEF Routes!Goto, RoutesPlaces
    <2>3. CASE Routes!Refuse
      BY <1>0, <1>a, <2>1, <2>3, RoutesAnswers DEF Routes!Refuse
    <2> QED BY <2>1, <2>2, <2>3
  <1>10. CASE Routes!Call
    <2>1. /\ UNCHANGED Routes!world /\ UNCHANGED packet /\ Routes!Goto("ran")
          /\ req.pc = "posted" /\ req.kind \in {"provider", "refresh"}
          /\ effect' = IF req.kind = "provider" THEN "call" ELSE "refresh"
          /\ called' = IF req.kind = "provider" THEN routesHead ELSE called
      BY <1>10 DEF RoutesInv, RoutesPhase, Routes!Call
    <2>2. called' \in 0..routesHead /\ (req.kind = "provider" => req.snap <= called')
          /\ effect' \in {"call", "refresh"}
      BY <1>0, <2>1
    <2> QED BY <1>0, <2>1, <2>2, RoutesGoes DEF Routes!Goto, RoutesPlaces
  <1>11. CASE Routes!Ran
    <2>1. PICK ok \in BOOLEAN : Routes!AfterCall(ok)
      BY <1>11 DEF Routes!Ran
    <2>2. /\ UNCHANGED Routes!world /\ UNCHANGED <<packet, effect, called>>
          /\ req.pc = "ran" /\ req.kind \in {"provider", "refresh"} /\ effect # "none"
          /\ req.kind = "provider" => req.snap <= called /\ called <= routesHead
      BY <1>11 DEF RoutesInv, RoutesPhase, Routes!Ran
    <2>3. Routes!Postflight \in BOOLEAN
      BY DEF Routes!Postflight, RoutesInv, RoutesTypes
    <2>4. CASE req.kind = "refresh"
      <3>1. Routes!Answer(Routes!Postflight, "committed")
        BY <2>1, <2>4 DEF Routes!AfterCall
      <3> QED BY <1>0, <2>2, <2>3, <2>4, <3>1, RoutesAnswers
    <2>5. CASE req.kind = "provider" /\ ~Routes!Postflight
      <3>1. Routes!Answer(FALSE, "unknown")
        BY <2>1, <2>5 DEF Routes!AfterCall
      <3> QED BY <1>0, <2>2, <2>5, <3>1, RoutesAnswers
    <2>6. CASE req.kind = "provider" /\ Routes!Postflight
      <3>1. Routes!Answer(ok, IF ok THEN "committed" ELSE "unknown")
        BY <2>1, <2>6 DEF Routes!AfterCall
      <3>2. called = req.snap
        BY <1>0, <2>2, <2>6 DEF Routes!Postflight
      <3> QED BY <1>0, <2>2, <2>6, <3>1, <3>2, RoutesAnswers
    <2> QED BY <2>2, <2>4, <2>5, <2>6
  <1> QED BY <1>1, <1>2, <1>3, <1>4, <1>5, <1>6, <1>7, <1>8, <1>9, <1>10, <1>11

\* The selection of a root, its last check, and the next request.
LEMMA RoutesEnds ==
    ASSUME RoutesInv, Routes!Begin \/ Routes!Last \/ Routes!Again
    PROVE  RoutesInv' /\ Routes!AnswerOfItsRevision
  <1>0. UNCHANGED <<routesHead, owner, strict, root, oldest, catalog, packet>>
    BY DEF Routes!Begin, Routes!Last, Routes!Again, Routes!world
  <1>1. CASE Routes!Begin
    <2>1. PICK k \in Routes!Kinds, p \in 0..routesHead :
            IF root THEN req' = [Routes!NoReq EXCEPT !.kind = k, !.pin = p, !.pc = "named"]
                         /\ UNCHANGED reply
            ELSE req' = [Routes!NoReq EXCEPT !.kind = k, !.pc = "final"]
                 /\ reply' = [Routes!NoReply EXCEPT !.sent = TRUE]
      BY <1>1 DEF Routes!Begin
    <2>2. req.pc = "idle" /\ UNCHANGED <<effect, called>>
      BY <1>1 DEF Routes!Begin
    <2>3. /\ req' \in RoutesReqs
          /\ req'.low = 0 /\ req'.snap = 0
          /\ \/ root /\ req'.pc = "named" /\ reply' = reply
             \/ /\ req'.pc = "final" /\ reply' \in RoutesReplies
                /\ reply'.sent /\ reply'.ok = FALSE /\ reply'.outcome = "none"
      <3>1. p \in 0..MaxHead /\ 0 \in 0..MaxHead /\ 0 \in 0..MaxOwner
        BY RoutesConstants DEF RoutesInv, RoutesTypes
      <3>2. CASE root
        <4>1. req' = [kind |-> k, pc |-> "named", pin |-> p, snap |-> 0, low |-> 0, owner |-> 0]
              /\ reply' = reply
          BY <2>1, <3>2 DEF Routes!NoReq
        <4> QED BY <3>1, <3>2, <4>1 DEF RoutesReqs, RoutesPlaces
      <3>3. CASE ~root
        <4>1. /\ req' = [Routes!NoReq EXCEPT !.kind = k, !.pc = "final"]
              /\ reply' = [Routes!NoReply EXCEPT !.sent = TRUE]
          BY <2>1, <3>3
        <4>2. req' = [kind |-> k, pc |-> "final", pin |-> 0, snap |-> 0, low |-> 0, owner |-> 0]
          BY <4>1 DEF Routes!NoReq
        <4>3. Routes!NoReply \in RoutesReplies
          BY DEF Routes!NoReply, RoutesReplies
        <4>4. reply' \in RoutesReplies /\ reply'.sent
          BY <4>1, <4>3 DEF RoutesReplies
        <4>5. reply'.ok = FALSE /\ reply'.outcome = "none"
          BY <4>1 DEF Routes!NoReply
        <4> QED BY <3>1, <3>3, <4>2, <4>4, <4>5 DEF RoutesReqs, RoutesPlaces
      <3> QED BY <3>2, <3>3
    <2>4. RoutesTypes'
      <3>1. reply' \in RoutesReplies
        BY <2>3 DEF RoutesInv, RoutesTypes
      <3> QED BY <1>0, <2>2, <2>3, <3>1 DEF RoutesInv, RoutesTypes
    <2>5. RoutesPhase' /\ Routes!AnswerOfItsRevision
      BY <1>0, <2>2, <2>3 DEF RoutesInv, RoutesTypes, RoutesReqs, RoutesReplies, RoutesPhase, Routes!AnswerOfItsRevision
    <2> QED BY <2>4, <2>5 DEF RoutesInv
  <1>2. CASE Routes!Last
    <2>1. /\ req.pc = "final" /\ UNCHANGED <<effect, called>>
          /\ req' = [req EXCEPT !.pc = "done"]
          /\ reply' = IF root THEN reply ELSE [reply EXCEPT !.ok = FALSE]
      BY <1>2 DEF Routes!Last, Routes!Replaced
    <2>2. /\ req' \in RoutesReqs
          /\ req'.low = req.low /\ req'.snap = req.snap /\ req'.pc = "done" /\ req'.kind = req.kind
          /\ reply' \in RoutesReplies
          /\ reply'.sent = reply.sent /\ reply'.outcome = reply.outcome /\ (reply'.ok => reply.ok)
      BY <2>1 DEF RoutesInv, RoutesTypes, RoutesReqs, RoutesReplies, RoutesPlaces
    <2>3. RoutesTypes'
      BY <1>0, <2>1, <2>2 DEF RoutesInv, RoutesTypes, RoutesReqs, RoutesReplies
    <2>4. RoutesPhase' /\ Routes!AnswerOfItsRevision
      BY <1>0, <2>1, <2>2 DEF RoutesInv, RoutesPhase, Routes!AnswerOfItsRevision
    <2> QED BY <2>3, <2>4 DEF RoutesInv
  <1>3. CASE Routes!Again
    <2>1. /\ req' = Routes!NoReq /\ effect' = "none" /\ reply' = Routes!NoReply /\ called' = 0
      BY <1>3 DEF Routes!Again
    <2>2. RoutesTypes'
      <3>1. req' \in RoutesReqs /\ reply' \in RoutesReplies /\ req'.snap = 0 /\ req'.low = 0
        BY <2>1, RoutesConstants
           DEF RoutesReqs, RoutesReplies, RoutesPlaces, Routes!NoReq, Routes!NoReply
      <3> QED BY <1>0, <2>1, <3>1 DEF RoutesInv, RoutesTypes
    <2>3. RoutesPhase' /\ Routes!AnswerOfItsRevision
      BY <2>1 DEF RoutesPhase, Routes!AnswerOfItsRevision, Routes!NoReq, Routes!NoReply
    <2> QED BY <2>2, <2>3 DEF RoutesInv
  <1> QED BY <1>1, <1>2, <1>3

LEMMA RoutesStep ==
    RoutesInv /\ [Routes!Next]_Routes!vars => RoutesInv' /\ [Routes!AnswerOfItsRevision]_Routes!vars
  <1> SUFFICES ASSUME RoutesInv, [Routes!Next]_Routes!vars
               PROVE  RoutesInv' /\ [Routes!AnswerOfItsRevision]_Routes!vars
    OBVIOUS
  <1>1. CASE UNCHANGED Routes!vars
    BY <1>1 DEF Routes!vars, RoutesInv, RoutesTypes, RoutesPhase
  <1>2. CASE Routes!Next
    BY <1>2, RoutesWorld, RoutesRequest, RoutesEnds DEF Routes!Next
  <1> QED BY <1>1, <1>2

LEMMA RoutesImplies ==
    RoutesInv => /\ Routes!TypeOK /\ Routes!PlainErrorMeansNothingDone
                 /\ Routes!CommittedMeansDone /\ Routes!ProviderBasisHeld
  <1> SUFFICES ASSUME RoutesInv
               PROVE  /\ Routes!TypeOK /\ Routes!PlainErrorMeansNothingDone
                      /\ Routes!CommittedMeansDone /\ Routes!ProviderBasisHeld
    OBVIOUS
  <1>1. Routes!TypeOK
    BY RoutesConstants DEF RoutesInv, RoutesTypes, RoutesReqs, RoutesReplies, RoutesPhase, RoutesPlaces, Routes!TypeOK
  <1>2. /\ Routes!PlainErrorMeansNothingDone /\ Routes!CommittedMeansDone
        /\ Routes!ProviderBasisHeld
    BY DEF RoutesInv, RoutesTypes, RoutesReqs, RoutesReplies, RoutesPhase, Routes!PlainErrorMeansNothingDone,
       Routes!CommittedMeansDone, Routes!ProviderBasisHeld
  <1> QED BY <1>1, <1>2

\* For any number of revisions and owners: an error without an outcome means that nothing
\* was done, "committed" that something was, and a provider's answer is shown only for
\* the revision its packet was of (http.rs, selected_mutation and its fences).
THEOREM OutcomesSafe == Spec => []OutcomesHonest
  <1> DEFINE Inv == part = "routes" => RoutesInv
  <1>1. Init => Inv
    BY RoutesInitOK DEF Init
  <1>2. Inv /\ [Next]_vars => Inv'
    <2>1. [Next]_vars => part' = part /\ (part = "routes" => [Routes!Next]_Routes!vars)
      BY DEF Next, vars, routesVars, Routes!vars
    <2> QED BY <2>1, RoutesStep
  <1>3. Inv => OutcomesHonest
    BY RoutesImplies DEF OutcomesHonest
  <1> QED BY <1>1, <1>2, <1>3, PTL DEF Spec

----------------------------------------------------------------------------
(* Reads of one checkout against takeovers and publications (EvidenceRead). *)

\* The session has written its incarnation and holds the flock.
SettledStages == {"assoc", "bound", "serve", "trans", "h", "att", "inc"}

\* A process against the flock, the lock file and the incarnations issued: a settled
\* session's incarnation is the newest one, and an association is of this session.
SessionFits(s, leads, f, i) ==
    /\ leads <=> s.stage \in Reads!Holding
    /\ s.stage \in SettledStages => s.inc = i /\ f = i
    /\ s.pending => s.via = "elect" /\ s.stage \in {"pend", "won", "trunc", "inc", "assoc", "bound"}
    /\ s.slot # Reads!NoPermit => /\ s.stage \in {"assoc", "bound", "serve", "h"} /\ s.via = "elect"
                                  /\ s.slot.pred = s.pred /\ s.slot.epoch = s.epoch

\* A read against the head: a strict snapshot is not newer than the head, and a restricted
\* one of the newest incarnation is the head until that incarnation marks it.
ReadFits(r, h, i) ==
    /\ r.pc \in {"latch", "file", "probe0", "held", "read1", "probe", "read2"} => ~r.pre
    /\ r.pc \in {"latch", "file", "probe0", "read1", "probe", "read2", "use", "done"} /\ ~r.pre =>
           1 <= r.marker /\ r.marker <= h.marker /\ r.rev <= h.rev
    /\ r.pc \in {"pre2", "preEnd"} => r.pre
    /\ r.pre => 1 <= r.own /\ r.own <= i
    /\ r.pre /\ r.pc \in {"use", "preEnd"} /\ r.own = i => h.rev = r.rev \/ h.marker = i

ReadsWorld ==
    /\ lock \in Procs \cup {Nothing} /\ probe \in Procs \cup Followers \cup {Nothing}
    /\ incs \in Nat /\ 1 <= incs /\ file \in {0, incs}
    /\ readsHead \in [rev : Nat, marker : Nat]
    /\ 1 <= readsHead.marker /\ readsHead.marker <= incs
    /\ hs \subseteq Nat

ReadsInv ==
    /\ ReadsWorld
    /\ st \in [Procs -> Reads!Stores] /\ rd \in [Procs -> Reads!Reads]
    /\ \A p \in Procs : SessionFits(st[p], lock = p, file, incs) /\ ReadFits(rd[p], readsHead, incs)

\* A process's session moves; whoever does not lead before it changes neither file nor head.
LEMMA SessionMoves ==
    ASSUME ReadsInv, NEW p \in Procs, NEW s \in Reads!Stores, st' = [st EXCEPT ![p] = s],
           ReadsWorld', lock' \in {lock, p, Nothing}, lock' # lock => lock \in {p, Nothing},
           incs <= incs', readsHead.marker <= readsHead'.marker, readsHead.rev <= readsHead'.rev,
           readsHead' # readsHead => readsHead'.marker = incs',
           <<file, incs>>' # <<file, incs>> => lock = p,
           SessionFits(s, lock' = p, file', incs'), rd' \in {rd, [rd EXCEPT ![p] = Reads!Idle]}
    PROVE  ReadsInv' /\ Reads!StrictAnswerCurrent /\ Reads!RestrictedAnswerOwn
  <1>0. Reads!Idle \in Reads!Reads
    BY DEF Reads!Idle, Reads!Reads, Reads!ReadPCs
  <1>1. st' \in [Procs -> Reads!Stores] /\ rd' \in [Procs -> Reads!Reads]
    BY <1>0 DEF ReadsInv
  <1>2. ASSUME NEW q \in Procs
        PROVE  SessionFits(st'[q], lock' = q, file', incs')
    <2>1. CASE q = p
      BY <2>1 DEF ReadsInv
    <2>2. CASE q # p
      <3>1. st'[q] = st[q] /\ SessionFits(st[q], lock = q, file, incs)
        BY <2>2 DEF ReadsInv
      <3>2. (lock' = q) = (lock = q)
        BY <2>2, ReadsConstants
      <3>3. lock = q => file' = file /\ incs' = incs
        BY <2>2
      <3>4. st[q].stage \in SettledStages => st[q].stage \in Reads!Holding
        BY DEF SettledStages, Reads!Holding, Reads!Stages
      <3> QED BY <3>1, <3>2, <3>3, <3>4 DEF SessionFits
    <2> QED BY <2>1, <2>2
  <1>3. ASSUME NEW q \in Procs
        PROVE  ReadFits(rd'[q], readsHead', incs')
    <2>1. /\ ReadFits(rd[q], readsHead, incs) /\ rd[q] \in Reads!Reads
          /\ rd'[q] \in {rd[q], Reads!Idle}
      BY DEF ReadsInv
    <2>2. /\ readsHead.marker \in Nat /\ readsHead.rev \in Nat /\ readsHead'.marker \in Nat
          /\ readsHead'.rev \in Nat /\ incs \in Nat /\ incs' \in Nat
          /\ rd[q].own \in Nat /\ rd[q].rev \in Nat /\ rd[q].marker \in Nat
      BY <2>1 DEF ReadsInv, ReadsWorld, Reads!Reads
    <2>3. ReadFits(Reads!Idle, readsHead', incs')
      BY DEF ReadFits, Reads!Idle
    <2>4. ReadFits(rd[q], readsHead', incs')
      BY <2>1, <2>2 DEF ReadFits
    <2> QED BY <2>1, <2>3, <2>4
  <1>4. ASSUME NEW q \in Procs
        PROVE  ~Reads!Delivers(q)
    <2>1. rd'[q] \in {rd[q], Reads!Idle}
      BY DEF ReadsInv
    <2> QED BY <2>1 DEF Reads!Delivers, Reads!Idle
  <1> QED BY <1>1, <1>2, <1>3, <1>4 DEF ReadsInv, Reads!StrictAnswerCurrent,
         Reads!RestrictedAnswerOwn

\* The session of p as a leader's action finds it.
LEMMA SessionFound ==
    ASSUME ReadsInv, NEW p \in Procs
    PROVE  /\ st[p] \in Reads!Stores /\ SessionFits(st[p], lock = p, file, incs)
           /\ st \in [Procs -> Reads!Stores] /\ p # Nothing
           /\ lock \in Procs \cup {Nothing} /\ incs \in Nat /\ 1 <= incs /\ file \in {0, incs}
           /\ readsHead.marker \in Nat /\ readsHead.rev \in Nat
           /\ readsHead.marker <= incs /\ 1 <= readsHead.marker
  BY ReadsConstants DEF ReadsInv, ReadsWorld

\* A session that is given up.
LEMMA DroppedFits ==
    ASSUME NEW s \in Reads!Stores, NEW f, NEW i
    PROVE  Reads!Dropped(s) \in Reads!Stores /\ SessionFits(Reads!Dropped(s), FALSE, f, i)
  <1>1. Reads!NoPermit \in Reads!Permits
    BY DEF Reads!NoPermit, Reads!Permits
  <1>2. Reads!Closed(s) \in Reads!Stores
    BY DEF Reads!Closed, Reads!Stores
  <1>3. Reads!Dropped(s) \in Reads!Stores
    BY <1>1, <1>2 DEF Reads!Dropped, Reads!Stores, Reads!Stages
  <1>4. /\ Reads!Dropped(s).stage = "none" /\ Reads!Dropped(s).slot = Reads!NoPermit
        /\ Reads!Dropped(s).pending = FALSE
    BY DEF Reads!Dropped, Reads!Closed, Reads!Stores
  <1> QED BY <1>3, <1>4 DEF SessionFits, SettledStages, Reads!Holding

\* A request for the flock opens, wins it or finds it taken.
LEMMA ReadsElection ==
    ASSUME ReadsInv, NEW p \in Procs,
           Reads!OpenValidation(p) \/ Reads!OpenReattach(p) \/ Reads!TakeLock(p) \/ Reads!LockBusy(p)
    PROVE  ReadsInv' /\ Reads!StrictAnswerCurrent /\ Reads!RestrictedAnswerOwn
  <1>0. st[p] \in Reads!Stores /\ SessionFits(st[p], lock = p, file, incs)
    BY SessionFound
  <1>1. PICK s \in Reads!Stores :
           /\ st' = [st EXCEPT ![p] = s] /\ lock' \in {lock, p} /\ (lock' # lock => lock = Nothing)
           /\ SessionFits(s, lock' = p, file, incs)
    <2>1. CASE Reads!OpenValidation(p)
      <3> DEFINE s == [st[p] EXCEPT !.stage = "pend", !.via = "elect", !.pending = TRUE,
                                    !.assoc = FALSE]
      <3>1. s \in Reads!Stores /\ st' = [st EXCEPT ![p] = s]
        BY <1>0, <2>1 DEF Reads!OpenValidation, Reads!Stores, Reads!Stages
      <3>2. s.stage = "pend" /\ s.via = "elect" /\ s.slot = st[p].slot
        BY <1>0 DEF Reads!Stores
      <3>3. SessionFits(s, lock = p, file, incs)
        BY <1>0, <2>1, <3>2 DEF SessionFits, SettledStages, Reads!Holding, Reads!OpenValidation
      <3> QED BY <2>1, <3>1, <3>3 DEF Reads!OpenValidation
    <2>2. CASE Reads!OpenReattach(p)
      <3> DEFINE s == [st[p] EXCEPT !.stage = "pend", !.via = "reattach"]
      <3>1. s \in Reads!Stores /\ st' = [st EXCEPT ![p] = s]
        BY <1>0, <2>2 DEF Reads!OpenReattach, Reads!Stores, Reads!Stages
      <3>2. s.stage = "pend" /\ s.pending = st[p].pending /\ s.slot = st[p].slot
        BY <1>0 DEF Reads!Stores
      <3>3. SessionFits(s, lock = p, file, incs)
        BY <1>0, <2>2, <3>2 DEF SessionFits, SettledStages, Reads!Holding, Reads!OpenReattach
      <3> QED BY <2>2, <3>1, <3>3 DEF Reads!OpenReattach
    <2>3. CASE Reads!TakeLock(p)
      <3> DEFINE s == [st[p] EXCEPT !.stage = "won", !.pred = file]
      <3>0. file \in Nat
        BY SessionFound
      <3>1. s \in Reads!Stores /\ st' = [st EXCEPT ![p] = s]
        BY <1>0, <2>3, <3>0 DEF Reads!TakeLock, Reads!Stores, Reads!Stages
      <3>2. s.stage = "won" /\ s.pending = st[p].pending /\ s.slot = st[p].slot /\ s.via = st[p].via
        BY <1>0 DEF Reads!Stores
      <3>3. SessionFits(s, lock' = p, file, incs)
        BY <1>0, <2>3, <3>2 DEF SessionFits, SettledStages, Reads!Holding, Reads!Stages, Reads!TakeLock
      <3> QED BY <2>3, <3>1, <3>3 DEF Reads!TakeLock, Reads!FlockFree
    <2>4. CASE Reads!LockBusy(p)
      <3> DEFINE s == [Reads!Closed(st[p]) EXCEPT !.stage = "none"]
      <3>1. s \in Reads!Stores /\ st' = [st EXCEPT ![p] = s]
        BY <1>0, <2>4 DEF Reads!LockBusy, Reads!Closed, Reads!Stores, Reads!Stages
      <3>2. s.stage = "none" /\ s.pending = FALSE /\ s.slot = st[p].slot
        BY <1>0 DEF Reads!Stores, Reads!Closed
      <3>3. SessionFits(s, lock = p, file, incs)
        BY <1>0, <2>4, <3>2 DEF SessionFits, SettledStages, Reads!Holding, Reads!LockBusy
      <3> QED BY <2>4, <3>1, <3>3 DEF Reads!LockBusy
    <2> QED BY <2>1, <2>2, <2>3, <2>4
  <1>2. UNCHANGED <<probe, file, incs, readsHead, hs, rd>>
    BY DEF Reads!OpenValidation, Reads!OpenReattach, Reads!TakeLock, Reads!LockBusy
  <1>3. ReadsWorld'
    BY <1>1, <1>2 DEF ReadsInv, ReadsWorld
  <1>4. /\ lock' \in {lock, p, Nothing} /\ (lock' # lock => lock \in {p, Nothing})
        /\ incs <= incs' /\ readsHead.marker <= readsHead'.marker /\ readsHead.rev <= readsHead'.rev
    BY <1>1, <1>2, SessionFound
  <1> QED BY <1>1, <1>2, <1>3, <1>4, SessionMoves

\* The holder rewrites the lock file with its incarnation.
LEMMA ReadsRewrite ==
    ASSUME ReadsInv, NEW p \in Procs, Reads!Truncate(p) \/ Reads!WriteInc(p)
    PROVE  ReadsInv' /\ Reads!StrictAnswerCurrent /\ Reads!RestrictedAnswerOwn
  <1>0. st[p] \in Reads!Stores /\ SessionFits(st[p], lock = p, file, incs) /\ lock = p
    BY SessionFound DEF SessionFits, Reads!Holding, Reads!Stages, Reads!Truncate, Reads!WriteInc
  <1>1. PICK s \in Reads!Stores :
           /\ st' = [st EXCEPT ![p] = s] /\ SessionFits(s, TRUE, file', incs')
           /\ incs' \in {incs, incs + 1} /\ file' \in {0, incs'}
    <2>1. CASE Reads!Truncate(p)
      <3> DEFINE s == [st[p] EXCEPT !.stage = "trunc"]
      <3>1. s \in Reads!Stores /\ st' = [st EXCEPT ![p] = s]
        BY <1>0, <2>1 DEF Reads!Truncate, Reads!Stores, Reads!Stages
      <3>2. s.stage = "trunc" /\ s.pending = st[p].pending /\ s.via = st[p].via /\ s.slot = st[p].slot
        BY <1>0 DEF Reads!Stores
      <3>3. SessionFits(s, TRUE, file', incs')
        BY <1>0, <2>1, <3>2 DEF SessionFits, SettledStages, Reads!Holding, Reads!Stages, Reads!Truncate
      <3> QED BY <2>1, <3>1, <3>3 DEF Reads!Truncate
    <2>2. CASE Reads!WriteInc(p)
      <3> DEFINE s == [st[p] EXCEPT !.stage = "inc", !.inc = incs + 1]
      <3>0. incs + 1 \in Nat
        BY SessionFound
      <3>1. s \in Reads!Stores /\ st' = [st EXCEPT ![p] = s]
        BY <1>0, <2>2, <3>0 DEF Reads!WriteInc, Reads!Stores, Reads!Stages
      <3>2. /\ s.stage = "inc" /\ s.pending = st[p].pending /\ s.via = st[p].via
            /\ s.slot = st[p].slot /\ s.inc = incs + 1
        BY <1>0 DEF Reads!Stores
      <3>3. SessionFits(s, TRUE, file', incs')
        BY <1>0, <2>2, <3>2 DEF SessionFits, SettledStages, Reads!Holding, Reads!Stages, Reads!WriteInc
      <3> QED BY <2>2, <3>1, <3>3 DEF Reads!WriteInc
    <2> QED BY <2>1, <2>2
  <1>2. UNCHANGED <<lock, probe, readsHead, hs, rd>>
    BY DEF Reads!Truncate, Reads!WriteInc
  <1>3. ReadsWorld'
    BY <1>1, <1>2 DEF ReadsInv, ReadsWorld
  <1>4. incs <= incs' /\ readsHead.marker <= readsHead'.marker /\ readsHead.rev <= readsHead'.rev
    BY <1>1, <1>2, SessionFound
  <1>5. SessionFits(s, lock' = p, file', incs')
    BY <1>0, <1>1, <1>2
  <1> QED BY <1>0, <1>1, <1>2, <1>3, <1>4, <1>5, SessionMoves

\* The election's later steps, which change neither the file nor the head.
LEMMA ReadsSettle ==
    ASSUME ReadsInv, NEW p \in Procs,
           \/ Reads!Associate(p) \/ Reads!Reattach(p) \/ Reads!Owned(p)
           \/ Reads!ElectionFails(p) \/ Reads!ReattachRetries(p) \/ Reads!Attest(p)
    PROVE  ReadsInv' /\ Reads!StrictAnswerCurrent /\ Reads!RestrictedAnswerOwn
  <1>0. /\ st[p] \in Reads!Stores /\ SessionFits(st[p], lock = p, file, incs) /\ lock = p
        /\ Reads!NoPermit \in Reads!Permits
    <2>1. st[p].stage \in Reads!Holding
      BY DEF Reads!Holding, Reads!Stages, Reads!Associate, Reads!Reattach, Reads!Owned,
             Reads!ElectionFails, Reads!ReattachRetries, Reads!Attest
    <2>2. Reads!NoPermit \in Reads!Permits
      BY DEF Reads!NoPermit, Reads!Permits
    <2> QED BY <2>1, <2>2, SessionFound DEF SessionFits
  <1>1. PICK s \in Reads!Stores :
           /\ st' = [st EXCEPT ![p] = s] /\ SessionFits(s, lock' = p, file, incs)
           /\ lock' \in {p, Nothing}
    <2>1. CASE Reads!Associate(p)
      <3> DEFINE match == /\ st[p].permit # Reads!NoPermit
                          /\ st[p].permit.pred = st[p].pred
                          /\ st[p].permit.epoch = st[p].epoch
                 slot == IF match THEN st[p].permit ELSE st[p].slot
                 s == [st[p] EXCEPT !.stage = "assoc", !.latch = TRUE, !.slot = slot,
                                    !.assoc = match]
      <3>1. slot \in Reads!Permits /\ match \in BOOLEAN
        BY <1>0 DEF Reads!Stores
      <3>2. st' = [st EXCEPT ![p] = s]
        BY <2>1, Zenon DEF Reads!Associate
      <3>3. s \in Reads!Stores
        <4> HIDE DEF slot, match
        <4> QED BY <1>0, <3>1 DEF Reads!Stores, Reads!Stages
      <3>4. /\ s.stage = "assoc" /\ s.pending = st[p].pending /\ s.via = st[p].via /\ s.slot = slot
            /\ s.inc = st[p].inc /\ s.pred = st[p].pred /\ s.epoch = st[p].epoch
        <4> HIDE DEF slot, match
        <4> QED BY <1>0 DEF Reads!Stores
      <3>5. slot # Reads!NoPermit => slot.pred = st[p].pred /\ slot.epoch = st[p].epoch
        BY <1>0, <2>1 DEF SessionFits, Reads!Associate
      <3>6. SessionFits(s, lock' = p, file, incs)
        <4> HIDE DEF slot, match, s
        <4> QED BY <1>0, <2>1, <3>4, <3>5 DEF SessionFits, SettledStages, Reads!Holding, Reads!Stages,
               Reads!Associate
      <3> QED
        <4> HIDE DEF s
        <4> QED BY <1>0, <2>1, <3>2, <3>3, <3>6 DEF Reads!Associate
    <2>2. CASE Reads!Reattach(p) /\ st[p].pred = st[p].idle.pred
      <3> DEFINE s == [st[p] EXCEPT !.stage = "trans", !.latch = TRUE]
      <3>1. s \in Reads!Stores /\ st' = [st EXCEPT ![p] = s]
        BY <1>0, <2>2 DEF Reads!Reattach, Reads!Stores, Reads!Stages
      <3>2. /\ s.stage = "trans" /\ s.pending = st[p].pending /\ s.via = st[p].via
            /\ s.slot = st[p].slot /\ s.inc = st[p].inc
        BY <1>0 DEF Reads!Stores
      <3>3. SessionFits(s, lock' = p, file, incs)
        BY <1>0, <2>2, <3>2 DEF SessionFits, SettledStages, Reads!Holding, Reads!Stages, Reads!Reattach
      <3> QED BY <1>0, <2>2, <3>1, <3>3 DEF Reads!Reattach
    <2>3. CASE Reads!ElectionFails(p) \/ (Reads!Reattach(p) /\ st[p].pred # st[p].idle.pred)
      <3>1. st' = [st EXCEPT ![p] = Reads!Dropped(st[p])] /\ lock' = Nothing
        BY <2>3, Zenon DEF Reads!ElectionFails, Reads!Reattach
      <3>2. (lock' = p) = FALSE
        BY <3>1, ReadsConstants
      <3> QED BY <1>0, <3>1, <3>2, DroppedFits
    <2>4. CASE Reads!Owned(p)
      <3> DEFINE s == [Reads!Closed(st[p]) EXCEPT !.stage = "serve", !.latch = FALSE]
      <3>1. s \in Reads!Stores /\ st' = [st EXCEPT ![p] = s]
        BY <1>0, <2>4 DEF Reads!Owned, Reads!Closed, Reads!Stores, Reads!Stages
      <3>2. /\ s.stage = "serve" /\ s.pending = FALSE /\ s.via = st[p].via /\ s.pred = st[p].pred
            /\ s.slot = st[p].slot /\ s.inc = st[p].inc /\ s.epoch = st[p].epoch
        BY <1>0 DEF Reads!Stores, Reads!Closed
      <3>3. SessionFits(s, lock' = p, file, incs)
        BY <1>0, <2>4, <3>2 DEF SessionFits, SettledStages, Reads!Holding, Reads!Stages, Reads!Owned
      <3> QED BY <1>0, <2>4, <3>1, <3>3 DEF Reads!Owned
    <2>5. CASE Reads!ReattachRetries(p)
      <3> DEFINE s == [st[p] EXCEPT !.stage = "trans"]
      <3>1. s \in Reads!Stores /\ st' = [st EXCEPT ![p] = s]
        BY <1>0, <2>5 DEF Reads!ReattachRetries, Reads!Stores, Reads!Stages
      <3>2. /\ s.stage = "trans" /\ s.pending = st[p].pending /\ s.via = st[p].via
            /\ s.slot = st[p].slot /\ s.inc = st[p].inc
        BY <1>0 DEF Reads!Stores
      <3>3. SessionFits(s, lock' = p, file, incs)
        BY <1>0, <2>5, <3>2 DEF SessionFits, SettledStages, Reads!Holding, Reads!Stages,
           Reads!ReattachRetries
      <3> QED BY <1>0, <2>5, <3>1, <3>3 DEF Reads!ReattachRetries
    <2>6. CASE Reads!Attest(p)
      <3> DEFINE s == [st[p] EXCEPT !.stage = "att", !.slot = Reads!NoPermit, !.assoc = FALSE,
                                    !.idle = Reads!NoPermit]
      <3>1. s \in Reads!Stores /\ st' = [st EXCEPT ![p] = s]
        BY <1>0, <2>6 DEF Reads!Attest, Reads!Stores, Reads!Stages
      <3>2. /\ s.stage = "att" /\ s.pending = st[p].pending /\ s.via = st[p].via
            /\ s.slot = Reads!NoPermit /\ s.inc = st[p].inc
        BY <1>0 DEF Reads!Stores
      <3>3. SessionFits(s, lock' = p, file, incs)
        BY <1>0, <2>6, <3>2 DEF SessionFits, SettledStages, Reads!Holding, Reads!Stages, Reads!Attest
      <3> QED BY <1>0, <2>6, <3>1, <3>3 DEF Reads!Attest
    <2> QED BY <2>1, <2>2, <2>3, <2>4, <2>5, <2>6
  <1>2. UNCHANGED <<probe, file, incs, readsHead, hs, rd>>
    BY DEF Reads!Associate, Reads!Reattach, Reads!Owned, Reads!ElectionFails,
           Reads!ReattachRetries, Reads!Attest
  <1>3. ReadsWorld'
    BY <1>1, <1>2 DEF ReadsInv, ReadsWorld
  <1>4. incs <= incs' /\ readsHead.marker <= readsHead'.marker /\ readsHead.rev <= readsHead'.rev
    BY <1>2, SessionFound
  <1>5. SessionFits(s, lock' = p, file', incs')
    BY <1>1, <1>2
  <1> QED BY <1>0, <1>1, <1>2, <1>3, <1>4, <1>5, SessionMoves

\* The head is rebound, reconciled or published by the newest incarnation.
LEMMA ReadsMark ==
    ASSUME ReadsInv, NEW p \in Procs, Reads!Rebind(p) \/ Reads!CommitH(p) \/ Reads!Publish(p)
    PROVE  ReadsInv' /\ Reads!StrictAnswerCurrent /\ Reads!RestrictedAnswerOwn
  <1>0. /\ st[p] \in Reads!Stores /\ SessionFits(st[p], lock = p, file, incs) /\ lock = p
        /\ st[p].inc = incs /\ st[p].stage \in {"assoc", "serve", "trans", "att"}
    <2>1. st[p].stage \in Reads!Holding /\ st[p].stage \in SettledStages
          /\ st[p].stage \in {"assoc", "serve", "trans", "att"}
      BY DEF Reads!Holding, Reads!Stages, SettledStages, Reads!Rebind, Reads!CommitH, Reads!Publish
    <2> QED BY <2>1, SessionFound DEF SessionFits
  <1>1. PICK s \in Reads!Stores :
           st' = [st EXCEPT ![p] = s] /\ SessionFits(s, TRUE, file, incs)
    <2>1. CASE Reads!Rebind(p)
      <3> DEFINE s == [st[p] EXCEPT !.stage = "bound"]
      <3>1. s \in Reads!Stores /\ st' = [st EXCEPT ![p] = s]
        BY <1>0, <2>1 DEF Reads!Rebind, Reads!Stores, Reads!Stages
      <3>2. /\ s.stage = "bound" /\ s.pending = st[p].pending /\ s.via = st[p].via
            /\ s.slot = st[p].slot /\ s.inc = st[p].inc /\ s.pred = st[p].pred
            /\ s.epoch = st[p].epoch
        BY <1>0 DEF Reads!Stores
      <3>3. SessionFits(s, TRUE, file, incs)
        BY <1>0, <2>1, <3>2 DEF SessionFits, SettledStages, Reads!Holding, Reads!Stages, Reads!Rebind
      <3> QED BY <3>1, <3>3
    <2>2. CASE Reads!CommitH(p)
      <3> DEFINE s == [st[p] EXCEPT !.stage = "h", !.latch = FALSE]
      <3>1. s \in Reads!Stores /\ st' = [st EXCEPT ![p] = s]
        BY <1>0, <2>2 DEF Reads!CommitH, Reads!Stores, Reads!Stages
      <3>2. /\ s.stage = "h" /\ s.pending = st[p].pending /\ s.via = st[p].via
            /\ s.slot = st[p].slot /\ s.inc = st[p].inc /\ s.pred = st[p].pred
            /\ s.epoch = st[p].epoch
        BY <1>0 DEF Reads!Stores
      <3>3. SessionFits(s, TRUE, file, incs)
        BY <1>0, <2>2, <3>2 DEF SessionFits, SettledStages, Reads!Holding, Reads!Stages, Reads!CommitH
      <3> QED BY <3>1, <3>3
    <2>3. CASE Reads!Publish(p)
      <3>1. st' = [st EXCEPT ![p] = st[p]]
        BY <2>3, SessionFound DEF Reads!Publish
      <3> QED BY <1>0, <3>1
    <2> QED BY <2>1, <2>2, <2>3
  <1>2. /\ UNCHANGED <<lock, probe, file, incs, rd>> /\ hs' \in {hs, hs \cup {incs}}
        /\ readsHead' \in [rev : {readsHead.rev, readsHead.rev + 1}, marker : {incs}]
    <2>1. readsHead \in [rev : Nat, marker : Nat]
      BY DEF ReadsInv, ReadsWorld
    <2> QED BY <1>0, <2>1 DEF Reads!Rebind, Reads!CommitH, Reads!Publish
  <1>3. ReadsWorld'
    BY <1>1, <1>2 DEF ReadsInv, ReadsWorld
  <1>4. /\ incs <= incs' /\ readsHead.marker <= readsHead'.marker /\ readsHead.rev <= readsHead'.rev
        /\ readsHead'.marker = incs'
    BY <1>2, SessionFound
  <1>5. SessionFits(s, lock' = p, file', incs')
    BY <1>0, <1>1, <1>2
  <1> QED BY <1>0, <1>1, <1>2, <1>3, <1>4, <1>5, SessionMoves

\* An idle release, and the death of a process with its reads.
LEMMA ReadsLeave ==
    ASSUME ReadsInv, NEW p \in Procs, Reads!Release(p) \/ Reads!Crash(p)
    PROVE  ReadsInv' /\ Reads!StrictAnswerCurrent /\ Reads!RestrictedAnswerOwn
  <1>0. /\ st[p] \in Reads!Stores /\ SessionFits(st[p], lock = p, file, incs) /\ lock = p
        /\ Reads!Fresh \in Reads!Stores
    <2>1. st[p].stage \in Reads!Holding
      BY DEF Reads!Holding, Reads!Stages, Reads!Release, Reads!Crash
    <2>2. Reads!NoPermit \in Reads!Permits
      BY DEF Reads!NoPermit, Reads!Permits
    <2>3. Reads!Fresh \in Reads!Stores
      BY <2>2 DEF Reads!Fresh, Reads!Stores, Reads!Stages
    <2> QED BY <2>1, <2>3, SessionFound DEF SessionFits
  <1>1. PICK s \in Reads!Stores :
           /\ st' = [st EXCEPT ![p] = s] /\ SessionFits(s, FALSE, file, incs)
    <2>1. CASE Reads!Release(p)
      <3> DEFINE e == st[p].epoch + 1
                 permit == IF readsHead.marker = st[p].inc
                           THEN [rev |-> readsHead.rev, pred |-> readsHead.marker, epoch |-> e]
                           ELSE Reads!NoPermit
                 s == [Reads!Fresh EXCEPT !.epoch = e, !.idle = permit]
      <3>1. e \in Nat /\ permit \in Reads!Permits
        BY <1>0, SessionFound DEF Reads!Stores, Reads!Permits, Reads!NoPermit
      <3>2. st' = [st EXCEPT ![p] = s]
        BY <2>1, Zenon DEF Reads!Release
      <3>3. s \in Reads!Stores
        <4> HIDE DEF e, permit
        <4> QED BY <1>0, <3>1 DEF Reads!Stores
      <3>4. s.stage = "none" /\ s.pending = FALSE /\ s.slot = Reads!NoPermit
        <4> HIDE DEF e, permit
        <4> QED BY DEF Reads!Fresh
      <3>5. SessionFits(s, FALSE, file, incs)
        <4> HIDE DEF s
        <4> QED BY <3>4 DEF SessionFits, SettledStages, Reads!Holding
      <3> HIDE DEF s
      <3> QED BY <3>2, <3>3, <3>5
    <2>2. CASE Reads!Crash(p)
      <3>1. SessionFits(Reads!Fresh, FALSE, file, incs)
        BY DEF SessionFits, SettledStages, Reads!Holding, Reads!Fresh
      <3> QED BY <1>0, <2>2, <3>1 DEF Reads!Crash
    <2> QED BY <2>1, <2>2
  <1>2. /\ UNCHANGED <<file, incs, readsHead, hs>> /\ lock' = Nothing /\ probe' \in {probe, Nothing}
        /\ rd' \in {rd, [rd EXCEPT ![p] = Reads!Idle]}
    BY DEF Reads!Release, Reads!Crash
  <1>3. ReadsWorld'
    BY <1>1, <1>2 DEF ReadsInv, ReadsWorld
  <1>4. incs <= incs' /\ readsHead.marker <= readsHead'.marker /\ readsHead.rev <= readsHead'.rev
    BY <1>2, SessionFound
  <1>5. (lock' = p) = FALSE
    BY <1>2, ReadsConstants
  <1>6. SessionFits(s, lock' = p, file', incs')
    BY <1>1, <1>2, <1>5
  <1> QED BY <1>0, <1>1, <1>2, <1>3, <1>4, <1>6, SessionMoves

\* A read moves; an answer is delivered as its fence allows.
LEMMA ReadMoves ==
    ASSUME ReadsInv, NEW p \in Procs, NEW r \in Reads!Reads, rd' = [rd EXCEPT ![p] = r],
           ReadFits(r, readsHead, incs), probe' \in {probe, p, Nothing},
           UNCHANGED <<lock, file, incs, readsHead, hs>>,
           st' \in [Procs -> Reads!Stores],
           \A q \in Procs : SessionFits(st'[q], lock = q, file, incs),
           rd[p].pc # "done" /\ r.pc = "done" =>
               IF rd[p].pre THEN lock = p /\ (readsHead.rev = rd[p].rev \/ readsHead.marker = st[p].inc)
                            ELSE readsHead.marker = rd[p].marker /\ rd[p].rev <= readsHead.rev
    PROVE  ReadsInv' /\ Reads!StrictAnswerCurrent /\ Reads!RestrictedAnswerOwn
  <1>1. ReadsWorld'
    BY DEF ReadsInv, ReadsWorld
  <1>2. rd' \in [Procs -> Reads!Reads] /\ rd \in [Procs -> Reads!Reads]
    BY DEF ReadsInv
  <1>3. \A q \in Procs : rd'[q] = IF q = p THEN r ELSE rd[q]
    BY <1>2
  <1>4. ReadsInv'
    BY <1>1, <1>2, <1>3 DEF ReadsInv
  <1>5. ASSUME NEW q \in Procs, Reads!Delivers(q)
        PROVE  q = p /\ rd[p].pc # "done" /\ r.pc = "done"
    BY <1>3, <1>5 DEF Reads!Delivers
  <1>6. Reads!StrictAnswerCurrent
    BY <1>5 DEF Reads!StrictAnswerCurrent
  <1>7. Reads!RestrictedAnswerOwn
    BY <1>5 DEF Reads!RestrictedAnswerOwn
  <1> QED BY <1>4, <1>6, <1>7

\* The records a read goes back to: nothing, a refusal, a new strict snapshot.
LEMMA ReadRestarts ==
    ASSUME ReadsInv
    PROVE  /\ Reads!Idle \in Reads!Reads /\ ReadFits(Reads!Idle, readsHead, incs)
           /\ [Reads!Idle EXCEPT !.pc = "refused"] \in Reads!Reads
           /\ ReadFits([Reads!Idle EXCEPT !.pc = "refused"], readsHead, incs)
           /\ \A b \in BOOLEAN : /\ Reads!Strict(b) \in Reads!Reads
                                 /\ ReadFits(Reads!Strict(b), readsHead, incs)
           /\ \A b \in BOOLEAN : Reads!Strict(b).pc = "latch"
  <1>0. /\ readsHead.rev \in Nat /\ readsHead.marker \in Nat /\ 1 <= readsHead.marker
    BY DEF ReadsInv, ReadsWorld
  <1>1. Reads!Idle \in Reads!Reads
    BY DEF Reads!Idle, Reads!Reads, Reads!ReadPCs
  <1>2. [Reads!Idle EXCEPT !.pc = "refused"] \in Reads!Reads
    BY <1>1 DEF Reads!Reads, Reads!ReadPCs
  <1>3. ASSUME NEW b \in BOOLEAN
        PROVE  Reads!Strict(b) \in Reads!Reads
    BY <1>0, <1>1 DEF Reads!Strict, Reads!Reads, Reads!ReadPCs
  <1>4. /\ ReadFits(Reads!Idle, readsHead, incs)
        /\ ReadFits([Reads!Idle EXCEPT !.pc = "refused"], readsHead, incs)
    BY DEF ReadFits, Reads!Idle
  <1>5. ASSUME NEW b \in BOOLEAN
        PROVE  ReadFits(Reads!Strict(b), readsHead, incs) /\ Reads!Strict(b).pc = "latch"
    <2>1. LET r == Reads!Strict(b)
          IN  /\ r.pc = "latch" /\ ~r.pre /\ r.rev = readsHead.rev
              /\ r.marker = readsHead.marker
      BY DEF Reads!Strict, Reads!Idle
    <2> QED BY <1>0, <2>1 DEF ReadFits
  <1> QED BY <1>1, <1>2, <1>3, <1>4, <1>5

\* A step of a read that keeps its snapshot.
LEMMA ReadKeeps ==
    ASSUME ReadsInv, NEW p \in Procs, NEW r,
           r.pre = rd[p].pre, r.rev = rd[p].rev, r.marker = rd[p].marker, r.own = rd[p].own,
           r.pc \in {"latch", "file", "probe0", "held", "read1", "probe", "read2"} => ~rd[p].pre,
           r.pc \in {"pre2", "preEnd"} => rd[p].pre,
           r.pc \in {"latch", "file", "probe0", "read1", "probe", "read2", "use", "done"} /\ ~rd[p].pre =>
               rd[p].pc \in {"latch", "file", "probe0", "read1", "probe", "read2", "use", "done"},
           rd[p].pre /\ r.pc \in {"use", "preEnd"} => rd[p].pc \in {"use", "preEnd"}
    PROVE  ReadFits(r, readsHead, incs)
  <1>1. ReadFits(rd[p], readsHead, incs)
    BY DEF ReadsInv
  <1> QED BY <1>1 DEF ReadFits

\* The steps of a read that read nothing of the session but its latch.
LEMMA ReadsFollow ==
    ASSUME ReadsInv, NEW p \in Procs,
           \/ Reads!BeginRead(p) \/ Reads!CheckLatch(p) \/ Reads!ReadFile(p) \/ Reads!Probe(p)
           \/ Reads!ReleaseProbe(p) \/ Reads!ReadBefore(p) \/ Reads!Assemble(p)
           \/ Reads!Consider(p) \/ Reads!Wake(p) \/ Reads!Woken(p)
    PROVE  ReadsInv' /\ Reads!StrictAnswerCurrent /\ Reads!RestrictedAnswerOwn
  <1>0. /\ rd[p] \in Reads!Reads /\ ReadFits(rd[p], readsHead, incs) /\ file \in Nat
        /\ st[p].epoch \in Nat
        /\ Reads!Refused(p) \in {Reads!Idle, [Reads!Idle EXCEPT !.pc = "refused"]}
        /\ Reads!Idle.pc = "idle" /\ [Reads!Idle EXCEPT !.pc = "refused"].pc = "refused"
    BY SessionFound DEF ReadsInv, Reads!Stores, Reads!Refused, Reads!Idle
  <1>1. PICK r \in Reads!Reads : /\ rd' = [rd EXCEPT ![p] = r] /\ ReadFits(r, readsHead, incs)
                                 /\ r.pc # "done"
    <2>1. CASE Reads!BeginRead(p)
      <3>1. CASE st[p].stage = "trans"
        <4> DEFINE r == [Reads!Idle EXCEPT !.pc = "pre1", !.epoch = st[p].epoch]
        <4>1. r \in Reads!Reads
          BY <1>0, ReadRestarts DEF Reads!Reads, Reads!ReadPCs
        <4>2. r.pc = "pre1" /\ r.pre = FALSE
          BY DEF Reads!Idle
        <4>3. rd' = [rd EXCEPT ![p] = r]
          BY <2>1, <3>1 DEF Reads!BeginRead
        <4> HIDE DEF r
        <4> QED BY <4>1, <4>2, <4>3 DEF ReadFits
      <3>2. CASE st[p].stage # "trans"
        BY <2>1, <3>2, ReadRestarts DEF Reads!BeginRead
      <3> QED BY <3>1, <3>2
    <2>2. CASE Reads!CheckLatch(p)
      <3> DEFINE r == [rd[p] EXCEPT !.pc = "file"]
      <3>1. r \in Reads!Reads /\ r.pc = "file" /\ rd[p].pc = "latch"
        BY <1>0, <2>2 DEF Reads!Reads, Reads!ReadPCs, Reads!CheckLatch
      <3>2. r.pre = rd[p].pre /\ r.rev = rd[p].rev /\ r.marker = rd[p].marker /\ r.own = rd[p].own
        BY <1>0 DEF Reads!Reads
      <3>3. ReadFits(r, readsHead, incs)
        <4> HIDE DEF r
        <4> QED BY <1>0, <3>1, <3>2, ReadKeeps DEF ReadFits
      <3>4. rd' = [rd EXCEPT ![p] = r] \/ rd' = [rd EXCEPT ![p] = Reads!Refused(p)]
        BY <2>2 DEF Reads!CheckLatch
      <3> HIDE DEF r
      <3> QED BY <1>0, <3>1, <3>3, <3>4, ReadRestarts
    <2>3. CASE Reads!ReadFile(p)
      <3> DEFINE r == [rd[p] EXCEPT !.pc = "probe0", !.seen = file, !.left = 2]
      <3>0. 2 \in 0..2
        OBVIOUS
      <3>5. r \in Reads!Reads
        BY <1>0, <3>0 DEF Reads!Reads, Reads!ReadPCs
      <3>1. r \in Reads!Reads /\ r.pc = "probe0" /\ rd[p].pc = "file"
        BY <1>0, <2>3, <3>5 DEF Reads!Reads, Reads!ReadFile
      <3>2. r.pre = rd[p].pre /\ r.rev = rd[p].rev /\ r.marker = rd[p].marker /\ r.own = rd[p].own
        BY <1>0 DEF Reads!Reads
      <3>3. ReadFits(r, readsHead, incs)
        <4> HIDE DEF r
        <4> QED BY <1>0, <3>1, <3>2, ReadKeeps DEF ReadFits
      <3>4. rd' = [rd EXCEPT ![p] = r] \/ rd' = [rd EXCEPT ![p] = Reads!Idle]
        BY <2>3 DEF Reads!ReadFile
      <3> HIDE DEF r
      <3> QED BY <1>0, <3>1, <3>3, <3>4, ReadRestarts
    <2>4. CASE Reads!Probe(p)
      <3> DEFINE r(pc) == [rd[p] EXCEPT !.pc = pc]
      <3>0. rd[p].pc \in {"probe0", "probe"}
        BY <2>4 DEF Reads!Probe
      <3>1. ASSUME NEW pc \in {"held", "read1", "read2"}
            PROVE  r(pc) \in Reads!Reads /\ r(pc).pc = pc /\ ReadFits(r(pc), readsHead, incs)
        <4>1. r(pc) \in Reads!Reads /\ r(pc).pc = pc
          BY <1>0 DEF Reads!Reads, Reads!ReadPCs
        <4>2. /\ r(pc).pre = rd[p].pre /\ r(pc).rev = rd[p].rev /\ r(pc).marker = rd[p].marker
              /\ r(pc).own = rd[p].own
          BY <1>0 DEF Reads!Reads
        <4> HIDE DEF r
        <4> QED BY <1>0, <3>0, <4>1, <4>2, ReadKeeps DEF ReadFits
      <3>2. \E pc \in {"held", "read1", "read2"} : rd' = [rd EXCEPT ![p] = r(pc)]
        BY <2>4 DEF Reads!Probe
      <3> HIDE DEF r
      <3> QED BY <3>1, <3>2
    <2>5. CASE Reads!ReleaseProbe(p)
      <3>1. rd' = [rd EXCEPT ![p] = Reads!Refused(p)]
        BY <2>5 DEF Reads!ReleaseProbe
      <3> QED BY <1>0, <3>1, ReadRestarts
    <2>6. CASE Reads!ReadBefore(p)
      <3> DEFINE r == [rd[p] EXCEPT !.pc = "probe"]
      <3>1. r \in Reads!Reads /\ r.pc = "probe" /\ rd[p].pc = "read1"
        BY <1>0, <2>6 DEF Reads!Reads, Reads!ReadPCs, Reads!ReadBefore
      <3>2. r.pre = rd[p].pre /\ r.rev = rd[p].rev /\ r.marker = rd[p].marker /\ r.own = rd[p].own
        BY <1>0 DEF Reads!Reads
      <3>3. ReadFits(r, readsHead, incs)
        <4> HIDE DEF r
        <4> QED BY <1>0, <3>1, <3>2, ReadKeeps DEF ReadFits
      <3>4. rd' = [rd EXCEPT ![p] = r] \/ rd' = [rd EXCEPT ![p] = Reads!Refused(p)]
        BY <2>6 DEF Reads!ReadBefore
      <3> HIDE DEF r
      <3> QED BY <1>0, <3>1, <3>3, <3>4, ReadRestarts
    <2>7. CASE Reads!Assemble(p)
      <3> DEFINE pc == IF rd[p].pre THEN "preEnd" ELSE "read1"
                 r == [rd[p] EXCEPT !.pc = pc, !.last = TRUE]
      <3>1. rd' = [rd EXCEPT ![p] = r] /\ rd[p].pc = "use"
        BY <2>7 DEF Reads!Assemble
      <3>0. pc \in {"preEnd", "read1"} /\ (pc = "preEnd" => rd[p].pre) /\ (pc = "read1" => ~rd[p].pre)
        OBVIOUS
      <3> HIDE DEF pc
      <3>2. r \in Reads!Reads /\ r.pc = pc
        BY <1>0, <3>0 DEF Reads!Reads, Reads!ReadPCs
      <3>3. r.pre = rd[p].pre /\ r.rev = rd[p].rev /\ r.marker = rd[p].marker /\ r.own = rd[p].own
        BY <1>0 DEF Reads!Reads
      <3> HIDE DEF r
      <3>4. ReadFits(r, readsHead, incs)
        BY <1>0, <3>0, <3>1, <3>2, <3>3, ReadKeeps
      <3> QED BY <3>0, <3>1, <3>2, <3>4
    <2>8. CASE Reads!Consider(p)
      <3> DEFINE r(pc) == [Reads!Idle EXCEPT !.epoch = st[p].epoch, !.retried = TRUE, !.pc = pc]
      <3>1. ASSUME NEW pc \in {"wait", "woken"}
            PROVE  r(pc) \in Reads!Reads /\ r(pc).pc = pc /\ ReadFits(r(pc), readsHead, incs)
        <4>1. r(pc) \in Reads!Reads
          BY <1>0, ReadRestarts DEF Reads!Reads, Reads!ReadPCs
        <4>2. r(pc).pc = pc /\ r(pc).pre = FALSE
          BY DEF Reads!Idle
        <4> HIDE DEF r
        <4> QED BY <4>1, <4>2 DEF ReadFits
      <3>2. \/ \E pc \in {"wait", "woken"} : rd' = [rd EXCEPT ![p] = r(pc)]
            \/ rd' = [rd EXCEPT ![p] = Reads!Idle]
        BY <2>8 DEF Reads!Consider
      <3> HIDE DEF r
      <3> QED BY <1>0, <3>1, <3>2, ReadRestarts
    <2>9. CASE Reads!Wake(p)
      <3> DEFINE r == [rd[p] EXCEPT !.pc = "woken"]
      <3>1. r \in Reads!Reads /\ r.pc = "woken"
        BY <1>0 DEF Reads!Reads, Reads!ReadPCs
      <3>2. r.pre = rd[p].pre /\ r.rev = rd[p].rev /\ r.marker = rd[p].marker /\ r.own = rd[p].own
        BY <1>0 DEF Reads!Reads
      <3>3. ReadFits(r, readsHead, incs)
        <4> HIDE DEF r
        <4> QED BY <3>1, <3>2, ReadKeeps
      <3>4. rd' = [rd EXCEPT ![p] = r] \/ rd' = [rd EXCEPT ![p] = Reads!Idle]
        BY <2>9 DEF Reads!Wake
      <3> HIDE DEF r
      <3> QED BY <1>0, <3>1, <3>3, <3>4, ReadRestarts
    <2>10. CASE Reads!Woken(p)
      <3> DEFINE r == [rd[p] EXCEPT !.pc = "pre1"]
      <3>1. r \in Reads!Reads /\ r.pc = "pre1"
        BY <1>0 DEF Reads!Reads, Reads!ReadPCs
      <3>2. r.pre = rd[p].pre /\ r.rev = rd[p].rev /\ r.marker = rd[p].marker /\ r.own = rd[p].own
        BY <1>0 DEF Reads!Reads
      <3>3. ReadFits(r, readsHead, incs)
        <4> HIDE DEF r
        <4> QED BY <3>1, <3>2, ReadKeeps
      <3>4. \/ rd' = [rd EXCEPT ![p] = r] \/ rd' = [rd EXCEPT ![p] = Reads!Idle]
            \/ rd' = [rd EXCEPT ![p] = Reads!Strict(TRUE)]
        BY <2>10 DEF Reads!Woken
      <3> HIDE DEF r
      <3> QED BY <1>0, <3>1, <3>3, <3>4, ReadRestarts
    <2> QED BY <2>1, <2>2, <2>3, <2>4, <2>5, <2>6, <2>7, <2>8, <2>9, <2>10
  <1>2. UNCHANGED <<lock, file, incs, readsHead, hs, st>> /\ probe' \in {probe, p, Nothing}
    BY DEF Reads!BeginRead, Reads!CheckLatch, Reads!ReadFile, Reads!Probe, Reads!ReleaseProbe,
       Reads!ReadBefore, Reads!Assemble, Reads!Consider, Reads!Wake, Reads!Woken
  <1>3. st' \in [Procs -> Reads!Stores] /\ \A q \in Procs : SessionFits(st'[q], lock = q, file, incs)
    BY <1>2 DEF ReadsInv
  <1> QED BY <1>1, <1>2, <1>3, ReadMoves

\* The second look at the lock file: an answer is delivered only under the newest incarnation.
LEMMA ReadsVerify ==
    ASSUME ReadsInv, NEW p \in Procs, Reads!ReadAfter(p)
    PROVE  ReadsInv' /\ Reads!StrictAnswerCurrent /\ Reads!RestrictedAnswerOwn
  <1>0. /\ rd[p] \in Reads!Reads /\ ReadFits(rd[p], readsHead, incs) /\ rd[p].pc = "read2" /\ ~rd[p].pre
        /\ Reads!Refused(p) \in {Reads!Idle, [Reads!Idle EXCEPT !.pc = "refused"]}
        /\ Reads!Idle.pc = "idle" /\ [Reads!Idle EXCEPT !.pc = "refused"].pc = "refused"
    BY DEF ReadsInv, ReadFits, Reads!Refused, Reads!Idle, Reads!ReadAfter
  <1>1. UNCHANGED <<lock, file, incs, readsHead, hs, st>> /\ probe' \in {probe, p, Nothing}
    BY DEF Reads!ReadAfter
  <1>2. st' \in [Procs -> Reads!Stores] /\ \A q \in Procs : SessionFits(st'[q], lock = q, file, incs)
    BY <1>1 DEF ReadsInv
  <1>3. CASE ~Reads!Verified(p)
    <2>1. rd' = [rd EXCEPT ![p] = Reads!Refused(p)]
      BY <1>3 DEF Reads!ReadAfter
    <2>2. PICK r \in Reads!Reads : /\ rd' = [rd EXCEPT ![p] = r] /\ ReadFits(r, readsHead, incs)
                                   /\ r.pc # "done"
      BY <1>0, <2>1, ReadRestarts
    <2> QED BY <1>1, <1>2, <2>2, ReadMoves
  <1>4. CASE Reads!Verified(p)
    <2>1. file = rd[p].marker /\ readsHead.marker = rd[p].marker /\ rd[p].rev <= readsHead.rev
      <3>1. /\ 1 <= rd[p].marker /\ rd[p].marker <= readsHead.marker /\ rd[p].rev <= readsHead.rev
            /\ rd[p].marker \in Nat
        BY <1>0 DEF ReadFits, Reads!Reads
      <3>2. file = rd[p].marker
        BY <1>4 DEF Reads!Verified
      <3> QED BY <3>1, <3>2, SessionFound
    <2>2. rd' = [rd EXCEPT ![p] = Reads!Passed(p)]
      BY <1>4 DEF Reads!ReadAfter
    <2>3. PICK r \in Reads!Reads : rd' = [rd EXCEPT ![p] = r] /\ ReadFits(r, readsHead, incs)
      <3>1. CASE rd[p].left > 1
        <4> DEFINE left == rd[p].left - 1
                   r == [rd[p] EXCEPT !.pc = "read1", !.left = left]
        <4>1. left \in 0..2
          BY <1>0, <3>1 DEF Reads!Reads
        <4>2. Reads!Passed(p) = r
          BY <3>1 DEF Reads!Passed
        <4> HIDE DEF left
        <4>3. r \in Reads!Reads /\ r.pc = "read1"
          BY <1>0, <4>1 DEF Reads!Reads, Reads!ReadPCs
        <4>4. r.pre = rd[p].pre /\ r.rev = rd[p].rev /\ r.marker = rd[p].marker /\ r.own = rd[p].own
          BY <1>0 DEF Reads!Reads
        <4> HIDE DEF r
        <4>5. ReadFits(r, readsHead, incs)
          BY <1>0, <4>3, <4>4, ReadKeeps
        <4> QED BY <2>2, <4>2, <4>3, <4>5
      <3>2. CASE ~(rd[p].left > 1)
        <4> DEFINE pc == IF rd[p].last THEN "done" ELSE "use"
                   r == [rd[p] EXCEPT !.pc = pc]
        <4>1. pc \in {"done", "use"}
          OBVIOUS
        <4>2. Reads!Passed(p) = r
          BY <3>2 DEF Reads!Passed
        <4> HIDE DEF pc
        <4>3. r \in Reads!Reads /\ r.pc = pc
          BY <1>0, <4>1 DEF Reads!Reads, Reads!ReadPCs
        <4>4. r.pre = rd[p].pre /\ r.rev = rd[p].rev /\ r.marker = rd[p].marker /\ r.own = rd[p].own
          BY <1>0 DEF Reads!Reads
        <4> HIDE DEF r
        <4>5. ReadFits(r, readsHead, incs)
          BY <1>0, <4>1, <4>3, <4>4, ReadKeeps
        <4> QED BY <2>2, <4>2, <4>3, <4>5
      <3> QED BY <3>1, <3>2
    <2> QED BY <1>0, <1>1, <1>2, <2>1, <2>3, ReadMoves
  <1> QED BY <1>3, <1>4

\* A restricted read is admitted by its process's own session only.
LEMMA PreHAdmitted ==
    ASSUME ReadsInv, NEW p \in Procs, Reads!SessionOk(p), Reads!PreHPermit(p) # Reads!NoPermit
    PROVE  1 <= st[p].inc /\ st[p].inc <= incs
  <1>1. SessionFits(st[p], lock = p, file, incs) /\ incs \in Nat /\ 1 <= incs
    BY SessionFound
  <1>2. st[p].stage \in SettledStages
    BY <1>1 DEF Reads!PreHPermit, SessionFits, SettledStages
  <1> QED BY <1>1, <1>2 DEF SessionFits

\* A fence that still holds is of the newest incarnation and of the process that leads.
LEMMA PreHFenced ==
    ASSUME ReadsInv, NEW p \in Procs, Reads!PreHFence(p), rd[p].pre
    PROVE  lock = p /\ st[p].inc = incs /\ rd[p].own = incs
  <1>1. SessionFits(st[p], lock = p, file, incs) /\ file \in {0, incs} /\ incs \in Nat
    BY SessionFound
  <1>2. 1 <= rd[p].own /\ rd[p].own \in Nat
    BY DEF ReadsInv, ReadFits, Reads!Reads
  <1> QED BY <1>1, <1>2 DEF Reads!PreHFence, Reads!SessionOk, SessionFits

LEMMA ReadsRestricted ==
    ASSUME ReadsInv, NEW p \in Procs,
           Reads!PreHBegin(p) \/ Reads!PreHSnapshot(p) \/ Reads!PreHFinish(p)
    PROVE  ReadsInv' /\ Reads!StrictAnswerCurrent /\ Reads!RestrictedAnswerOwn
  <1>0. /\ rd[p] \in Reads!Reads /\ ReadFits(rd[p], readsHead, incs)
        /\ st[p] \in Reads!Stores
        /\ Reads!Refused(p) \in {Reads!Idle, [Reads!Idle EXCEPT !.pc = "refused"]}
        /\ Reads!PreHRefused(p) \in {Reads!Refused(p), Reads!Strict(TRUE)}
        /\ Reads!Idle.pc = "idle" /\ [Reads!Idle EXCEPT !.pc = "refused"].pc = "refused"
    BY SessionFound DEF ReadsInv, Reads!Refused, Reads!Idle, Reads!PreHRefused
  <1>1. UNCHANGED <<lock, file, incs, readsHead, hs, st>> /\ probe' \in {probe, p, Nothing}
    BY DEF Reads!PreHBegin, Reads!PreHSnapshot, Reads!PreHFinish
  <1>2. st' \in [Procs -> Reads!Stores] /\ \A q \in Procs : SessionFits(st'[q], lock = q, file, incs)
    BY <1>1 DEF ReadsInv
  <1>3. CASE rd' = [rd EXCEPT ![p] = Reads!PreHRefused(p)] \/ rd' = [rd EXCEPT ![p] = Reads!Idle]
    <2>1. PICK r \in Reads!Reads : /\ rd' = [rd EXCEPT ![p] = r] /\ ReadFits(r, readsHead, incs)
                                   /\ r.pc # "done"
      BY <1>0, <1>3, ReadRestarts
    <2> QED BY <1>1, <1>2, <2>1, ReadMoves
  <1>4. CASE /\ Reads!PreHBegin(p) /\ Reads!PreHPermit(p) # Reads!NoPermit /\ Reads!SessionOk(p)
             /\ Reads!PreHPermit(p).pred = st[p].pred /\ Reads!PreHPermit(p).epoch = st[p].epoch
    <2> DEFINE permit == Reads!PreHPermit(p)
               r == [rd[p] EXCEPT !.pc = "pre2", !.pre = TRUE, !.rev = permit.rev,
                                  !.seen = permit.pred, !.own = st[p].inc, !.epoch = permit.epoch]
    <2>1. rd' = [rd EXCEPT ![p] = r]
      BY <1>4, Zenon DEF Reads!PreHBegin
    <2>2. permit \in Reads!Permits /\ st[p].inc \in Nat
      BY <1>0 DEF Reads!PreHPermit, Reads!Stores
    <2> HIDE DEF permit
    <2>3. permit.rev \in Nat /\ permit.pred \in Nat /\ permit.epoch \in Nat
      BY <2>2 DEF Reads!Permits
    <2>4. r \in Reads!Reads
      BY <1>0, <2>2, <2>3 DEF Reads!Reads, Reads!ReadPCs
    <2>5. r.pc = "pre2" /\ r.own = st[p].inc /\ r.pre = TRUE
      BY <1>0 DEF Reads!Reads
    <2> HIDE DEF r
    <2>6. ReadFits(r, readsHead, incs)
      BY <1>4, <2>5, PreHAdmitted DEF ReadFits
    <2> QED BY <1>1, <1>2, <2>1, <2>4, <2>5, <2>6, ReadMoves
  <1>5. CASE /\ Reads!PreHSnapshot(p) /\ Reads!PreHFence(p) /\ readsHead.rev = rd[p].rev
             /\ readsHead.marker = rd[p].seen
    <2> DEFINE r == [rd[p] EXCEPT !.pc = "use", !.marker = readsHead.marker]
    <2>1. rd' = [rd EXCEPT ![p] = r] /\ rd[p].pc = "pre2" /\ rd[p].pre
      BY <1>0, <1>5 DEF Reads!PreHSnapshot, ReadFits
    <2>2. r \in Reads!Reads
      BY <1>0, SessionFound DEF Reads!Reads, Reads!ReadPCs
    <2>3. r.pc = "use" /\ r.own = rd[p].own /\ r.pre = rd[p].pre /\ r.rev = rd[p].rev
      BY <1>0 DEF Reads!Reads
    <2> HIDE DEF r
    <2>4. ReadFits(r, readsHead, incs)
      BY <1>0, <1>5, <2>1, <2>3 DEF ReadFits
    <2> QED BY <1>1, <1>2, <2>1, <2>2, <2>3, <2>4, ReadMoves
  <1>6. CASE Reads!PreHFinish(p) /\ Reads!PreHFence(p)
    <2> DEFINE r == [rd[p] EXCEPT !.pc = "done"]
    <2>1. rd' = [rd EXCEPT ![p] = r] /\ rd[p].pc = "preEnd" /\ rd[p].pre
      BY <1>0, <1>6 DEF Reads!PreHFinish, ReadFits
    <2>2. r \in Reads!Reads /\ r.pc = "done"
      BY <1>0 DEF Reads!Reads, Reads!ReadPCs
    <2>3. r.own = rd[p].own /\ r.pre = rd[p].pre
      BY <1>0 DEF Reads!Reads
    <2> HIDE DEF r
    <2>4. ReadFits(r, readsHead, incs)
      BY <1>0, <2>1, <2>2, <2>3 DEF ReadFits
    <2>5. lock = p /\ (readsHead.rev = rd[p].rev \/ readsHead.marker = st[p].inc)
      BY <1>0, <1>6, <2>1, PreHFenced DEF ReadFits
    <2> QED BY <1>1, <1>2, <2>1, <2>2, <2>4, <2>5, ReadMoves
  <1> QED
    <2>1. CASE Reads!PreHBegin(p)
      BY <1>3, <1>4, <2>1, Zenon DEF Reads!PreHBegin
    <2>2. CASE Reads!PreHSnapshot(p)
      BY <1>3, <1>5, <2>2, Zenon DEF Reads!PreHSnapshot
    <2>3. CASE Reads!PreHFinish(p)
      BY <1>3, <1>6, <2>3, Zenon DEF Reads!PreHFinish
    <2> QED BY <2>1, <2>2, <2>3

\* The answer is out; the process may remember its revision.
LEMMA ReadsEnd ==
    ASSUME ReadsInv, NEW p \in Procs, Reads!EndRead(p)
    PROVE  ReadsInv' /\ Reads!StrictAnswerCurrent /\ Reads!RestrictedAnswerOwn
  <1>0. rd[p] \in Reads!Reads /\ st[p] \in Reads!Stores /\ st \in [Procs -> Reads!Stores]
    BY DEF ReadsInv
  <1>1. /\ UNCHANGED <<lock, probe, file, incs, readsHead, hs>> /\ rd' = [rd EXCEPT ![p] = Reads!Idle]
        /\ Reads!Idle.pc # "done"
    BY DEF Reads!EndRead, Reads!Idle
  <1>2. PICK permit \in Reads!Permits : st' \in {st, [st EXCEPT ![p] = [st[p] EXCEPT !.permit = permit]]}
    <2> DEFINE permit == [rev |-> rd[p].rev, pred |-> rd[p].marker, epoch |-> st[p].epoch]
    <2>1. permit \in Reads!Permits
      BY <1>0 DEF Reads!Permits, Reads!Reads, Reads!Stores
    <2>2. Reads!Remembered(st[p], rd[p]) \in {st[p], [st[p] EXCEPT !.permit = permit]}
      BY DEF Reads!Remembered
    <2>3. st' \in {st, [st EXCEPT ![p] = Reads!Remembered(st[p], rd[p])]}
      BY DEF Reads!EndRead
    <2>4. [st EXCEPT ![p] = st[p]] = st
      BY <1>0
    <2> QED BY <2>1, <2>2, <2>3, <2>4
  <1> DEFINE s == [st[p] EXCEPT !.permit = permit]
  <1>3. s \in Reads!Stores
    BY <1>0 DEF Reads!Stores
  <1>4. /\ s.stage = st[p].stage /\ s.inc = st[p].inc /\ s.pending = st[p].pending /\ s.via = st[p].via
        /\ s.slot = st[p].slot /\ s.pred = st[p].pred /\ s.epoch = st[p].epoch
    BY <1>0 DEF Reads!Stores
  <1>5. st' \in {st, [st EXCEPT ![p] = s]}
    BY <1>2
  <1> HIDE DEF s
  <1>6. st' \in [Procs -> Reads!Stores]
    BY <1>0, <1>3, <1>5
  <1>7. ASSUME NEW q \in Procs
        PROVE  SessionFits(st'[q], lock = q, file, incs)
    <2>1. SessionFits(st[q], lock = q, file, incs)
      BY DEF ReadsInv
    <2>2. SessionFits(s, lock = p, file, incs)
      <3>1. SessionFits(st[p], lock = p, file, incs)
        BY DEF ReadsInv
      <3> QED BY <1>4, <3>1 DEF SessionFits
    <2>3. st'[q] = st[q] \/ (q = p /\ st'[q] = s)
      BY <1>0, <1>5
    <2> QED BY <2>1, <2>2, <2>3
  <1> QED BY <1>1, <1>6, <1>7, ReadRestarts, ReadMoves

LEMMA ReadsInitOK == Reads!Init => ReadsInv
  <1> SUFFICES ASSUME Reads!Init PROVE ReadsInv
    OBVIOUS
  <1>1. Reads!NoPermit \in Reads!Permits
    BY DEF Reads!NoPermit, Reads!Permits
  <1>2. Reads!Fresh \in Reads!Stores
    BY <1>1 DEF Reads!Fresh, Reads!Stores, Reads!Stages
  <1>3. Reads!Idle \in Reads!Reads
    BY DEF Reads!Idle, Reads!Reads, Reads!ReadPCs
  <1>4. ReadsWorld
    BY DEF Reads!Init, ReadsWorld
  <1>5. SessionFits(Reads!Fresh, FALSE, file, incs) /\ ReadFits(Reads!Idle, readsHead, incs)
    BY DEF SessionFits, ReadFits, SettledStages, Reads!Holding, Reads!Fresh, Reads!Idle
  <1>6. \A p \in Procs : (lock = p) = FALSE /\ st[p] = Reads!Fresh /\ rd[p] = Reads!Idle
    BY ReadsConstants DEF Reads!Init
  <1> QED BY <1>2, <1>3, <1>4, <1>5, <1>6 DEF ReadsInv, Reads!Init

LEMMA ReadsStep ==
    ReadsInv /\ [Reads!Next]_Reads!vars =>
        ReadsInv' /\ Reads!StrictAnswerCurrent /\ Reads!RestrictedAnswerOwn
  <1> SUFFICES ASSUME ReadsInv, [Reads!Next]_Reads!vars
               PROVE  ReadsInv' /\ Reads!StrictAnswerCurrent /\ Reads!RestrictedAnswerOwn
    OBVIOUS
  <1>1. CASE UNCHANGED Reads!vars
    BY <1>1 DEF Reads!vars, ReadsInv, ReadsWorld, Reads!StrictAnswerCurrent,
       Reads!RestrictedAnswerOwn, Reads!Delivers
  <1>2. ASSUME NEW p \in Procs, Reads!Lead(p)
        PROVE  ReadsInv' /\ Reads!StrictAnswerCurrent /\ Reads!RestrictedAnswerOwn
    BY <1>2, ReadsElection, ReadsRewrite, ReadsSettle, ReadsMark, ReadsLeave DEF Reads!Lead
  <1>3. ASSUME NEW p \in Readers, Reads!Read(p)
        PROVE  ReadsInv' /\ Reads!StrictAnswerCurrent /\ Reads!RestrictedAnswerOwn
    <2>1. p \in Procs
      BY ReadsConstants
    <2> QED BY <1>3, <2>1, ReadsFollow, ReadsVerify, ReadsRestricted, ReadsEnd DEF Reads!Read
  <1>4. ASSUME NEW q \in Followers, Reads!FollowerProbe(q) \/ Reads!FollowerLetsGo(q)
        PROVE  ReadsInv' /\ Reads!StrictAnswerCurrent /\ Reads!RestrictedAnswerOwn
    <2>1. UNCHANGED <<lock, file, incs, readsHead, hs, st, rd>> /\ probe' \in {q, Nothing}
      BY <1>4 DEF Reads!FollowerProbe, Reads!FollowerLetsGo
    <2> QED BY <2>1 DEF ReadsInv, ReadsWorld, Reads!StrictAnswerCurrent,
         Reads!RestrictedAnswerOwn, Reads!Delivers
  <1> QED BY <1>1, <1>2, <1>3, <1>4 DEF Reads!Next

LEMMA ReadsImplies ==
    ReadsInv => Reads!TypeOK /\ Reads!PendingHasOwner /\ Reads!AssociationLive
  <1> SUFFICES ASSUME ReadsInv PROVE Reads!TypeOK /\ Reads!PendingHasOwner /\ Reads!AssociationLive
    OBVIOUS
  <1>1. Reads!TypeOK
    BY DEF ReadsInv, ReadsWorld, Reads!TypeOK
  <1>2. Reads!PendingHasOwner
    BY DEF ReadsInv, SessionFits, Reads!PendingHasOwner
  <1>3. Reads!AssociationLive
    BY DEF ReadsInv, SessionFits, SettledStages, Reads!Holding, Reads!Stages, Reads!AssociationLive
  <1> QED BY <1>1, <1>2, <1>3

\* For any processes and bounds: work that a reader sees pending has a process that is
\* really taking over, and an association ends with the session it was made for
\* (store.rs, OwnerValidationLease and restricted owners).
THEOREM ReadsSafe == Spec => []ReadsAssociated
  <1> DEFINE Inv == part = "reads" => ReadsInv
  <1>1. Init => Inv
    BY ReadsInitOK DEF Init
  <1>2. Inv /\ [Next]_vars => Inv'
    <2>1. [Next]_vars => part' = part /\ (part = "reads" => [Reads!Next]_Reads!vars)
      BY DEF Next, vars, readsVars, Reads!vars
    <2> QED BY <2>1, ReadsStep
  <1>3. Inv => ReadsAssociated
    BY ReadsImplies DEF ReadsAssociated
  <1> QED BY <1>1, <1>2, <1>3, PTL DEF Spec

----------------------------------------------------------------------------
(* Question packets (QuestionPackets): what a use knows of its packet's    *)
(* revision at each of its steps, against the two histories it keeps.      *)

UseFields == {"at", "packet", "provider", "owner", "now", "pinned", "since", "low"}

UseFits(x, rev, first) ==
    /\ DOMAIN x = UseFields
    /\ x.since \in Nat /\ x.since <= rev
    /\ x.low \in Nat /\ x.low <= first
    /\ x.now \in Nat
    /\ x.at = "open" => x.since # 0
    /\ x.at \in {"found", "ran", "reread", "checked", "done"} =>
         x.packet.rev \in Nat /\ x.packet.rev # 0 /\ x.packet.rev <= rev
    /\ x.at \in {"found", "checked", "done"} => x.packet.rev >= x.since
    /\ x.at = "reread" => x.now = 0 \/ x.now >= x.since
    /\ x.at \in {"open", "found", "checked"} => x.pinned = FALSE
    /\ x.at = "done" /\ x.pinned => x.packet.rev >= x.low

UsesInv ==
    /\ packetsRev \in Nat /\ packetsOldest \in Nat
    /\ packetsOldest # 0 /\ packetsOldest <= packetsRev
    /\ DOMAIN use = Uses
    /\ \A u \in Uses : UseFits(use[u], packetsRev, packetsOldest)

LEMMA PacketsWorld ==
    ASSUME UsesInv, UNCHANGED use, packetsRev' \in Nat, packetsRev <= packetsRev',
           packetsOldest' \in Nat, packetsOldest <= packetsOldest', packetsOldest' <= packetsRev'
    PROVE  UsesInv' /\ Packets!AnswerWasCurrent
  <1>1. ASSUME NEW x, UseFits(x, packetsRev, packetsOldest)
        PROVE  UseFits(x, packetsRev', packetsOldest')
    BY <1>1 DEF UsesInv, UseFits
  <1>2. packetsOldest' # 0
    BY DEF UsesInv
  <1> QED BY <1>1, <1>2 DEF UsesInv, Packets!AnswerWasCurrent

LEMMA PacketsUse ==
    ASSUME UsesInv, UNCHANGED <<packetsRev, packetsOldest>>, NEW u \in Uses, NEW x,
           use' = [use EXCEPT ![u] = x], UseFits(x, packetsRev, packetsOldest),
           x.at = "ok" => /\ ready /\ packetsOwner = use[u].owner
                          /\ use[u].packet.rev \in use[u].since..packetsRev
                          /\ use[u].packet.rev >= use[u].low
    PROVE  UsesInv' /\ Packets!AnswerWasCurrent
  BY DEF UsesInv, Packets!AnswerWasCurrent

\* A use that has ended, or was refused, holds nothing.
LEMMA PacketsFail ==
    ASSUME UsesInv, NEW u \in Uses, Packets!Fail(u)
    PROVE  UsesInv' /\ Packets!AnswerWasCurrent
  <1> DEFINE x == [Packets!Unused EXCEPT !.at = "failed"]
  <1>1. use' = [use EXCEPT ![u] = x] /\ UNCHANGED <<packetsRev, packetsOldest>>
    BY DEF Packets!Fail, Packets!Go, Packets!world
  <1>2. UseFits(x, packetsRev, packetsOldest) /\ x.at = "failed"
    BY DEF UsesInv, UseFits, UseFields, Packets!Unused
  <1> HIDE DEF x
  <1> QED BY <1>1, <1>2, PacketsUse

LEMMA PacketsBegin ==
    ASSUME UsesInv, NEW u \in Uses,
           Packets!OpenUse(u) \/ Packets!Lookup(u) \/ Packets!Worked(u) \/ Packets!Ran(u)
    PROVE  UsesInv' /\ Packets!AnswerWasCurrent
  <1>1. UseFits(use[u], packetsRev, packetsOldest) /\ DOMAIN use[u] = UseFields
    BY DEF UsesInv, UseFits
  <1>2. packetsRev \in Nat /\ packetsOldest \in Nat /\ packetsOldest # 0 /\ packetsOldest <= packetsRev
    BY DEF UsesInv
  <1>3. CASE Packets!OpenUse(u)
    <2>1. PICK b \in BOOLEAN :
            Packets!Go(u, [Packets!Unused EXCEPT !.at = "open", !.provider = b,
                                                 !.owner = packetsOwner, !.since = packetsRev])
      BY <1>3 DEF Packets!OpenUse
    <2> DEFINE x == [Packets!Unused EXCEPT !.at = "open", !.provider = b,
                                           !.owner = packetsOwner, !.since = packetsRev]
    <2>2. use' = [use EXCEPT ![u] = x] /\ UNCHANGED <<packetsRev, packetsOldest>>
      BY <2>1 DEF Packets!Go, Packets!world
    <2>3. DOMAIN x = UseFields /\ x.at = "open" /\ x.since = packetsRev /\ x.low = 0 /\ x.now = 0
          /\ x.pinned = FALSE
      BY DEF Packets!Unused, UseFields
    <2> HIDE DEF x
    <2>4. UseFits(x, packetsRev, packetsOldest)
      BY <1>2, <2>3 DEF UseFits
    <2> QED BY <2>2, <2>3, <2>4, PacketsUse
  <1>4. CASE Packets!Lookup(u)
    <2>1. CASE Packets!Fail(u)
      BY <2>1, PacketsFail
    <2>2. ASSUME NEW k \in DOMAIN cache, cache[k].rev = use[u].since,
                 Packets!Go(u, [use[u] EXCEPT !.at = "found", !.packet = cache[k]])
          PROVE  UsesInv' /\ Packets!AnswerWasCurrent
      <3> DEFINE x == [use[u] EXCEPT !.at = "found", !.packet = cache[k]]
      <3>1. use' = [use EXCEPT ![u] = x] /\ UNCHANGED <<packetsRev, packetsOldest>>
        BY <2>2 DEF Packets!Go, Packets!world
      <3>2. /\ DOMAIN x = UseFields /\ x.at = "found" /\ x.packet = cache[k]
            /\ x.since = use[u].since /\ x.low = use[u].low /\ x.now = use[u].now
            /\ x.pinned = use[u].pinned
        BY <1>1 DEF UseFields
      <3>3. use[u].at = "open"
        BY <1>4 DEF Packets!Lookup
      <3> HIDE DEF x
      <3>4. UseFits(x, packetsRev, packetsOldest)
        BY <1>1, <1>2, <2>2, <3>2, <3>3 DEF UseFits
      <3> QED BY <3>1, <3>2, <3>4, PacketsUse
    <2> QED BY <1>4, <2>1, <2>2 DEF Packets!Lookup
  <1>5. CASE Packets!Worked(u) /\ ~Packets!Fail(u)
    <2> DEFINE x == [use[u] EXCEPT !.at = "done", !.low = packetsOldest]
    <2>1. use' = [use EXCEPT ![u] = x] /\ UNCHANGED <<packetsRev, packetsOldest>>
      BY <1>5 DEF Packets!Worked, Packets!Go, Packets!world
    <2>2. /\ DOMAIN x = UseFields /\ x.at = "done" /\ x.packet = use[u].packet
          /\ x.since = use[u].since /\ x.low = packetsOldest /\ x.now = use[u].now
          /\ x.pinned = use[u].pinned
      BY <1>1 DEF UseFields
    <2>3. use[u].at = "found" /\ use[u].pinned = FALSE
      BY <1>1, <1>5 DEF Packets!Worked, UseFits
    <2> HIDE DEF x
    <2>4. UseFits(x, packetsRev, packetsOldest)
      BY <1>1, <1>2, <2>2, <2>3 DEF UseFits
    <2> QED BY <2>1, <2>2, <2>4, PacketsUse
  <1>6. CASE Packets!Ran(u)
    <2> DEFINE x == [use[u] EXCEPT !.at = "ran", !.since = packetsRev]
    <2>1. use' = [use EXCEPT ![u] = x] /\ UNCHANGED <<packetsRev, packetsOldest>>
      BY <1>6 DEF Packets!Ran, Packets!Go, Packets!world
    <2>2. /\ DOMAIN x = UseFields /\ x.at = "ran" /\ x.packet = use[u].packet
          /\ x.since = packetsRev /\ x.low = use[u].low /\ x.now = use[u].now
      BY <1>1 DEF UseFields
    <2>3. use[u].at = "found"
      BY <1>6 DEF Packets!Ran
    <2> HIDE DEF x
    <2>4. UseFits(x, packetsRev, packetsOldest)
      BY <1>1, <1>2, <2>2, <2>3 DEF UseFits
    <2> QED BY <2>1, <2>2, <2>4, PacketsUse
  <1>7. CASE Packets!Fail(u)
    BY <1>7, PacketsFail
  <1> QED BY <1>3, <1>4, <1>5, <1>6, <1>7

LEMMA PacketsEnd ==
    ASSUME UsesInv, NEW u \in Uses,
           \/ Packets!Reread(u) \/ Packets!Pin(u) \/ Packets!Recheck(u) \/ Packets!Assemble(u)
           \/ Packets!FinishUse(u)
    PROVE  UsesInv' /\ Packets!AnswerWasCurrent
  <1>1. UseFits(use[u], packetsRev, packetsOldest) /\ DOMAIN use[u] = UseFields
    BY DEF UsesInv, UseFits
  <1>2. packetsRev \in Nat /\ packetsOldest \in Nat /\ packetsOldest # 0 /\ packetsOldest <= packetsRev
    BY DEF UsesInv
  <1>3. CASE Packets!Fail(u)
    BY <1>3, PacketsFail
  <1>4. CASE Packets!Reread(u)
    <2> DEFINE n == IF ready THEN packetsRev ELSE 0
               x == [use[u] EXCEPT !.at = "reread", !.now = n]
    <2>1. use' = [use EXCEPT ![u] = x] /\ UNCHANGED <<packetsRev, packetsOldest>>
      BY <1>4 DEF Packets!Reread, Packets!Go, Packets!world
    <2>2. n = 0 \/ n = packetsRev
      OBVIOUS
    <2> HIDE DEF n
    <2>3. /\ DOMAIN x = UseFields /\ x.at = "reread" /\ x.packet = use[u].packet
          /\ x.since = use[u].since /\ x.low = use[u].low /\ x.now = n
      BY <1>1 DEF UseFields
    <2>4. use[u].at = "ran"
      BY <1>4 DEF Packets!Reread
    <2> HIDE DEF x
    <2>5. UseFits(x, packetsRev, packetsOldest)
      BY <1>1, <1>2, <2>2, <2>3, <2>4 DEF UseFits
    <2> QED BY <2>1, <2>3, <2>5, PacketsUse
  <1>5. CASE Packets!Pin(u) /\ ~Packets!Fail(u)
    <2> DEFINE x == [use[u] EXCEPT !.pinned = TRUE]
    <2>1. use' = [use EXCEPT ![u] = x] /\ UNCHANGED <<packetsRev, packetsOldest>>
      BY <1>5 DEF Packets!Pin, Packets!Go, Packets!world
    <2>2. /\ DOMAIN x = UseFields /\ x.at = use[u].at /\ x.packet = use[u].packet
          /\ x.since = use[u].since /\ x.low = use[u].low /\ x.now = use[u].now
      BY <1>1 DEF UseFields
    <2>3. /\ use[u].at \in {"reread", "done"}
          /\ use[u].packet.rev \in packetsOldest..packetsRev
      BY <1>5 DEF Packets!Pin, Packets!Readable
    <2> HIDE DEF x
    <2>4. UseFits(x, packetsRev, packetsOldest)
      BY <1>1, <1>2, <2>2, <2>3 DEF UseFits
    <2>5. x.at # "ok"
      BY <2>2, <2>3
    <2> QED BY <2>1, <2>4, <2>5, PacketsUse
  <1>6. CASE Packets!Recheck(u) /\ ~Packets!Fail(u)
    <2> DEFINE x == [use[u] EXCEPT !.at = "checked", !.pinned = FALSE]
    <2>1. use' = [use EXCEPT ![u] = x] /\ UNCHANGED <<packetsRev, packetsOldest>>
      BY <1>6 DEF Packets!Recheck, Packets!Go, Packets!world
    <2>2. /\ DOMAIN x = UseFields /\ x.at = "checked" /\ x.packet = use[u].packet
          /\ x.since = use[u].since /\ x.low = use[u].low /\ x.now = use[u].now
          /\ x.pinned = FALSE
      BY <1>1 DEF UseFields
    <2>3. use[u].at = "reread" /\ use[u].now = use[u].packet.rev
      BY <1>6 DEF Packets!Recheck
    <2> HIDE DEF x
    <2>4. UseFits(x, packetsRev, packetsOldest)
      BY <1>1, <1>2, <2>2, <2>3 DEF UseFits
    <2> QED BY <2>1, <2>2, <2>4, PacketsUse
  <1>7. CASE Packets!Assemble(u) /\ ~Packets!Fail(u)
    <2> DEFINE x == [use[u] EXCEPT !.at = "done", !.low = packetsOldest]
    <2>1. use' = [use EXCEPT ![u] = x] /\ UNCHANGED <<packetsRev, packetsOldest>>
      BY <1>7 DEF Packets!Assemble, Packets!Go, Packets!world
    <2>2. /\ DOMAIN x = UseFields /\ x.at = "done" /\ x.packet = use[u].packet
          /\ x.since = use[u].since /\ x.low = packetsOldest /\ x.now = use[u].now
          /\ x.pinned = use[u].pinned
      BY <1>1 DEF UseFields
    <2>3. use[u].at = "checked" /\ use[u].pinned = FALSE
      BY <1>1, <1>7 DEF Packets!Assemble, UseFits
    <2> HIDE DEF x
    <2>4. UseFits(x, packetsRev, packetsOldest)
      BY <1>1, <1>2, <2>2, <2>3 DEF UseFits
    <2> QED BY <2>1, <2>2, <2>4, PacketsUse
  <1>8. CASE Packets!FinishUse(u) /\ ~Packets!Fail(u)
    <2> DEFINE x == [Packets!Unused EXCEPT !.at = "ok"]
    <2>1. use' = [use EXCEPT ![u] = x] /\ UNCHANGED <<packetsRev, packetsOldest>>
      BY <1>8 DEF Packets!FinishUse, Packets!Go, Packets!world
    <2>2. UseFits(x, packetsRev, packetsOldest)
      BY <1>2 DEF UseFits, UseFields, Packets!Unused
    <2> HIDE DEF x
    <2>3. /\ use[u].at = "done" /\ use[u].pinned
          /\ ready /\ packetsOwner = use[u].owner
      BY <1>8 DEF Packets!FinishUse, Packets!Verified
    <2>4. /\ use[u].packet.rev \in use[u].since..packetsRev
          /\ use[u].packet.rev >= use[u].low
      BY <1>1, <1>2, <2>3 DEF UseFits
    <2> QED BY <2>1, <2>2, <2>3, <2>4, PacketsUse
  <1> QED BY <1>3, <1>4, <1>5, <1>6, <1>7, <1>8

LEMMA PacketsStep ==
    UsesInv /\ [Packets!Next]_Packets!vars => UsesInv' /\ Packets!AnswerWasCurrent
  <1> SUFFICES ASSUME UsesInv, [Packets!Next]_Packets!vars
               PROVE  UsesInv' /\ Packets!AnswerWasCurrent
    OBVIOUS
  <1>1. packetsRev \in Nat /\ packetsOldest \in Nat /\ packetsOldest <= packetsRev
    BY DEF UsesInv
  <1>2. CASE UNCHANGED <<packetsRev, packetsOldest, use>>
    BY <1>1, <1>2, PacketsWorld
  <1>3. ASSUME NEW r \in Previews, Packets!Build(r) \/ Packets!Admit(r) \/ Packets!Fenced(r)
        PROVE  UNCHANGED <<packetsRev, packetsOldest, use>>
    BY <1>3 DEF Packets!Build, Packets!Admit, Packets!Fenced, Packets!world
  <1>4. CASE Packets!Publish \/ Packets!ReleasePin \/ Packets!TakeOver \/ Packets!RootChanges
    <2>1. /\ UNCHANGED use /\ packetsRev' \in {packetsRev, packetsRev + 1}
          /\ \/ packetsOldest' = packetsOldest
             \/ packetsRev' = packetsRev + 1 /\ packetsOldest' = packetsRev + 1
             \/ packetsRev' = packetsRev /\ packetsOldest < packetsRev
                /\ packetsOldest' = packetsOldest + 1
      BY <1>4 DEF Packets!Publish, Packets!ReleasePin, Packets!TakeOver, Packets!RootChanges
    <2>2. /\ packetsRev' \in Nat /\ packetsRev <= packetsRev'
          /\ packetsOldest' \in Nat /\ packetsOldest <= packetsOldest'
          /\ packetsOldest' <= packetsRev'
      BY <1>1, <2>1
    <2> QED BY <2>1, <2>2, PacketsWorld
  <1>5. CASE UNCHANGED Packets!vars
    BY <1>2, <1>5 DEF Packets!vars, Packets!world
  <1> QED BY <1>2, <1>3, <1>4, <1>5, PacketsBegin, PacketsEnd DEF Packets!Next

----------------------------------------------------------------------------
(* The dependency catalog (DependencyCatalog).                             *)

(***************************************************************************)
(* All four hold for any drivers, generations and revisions.  `running' is *)
(* the token of the one driver; a loading index has one that has not yet   *)
(* installed this generation; and the reader's first snapshot is of the    *)
(* revision it began with.                                                 *)
(***************************************************************************)

CatalogBounds == MaxGen \in Nat /\ MaxRev \in Nat \ {0}

DriversInv ==
    /\ ~index.running => \A d \in Drivers : driver[d] = Catalog!Off
    /\ index.running => \E d \in Drivers : driver[d] # Catalog!Off
    /\ \A d, e \in Drivers : driver[d] # Catalog!Off /\ driver[e] # Catalog!Off => d = e
    /\ \A d \in Drivers : /\ driver[d].pc = "off" => driver[d] = Catalog!Off
                          /\ driver[d].gen <= index.gen
                          /\ driver[d].pc \in {"build", "compare", "install"} => driver[d].rev # 0

GenerationsInv ==
    /\ \A g \in cancelled : g < index.gen
    /\ index.stopped => index.state = "failed"
    /\ index.state = "loading" => index.running
    /\ \A d \in Drivers :
          driver[d].pc = "end" /\ driver[d].gen = index.gen => index.state # "loading"

ReaderInv ==
    /\ since <= catalogRev /\ reader.rev <= catalogRev
    /\ reader.pc = "asked" => reader.rev = since /\ since # 0
    /\ reader.pc \in {"working", "checking"} =>
          reader.cat # Catalog!NoCatalog /\ reader.cat.rev \in since..catalogRev

CatalogInv == Catalog!TypeOK /\ DriversInv /\ GenerationsInv /\ Catalog!NewestOnly /\ ReaderInv

\* The records that stand for nothing are of the types.
LEMMA EmptyRecords ==
    CatalogBounds => /\ Catalog!NoCatalog \in Catalog!Catalogs /\ Catalog!Off \in Catalog!Rounds
                     /\ Catalog!NoReader \in Catalog!Requests
  BY DEF CatalogBounds, Catalog!NoCatalog, Catalog!Catalogs, Catalog!Off, Catalog!Rounds,
     Catalog!Places, Catalog!NoReader, Catalog!Requests

\* No catalog, no driver and no reader.
LEMMA CatalogInit == CatalogBounds /\ Catalog!Init => CatalogInv
  <1> SUFFICES ASSUME CatalogBounds, Catalog!Init PROVE CatalogInv
    OBVIOUS
  <1>1. Catalog!TypeOK
    BY EmptyRecords DEF CatalogBounds, Catalog!Init, Catalog!TypeOK, Catalog!Indexes
  <1> QED BY <1>1 DEF CatalogBounds, Catalog!Init, CatalogInv, DriversInv, GenerationsInv, Catalog!NewestOnly, ReaderInv,
                     Catalog!NoReader, Catalog!Off

\* A refresh or the stop replaces the generation.
LEMMA RequestKeeps ==
    ASSUME CatalogBounds, CatalogInv, Catalog!Refresh \/ Catalog!CancelActive \/ Catalog!Publish
    PROVE  CatalogInv'
  <1> USE DEF CatalogInv, CatalogBounds
  <1>1. CASE Catalog!Publish
    <2>1. /\ catalogRev' = catalogRev + 1 /\ catalogRev < MaxRev
          /\ UNCHANGED <<index, cancelled, driver, reader, since>>
      BY <1>1 DEF Catalog!Publish
    <2>2. Catalog!TypeOK' /\ DriversInv' /\ GenerationsInv' /\ Catalog!NewestOnly'
      BY <2>1 DEF Catalog!TypeOK, DriversInv, GenerationsInv, Catalog!NewestOnly
    <2>3. ReaderInv'
      BY <2>1 DEF Catalog!TypeOK, ReaderInv, Catalog!Requests, Catalog!Catalogs
    <2> QED BY <2>2, <2>3
  <1>2. CASE Catalog!CancelActive
    <2>1. Catalog!TypeOK'
      <3>1. index.gen + 1 \in 0..MaxGen /\ index.gen \in 0..MaxGen /\ index \in Catalog!Indexes
        BY <1>2 DEF Catalog!CancelActive, Catalog!TypeOK, Catalog!Indexes
      <3>2. index' \in Catalog!Indexes
        BY <1>2, <3>1, EmptyRecords, Zenon DEF Catalog!CancelActive, Catalog!Stopped,
           Catalog!Indexes
      <3>3. index'.state = "failed" /\ index'.cat = Catalog!NoCatalog
        BY <1>2, <3>1 DEF Catalog!CancelActive, Catalog!Stopped, Catalog!Indexes
      <3> QED BY <1>2, <3>1, <3>2, <3>3 DEF Catalog!CancelActive, Catalog!TypeOK
    <2>2. DriversInv'
      BY <1>2 DEF Catalog!CancelActive, Catalog!Stopped, Catalog!TypeOK, DriversInv,
         Catalog!Indexes, Catalog!Rounds
    <2>3. GenerationsInv' /\ Catalog!NewestOnly' /\ ReaderInv'
      BY <1>2 DEF Catalog!CancelActive, Catalog!Stopped, Catalog!TypeOK, GenerationsInv,
         DriversInv, Catalog!NewestOnly, ReaderInv,
                  Catalog!Indexes, Catalog!Rounds
    <2> QED BY <2>1, <2>2, <2>3
  <1>3. CASE Catalog!Refresh
    <2>0. /\ index.gen < MaxGen /\ ~index.stopped /\ cancelled' = cancelled \cup {index.gen}
          /\ index' = [index EXCEPT !.gen = @ + 1, !.running = TRUE, !.state = "loading",
                                    !.cat = Catalog!NoCatalog]
          /\ UNCHANGED <<catalogRev, reader, since>>
      BY <1>3 DEF Catalog!Refresh
    <2>a. index.gen + 1 \in 0..MaxGen /\ index.gen \in 0..MaxGen /\ index \in Catalog!Indexes
      BY <2>0 DEF Catalog!TypeOK, Catalog!Indexes
    <2>b. index' \in Catalog!Indexes
      BY <2>0, <2>a, EmptyRecords, Zenon DEF Catalog!Indexes
    <2>c. index'.state = "loading" /\ index'.cat = Catalog!NoCatalog
      BY <2>0, <2>a DEF Catalog!Indexes
    <2>1. CASE index.running
      <3>1. driver' = driver
        BY <1>3, <2>1 DEF Catalog!Refresh, Catalog!StartDriver
      <3>2. Catalog!TypeOK'
        BY <2>0, <2>a, <2>b, <2>c, <3>1 DEF Catalog!TypeOK
      <3>3. DriversInv'
        BY <2>0, <2>1, <3>1 DEF Catalog!TypeOK, DriversInv, Catalog!Indexes, Catalog!Rounds
      <3>4. GenerationsInv' /\ Catalog!NewestOnly' /\ ReaderInv'
        BY <2>0, <3>1 DEF Catalog!TypeOK, GenerationsInv, DriversInv, Catalog!NewestOnly,
           ReaderInv, Catalog!Indexes, Catalog!Rounds
      <3> QED BY <3>2, <3>3, <3>4
    <2>2. CASE ~index.running
      <3>1. PICK d \in Drivers : driver' = [driver EXCEPT ![d] = [Catalog!Off EXCEPT !.pc = "loop"]]
        BY <1>3, <2>2 DEF Catalog!Refresh, Catalog!StartDriver
      <3>2. /\ \A e \in Drivers : driver[e] = Catalog!Off
            /\ \A e \in Drivers : driver'[e] = IF e = d THEN [Catalog!Off EXCEPT !.pc = "loop"] ELSE Catalog!Off
        BY <2>2, <3>1 DEF DriversInv, Catalog!TypeOK
      <3>3. Catalog!TypeOK'
        <4>1. [Catalog!Off EXCEPT !.pc = "loop"] \in Catalog!Rounds
          BY EmptyRecords DEF Catalog!Rounds, Catalog!Places
        <4> QED BY <2>0, <2>a, <2>b, <2>c, <3>1, <4>1 DEF Catalog!TypeOK
      <3>4. DriversInv'
        BY <2>0, <3>2 DEF Catalog!TypeOK, DriversInv, Catalog!Off, Catalog!Indexes
      <3>5. GenerationsInv' /\ Catalog!NewestOnly' /\ ReaderInv'
        BY <2>0, <3>2 DEF Catalog!TypeOK, GenerationsInv, DriversInv, Catalog!NewestOnly,
           ReaderInv, Catalog!Off, Catalog!Indexes
      <3> QED BY <3>3, <3>4, <3>5
    <2> QED BY <2>1, <2>2
  <1> QED BY <1>1, <1>2, <1>3

\* The one driver moves on.
LEMMA DriverKeeps ==
    ASSUME CatalogBounds, CatalogInv, NEW d \in Drivers, Catalog!DriverStep(d)
    PROVE  CatalogInv'
  <1> USE DEF CatalogInv, CatalogBounds
  <1>0. /\ UNCHANGED <<catalogRev, cancelled, reader, since>> /\ driver[d] # Catalog!Off /\ index.running
        /\ \A e \in Drivers \ {d} : driver[e] = Catalog!Off
    BY DEF Catalog!DriverStep, Catalog!Take, Catalog!ReadRevision, Catalog!Build, Catalog!Compare,
       Catalog!Install, Catalog!EndRound, DriversInv, Catalog!Off
  <1>1. ReaderInv'
    BY <1>0 DEF ReaderInv
  <1>2. ASSUME driver' = [driver EXCEPT ![d] = Catalog!Off], index' = [index EXCEPT !.running = FALSE],
               index.state # "loading"
        PROVE  CatalogInv'
    <2>1. Catalog!TypeOK'
      BY <1>0, <1>2, EmptyRecords DEF Catalog!TypeOK, Catalog!Indexes
    <2>2. \A e \in Drivers : driver'[e] = Catalog!Off
      BY <1>0, <1>2 DEF Catalog!TypeOK
    <2>3. DriversInv' /\ GenerationsInv' /\ Catalog!NewestOnly'
      BY <1>0, <1>2, <2>2 DEF Catalog!TypeOK, DriversInv, GenerationsInv, Catalog!NewestOnly,
         Catalog!Off, Catalog!Indexes
    <2> QED BY <1>1, <2>1, <2>3
  <1>3. ASSUME NEW x \in Catalog!Rounds, x.pc \notin {"off", "end"},
               driver' = [driver EXCEPT ![d] = x], index' = index,
               x.gen <= index.gen,
               x.pc \in {"build", "compare", "install"} => x.rev # 0
        PROVE  CatalogInv'
    <2>1. Catalog!TypeOK'
      BY <1>0, <1>3 DEF Catalog!TypeOK
    <2>2. driver'[d] = x /\ x # Catalog!Off /\ \A e \in Drivers \ {d} : driver'[e] = Catalog!Off
      BY <1>0, <1>3 DEF Catalog!TypeOK, Catalog!Off
    <2>3. DriversInv' /\ GenerationsInv' /\ Catalog!NewestOnly'
      BY <1>0, <1>3, <2>2 DEF Catalog!TypeOK, DriversInv, GenerationsInv, Catalog!NewestOnly,
         Catalog!Off, Catalog!Indexes, Catalog!Rounds
    <2> QED BY <1>1, <2>1, <2>3
  <1>4. CASE Catalog!Take(d)
    <2>1. CASE index.stopped
      BY <1>2, <1>4, <2>1 DEF Catalog!Take, GenerationsInv
    <2>2. CASE ~index.stopped
      <3> DEFINE x == [Catalog!Off EXCEPT !.pc = "start", !.gen = index.gen]
      <3>1. driver' = [driver EXCEPT ![d] = x] /\ index' = index
        BY <1>4, <2>2 DEF Catalog!Take
      <3>2. /\ x \in Catalog!Rounds /\ x.pc \notin {"off", "end"}
            /\ x.gen = index.gen /\ x.pc = "start" /\ index.gen \in 0..MaxGen
        BY EmptyRecords DEF Catalog!Off, Catalog!TypeOK, Catalog!Rounds, Catalog!Places,
           Catalog!Indexes
      <3> HIDE DEF x
      <3>3. x.gen <= index.gen
        BY <3>2
      <3> QED BY <1>3, <3>1, <3>2, <3>3
    <2> QED BY <2>1, <2>2
  <1>5. CASE Catalog!ReadRevision(d)
    <2> DEFINE x == [driver[d] EXCEPT !.pc = "build", !.rev = catalogRev]
    <2>1. driver' = [driver EXCEPT ![d] = x] /\ index' = index
      BY <1>5 DEF Catalog!ReadRevision, Catalog!TypeOK
    <2>2. /\ x \in Catalog!Rounds /\ x.pc \notin {"off", "end"}
          /\ x.gen <= index.gen /\ x.rev # 0
      <3>1. /\ driver[d] \in Catalog!Rounds /\ catalogRev \in 0..MaxRev /\ catalogRev # 0
            /\ driver[d].gen <= index.gen
        BY DEF Catalog!TypeOK, DriversInv
      <3>2. x.pc = "build" /\ x.rev = catalogRev /\ x.gen = driver[d].gen
        BY <3>1 DEF Catalog!Rounds
      <3>3. x \in Catalog!Rounds
        BY <3>1, Zenon DEF Catalog!Rounds, Catalog!Places
      <3> QED BY <3>1, <3>2, <3>3
    <2> HIDE DEF x
    <2> QED BY <1>3, <2>1, <2>2
  <1>6. CASE Catalog!Build(d) \/ Catalog!Compare(d)
    <2>1. PICK pc \in {"compare", "install"}, ok \in BOOLEAN :
             driver' = [driver EXCEPT ![d] = [driver[d] EXCEPT !.pc = pc, !.ok = ok]]
      BY <1>6 DEF Catalog!Build, Catalog!Compare, Catalog!TypeOK, Catalog!Rounds
    <2> DEFINE x == [driver[d] EXCEPT !.pc = pc, !.ok = ok]
    <2>2. driver' = [driver EXCEPT ![d] = x] /\ index' = index
      BY <1>6, <2>1 DEF Catalog!Build, Catalog!Compare
    <2>3. /\ x \in Catalog!Rounds /\ x.pc \notin {"off", "end"}
          /\ x.gen <= index.gen /\ x.rev # 0
      BY <1>6, <2>1 DEF Catalog!TypeOK, DriversInv, Catalog!Rounds, Catalog!Places, Catalog!Build,
         Catalog!Compare
    <2> HIDE DEF x
    <2> QED BY <1>3, <2>2, <2>3
  <1>7. CASE Catalog!Install(d)
    <2>1. /\ driver[d].pc = "install" /\ driver' = [driver EXCEPT ![d].pc = "end"]
          /\ index'.gen = index.gen /\ index'.running = index.running
          /\ index'.stopped = index.stopped
          /\ \/ index' = index /\ ~Catalog!Wanted(d)
             \/ /\ index.gen = driver[d].gen /\ driver[d].ok /\ ~index.stopped
                /\ index' = [index EXCEPT !.state = "ready",
                                !.cat = [gen |-> driver[d].gen, rev |-> driver[d].rev]]
             \/ index' = [index EXCEPT !.state = "failed", !.cat = Catalog!NoCatalog]
      BY <1>7 DEF Catalog!Install, Catalog!Wanted, Catalog!TypeOK, Catalog!Indexes
    <2>2. driver[d].rev # 0 /\ driver[d].gen <= index.gen
      BY <2>1 DEF DriversInv
    <2>a. index \in Catalog!Indexes /\ driver[d] \in Catalog!Rounds
      BY DEF Catalog!TypeOK
    <2>b. ASSUME index' # index
          PROVE  index' \in Catalog!Indexes /\ (index'.state = "ready" <=> index'.cat # Catalog!NoCatalog)
      <3>1. CASE index' = [index EXCEPT !.state = "ready",
                              !.cat = [gen |-> driver[d].gen, rev |-> driver[d].rev]]
        <4>1. /\ [gen |-> driver[d].gen, rev |-> driver[d].rev] \in Catalog!Catalogs
              /\ [gen |-> driver[d].gen, rev |-> driver[d].rev] # Catalog!NoCatalog
          BY <2>2, <2>a DEF Catalog!Rounds, Catalog!Catalogs, Catalog!NoCatalog
        <4>2. index' \in Catalog!Indexes
          BY <2>a, <3>1, <4>1, Zenon DEF Catalog!Indexes
        <4>3. index'.state = "ready" /\ index'.cat # Catalog!NoCatalog
          BY <2>a, <3>1, <4>1 DEF Catalog!Indexes
        <4> QED BY <4>2, <4>3
      <3>2. CASE index' = [index EXCEPT !.state = "failed", !.cat = Catalog!NoCatalog]
        <4>1. index' \in Catalog!Indexes
          BY <2>a, <3>2, EmptyRecords, Zenon DEF Catalog!Indexes
        <4>2. index'.state = "failed" /\ index'.cat = Catalog!NoCatalog
          BY <2>a, <3>2 DEF Catalog!Indexes
        <4> QED BY <4>1, <4>2
      <3> QED BY <2>1, <2>b, <3>1, <3>2
    <2>c. driver' \in [Drivers -> Catalog!Rounds]
      <3>1. [driver[d] EXCEPT !.pc = "end"] \in Catalog!Rounds
        BY <2>a, Zenon DEF Catalog!Rounds, Catalog!Places
      <3> QED BY <2>1, <3>1 DEF Catalog!TypeOK
    <2>3. Catalog!TypeOK'
      BY <1>0, <2>b, <2>c DEF Catalog!TypeOK
    <2>4. /\ driver'[d].pc = "end" /\ driver'[d].gen = driver[d].gen
          /\ \A e \in Drivers \ {d} : driver'[e] = Catalog!Off
      BY <1>0, <2>1 DEF Catalog!TypeOK
    <2>5. DriversInv'
      BY <1>0, <2>1, <2>2, <2>4 DEF Catalog!TypeOK, DriversInv, Catalog!Off
    <2>d. \/ index' = index /\ ~Catalog!Wanted(d)
          \/ /\ index'.state = "ready" /\ index.gen = driver[d].gen /\ ~index.stopped
             /\ index'.cat = [gen |-> driver[d].gen, rev |-> driver[d].rev]
          \/ index'.state = "failed" /\ index'.cat = Catalog!NoCatalog
      BY <2>1, <2>a DEF Catalog!Indexes
    <2>6. Catalog!NewestOnly'
      BY <2>1, <2>d DEF Catalog!NewestOnly
    <2>7. index'.state = "loading" => index' = index /\ index.gen # driver[d].gen
      <3>1. CASE index' = index /\ ~Catalog!Wanted(d)
        <4>1. index.gen \in 0..MaxGen
          BY <2>a DEF Catalog!Indexes
        <4>2. driver[d].gen = index.gen => driver[d].gen \notin cancelled
          BY <4>1 DEF GenerationsInv
        <4> QED BY <3>1, <4>2 DEF Catalog!Wanted, GenerationsInv
      <3> QED BY <2>d, <3>1
    <2>8. GenerationsInv'
      <3>1. /\ \A g \in cancelled' : g < index'.gen
            /\ index'.state = "loading" => index'.running
        BY <1>0, <2>1, <2>7 DEF GenerationsInv
      <3>2. index'.stopped => index'.state = "failed"
        BY <2>1, <2>d DEF GenerationsInv
      <3>3. ASSUME NEW e \in Drivers, driver'[e].pc = "end", driver'[e].gen = index'.gen
            PROVE  index'.state # "loading"
        BY <2>1, <2>4, <2>7, <3>3 DEF Catalog!Off
      <3> QED BY <3>1, <3>2, <3>3 DEF GenerationsInv
    <2> QED BY <1>1, <2>3, <2>5, <2>6, <2>8
  <1>8. CASE Catalog!EndRound(d)
    <2>1. CASE Catalog!Settled(d)
      <3>1. index.state # "loading"
        BY <1>8, <2>1 DEF Catalog!EndRound, Catalog!Settled, GenerationsInv
      <3> QED BY <1>2, <1>8, <2>1, <3>1 DEF Catalog!EndRound
    <2>2. CASE ~Catalog!Settled(d)
      <3> DEFINE x == [driver[d] EXCEPT !.pc = "loop"]
      <3>1. driver' = [driver EXCEPT ![d] = x] /\ index' = index
        BY <1>8, <2>2 DEF Catalog!EndRound, Catalog!TypeOK
      <3>2. /\ x \in Catalog!Rounds /\ x.pc \notin {"off", "end"}
            /\ x.gen <= index.gen /\ x.pc = "loop"
        BY DEF Catalog!TypeOK, DriversInv, Catalog!Rounds, Catalog!Places
      <3> HIDE DEF x
      <3> QED BY <1>3, <3>1, <3>2
    <2> QED BY <2>1, <2>2
  <1> QED BY <1>4, <1>5, <1>6, <1>7, <1>8 DEF Catalog!DriverStep

CatalogReaderStep == Catalog!Ask \/ Catalog!Requested \/ Catalog!Tell \/ Catalog!Work \/ Catalog!CheckCatalog

\* A reader changes nothing but its own state, and what it answers is current.
LEMMA ReaderKeeps ==
    ASSUME CatalogBounds, CatalogInv, CatalogReaderStep
    PROVE  CatalogInv' /\ Catalog!AnswerIsCurrent
  <1>1. UNCHANGED <<catalogRev, index, cancelled, driver>>
    BY DEF CatalogReaderStep, Catalog!Ask, Catalog!Requested, Catalog!Tell, Catalog!Work,
       Catalog!CheckCatalog
  <1>2. /\ index.cat \in Catalog!Catalogs /\ reader \in Catalog!Requests /\ reader.cat \in Catalog!Catalogs
        /\ catalogRev \in 1..MaxRev /\ since \in 0..MaxRev /\ ReaderInv /\ Catalog!TypeOK
    BY DEF CatalogInv, Catalog!TypeOK, Catalog!Indexes, Catalog!Requests
  <1>3. \A r : Catalog!Snapshot(r) \in Catalog!Catalogs /\ (Catalog!Snapshot(r) # Catalog!NoCatalog =>
                                             Catalog!Snapshot(r) = index.cat /\ index.cat.rev = r)
    BY <1>2, EmptyRecords DEF Catalog!Snapshot
  <1>4. CASE Catalog!Ask
    <2>1. reader'.pc = "asked" /\ reader'.rev = catalogRev /\ since' = catalogRev /\ reader' \in Catalog!Requests
      <3>1. Catalog!NoReader \in Catalog!Requests /\ catalogRev \in 0..MaxRev
        BY <1>2, EmptyRecords
      <3>2. reader' = [Catalog!NoReader EXCEPT !.pc = "asked", !.rev = catalogRev] /\ since' = catalogRev
        BY <1>4 DEF Catalog!Ask
      <3> QED BY <3>1, <3>2 DEF Catalog!Requests
    <2> QED BY <1>1, <1>2, <2>1 DEF CatalogInv, Catalog!TypeOK, ReaderInv, Catalog!AnswerIsCurrent, DriversInv,
                                  GenerationsInv, Catalog!NewestOnly
  <1> SUFFICES ASSUME since' = since,
                      /\ reader' \in Catalog!Requests /\ reader'.rev \in {reader.rev, catalogRev}
                      /\ reader'.pc # "asked"
                      /\ reader'.pc \in {"working", "checking"} =>
                            reader'.cat # Catalog!NoCatalog /\ reader'.cat.rev \in since..catalogRev
                      /\ Catalog!AnswerIsCurrent
               PROVE  CatalogInv' /\ Catalog!AnswerIsCurrent
    <2>1. CASE Catalog!Requested
      <3>1. Catalog!Snapshot(reader.rev) # Catalog!NoCatalog => Catalog!Snapshot(reader.rev).rev = since
        BY <1>2, <1>3, <2>1 DEF Catalog!Requested, ReaderInv
      <3>2. CASE Catalog!Snapshot(reader.rev) = Catalog!NoCatalog
        BY <1>2, <2>1, <3>2 DEF Catalog!Requested, Catalog!Requests, Catalog!AnswerIsCurrent
      <3>3. CASE Catalog!Snapshot(reader.rev) # Catalog!NoCatalog
        <4>1. reader' = [reader EXCEPT !.pc = "working", !.cat = Catalog!Snapshot(reader.rev)]
          BY <2>1, <3>3 DEF Catalog!Requested
        <4>2. /\ reader' \in Catalog!Requests /\ reader'.rev = reader.rev /\ reader'.pc = "working"
              /\ reader'.cat = Catalog!Snapshot(reader.rev)
          BY <1>2, <1>3, <4>1 DEF Catalog!Requests
        <4>3. since \in since..catalogRev
          BY <1>2 DEF ReaderInv
        <4> QED BY <2>1, <3>1, <3>3, <4>2, <4>3 DEF Catalog!Requested, Catalog!AnswerIsCurrent
      <3> QED BY <3>2, <3>3
    <2>2. CASE Catalog!Tell
      BY <1>2, <1>3, <2>2 DEF Catalog!Tell, Catalog!Requests, Catalog!AnswerIsCurrent
    <2>3. CASE Catalog!Work
      <3>0. reader' = [reader EXCEPT !.pc = "checking", !.rev = catalogRev] /\ catalogRev \in 0..MaxRev
        BY <1>2, <2>3 DEF Catalog!Work
      <3>1. /\ reader' \in Catalog!Requests /\ reader'.rev = catalogRev /\ reader'.pc = "checking"
            /\ reader'.cat = reader.cat
        BY <1>2, <3>0 DEF Catalog!Requests
      <3> QED BY <1>2, <2>3, <3>1 DEF Catalog!Work, ReaderInv, Catalog!AnswerIsCurrent
    <2>4. CASE Catalog!CheckCatalog
      <3>1. reader.cat # Catalog!NoCatalog /\ reader.cat.rev \in since..catalogRev
        BY <1>2, <2>4 DEF Catalog!CheckCatalog, ReaderInv
      <3>2. Catalog!SameCatalog => reader.cat = index.cat
        BY <1>3, <3>1 DEF Catalog!SameCatalog
      <3> QED BY <1>2, <2>4, <3>1, <3>2 DEF Catalog!CheckCatalog, Catalog!Requests, Catalog!AnswerIsCurrent
    <2> QED BY <1>4, <2>1, <2>2, <2>3, <2>4 DEF CatalogReaderStep
  <1>5. Catalog!TypeOK' /\ ReaderInv'
    BY <1>1, <1>2 DEF Catalog!TypeOK, ReaderInv, Catalog!Requests
  <1> QED BY <1>1, <1>5 DEF CatalogInv, DriversInv, GenerationsInv, Catalog!NewestOnly

LEMMA CatalogStep ==
    CatalogBounds /\ CatalogInv /\ [Catalog!Next]_Catalog!vars => CatalogInv' /\ Catalog!AnswerIsCurrent
  <1> SUFFICES ASSUME CatalogBounds, CatalogInv, [Catalog!Next]_Catalog!vars
               PROVE  CatalogInv' /\ Catalog!AnswerIsCurrent
    OBVIOUS
  <1>1. CASE UNCHANGED Catalog!vars
    BY <1>1 DEF Catalog!vars, CatalogInv, Catalog!TypeOK, DriversInv, GenerationsInv,
       Catalog!NewestOnly, ReaderInv, Catalog!AnswerIsCurrent
  <1>2. CASE \/ Catalog!Refresh \/ Catalog!CancelActive \/ Catalog!Publish
             \/ \E d \in Drivers : Catalog!DriverStep(d)
    <2>1. CatalogInv'
      BY <1>2, RequestKeeps, DriverKeeps
    <2>2. reader' = reader
      BY <1>2 DEF Catalog!Refresh, Catalog!CancelActive, Catalog!Publish, Catalog!DriverStep,
         Catalog!Take, Catalog!ReadRevision, Catalog!Build, Catalog!Compare, Catalog!Install,
         Catalog!EndRound
    <2> QED BY <2>1, <2>2 DEF Catalog!AnswerIsCurrent
  <1>3. CASE CatalogReaderStep
    BY <1>3, ReaderKeeps
  <1> QED BY <1>1, <1>2, <1>3 DEF Catalog!Next, CatalogReaderStep

\* Cardinality is the same operator in every component.
LEMMA SameCardinality == \A S : Catalog!Cardinality(S) = Cardinality(S)
  BY DEF Catalog!Cardinality, Cardinality

LEMMA CatalogImplies ==
    CatalogInv => /\ Catalog!TypeOK /\ Catalog!OneDriver /\ Catalog!NewestOnly
                  /\ Catalog!LoadingIsDriven
  <1> SUFFICES ASSUME CatalogInv PROVE Catalog!OneDriver /\ Catalog!LoadingIsDriven
    BY DEF CatalogInv
  <1>1. Catalog!LoadingIsDriven
    BY DEF CatalogInv, DriversInv, GenerationsInv, Catalog!LoadingIsDriven
  <1>2. Catalog!OneDriver
    <2> DEFINE S == {d \in Drivers : driver[d] # Catalog!Off}
    <2>1. CASE S = {}
      BY <2>1, FS_EmptySet, SameCardinality DEF Catalog!OneDriver
    <2>2. ASSUME NEW d \in S PROVE Cardinality(S) = 1
      <3>1. S = {d}
        BY <2>2 DEF CatalogInv, DriversInv
      <3> HIDE DEF S
      <3> QED BY <3>1, FS_Singleton
    <2> QED BY <2>1, <2>2, SameCardinality DEF Catalog!OneDriver
  <1> QED BY <1>1, <1>2

\* For any drivers, generations and revisions: one driver builds the dependency catalog, no
\* older generation replaces a newer one, and a loading index has a driver that will
\* bring an outcome (http.rs, request_build and publish_dependency_index).
THEOREM CatalogSafe ==
    Spec => [](part = "catalog" => /\ Catalog!TypeOK /\ Catalog!OneDriver /\ Catalog!NewestOnly
                                   /\ Catalog!LoadingIsDriven)
  <1> DEFINE Inv == part = "catalog" => CatalogInv
  <1>0. CatalogBounds
    BY CatalogConstants DEF CatalogBounds
  <1>1. Init => Inv
    BY <1>0, CatalogInit DEF Init
  <1>2. Inv /\ [Next]_vars => Inv'
    <2>1. [Next]_vars => part' = part /\ (part = "catalog" => [Catalog!Next]_Catalog!vars)
      BY DEF Next, vars, catalogVars, Catalog!vars
    <2> QED BY <1>0, <2>1, CatalogStep
  <1>3. Inv => (part = "catalog" => /\ Catalog!TypeOK /\ Catalog!OneDriver /\ Catalog!NewestOnly
                                    /\ Catalog!LoadingIsDriven)
    BY CatalogImplies
  <1> QED BY <1>1, <1>2, <1>3, PTL DEF Spec

----------------------------------------------------------------------------
(* The publication writer (PublicationWriter).                             *)

\* A retained revision: its manifest is its capture's, every row it names is in the
\* database, and every fact is as its own executable measures it.
RevisionKept(R, versions, projections) ==
    /\ DOMAIN R = {"docs", "build", "cap", "stats", "route"}
    /\ DOMAIN R.docs = Writer!Present(R.cap)
    /\ \A p \in Writer!Present(R.cap) :
          LET text == R.cap.files[p]
              facts == Measures[R.build][text]
          IN  /\ R.docs[p].version = <<p, text>>
              /\ R.docs[p].graph = <<p, text, R.cap.labels, facts>>
              /\ <<p, text>> \in DOMAIN versions /\ versions[<<p, text>>].wit = facts
              /\ <<p, text, R.cap.labels, facts>> \in DOMAIN projections

WriterRows == \A v \in DOMAIN native : DOMAIN native[v] = {"bytes", "facts", "wit"}

WriterHistory ==
    /\ writerHead \in [gen : Nat, rev : Nat]
    /\ writerRevs = [r \in 1..writerHead.rev |-> writerRevs[r]]
    /\ \A r \in 1..writerHead.rev : RevisionKept(writerRevs[r], native, graphs)

\* What a route has established of the head it adds to.
SameRoute ==
    /\ writerJob.stage \in {"sameOpen", "same"} => Writer!Published
    /\ writerJob.stage = "same" => Writer!SameBuild /\ Writer!Selected.cap = writerJob.cap
LocalRoute == writerJob.stage \in {"prepared", "local", "localOpen", "localReady"} =>
    Writer!Published /\ Writer!Comparable /\ Writer!BodyEdit(writerJob.path)
NothingKept == writerJob.stage \notin {"localReady", "fullReady"} =>
    writerJob.keepNative = {} /\ writerJob.keepGraph = {}
LocalKeeps == writerJob.stage = "localReady" =>
    writerJob.keepNative = Writer!Relinked /\ writerJob.keepGraph = Writer!Relinked
\* Until somebody writes behind the daemon, what a full publication reuses is attested.
FullKeeps == writerJob.stage = "fullReady" =>
    /\ writerJob.keepGraph \subseteq writerJob.keepNative
    /\ writerJob.keepNative \subseteq Writer!Present(writerJob.cap)
    /\ \A p \in writerJob.keepNative :
          LET v == <<p, writerJob.cap.files[p]>>
          IN  /\ Writer!Published /\ p \in DOMAIN Writer!Selected.docs
              /\ Writer!Selected.docs[p].version = v
              /\ v \in DOMAIN native
              /\ native[v].wit = Measures[build][writerJob.cap.files[p]]
              /\ ~writerJob.moved => native[v].bytes /\ native[v].facts = native[v].wit
    /\ \A p \in writerJob.keepGraph :
          LET g == Writer!Doc(writerJob.cap, p, build).graph
          IN  /\ Writer!Selected.docs[p].graph = g /\ g \in DOMAIN graphs
              /\ ~writerJob.moved => graphs[g]

WriterJobs ==
    /\ DOMAIN writerJob = {"stage", "cap", "path", "moved", "keepNative", "keepGraph"}
    /\ writerJob.moved \in BOOLEAN
    /\ SameRoute /\ LocalRoute /\ NothingKept /\ LocalKeeps /\ FullKeeps

WriterInv == disp \in {"Ready", "Rebuild"} /\ WriterRows /\ WriterHistory /\ WriterJobs

LEMMA WriterInitOK == Writer!Init => WriterInv
  <1> SUFFICES ASSUME Writer!Init PROVE WriterInv
    OBVIOUS
  <1>1. WriterJobs
    BY DEF Writer!Init, Writer!Idle, WriterJobs, SameRoute, LocalRoute, NothingKept, LocalKeeps, FullKeeps
  <1>2. WriterRows /\ WriterHistory
    BY DEF Writer!Init, WriterRows, WriterHistory
  <1> QED BY <1>1, <1>2 DEF WriterInv, Writer!Init

LEMMA IdleJobs == writerJob' = Writer!Idle => WriterJobs'
  BY DEF Writer!Idle, WriterJobs, SameRoute, LocalRoute, NothingKept, LocalKeeps, FullKeeps

\* A revision is kept while rows are only added and keep their witnesses.
LEMMA RevisionStays ==
    ASSUME NEW R, NEW n, NEW g, NEW n2, NEW g2, RevisionKept(R, n, g),
           \A v \in DOMAIN n : v \in DOMAIN n2 /\ n2[v].wit = n[v].wit,
           DOMAIN g \subseteq DOMAIN g2
    PROVE  RevisionKept(R, n2, g2)
  BY DEF RevisionKept

\* A step that leaves the database alone.
LEMMA WriterPlans ==
    ASSUME WriterInv, UNCHANGED <<writerHead, writerRevs, native, graphs>>,
           disp' \in {"Ready", "Rebuild"}, WriterJobs'
    PROVE  WriterInv' /\ Writer!FullIsAttested /\ Writer!HistoryKept
  <1>1. WriterRows' /\ WriterHistory'
    BY DEF WriterInv, WriterRows, WriterHistory
  <1> QED BY <1>1 DEF WriterInv, Writer!FullIsAttested, Writer!HistoryKept

LEMMA WriterSurroundings ==
    ASSUME WriterInv, Writer!Edit \/ Writer!Restart \/ Writer!Read
    PROVE  WriterInv' /\ Writer!FullIsAttested /\ Writer!HistoryKept
  <1>1. /\ UNCHANGED <<writerHead, writerRevs, native, graphs>> /\ disp' \in {"Ready", "Rebuild"}
        /\ writerJob' = Writer!Idle \/ UNCHANGED <<writerJob, build>>
    BY DEF WriterInv, Writer!Edit, Writer!Restart, Writer!Read
  <1>2. CASE UNCHANGED <<writerJob, build>>
    <2>1. WriterJobs'
      BY <1>1, <1>2 DEF WriterInv, WriterJobs, SameRoute, LocalRoute, NothingKept, LocalKeeps, FullKeeps,
         Writer!Published, Writer!SameBuild, Writer!Selected, Writer!Comparable, Writer!BodyEdit,
         Writer!Changed, Writer!Relinked, Writer!Present, Writer!Doc
    <2> QED BY <1>1, <2>1, WriterPlans
  <1> QED BY <1>1, <1>2, IdleJobs, WriterPlans

\* A rewritten row keeps its name and its witness, and the job is told.
LEMMA WriterRewritten ==
    ASSUME WriterInv, Writer!Rewrite
    PROVE  WriterInv' /\ Writer!FullIsAttested /\ Writer!HistoryKept
  <1>1. /\ UNCHANGED <<build, disp, writerHead, writerRevs>>
        /\ writerJob' = [writerJob EXCEPT !.moved = (writerJob.stage # "idle")]
    BY DEF Writer!Rewrite
  <1>2. /\ DOMAIN native' = DOMAIN native /\ DOMAIN graphs' = DOMAIN graphs
        /\ \A v \in DOMAIN native : /\ native'[v].wit = native[v].wit
                                    /\ DOMAIN native'[v] = {"bytes", "facts", "wit"}
    <2>1. CASE UNCHANGED graphs
      <3>1. CASE UNCHANGED native
        BY <2>1, <3>1 DEF WriterInv, WriterRows
      <3>2. CASE \E v \in DOMAIN native :
                    \E bad \in {[native[v] EXCEPT !.bytes = FALSE],
                                [native[v] EXCEPT !.facts = Writer!Junk]} :
                        native' = [native EXCEPT ![v] = bad]
        BY <2>1, <3>2 DEF WriterInv, WriterRows
      <3> QED BY <3>1, <3>2 DEF Writer!Rewrite
    <2>2. CASE UNCHANGED native /\ \E g \in DOMAIN graphs : graphs' = [graphs EXCEPT ![g] = FALSE]
      BY <2>2 DEF WriterInv, WriterRows
    <2> QED BY <2>1, <2>2 DEF Writer!Rewrite
  <1>3. /\ DOMAIN writerJob' = {"stage", "cap", "path", "moved", "keepNative", "keepGraph"}
        /\ writerJob'.stage = writerJob.stage /\ writerJob'.cap = writerJob.cap
        /\ writerJob'.path = writerJob.path /\ writerJob'.keepNative = writerJob.keepNative
        /\ writerJob'.keepGraph = writerJob.keepGraph
        /\ writerJob'.moved = (writerJob.stage # "idle")
    BY <1>1 DEF WriterInv, WriterJobs
  <1>4. WriterRows' /\ WriterHistory'
    BY <1>1, <1>2, RevisionStays DEF WriterInv, WriterRows, WriterHistory
  <1>5. SameRoute' /\ LocalRoute' /\ NothingKept' /\ LocalKeeps'
    BY <1>1, <1>3 DEF WriterInv, WriterJobs, SameRoute, LocalRoute, NothingKept, LocalKeeps,
         Writer!Published, Writer!SameBuild, Writer!Selected, Writer!Comparable, Writer!BodyEdit,
         Writer!Changed, Writer!Relinked, Writer!Present
  <1>6. FullKeeps'
    <2>1. FullKeeps
      BY DEF WriterInv, WriterJobs
    <2>2. writerJob'.stage = "fullReady" => writerJob'.moved
      BY <1>3
    <2> QED BY <1>1, <1>2, <1>3, <2>1, <2>2 DEF FullKeeps, Writer!Published, Writer!Selected,
           Writer!Present, Writer!Paths, Writer!Doc
  <1>7. Writer!FullIsAttested /\ Writer!HistoryKept
    BY <1>1 DEF Writer!FullIsAttested, Writer!HistoryKept
  <1> QED BY <1>1, <1>3, <1>4, <1>5, <1>6, <1>7 DEF WriterInv, WriterJobs

\* A route is chosen and its reuse checked.
LEMMA WriterRoutes ==
    ASSUME WriterInv,
           \/ Writer!Begin \/ Writer!CheckUnchanged \/ Writer!PrepareLocal \/ Writer!ComposeLocal
           \/ Writer!OpenWriter \/ Writer!PreflightLocal
    PROVE  WriterInv' /\ Writer!FullIsAttested /\ Writer!HistoryKept
  <1>0. UNCHANGED <<build, disp, writerHead, writerRevs, native, graphs>>
    BY DEF Writer!Begin, Writer!CheckUnchanged, Writer!PrepareLocal, Writer!ComposeLocal,
           Writer!OpenWriter, Writer!PreflightLocal, Writer!Fail
  <1> DEFINE Shape == DOMAIN writerJob = {"stage", "cap", "path", "moved", "keepNative", "keepGraph"}
         Keeps == writerJob.keepNative = {} /\ writerJob.keepGraph = {}
  <1>s. Shape /\ writerJob.moved \in BOOLEAN /\ Keeps
    BY DEF WriterInv, WriterJobs, NothingKept, Writer!Begin, Writer!CheckUnchanged,
       Writer!PrepareLocal, Writer!ComposeLocal, Writer!OpenWriter, Writer!PreflightLocal
  <1>1. CASE writerJob' = Writer!Idle
    BY <1>0, <1>1, IdleJobs, WriterPlans DEF WriterInv
  <1>2. CASE Writer!Begin
    <2>1. PICK stage \in {"sameOpen", "plan"} :
             /\ writerJob' = [Writer!Idle EXCEPT !.stage = stage, !.cap = writerTree]
             /\ stage = "sameOpen" => Writer!Published
      BY <1>2 DEF Writer!Begin, Writer!Ready
    <2>2. Shape' /\ writerJob'.stage = stage /\ writerJob'.moved \in BOOLEAN /\ Keeps'
      BY <2>1 DEF Writer!Idle
    <2>3. WriterJobs'
      BY <1>0, <2>1, <2>2 DEF WriterJobs, SameRoute, LocalRoute, NothingKept, LocalKeeps, FullKeeps,
         Writer!Published
    <2> QED BY <1>0, <2>3, WriterPlans DEF WriterInv
  <1>3. ASSUME NEW stage, stage \in {"plan", "full", "fullOpen"}, Shape', writerJob'.stage = stage,
               writerJob'.moved \in BOOLEAN /\ Keeps'
        PROVE  WriterInv' /\ Writer!FullIsAttested /\ Writer!HistoryKept
    <2>1. WriterJobs'
      BY <1>3 DEF WriterJobs, SameRoute, LocalRoute, NothingKept, LocalKeeps, FullKeeps
    <2> QED BY <1>0, <2>1, WriterPlans DEF WriterInv
  <1>4. CASE Writer!CheckUnchanged /\ writerJob' # Writer!Idle
    <2>1. CASE writerJob' = [writerJob EXCEPT !.stage = "plan"]
      BY <1>s, <1>3, <2>1
    <2>2. CASE Writer!Unchanged /\ writerJob' = [writerJob EXCEPT !.stage = "same"]
      <3>1. /\ Shape' /\ writerJob'.stage = "same" /\ writerJob'.cap = writerJob.cap
            /\ writerJob'.moved \in BOOLEAN /\ Keeps'
        BY <1>s, <2>2
      <3>2. SameRoute'
        BY <1>0, <1>4, <2>2, <3>1 DEF SameRoute, Writer!Unchanged, Writer!SameBuild,
           Writer!Selected, Writer!Published, WriterInv, WriterJobs, Writer!CheckUnchanged
      <3>3. WriterJobs'
        BY <3>1, <3>2 DEF WriterJobs, LocalRoute, NothingKept, LocalKeeps, FullKeeps
      <3> QED BY <1>0, <3>3, WriterPlans DEF WriterInv
    <2> QED BY <1>4, <2>1, <2>2 DEF Writer!CheckUnchanged, Writer!Fail
  <1>5. CASE Writer!PrepareLocal /\ writerJob' # Writer!Idle
    <2>1. CASE writerJob' = [writerJob EXCEPT !.stage = "full"]
      BY <1>s, <1>3, <2>1
    <2>2. ASSUME NEW p, Writer!Ready, Writer!Comparable, Writer!BodyEdit(p),
                 writerJob' = [writerJob EXCEPT !.stage = "prepared", !.path = p]
          PROVE  WriterInv' /\ Writer!FullIsAttested /\ Writer!HistoryKept
      <3>1. /\ Shape' /\ writerJob'.stage = "prepared" /\ writerJob'.cap = writerJob.cap
            /\ writerJob'.path = p /\ writerJob'.moved \in BOOLEAN /\ Keeps'
        BY <1>s, <2>2
      <3>2. LocalRoute'
        BY <1>0, <2>2, <3>1 DEF LocalRoute, Writer!Comparable, Writer!SameBuild, Writer!BodyEdit,
           Writer!Changed, Writer!Present, Writer!Selected, Writer!Published, Writer!Ready
      <3>3. WriterJobs'
        BY <3>1, <3>2 DEF WriterJobs, SameRoute, NothingKept, LocalKeeps, FullKeeps
      <3> QED BY <1>0, <3>3, WriterPlans DEF WriterInv
    <2> QED BY <1>5, <2>1, <2>2 DEF Writer!PrepareLocal, Writer!Fail
  <1>6. ASSUME NEW stage, stage \in {"local", "localOpen"}, Shape', writerJob'.stage = stage,
               writerJob'.cap = writerJob.cap, writerJob'.path = writerJob.path,
               writerJob'.moved \in BOOLEAN /\ Keeps', writerJob.stage \in {"prepared", "local"}
        PROVE  WriterInv' /\ Writer!FullIsAttested /\ Writer!HistoryKept
    <2>1. LocalRoute'
      BY <1>0, <1>6 DEF WriterInv, WriterJobs, LocalRoute, Writer!Comparable, Writer!SameBuild,
         Writer!BodyEdit, Writer!Changed, Writer!Present, Writer!Selected, Writer!Published
    <2>2. WriterJobs'
      BY <1>6, <2>1 DEF WriterJobs, SameRoute, NothingKept, LocalKeeps, FullKeeps
    <2> QED BY <1>0, <2>2, WriterPlans DEF WriterInv
  <1>7. CASE Writer!ComposeLocal
    <2>1. PICK stage \in {"local", "full"} : writerJob' = [writerJob EXCEPT !.stage = stage]
      BY <1>7 DEF Writer!ComposeLocal
    <2>2. /\ Shape' /\ writerJob'.stage = stage /\ writerJob'.cap = writerJob.cap
          /\ writerJob'.path = writerJob.path /\ writerJob'.moved \in BOOLEAN /\ Keeps'
          /\ writerJob.stage = "prepared"
      BY <1>s, <1>7, <2>1 DEF Writer!ComposeLocal
    <2> QED BY <1>3, <1>6, <2>2
  <1>8. CASE Writer!OpenWriter
    <2> DEFINE stage == IF writerJob.stage = "local" THEN "localOpen" ELSE "fullOpen"
    <2>1. writerJob' = [writerJob EXCEPT !.stage = stage, !.moved = FALSE]
      BY <1>s, <1>8 DEF Writer!OpenWriter
    <2>2. stage = "localOpen" => writerJob.stage = "local"
      OBVIOUS
    <2>3. stage \in {"localOpen", "fullOpen"}
      OBVIOUS
    <2> HIDE DEF stage
    <2>4. /\ Shape' /\ writerJob'.stage = stage /\ writerJob'.cap = writerJob.cap
          /\ writerJob'.path = writerJob.path /\ writerJob'.moved \in BOOLEAN /\ Keeps'
      BY <1>s, <2>1
    <2> QED BY <1>3, <1>6, <2>2, <2>3, <2>4
  <1>9. CASE Writer!PreflightLocal /\ writerJob' # Writer!Idle
    <2>1. /\ writerJob.stage = "localOpen"
          /\ writerJob' = [writerJob EXCEPT !.stage = "localReady", !.keepNative = Writer!Relinked,
                                            !.keepGraph = Writer!Relinked]
      BY <1>9 DEF Writer!PreflightLocal, Writer!Fail
    <2>2. /\ Shape' /\ writerJob'.stage = "localReady" /\ writerJob'.cap = writerJob.cap
          /\ writerJob'.path = writerJob.path /\ writerJob'.moved \in BOOLEAN
          /\ writerJob'.keepNative = Writer!Relinked /\ writerJob'.keepGraph = Writer!Relinked
      BY <1>s, <2>1
    <2>3. LocalRoute'
      BY <1>0, <2>1, <2>2 DEF WriterInv, WriterJobs, LocalRoute, Writer!Comparable,
         Writer!SameBuild, Writer!BodyEdit, Writer!Changed, Writer!Present, Writer!Selected,
         Writer!Published
    <2>4. LocalKeeps'
      BY <2>2 DEF LocalKeeps, Writer!Relinked, Writer!Present
    <2>5. WriterJobs'
      BY <2>2, <2>3, <2>4 DEF WriterJobs, SameRoute, NothingKept, FullKeeps
    <2> QED BY <1>0, <2>5, WriterPlans DEF WriterInv
  <1> QED BY <1>1, <1>2, <1>4, <1>5, <1>7, <1>8, <1>9

\* What the head already lists at the captured text may be reused as it is.
LEMMA ReuseOfHead ==
    ASSUME WriterInv, Writer!Published, NEW p \in Writer!Kept("version")
    PROVE  LET v == <<p, writerJob.cap.files[p]>>
           IN  /\ p \in Writer!Present(writerJob.cap) /\ p \in DOMAIN Writer!Selected.docs
               /\ Writer!Selected.docs[p].version = v /\ v \in DOMAIN native
               /\ Writer!SameBuild => native[v].wit = Measures[build][writerJob.cap.files[p]]
  <1>1. RevisionKept(Writer!Selected, native, graphs)
    BY DEF WriterInv, WriterHistory, Writer!Published, Writer!Selected
  <1>2. /\ p \in Writer!Present(writerJob.cap) /\ p \in DOMAIN Writer!Selected.docs
        /\ Writer!Selected.docs[p].version = <<p, writerJob.cap.files[p]>>
    BY DEF Writer!Kept, Writer!Doc
  <1>3. writerJob.cap.files[p] = Writer!Selected.cap.files[p]
    <2>1. Writer!Selected.docs[p].version = <<p, Writer!Selected.cap.files[p]>>
      BY <1>1, <1>2 DEF RevisionKept
    <2> QED BY <1>2, <2>1
  <1> QED BY <1>1, <1>2, <1>3 DEF RevisionKept, Writer!SameBuild

LEMMA ReuseOfProjection ==
    ASSUME WriterInv, Writer!Published, NEW p \in Writer!Kept("graph")
    PROVE  LET g == Writer!Doc(writerJob.cap, p, build).graph
           IN  /\ p \in Writer!Kept("version")
               /\ Writer!Selected.docs[p].graph = g /\ g \in DOMAIN graphs
  <1> DEFINE text == writerJob.cap.files[p]
  <1>1. RevisionKept(Writer!Selected, native, graphs)
    BY DEF WriterInv, WriterHistory, Writer!Published, Writer!Selected
  <1>2. /\ p \in Writer!Present(writerJob.cap) /\ p \in DOMAIN Writer!Selected.docs
        /\ Writer!Selected.docs[p].graph = <<p, text, writerJob.cap.labels, Measures[build][text]>>
    BY DEF Writer!Kept, Writer!Doc
  <1>3. Writer!Selected.docs[p].graph \in DOMAIN graphs
        /\ text = Writer!Selected.cap.files[p]
    <2> DEFINE R == Writer!Selected
               other == R.cap.files[p]
    <2>1. /\ R.docs[p].graph = <<p, other, R.cap.labels, Measures[R.build][other]>>
          /\ R.docs[p].graph \in DOMAIN graphs
      BY <1>1, <1>2 DEF RevisionKept
    <2> HIDE DEF R, other, text
    <2> QED BY <1>2, <2>1 DEF R, other, text
  <1>4. Writer!Selected.docs[p].version = <<p, text>>
    BY <1>1, <1>2, <1>3 DEF RevisionKept
  <1> QED BY <1>2, <1>3, <1>4 DEF Writer!Kept, Writer!Doc

\* A full publication reuses what it has attested, or nothing of an untrusted head.
LEMMA WriterPreflight ==
    ASSUME WriterInv, Writer!PreflightFull
    PROVE  WriterInv' /\ Writer!FullIsAttested /\ Writer!HistoryKept
  <1>0. /\ UNCHANGED <<build, disp, writerHead, writerRevs, native, graphs>>
        /\ DOMAIN writerJob = {"stage", "cap", "path", "moved", "keepNative", "keepGraph"}
        /\ writerJob.moved \in BOOLEAN /\ writerJob.keepNative = {} /\ writerJob.keepGraph = {}
    BY DEF Writer!PreflightFull, Writer!Fail, WriterInv, WriterJobs, NothingKept
  <1>1. CASE writerJob' = Writer!Idle
    BY <1>0, <1>1, IdleJobs, WriterPlans DEF WriterInv
  <1>2. CASE writerJob' = [writerJob EXCEPT !.stage = "fullReady"]
    <2>1. /\ DOMAIN writerJob' = {"stage", "cap", "path", "moved", "keepNative", "keepGraph"}
          /\ writerJob'.stage = "fullReady" /\ writerJob'.moved \in BOOLEAN
          /\ writerJob'.keepNative = {} /\ writerJob'.keepGraph = {}
      BY <1>0, <1>2
    <2>2. WriterJobs'
      BY <2>1 DEF WriterJobs, SameRoute, LocalRoute, NothingKept, LocalKeeps, FullKeeps
    <2> QED BY <1>0, <2>2, WriterPlans DEF WriterInv
  <1>3. CASE /\ Writer!Ready /\ ~writerJob.moved /\ (Writer!SameBuild \/ ~Writer!Drifted)
             /\ Writer!Attested
             /\ writerJob' = [writerJob EXCEPT !.stage = "fullReady",
                                 !.keepNative = Writer!Kept("version"),
                                 !.keepGraph = Writer!Kept("graph")]
    <2>1. /\ DOMAIN writerJob' = {"stage", "cap", "path", "moved", "keepNative", "keepGraph"}
          /\ writerJob'.stage = "fullReady" /\ writerJob'.moved \in BOOLEAN
          /\ writerJob'.cap = writerJob.cap
          /\ writerJob'.keepNative = Writer!Kept("version")
          /\ writerJob'.keepGraph = Writer!Kept("graph")
      BY <1>0, <1>3
    <2>2. Writer!Published
      BY <1>3 DEF Writer!Ready
    <2>3. ASSUME NEW p \in Writer!Kept("version")
          PROVE  LET v == <<p, writerJob.cap.files[p]>>
                 IN  /\ native[v].wit = Measures[build][writerJob.cap.files[p]]
                     /\ native[v].bytes /\ native[v].facts = native[v].wit
      <3> DEFINE v == <<p, writerJob.cap.files[p]>>
      <3>1. /\ p \in Writer!Present(writerJob.cap) /\ Writer!Selected.docs[p].version = v
            /\ v \in DOMAIN native
            /\ Writer!SameBuild => native[v].wit = Measures[build][writerJob.cap.files[p]]
        BY <2>2, ReuseOfHead
      <3>2. Writer!NativeAttested(p)
        BY <1>3 DEF Writer!Attested
      <3>3. ~Writer!Drifted => native[v].wit = Measures[build][writerJob.cap.files[p]]
        BY <3>1 DEF Writer!Drifted, Writer!Doc
      <3> QED BY <1>3, <3>1, <3>2, <3>3 DEF Writer!NativeAttested
    <2>4. ASSUME NEW p \in Writer!Kept("graph")
          PROVE  LET g == Writer!Doc(writerJob.cap, p, build).graph
                 IN  /\ p \in Writer!Kept("version") /\ Writer!Selected.docs[p].graph = g
                     /\ g \in DOMAIN graphs /\ graphs[g]
      <3>1. Writer!GraphAttested(p)
        BY <1>3 DEF Writer!Attested
      <3> QED BY <2>2, <3>1, ReuseOfProjection DEF Writer!GraphAttested
    <2>5. ASSUME NEW p \in Writer!Kept("version")
          PROVE  LET v == <<p, writerJob.cap.files[p]>>
                 IN  /\ p \in Writer!Present(writerJob.cap) /\ p \in DOMAIN Writer!Selected.docs
                     /\ Writer!Selected.docs[p].version = v /\ v \in DOMAIN native
      BY <2>2, ReuseOfHead
    <2>6. UNCHANGED <<Writer!Published, Writer!Selected>>
      BY <1>0 DEF Writer!Published, Writer!Selected
    <2>7. FullKeeps'
      <3>1. \A p : Writer!Doc(writerJob.cap, p, build)' = Writer!Doc(writerJob.cap, p, build)
        BY <1>0, <2>1 DEF Writer!Doc
      <3>2. Writer!Present(writerJob.cap)' = Writer!Present(writerJob.cap)
        BY <2>1 DEF Writer!Present, Writer!Paths
      <3>3. /\ Writer!Kept("graph") \subseteq Writer!Kept("version")
            /\ Writer!Kept("version") \subseteq Writer!Present(writerJob.cap)
        BY <2>4, <2>5
      <3> QED BY <1>0, <2>1, <2>2, <2>3, <2>4, <2>5, <2>6, <3>1, <3>2, <3>3 DEF FullKeeps
    <2>8. WriterJobs'
      BY <2>1, <2>7 DEF WriterJobs, SameRoute, LocalRoute, NothingKept, LocalKeeps
    <2> QED BY <1>0, <2>8, WriterPlans DEF WriterInv
  <1> QED BY <1>1, <1>2, <1>3, Zenon DEF Writer!PreflightFull, Writer!Fail

LEMMA AppendOne ==
    ASSUME NEW n \in Nat, NEW f, f = [i \in 1..n |-> f[i]], NEW e
    PROVE  LET t == Append(f, e)
           IN  /\ t = [i \in 1..n + 1 |-> t[i]] /\ t[n + 1] = e
               /\ \A i \in 1..n : t[i] = f[i]
  <1> DEFINE S == {f[i] : i \in 1..n} \cup {e}
  <1>1. f \in [1..n -> S]
    <2>1. \A i \in 1..n : f[i] \in S
      OBVIOUS
    <2> HIDE DEF S
    <2> QED BY <2>1
  <1>2. f \in Seq(S) /\ Len(f) = n /\ e \in S
    BY <1>1
  <1> HIDE DEF S
  <1>3. /\ Append(f, e) \in Seq(S) /\ Len(Append(f, e)) = n + 1 /\ Append(f, e)[n + 1] = e
        /\ \A i \in 1..n : Append(f, e)[i] = f[i]
    BY <1>2
  <1> QED BY <1>3

\* An unchanged tree: the head's manifest is listed once more.
LEMMA WriterCopies ==
    ASSUME WriterInv, Writer!PublishUnchanged
    PROVE  WriterInv' /\ Writer!FullIsAttested /\ Writer!HistoryKept
  <1>1. CASE Writer!Fail
    BY <1>1, IdleJobs, WriterPlans DEF Writer!Fail, Writer!PublishUnchanged, WriterInv
  <1>2. CASE ~Writer!Fail
    <2> DEFINE R == [Writer!Selected EXCEPT !.cap = writerJob.cap, !.route = "same"]
               n == writerHead.rev
    <2>1. /\ writerRevs' = Append(writerRevs, R) /\ writerHead' = [writerHead EXCEPT !.rev = n + 1]
          /\ disp' = "Ready" /\ writerJob' = Writer!Idle /\ UNCHANGED <<native, graphs>>
          /\ writerJob.stage = "same"
      BY <1>2 DEF Writer!PublishUnchanged, Writer!NewManifest
    <2>2. /\ n \in Nat /\ n > 0 /\ writerHead \in [gen : Nat, rev : Nat]
          /\ writerRevs = [r \in 1..n |-> writerRevs[r]]
          /\ RevisionKept(Writer!Selected, native, graphs)
          /\ Writer!Selected.cap = writerJob.cap
      BY <2>1 DEF WriterInv, WriterHistory, WriterJobs, SameRoute, Writer!Published, Writer!Selected
    <2>3. /\ DOMAIN R = {"docs", "build", "cap", "stats", "route"} /\ R.docs = Writer!Selected.docs
          /\ R.build = Writer!Selected.build /\ R.cap = Writer!Selected.cap /\ R.route = "same"
      BY <2>2 DEF RevisionKept
    <2>4. RevisionKept(R, native, graphs)
      <3> HIDE DEF R
      <3> QED BY <2>2, <2>3 DEF RevisionKept
    <2> HIDE DEF R
    <2>5. /\ writerRevs' = [r \in 1..n + 1 |-> writerRevs'[r]] /\ writerRevs'[n + 1] = R
          /\ \A r \in 1..n : writerRevs'[r] = writerRevs[r]
      BY <2>1, <2>2, AppendOne
    <2>6. /\ writerHead' \in [gen : Nat, rev : Nat] /\ writerHead'.rev = n + 1
      BY <2>1, <2>2
    <2>7. WriterHistory' /\ WriterRows'
      BY <2>1, <2>2, <2>4, <2>5, <2>6 DEF WriterInv, WriterHistory, WriterRows
    <2>8. Writer!FullIsAttested
      <3>1. Writer!Selected'.route = "same"
        BY <2>3, <2>5, <2>6 DEF Writer!Selected
      <3> QED BY <3>1 DEF Writer!FullIsAttested, Writer!FullHead
    <2>9. Writer!HistoryKept
      BY <2>1, <2>2, <2>5 DEF Writer!HistoryKept
    <2> QED BY <2>1, <2>7, <2>8, <2>9, IdleJobs DEF WriterInv
  <1> QED BY <1>1, <1>2

\* What a job that is ready to publish reuses of the head.
LEMMA JobReuses ==
    ASSUME WriterInv, writerJob.stage \in {"localReady", "fullReady"}, NEW p \in writerJob.keepNative
    PROVE  LET v == <<p, writerJob.cap.files[p]>>
               g == Writer!Doc(writerJob.cap, p, build).graph
           IN  /\ Writer!Selected.docs[p].version = v /\ v \in DOMAIN native
               /\ native[v].wit = Measures[build][writerJob.cap.files[p]]
               /\ writerJob.stage = "fullReady" /\ ~writerJob.moved =>
                      native[v].bytes /\ native[v].facts = native[v].wit
               /\ p \in writerJob.keepGraph =>
                      /\ Writer!Selected.docs[p].graph = g /\ g \in DOMAIN graphs
                      /\ writerJob.stage = "fullReady" /\ ~writerJob.moved => graphs[g]
               /\ p \notin writerJob.keepGraph => writerJob.stage = "fullReady"
  <1>1. CASE writerJob.stage = "fullReady"
    BY <1>1 DEF WriterInv, WriterJobs, FullKeeps
  <1>2. CASE writerJob.stage = "localReady"
    <2> DEFINE R == Writer!Selected
               text == writerJob.cap.files[p]
    <2>1. /\ Writer!Published /\ Writer!Comparable /\ Writer!BodyEdit(writerJob.path)
          /\ writerJob.keepNative = Writer!Relinked /\ writerJob.keepGraph = Writer!Relinked
      BY <1>2 DEF WriterInv, WriterJobs, LocalRoute, LocalKeeps
    <2>2. RevisionKept(R, native, graphs)
      BY <2>1 DEF WriterInv, WriterHistory, Writer!Published, Writer!Selected
    <2>3. /\ p \in Writer!Present(writerJob.cap) /\ p # writerJob.path
          /\ Writer!Present(writerJob.cap) = Writer!Present(R.cap)
      BY <2>1 DEF Writer!Relinked, Writer!BodyEdit
    <2>4. R.cap.files[p] = text /\ R.build = build /\ R.cap.labels = writerJob.cap.labels
      BY <2>1, <2>3 DEF Writer!BodyEdit, Writer!Changed, Writer!Comparable, Writer!SameBuild
    <2>5. /\ R.docs[p].version = <<p, text>> /\ <<p, text>> \in DOMAIN native
          /\ native[<<p, text>>].wit = Measures[build][text]
          /\ R.docs[p].graph = <<p, text, writerJob.cap.labels, Measures[build][text]>>
          /\ <<p, text, writerJob.cap.labels, Measures[build][text]>> \in DOMAIN graphs
      <3> HIDE DEF R
      <3> QED BY <2>2, <2>3, <2>4 DEF RevisionKept
    <2> QED BY <1>2, <2>1, <2>5 DEF Writer!Doc
  <1> QED BY <1>1, <1>2

\* The documents of a new revision, whether their rows are reused or written.
LEMMA ManifestWritten ==
    ASSUME WriterInv, writerJob.stage \in {"localReady", "fullReady"}, Writer!Fenced,
           disp = "Ready" => ~Writer!Differs(Writer!Manifest),
           writerJob.keepNative = {} \/ disp = "Ready", Writer!WriteRevision,
           NEW p \in Writer!Present(writerJob.cap)
    PROVE  LET text == writerJob.cap.files[p]
               facts == Measures[build][text]
               v == <<p, text>>
               g == <<p, text, writerJob.cap.labels, facts>>
           IN  /\ Writer!Manifest[p].version = v /\ Writer!Manifest[p].graph = g
               /\ v \in DOMAIN native' /\ native'[v].wit = facts /\ g \in DOMAIN graphs'
               /\ writerJob.stage = "fullReady" =>
                      native'[v].bytes /\ native'[v].facts = native'[v].wit /\ graphs'[g]
  <1> DEFINE Docs == Writer!Manifest
             V(q) == <<q, writerJob.cap.files[q]>>
             G(q) == Writer!Doc(writerJob.cap, q, build).graph
             facts == Measures[build][writerJob.cap.files[p]]
  <1>0. /\ ~writerJob.moved /\ writerJob.keepGraph \subseteq writerJob.keepNative
        /\ DOMAIN Docs = Writer!Present(writerJob.cap)
    BY DEF Writer!Fenced, Writer!Manifest, WriterInv, WriterJobs, LocalKeeps, FullKeeps
  <1>1. \A q \in Writer!Present(writerJob.cap) : Docs[q].version = V(q) /\ Docs[q].graph = G(q)
    <2> SUFFICES ASSUME NEW q \in Writer!Present(writerJob.cap)
                 PROVE  Docs[q].version = V(q) /\ Docs[q].graph = G(q)
      OBVIOUS
    <2>1. CASE q \in writerJob.keepNative \cap writerJob.keepGraph
      <3>1. Docs[q] = Writer!Selected.docs[q]
        BY <2>1 DEF Writer!Manifest
      <3> QED BY <2>1, <3>1, JobReuses
    <2>2. CASE q \notin writerJob.keepNative \cap writerJob.keepGraph
      <3>1. Docs[q] = Writer!Doc(writerJob.cap, q, build)
        BY <2>2 DEF Writer!Manifest
      <3> QED BY <3>1 DEF Writer!Doc
    <2> QED BY <2>1, <2>2
  <1>2. /\ native' = Writer!Join(Writer!Base(native), Writer!NativeRows(Docs))
        /\ graphs' = Writer!Join(Writer!Base(graphs), Writer!GraphRows(Docs))
    BY DEF Writer!WriteRevision
  <1>3. /\ disp = "Ready" => Writer!Base(native) = native /\ Writer!Base(graphs) = graphs
        /\ disp # "Ready" => DOMAIN Writer!Base(native) = {} /\ DOMAIN Writer!Base(graphs) = {}
    BY DEF Writer!Base, WriterInv
  <1> HIDE DEF Docs
  <1>4. /\ V(p) \in DOMAIN native' /\ native'[V(p)].wit = facts
        /\ writerJob.stage = "fullReady" =>
              native'[V(p)].bytes /\ native'[V(p)].facts = native'[V(p)].wit
    <2>1. CASE p \in writerJob.keepNative
      <3>1. /\ V(p) \in DOMAIN native /\ native[V(p)].wit = facts
            /\ writerJob.stage = "fullReady" =>
                  native[V(p)].bytes /\ native[V(p)].facts = native[V(p)].wit
        BY <1>0, <2>1, JobReuses
      <3>2. disp = "Ready"
        BY <2>1
      <3> HIDE DEF V
      <3> QED BY <1>2, <1>3, <3>1, <3>2 DEF Writer!Join
    <2>2. CASE p \notin writerJob.keepNative
      <3>1. Writer!Row(p) = [bytes |-> TRUE, facts |-> facts, wit |-> facts]
        BY DEF Writer!Row
      <3>2. /\ V(p) \in DOMAIN Writer!NativeRows(Docs)
            /\ Writer!NativeRows(Docs)[V(p)] = Writer!Row(p)
        <4>1. p \in DOMAIN Docs \ writerJob.keepNative /\ Docs[p].version = V(p)
          BY <1>0, <1>1, <2>2
        <4>2. \A q \in DOMAIN Docs : Docs[q].version = V(p) => q = p
          BY <1>0, <1>1
        <4>3. (CHOOSE q \in DOMAIN Docs : Docs[q].version = V(p)) = p
          BY <4>1, <4>2
        <4> HIDE DEF V
        <4> QED BY <4>1, <4>3 DEF Writer!NativeRows
      <3>3. disp = "Ready" /\ V(p) \in DOMAIN native => native[V(p)] = Writer!Row(p)
        BY <1>0, <1>1, <2>2 DEF Writer!Differs, Docs
      <3>4. V(p) \in DOMAIN native' /\ native'[V(p)] = Writer!Row(p)
        <4> HIDE DEF V
        <4> QED BY <1>2, <1>3, <3>2, <3>3 DEF Writer!Join
      <3> QED BY <3>1, <3>4
    <2> QED BY <2>1, <2>2
  <1>5. G(p) \in DOMAIN graphs' /\ (writerJob.stage = "fullReady" => graphs'[G(p)])
    <2>1. CASE p \in writerJob.keepGraph
      <3>1. /\ G(p) \in DOMAIN graphs /\ (writerJob.stage = "fullReady" => graphs[G(p)])
            /\ disp = "Ready"
        BY <1>0, <2>1, JobReuses
      <3> HIDE DEF G
      <3> QED BY <1>2, <1>3, <3>1 DEF Writer!Join
    <2>2. CASE p \notin writerJob.keepGraph
      <3>1. /\ G(p) \in DOMAIN Writer!GraphRows(Docs)
            /\ Writer!GraphRows(Docs)[G(p)] = TRUE
        BY <1>0, <1>1, <2>2 DEF Writer!GraphRows
      <3>2. disp = "Ready" /\ G(p) \in DOMAIN graphs => graphs[G(p)]
        BY <1>0, <1>1, <2>2 DEF Writer!Differs, Docs
      <3> HIDE DEF G
      <3> QED BY <1>2, <1>3, <3>1, <3>2 DEF Writer!Join
    <2> QED BY <2>1, <2>2
  <1> QED BY <1>1, <1>4, <1>5 DEF Writer!Doc, Docs

\* Tables only gain rows, or are those of a new generation.
LEMMA TablesJoin ==
    ASSUME Writer!WriteRevision, disp = "Ready"
    PROVE  /\ \A v \in DOMAIN native : v \in DOMAIN native' /\ native'[v] = native[v]
           /\ \A g \in DOMAIN graphs : g \in DOMAIN graphs' /\ graphs'[g] = graphs[g]
  BY DEF Writer!WriteRevision, Writer!Base, Writer!Join

LEMMA RowsWritten ==
    ASSUME WriterInv, Writer!WriteRevision
    PROVE  WriterRows'
  <1>1. \A q : DOMAIN Writer!Row(q) = {"bytes", "facts", "wit"}
    BY DEF Writer!Row
  <1>2. \A v \in DOMAIN Writer!NativeRows(Writer!Manifest) :
           DOMAIN Writer!NativeRows(Writer!Manifest)[v] = {"bytes", "facts", "wit"}
    BY <1>1 DEF Writer!NativeRows
  <1>3. \A v \in DOMAIN Writer!Base(native) :
           DOMAIN Writer!Base(native)[v] = {"bytes", "facts", "wit"}
    BY DEF Writer!Base, WriterInv, WriterRows
  <1>4. native' = Writer!Join(Writer!Base(native), Writer!NativeRows(Writer!Manifest))
    BY DEF Writer!WriteRevision
  <1> QED BY <1>2, <1>3, <1>4 DEF WriterRows, Writer!Join

\* A measured or relinked revision is written.
LEMMA WriterPublishes ==
    ASSUME WriterInv, Writer!Publish
    PROVE  WriterInv' /\ Writer!FullIsAttested /\ Writer!HistoryKept
  <1>1. CASE /\ disp' \in {"Ready", "Rebuild"} /\ writerJob' = Writer!Idle
             /\ UNCHANGED <<writerHead, writerRevs, native, graphs>>
    BY <1>1, IdleJobs, WriterPlans
  <1>2. CASE /\ Writer!Fenced /\ (disp = "Ready" => ~Writer!Differs(Writer!Manifest))
             /\ writerJob.keepNative = {} \/ disp = "Ready"
             /\ Writer!WriteRevision /\ disp' = "Ready" /\ writerJob' = Writer!Idle
             /\ UNCHANGED build
    <2> DEFINE R == Writer!Revision
               n == writerHead.rev
               Old == IF disp = "Rebuild" THEN 0 ELSE n
               base == IF disp = "Rebuild" THEN <<>> ELSE writerRevs
    <2>1. /\ writerJob.stage \in {"localReady", "fullReady"}
          /\ n \in Nat /\ writerHead \in [gen : Nat, rev : Nat]
          /\ writerRevs = [r \in 1..n |-> writerRevs[r]] /\ Old \in Nat
      BY DEF Writer!Publish, WriterInv, WriterHistory
    <2>2. base = [r \in 1..Old |-> base[r]]
      <3>1. CASE disp = "Rebuild"
        BY <3>1
      <3>2. CASE disp # "Rebuild"
        BY <2>1, <3>2
      <3> QED BY <3>1, <3>2
    <2>3. writerRevs' = Append(base, R)
      BY <1>2 DEF Writer!WriteRevision
    <2>4. /\ writerHead' \in [gen : Nat, rev : Nat] /\ writerHead'.rev = Old + 1
          /\ disp = "Rebuild" => writerHead'.gen = writerHead.gen + 1
          /\ disp # "Rebuild" => writerHead' = [writerHead EXCEPT !.rev = n + 1]
      BY <1>2, <2>1 DEF Writer!WriteRevision
    <2>5. ASSUME NEW p \in Writer!Present(writerJob.cap)
          PROVE  LET text == writerJob.cap.files[p]
                     facts == Measures[build][text]
                     v == <<p, text>>
                     g == <<p, text, writerJob.cap.labels, facts>>
                 IN  /\ R.docs[p].version = v /\ R.docs[p].graph = g
                     /\ v \in DOMAIN native' /\ native'[v].wit = facts /\ g \in DOMAIN graphs'
                     /\ writerJob.stage = "fullReady" =>
                            native'[v].bytes /\ native'[v].facts = native'[v].wit /\ graphs'[g]
      <3>1. R.docs = Writer!Manifest
        BY DEF Writer!Revision
      <3> QED BY <1>2, <2>1, <3>1, ManifestWritten
    <2>6. /\ DOMAIN R = {"docs", "build", "cap", "stats", "route"} /\ R.cap = writerJob.cap
          /\ R.build = build /\ DOMAIN R.docs = Writer!Present(writerJob.cap)
          /\ R.route = "full" => writerJob.stage = "fullReady"
      BY <2>1 DEF Writer!Revision, Writer!Manifest
    <2> HIDE DEF R, base
    <2>7. RevisionKept(R, native', graphs')
      BY <2>5, <2>6 DEF RevisionKept
    <2>8. /\ writerRevs' = [r \in 1..Old + 1 |-> writerRevs'[r]] /\ writerRevs'[Old + 1] = R
          /\ \A r \in 1..Old : writerRevs'[r] = base[r]
      <3> HIDE DEF Old
      <3> QED BY <2>1, <2>2, <2>3, AppendOne
    <2>9. \A r \in 1..Old : /\ disp = "Ready" /\ Old = n /\ writerRevs'[r] = writerRevs[r]
                            /\ RevisionKept(writerRevs'[r], native', graphs')
      <3> SUFFICES ASSUME NEW r \in 1..Old
                   PROVE  /\ disp = "Ready" /\ Old = n /\ writerRevs'[r] = writerRevs[r]
                          /\ RevisionKept(writerRevs'[r], native', graphs')
        OBVIOUS
      <3>1. disp = "Ready" /\ Old = n
        BY DEF WriterInv
      <3>2. writerRevs'[r] = writerRevs[r]
        BY <2>8, <3>1 DEF base
      <3>3. RevisionKept(writerRevs[r], native, graphs)
        BY <3>1 DEF WriterInv, WriterHistory
      <3>4. RevisionKept(writerRevs[r], native', graphs')
        BY <1>2, <3>1, <3>3, TablesJoin, RevisionStays
      <3> QED BY <3>1, <3>2, <3>4
    <2>10. WriterHistory' /\ WriterRows'
      <3>1. \A r \in 1..Old + 1 : RevisionKept(writerRevs'[r], native', graphs')
        <4> HIDE DEF Old
        <4>1. \A r \in 1..Old + 1 : r \in 1..Old \/ r = Old + 1
          BY <2>1
        <4> QED BY <2>7, <2>8, <2>9, <4>1
      <3>2. WriterHistory'
        <4> HIDE DEF Old
        <4> QED BY <2>4, <2>8, <3>1 DEF WriterHistory
      <3> QED BY <1>2, <3>2, RowsWritten
    <2>11. Writer!FullIsAttested
      <3> SUFFICES ASSUME Writer!Selected'.route = "full"
                   PROVE  Writer!HeadIntact'
        BY DEF Writer!FullIsAttested, Writer!FullHead
      <3>1. Writer!Selected' = R
        BY <2>4, <2>8 DEF Writer!Selected
      <3>2. writerJob.stage = "fullReady"
        BY <2>6, <3>1
      <3>3. \A p \in DOMAIN R.docs :
               /\ native'[R.docs[p].version].bytes
               /\ native'[R.docs[p].version].facts = native'[R.docs[p].version].wit
               /\ graphs'[R.docs[p].graph]
        <4> SUFFICES ASSUME NEW p \in DOMAIN R.docs
                     PROVE  /\ native'[R.docs[p].version].bytes
                            /\ native'[R.docs[p].version].facts = native'[R.docs[p].version].wit
                            /\ graphs'[R.docs[p].graph]
          OBVIOUS
        <4>1. p \in Writer!Present(writerJob.cap)
          BY <2>6
        <4> DEFINE v == <<p, writerJob.cap.files[p]>>
                   g == <<p, writerJob.cap.files[p], writerJob.cap.labels,
                          Measures[build][writerJob.cap.files[p]]>>
        <4>2. /\ R.docs[p].version = v /\ R.docs[p].graph = g
              /\ native'[v].bytes /\ native'[v].facts = native'[v].wit /\ graphs'[g]
          BY <2>5, <3>2, <4>1
        <4> HIDE DEF v, g
        <4> QED BY <4>2
      <3> QED BY <3>1, <3>3 DEF Writer!HeadIntact, Writer!Intact
    <2>12. Writer!HistoryKept
      <3>1. CASE disp = "Rebuild"
        BY <2>4, <3>1 DEF Writer!HistoryKept
      <3>2. CASE disp # "Rebuild"
        <4>1. disp = "Ready"
          BY <3>2 DEF WriterInv
        <4>2. DOMAIN writerRevs = 1..n
          BY <2>1
        <4>3. \A r \in DOMAIN writerRevs : writerRevs'[r] = writerRevs[r]
          BY <2>9, <3>2, <4>2
        <4> QED BY <1>2, <2>4, <3>2, <4>1, <4>3, TablesJoin DEF Writer!HistoryKept
      <3> QED BY <3>1, <3>2
    <2> QED BY <1>2, <2>10, <2>11, <2>12, IdleJobs DEF WriterInv
  <1> QED
    <2>1. Writer!Fail => /\ disp' \in {"Ready", "Rebuild"} /\ writerJob' = Writer!Idle
                         /\ UNCHANGED <<writerHead, writerRevs, native, graphs>>
      BY DEF Writer!Fail, WriterInv
    <2> QED BY <1>1, <1>2, <2>1 DEF Writer!Publish

LEMMA WriterStep ==
    WriterInv /\ [Writer!Next]_Writer!vars =>
        WriterInv' /\ Writer!FullIsAttested /\ Writer!HistoryKept
  <1> SUFFICES ASSUME WriterInv, [Writer!Next]_Writer!vars
               PROVE  WriterInv' /\ Writer!FullIsAttested /\ Writer!HistoryKept
    OBVIOUS
  <1>1. CASE UNCHANGED Writer!vars
    <2>1. UNCHANGED <<build, disp, writerHead, writerRevs, native, graphs, writerJob>>
      BY <1>1 DEF Writer!vars
    <2>2. WriterJobs'
      BY <2>1 DEF WriterInv, WriterJobs, SameRoute, LocalRoute, NothingKept, LocalKeeps, FullKeeps,
         Writer!Published, Writer!SameBuild, Writer!Selected, Writer!Comparable, Writer!BodyEdit,
         Writer!Changed, Writer!Relinked, Writer!Present, Writer!Doc
    <2> QED BY <2>1, <2>2, WriterPlans DEF WriterInv
  <1>2. CASE Writer!Next
    BY <1>2, WriterSurroundings, WriterRewritten, WriterRoutes, WriterPreflight, WriterCopies,
       WriterPublishes DEF Writer!Next
  <1> QED BY <1>1, <1>2

LEMMA WriterImplies == WriterInv => Writer!ManifestIsCapture /\ Writer!FactsOfItsBuild
  <1> SUFFICES ASSUME WriterInv, NEW r \in DOMAIN writerRevs
               PROVE  LET R == writerRevs[r]
                      IN  /\ DOMAIN R.docs = Writer!Present(R.cap)
                          /\ \A p \in Writer!Present(R.cap) :
                               /\ R.docs[p].version = <<p, R.cap.files[p]>>
                               /\ SubSeq(R.docs[p].graph, 1, 3) = <<p, R.cap.files[p], R.cap.labels>>
                               /\ R.docs[p].version \in DOMAIN native
                               /\ R.docs[p].graph \in DOMAIN graphs
                               /\ native[R.docs[p].version].wit
                                    = Measures[R.build][R.docs[p].version[2]]
                               /\ R.docs[p].graph[4] = Measures[R.build][R.docs[p].version[2]]
    BY DEF Writer!ManifestIsCapture, Writer!FactsOfItsBuild
  <1> DEFINE R == writerRevs[r]
  <1>1. RevisionKept(R, native, graphs)
    BY DEF WriterInv, WriterHistory
  <1>2. ASSUME NEW a, NEW b, NEW c, NEW d
        PROVE  SubSeq(<<a, b, c, d>>, 1, 3) = <<a, b, c>>
    <2> DEFINE S == {a, b, c, d}
               long == <<a, b, c, d>>
               short == <<a, b, c>>
    <2>1. /\ long \in Seq(S) /\ Len(long) = 4 /\ long[1] = a /\ long[2] = b /\ long[3] = c
          /\ short \in Seq(S) /\ Len(short) = 3 /\ short[1] = a /\ short[2] = b /\ short[3] = c
          /\ a \in S /\ b \in S /\ c \in S
      OBVIOUS
    <2> HIDE DEF S, long, short
    <2>2. /\ SubSeq(long, 1, 3) \in Seq(S) /\ Len(SubSeq(long, 1, 3)) = 3
          /\ \A i \in 1..3 : SubSeq(long, 1, 3)[i] = long[i]
      <3>1. \A i \in 1..3 : long[i] \in S
        <4>1. \A i \in 1..3 : i = 1 \/ i = 2 \/ i = 3
          OBVIOUS
        <4> QED BY <2>1, <4>1
      <3> QED BY <3>1, SubSeqProperties
    <2>3. \A i \in 1..3 : i = 1 \/ i = 2 \/ i = 3
      OBVIOUS
    <2>4. \A i \in 1..3 : SubSeq(long, 1, 3)[i] = short[i]
      BY <2>1, <2>2, <2>3
    <2>5. SubSeq(long, 1, 3) = short
      BY <2>1, <2>2, <2>4
    <2> QED BY <2>5 DEF long, short
  <1> HIDE DEF R
  <1>3. ASSUME NEW p \in Writer!Present(R.cap)
        PROVE  /\ R.docs[p].version = <<p, R.cap.files[p]>>
               /\ SubSeq(R.docs[p].graph, 1, 3) = <<p, R.cap.files[p], R.cap.labels>>
               /\ R.docs[p].version \in DOMAIN native /\ R.docs[p].graph \in DOMAIN graphs
               /\ native[R.docs[p].version].wit = Measures[R.build][R.docs[p].version[2]]
               /\ R.docs[p].graph[4] = Measures[R.build][R.docs[p].version[2]]
    <2> DEFINE text == R.cap.files[p]
               facts == Measures[R.build][text]
    <2>1. /\ R.docs[p].version = <<p, text>>
          /\ R.docs[p].graph = <<p, text, R.cap.labels, facts>>
          /\ <<p, text>> \in DOMAIN native /\ native[<<p, text>>].wit = facts
          /\ <<p, text, R.cap.labels, facts>> \in DOMAIN graphs
      BY <1>1 DEF RevisionKept
    <2>2. R.docs[p].version[2] = text /\ R.docs[p].graph[4] = facts
      <3> HIDE DEF text, facts
      <3> QED BY <2>1
    <2>3. SubSeq(R.docs[p].graph, 1, 3) = <<p, text, R.cap.labels>>
      BY <1>2, <2>1
    <2> QED BY <2>1, <2>2, <2>3
  <1>4. DOMAIN R.docs = Writer!Present(R.cap)
    BY <1>1 DEF RevisionKept
  <1> QED BY <1>3, <1>4 DEF R

\* For any workspaces, executables and bounds, and however rows are rewritten behind the
\* daemon: every retained revision lists its capture's documents, the rows it names are
\* there, and its facts are those its own executable measures (store.rs, the three
\* routes of publish_inner_checked_target_with_local).
THEOREM WriterSafe ==
    Spec => [](part = "writer" => Writer!ManifestIsCapture /\ Writer!FactsOfItsBuild)
  <1> DEFINE Inv == part = "writer" => WriterInv
  <1>1. Init => Inv
    BY WriterInitOK DEF Init
  <1>2. Inv /\ [Next]_vars => Inv'
    <2>1. [Next]_vars => part' = part /\ (part = "writer" => [Writer!Next]_Writer!vars)
      BY DEF Next, vars, writerVars, Writer!vars
    <2> QED BY <2>1, WriterStep
  <1>3. Inv => (part = "writer" => Writer!ManifestIsCapture /\ Writer!FactsOfItsBuild)
    BY WriterImplies
  <1> QED BY <1>1, <1>2, <1>3, PTL DEF Spec

----------------------------------------------------------------------------
(* Delivery (AnswersCurrent): the action properties of five components,    *)
(* each a consequence of its component's inductive invariant.              *)

LEMMA PacketsInitOK == Packets!Init => UsesInv
  BY DEF Packets!Init, UsesInv, UseFits, UseFields, Packets!Unused

\* The state that the answers of each component rest on.
AnswersInv ==
    /\ part = "reads" => ReadsInv
    /\ part = "routes" => RoutesInv
    /\ part = "packets" => UsesInv
    /\ part = "catalog" => CatalogInv
    /\ part = "writer" => WriterInv

LEMMA AnswersStep ==
    CatalogBounds /\ AnswersInv /\ [Next]_vars =>
        /\ AnswersInv'
        /\ [/\ part = "reads" => Reads!StrictAnswerCurrent /\ Reads!RestrictedAnswerOwn
            /\ part = "routes" => Routes!AnswerOfItsRevision
            /\ part = "packets" => Packets!AnswerWasCurrent
            /\ part = "catalog" => Catalog!AnswerIsCurrent
            /\ part = "writer" => Writer!FullIsAttested /\ Writer!HistoryKept]_vars
  <1> SUFFICES ASSUME CatalogBounds, AnswersInv, [Next]_vars
               PROVE  /\ AnswersInv'
                      /\ [/\ part = "reads" => Reads!StrictAnswerCurrent /\ Reads!RestrictedAnswerOwn
                          /\ part = "routes" => Routes!AnswerOfItsRevision
                          /\ part = "packets" => Packets!AnswerWasCurrent
                          /\ part = "catalog" => Catalog!AnswerIsCurrent
                          /\ part = "writer" => Writer!FullIsAttested /\ Writer!HistoryKept]_vars
    OBVIOUS
  <1>0. part' = part
    BY DEF Next, vars
  <1>1. part = "reads" => ReadsInv' /\ Reads!StrictAnswerCurrent /\ Reads!RestrictedAnswerOwn
    <2>1. part = "reads" => [Reads!Next]_Reads!vars
      BY DEF Next, vars, readsVars, Reads!vars
    <2> QED BY <2>1, ReadsStep DEF AnswersInv
  <1>2. part = "routes" => RoutesInv' /\ [Routes!AnswerOfItsRevision]_Routes!vars
    <2>1. part = "routes" => [Routes!Next]_Routes!vars
      BY DEF Next, vars, routesVars, Routes!vars
    <2> QED BY <2>1, RoutesStep DEF AnswersInv
  <1>3. part = "packets" => UsesInv' /\ Packets!AnswerWasCurrent
    <2>1. part = "packets" => [Packets!Next]_Packets!vars
      BY DEF Next, vars, packetsVars, Packets!vars, Packets!world, Packets!cached
    <2> QED BY <2>1, PacketsStep DEF AnswersInv
  <1>4. part = "catalog" => CatalogInv' /\ Catalog!AnswerIsCurrent
    <2>1. part = "catalog" => [Catalog!Next]_Catalog!vars
      BY DEF Next, vars, catalogVars, Catalog!vars
    <2> QED BY <2>1, CatalogStep DEF AnswersInv
  <1>5. part = "writer" => WriterInv' /\ Writer!FullIsAttested /\ Writer!HistoryKept
    <2>1. part = "writer" => [Writer!Next]_Writer!vars
      BY DEF Next, vars, writerVars, Writer!vars
    <2> QED BY <2>1, WriterStep DEF AnswersInv
  <1>6. part = "routes" /\ UNCHANGED Routes!vars => UNCHANGED vars
    BY DEF Next, vars, Routes!vars, captureVars, writerVars, retentionVars, readsVars, packetsVars,
       catalogVars, anchorsVars, watchVars, witnessVars, routesVars
  <1>7. UNCHANGED vars \/ (part = "routes" => Routes!AnswerOfItsRevision)
    BY <1>2, <1>6
  <1> QED BY <1>0, <1>1, <1>2, <1>3, <1>4, <1>5, <1>7 DEF AnswersInv

\* For any processes, followers, revisions, requests and bounds: an answer is delivered only
\* from the revision and the leader it was admitted under, and from a catalog of that revision;
\* one from a packet is of no revision that was superseded before the request began or its
\* provider ended, nor of one released before it was assembled; a head that claims full
\* attestation is intact, and a publication changes no older revision (store.rs, read fences
\* and publication; http.rs, caches and questions).
THEOREM AnswersSafe == Spec => AnswersCurrent
  <1>0. CatalogBounds
    BY CatalogConstants DEF CatalogBounds
  <1>1. Init => AnswersInv
    BY <1>0, ReadsInitOK, RoutesInitOK, PacketsInitOK, CatalogInit, WriterInitOK DEF Init, AnswersInv
  <1>2. AnswersInv /\ [Next]_vars => AnswersInv'
    BY <1>0, AnswersStep
  <1>3. AnswersInv /\ [Next]_vars =>
          [/\ part = "reads" => Reads!StrictAnswerCurrent /\ Reads!RestrictedAnswerOwn
           /\ part = "routes" => Routes!AnswerOfItsRevision
           /\ part = "packets" => Packets!AnswerWasCurrent
           /\ part = "catalog" => Catalog!AnswerIsCurrent
           /\ part = "writer" => Writer!FullIsAttested /\ Writer!HistoryKept]_vars
    BY <1>0, AnswersStep
  <1> QED BY <1>1, <1>2, <1>3, PTL DEF Spec, AnswersCurrent

=============================================================================
