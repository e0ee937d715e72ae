------------------------------ MODULE McpSession ------------------------------
(***************************************************************************)
(* The coordinator of one MCP connection in the daemon (src/src/mcp/mod.rs *)
(* run_transport and receive, src/src/mcp/session.rs Session,               *)
(* src/src/mcp/tools.rs prepare).  Input that is already waiting is applied *)
(* before any result is committed; a result is committed by its token, not  *)
(* its ID; and the checkout that answers is looked at again at the end.     *)
(***************************************************************************)
EXTENDS McpReducer, Sequences, Functions, FiniteSets

CONSTANTS
    Ids,         \* request IDs of the client
    ClientKinds, \* the kinds of request the client sends
    ChanCap,     \* bound of the input channel, 16 in the code
    MaxFrames,   \* bound on the client's frames
    MaxChanges   \* bound on replacements of a checkout's root directory

Serials == 1..MaxFrames

Roots == {"launch", "other"}

VARIABLES
    chan, sent, asked,     \* the channel; frames and requests so far
    mode, token, pending,  \* Session: pending maps an ID to the token of its request, or 0
    outcomes,              \* results and errors that wait for their turn
    pc, work,              \* the outcome that is being prepared
    root,                  \* how often each checkout's directory was replaced
    reply,                 \* what was written for each request
    suppressed             \* requests cancelled while they were outstanding

vars == <<chan, sent, asked, mode, token, pending, outcomes, pc, work, root, reply, suppressed>>

NoReply == [answer |-> "none", modern |-> FALSE, admitted |-> FALSE, seen |-> 0, at |-> 0]

NoWork == [n |-> 0, token |-> 0, action |-> "none", to |-> "launch", valid |-> FALSE,
           modern |-> FALSE, reply |-> NoReply]

Init ==
    /\ chan = <<>> /\ sent = 0 /\ asked = 0
    /\ mode = "unselected" /\ token = 0 /\ pending = [i \in Ids |-> 0]
    /\ outcomes = <<>> /\ pc = "top" /\ work = NoWork
    /\ root = [r \in Roots |-> 0]
    /\ reply = [n \in Serials |-> NoReply] /\ suppressed = {}

(***************************************************************************)
(* The client and the world                                                *)
(***************************************************************************)
Put(frame) ==
    /\ pc # "done" /\ sent < MaxFrames /\ Len(chan) < ChanCap
    /\ chan' = Append(chan, frame) /\ sent' = sent + 1
    /\ asked' = IF frame.t = "request" THEN asked + 1 ELSE asked
    /\ UNCHANGED <<mode, token, pending, outcomes, pc, work, root, reply, suppressed>>

Frame(t, id, n) == [t |-> t, id |-> id, n |-> n, to |-> "launch", valid |-> TRUE,
                    kind |-> [method |-> "none", meta |-> "none", ok |-> TRUE]]

ClientRequest ==
    \E id \in Ids, k \in ClientKinds, r \in Roots, v \in BOOLEAN :
        /\ k.method # "call" => r = "launch" /\ v
        /\ Put([Frame("request", id, asked + 1) EXCEPT !.kind = k, !.to = r, !.valid = v])

ClientNote ==
    \E t \in {"initialized", "eof"} : Put(Frame(t, 0, 0))

ClientCancel == \E id \in Ids : Put(Frame("cancel", id, 0))

\* Somebody replaces the directory of a checkout.
RootReplaced ==
    \E r \in Roots :
        /\ root[r] < MaxChanges
        /\ root' = [root EXCEPT ![r] = @ + 1]
        /\ UNCHANGED <<chan, sent, asked, mode, token, pending, outcomes, pc, work, reply, suppressed>>

(***************************************************************************)
(* Input (receive, Session::accept)                                        *)
(***************************************************************************)
\* A look at the input: at the top of the loop, and again before the commit.
Looking == pc \in {"top", "final"} /\ chan # <<>>

Push(f, action, tok, modern) ==
    outcomes' = Append(outcomes, [NoWork EXCEPT !.n = f.n, !.action = action, !.token = tok,
                                                !.to = f.to, !.valid = f.valid, !.modern = modern])

\* An ID that is outstanding cannot be used again; the rest is the reducer's.
Refuses(f) == pending[f.id] # 0 \/ Validate(mode, f.kind).action = "error"

AcceptRequest ==
    /\ Looking /\ Head(chan).t = "request"
    /\ LET f == Head(chan)
           v == Validate(mode, f.kind) IN
        IF Refuses(f)
        THEN Push(f, "error", 0, FALSE) /\ UNCHANGED <<mode, token, pending>>
        ELSE /\ token' = token + 1
             /\ mode' = v.mode
             /\ pending' = [pending EXCEPT ![f.id] = token + 1]
             /\ Push(f, v.action, token + 1, v.mode = "modern")
    /\ chan' = Tail(chan)
    /\ UNCHANGED <<sent, asked, pc, work, root, reply, suppressed>>

\* The requests of an ID that are outstanding, by what the client can know.
Outstanding(id) ==
    {o.n : o \in {x \in Range(outcomes) \cup {work} : x.token # 0 /\ x.token = pending[id]}}

AcceptCancel ==
    /\ Looking /\ Head(chan).t = "cancel"
    /\ pending' = [pending EXCEPT ![Head(chan).id] = 0]
    /\ suppressed' = suppressed \cup Outstanding(Head(chan).id)
    /\ chan' = Tail(chan)
    /\ UNCHANGED <<sent, asked, mode, token, outcomes, pc, work, root, reply>>

AcceptInitialized ==
    /\ Looking /\ Head(chan).t = "initialized"
    /\ mode' = Initialized(mode)
    /\ chan' = Tail(chan)
    /\ UNCHANGED <<sent, asked, token, pending, outcomes, pc, work, root, reply, suppressed>>

AcceptEof ==
    /\ Looking /\ Head(chan).t = "eof"
    /\ pending' = [i \in Ids |-> 0]
    /\ pc' = "done" /\ chan' = Tail(chan) /\ work' = NoWork
    /\ UNCHANGED <<sent, asked, mode, token, outcomes, root, reply, suppressed>>

(***************************************************************************)
(* Results                                                                 *)
(***************************************************************************)
Live(o) == \E i \in Ids : pending[i] = o.token

\* An error is written, and a request whose token is no longer pending is dropped.
PopSimple ==
    /\ pc = "top" /\ chan = <<>> /\ outcomes # <<>>
    /\ LET o == Head(outcomes) IN
        \/ /\ o.action = "error"
           /\ reply' = [reply EXCEPT ![o.n] = [NoReply EXCEPT !.answer = "error"]]
        \/ /\ o.action # "error" /\ ~Live(o) /\ UNCHANGED reply
    /\ outcomes' = Tail(outcomes)
    /\ UNCHANGED <<chan, sent, asked, mode, token, pending, pc, work, root, suppressed>>

Prepared(o, answer, seen) ==
    [o EXCEPT !.reply = [answer |-> answer, modern |-> (mode = "modern"), admitted |-> o.modern,
                         seen |-> seen, at |-> seen]]

\* The answers that need no workspace.
Static(o) == o.action # "call" \/ ~o.valid

PopStatic ==
    /\ pc = "top" /\ chan = <<>> /\ outcomes # <<>>
    /\ LET o == Head(outcomes) IN
        /\ o.action # "error" /\ Live(o) /\ Static(o)
        /\ work' = Prepared(o, IF o.action = "call" THEN "invalid" ELSE "static", 0)
    /\ outcomes' = Tail(outcomes) /\ pc' = "final"
    /\ UNCHANGED <<chan, sent, asked, mode, token, pending, root, reply, suppressed>>

\* The selection: the launch checkout as it was opened, or another one through
\* the registry, which may be full or refuse.
Select(o) ==
    IF o.to = "launch"
    THEN {Prepared(o, IF root["launch"] = 0 THEN "chosen" ELSE "selection", 0)}
    ELSE {Prepared(o, a, root["other"]) : a \in {"chosen", "capacity", "selection"}}

PopCall ==
    /\ pc = "top" /\ chan = <<>> /\ outcomes # <<>>
    /\ LET o == Head(outcomes) IN
        /\ o.action # "error" /\ Live(o) /\ ~Static(o)
        /\ work' \in Select(o)
    /\ outcomes' = Tail(outcomes) /\ pc' = "prepare"
    /\ UNCHANGED <<chan, sent, asked, mode, token, pending, root, reply, suppressed>>

\* verified_clone and tools::prepare: the checkout must still be the one chosen.
Prepare ==
    /\ pc = "prepare"
    /\ work' = IF work.reply.answer # "chosen" THEN work
               ELSE [work EXCEPT !.reply.answer = IF root[work.to] = work.reply.seen THEN "ok" ELSE "root_changed"]
    /\ pc' = "final"
    /\ UNCHANGED <<chan, sent, asked, mode, token, pending, outcomes, root, reply, suppressed>>

\* The last check of an answer, or a capacity refusal, that names a checkout.
FinalCheck ==
    /\ pc = "final" /\ chan = <<>>
    /\ work' = IF work.reply.answer \notin {"ok", "capacity"} THEN work
               ELSE [work EXCEPT !.reply.at = root[work.to],
                                 !.reply.answer = IF root[work.to] = work.reply.seen THEN @ ELSE "root_changed"]
    /\ pc' = "commit"
    /\ UNCHANGED <<chan, sent, asked, mode, token, pending, outcomes, root, reply, suppressed>>

\* "A stale completion cannot remove or alter a newer request sharing its ID."
Commit ==
    /\ pc = "commit"
    /\ reply' = IF Live(work) THEN [reply EXCEPT ![work.n] = work.reply] ELSE reply
    /\ pending' = [i \in Ids |-> IF pending[i] = work.token THEN 0 ELSE pending[i]]
    /\ work' = NoWork /\ pc' = "top"
    /\ UNCHANGED <<chan, sent, asked, mode, token, outcomes, root, suppressed>>

Input == AcceptRequest \/ AcceptCancel \/ AcceptInitialized \/ AcceptEof

Next ==
    \/ ClientRequest \/ ClientNote \/ ClientCancel \/ RootReplaced
    \/ Input
    \/ PopSimple \/ PopStatic \/ PopCall \/ Prepare \/ FinalCheck \/ Commit

Spec == Init /\ [][Next]_vars

(***************************************************************************)
(* Properties                                                              *)
(***************************************************************************)
TypeOK ==
    /\ mode \in Modes /\ token \in 0..MaxFrames
    /\ pending \in [Ids -> 0..token]
    /\ pc \in {"top", "prepare", "final", "commit", "done"}
    /\ \A i, j \in Ids : i # j => pending[i] = 0 \/ pending[i] # pending[j]
    /\ pc = "done" => \A i \in Ids : pending[i] = 0

\* A cancelled request is never answered, however its ID was used again while
\* its result was being prepared.
CancelledIsSilent == \A n \in suppressed : reply[n].answer = "none"

\* When the coordinator waits for input, every request it took in was answered
\* or cancelled: a refused ID does not take another request's place.
EveryRequestEnds ==
    pc = "top" /\ outcomes = <<>> =>
        /\ \A i \in Ids : pending[i] = 0
        /\ \A n \in 1..asked :
            \/ n \in suppressed \/ reply[n].answer # "none"
            \/ \E i \in 1..Len(chan) : chan[i].n = n

\* A reply speaks the protocol its request was admitted under, although the mode
\* is read only when the reply is prepared.
DialectKept ==
    \A n \in Serials : reply[n].answer \notin {"none", "error"} => reply[n].modern = reply[n].admitted

\* An answer about a checkout is given only if, after the last look at the input,
\* its root is still the directory that was selected.
AnswersFromSelectedRoot ==
    \A n \in Serials : reply[n].answer \in {"ok", "capacity"} => reply[n].at = reply[n].seen

=============================================================================
