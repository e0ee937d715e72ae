------------------------------- MODULE McpRelay -------------------------------
(***************************************************************************)
(* The stdio relay of `trellis mcp` (src/src/daemon/client.rs relay_stdio,  *)
(* drain_mcp_input, read_mcp_line): one stdin reader and one writer that    *)
(* outlive the daemons behind them.  A request is forwarded to the daemon   *)
(* of the moment; its connection may break, answer late or be cut within a  *)
(* reply, and a cancellation may arrive at any point.                       *)
(***************************************************************************)
EXTENDS McpReducer, Sequences, Functions, FiniteSets

CONSTANTS
    Ids,        \* request IDs of the client
    ClientKinds,\* the kinds of request the client sends
    QueueCap,   \* 16 in the code
    ChanCap,    \* 16 in the code
    MaxFrames,  \* bound on the frames the client sends
    MaxFaults,  \* bound on broken connections, failed attaches and deadlines
    Conforming  \* does the client keep the rules of MCP?

Serials == 1..MaxFrames

VARIABLES
    chan,       \* frames the stdin thread has put in the channel
    sent,       \* number of frames so far
    asked,      \* number of requests among them
    queue,      \* buffer.queue
    cancelledQueued,
    mode,       \* buffer.mode
    active,     \* the frame being handled
    canceled,   \* the local flag of the present read or drain
    cancelledActive,
    retry,
    eof,
    legacy,     \* legacy_init and legacy_ready
    pc,
    conn,       \* `current` and what its daemon does with it
    replies,    \* replies written per request
    suppressed, \* requests whose cancellation the relay took in while it held them
    greeted,    \* the reply to initialize was passed on
    unready,    \* a legacy call reached a daemon that was not initialised
    faults

vars == <<chan, sent, asked, queue, cancelledQueued, mode, active, canceled, cancelledActive, retry, eof,
          legacy, pc, conn, replies, suppressed, greeted, unready, faults>>

NoKind == [method |-> "none", meta |-> "none", ok |-> TRUE]

NoFrame == [t |-> "none", id |-> 0, n |-> 0, kind |-> NoKind]

Request(id, n, kind) == [t |-> "request", id |-> id, n |-> n, kind |-> kind]

Note(t, id) == [t |-> t, id |-> id, n |-> 0, kind |-> NoKind]

NoConn == [on |-> FALSE, alive |-> FALSE, up |-> <<>>, down |-> <<>>, mode |-> "unselected"]

Attached == [NoConn EXCEPT !.on = TRUE, !.alive = TRUE]

Init ==
    /\ chan = <<>> /\ sent = 0 /\ asked = 0 /\ queue = <<>> /\ cancelledQueued = {}
    /\ mode = "unselected" /\ active = NoFrame /\ canceled = FALSE /\ cancelledActive = FALSE
    /\ retry = 0 /\ eof = FALSE /\ legacy = [init |-> NoFrame, ready |-> FALSE]
    /\ pc = "idle" /\ conn = Attached
    /\ replies = [n \in Serials |-> 0] /\ suppressed = {}
    /\ greeted = FALSE /\ unready = FALSE /\ faults = 0

(***************************************************************************)
(* The client behind stdin                                                 *)
(***************************************************************************)
Put(frame) ==
    /\ sent < MaxFrames /\ Len(chan) < ChanCap
    /\ ~eof /\ pc \notin {"done", "mismatch"} /\ Note("eof", 0) \notin Range(chan)
    /\ chan' = Append(chan, frame) /\ sent' = sent + 1
    /\ asked' = IF frame.t = "request" THEN asked + 1 ELSE asked
    /\ UNCHANGED <<queue, cancelledQueued, mode, active, canceled, cancelledActive, retry, eof,
                   legacy, pc, conn, replies, suppressed, greeted, unready, faults>>

Holding == Range(chan) \cup Range(queue) \cup {active}

\* A conforming client uses an ID again only once no earlier use of it is on its
\* way, cancels only requests that it waits for and never its initialize, and
\* completes the handshake when it has the reply.
ClientRequest ==
    \E id \in Ids, k \in ClientKinds :
        /\ Conforming => \A f \in Holding : f.id # id \/ f.t # "request"
        /\ Put(Request(id, asked + 1, k))

ClientCancel ==
    \E id \in Ids :
        /\ Conforming => \E f \in Holding : f.t = "request" /\ f.id = id /\ f.kind.method # "initialize"
        /\ Put(Note("cancel", id))

ClientInitialized ==
    /\ Conforming => greeted
    /\ Put(Note("initialized", 0))

ClientEof == Put(Note("eof", 0))

\* Something that is not a request: answered with an error that has no ID.
ClientGarbage == Put(Note("garbage", 0))

(***************************************************************************)
(* Taking in one frame while a call is under way (drain_mcp_input)          *)
(***************************************************************************)
IsRequest(f) == f.t = "request"

PendingDuplicate(id) ==
    \/ ~cancelledActive /\ IsRequest(active) /\ active.id = id
    \/ \E i \in 1..Len(queue) :
        IsRequest(queue[i]) /\ queue[i].id = id /\ id \notin cancelledQueued

\* The relay's own answer: an ID that is already pending, a full queue, or what
\* the reducer refuses.  Every one of them is one reply.
Answer(n) == replies' = [replies EXCEPT ![n] = @ + 1]

InRead == pc \in {"setup", "await", "drain"}

Drainable == InRead /\ chan # <<>> /\ ~eof

\* The outstanding requests that a cancellation of id is about.
Targets(id) ==
    {f.n : f \in {g \in Range(queue) \cup {active} :
        IsRequest(g) /\ g.id = id /\ g.n \notin suppressed /\ replies[g.n] = 0}}

\* While the synthetic setup is read, the call it is for has no expected ID.
DrainCancel ==
    /\ Drainable /\ Head(chan).t = "cancel"
    /\ LET id == Head(chan).id
           current == IsRequest(active) /\ active.id = id IN
        /\ canceled' = (canceled \/ (current /\ pc # "setup"))
        /\ cancelledActive' = (cancelledActive \/ current)
        /\ cancelledQueued' =
             IF ~current /\ \E i \in 1..Len(queue) : IsRequest(queue[i]) /\ queue[i].id = id
             THEN cancelledQueued \cup {id} ELSE cancelledQueued
        /\ suppressed' = suppressed \cup Targets(id)
        /\ conn' = IF conn.alive THEN [conn EXCEPT !.up = Append(@, Head(chan))] ELSE conn
    /\ chan' = Tail(chan)
    /\ UNCHANGED <<sent, asked, queue, mode, active, retry, eof, legacy, pc, replies, greeted, unready, faults>>

\* A request is queued, or refused: a duplicate, or one more than the queue holds.
\* A frame that is no request is queued too, and dropped when the queue is full.
DrainFrame ==
    /\ Drainable /\ Head(chan).t \notin {"cancel", "eof"}
    /\ LET f == Head(chan)
           refused == IsRequest(f) /\ (PendingDuplicate(f.id) \/ Len(queue) >= QueueCap) IN
       /\ queue' = IF Len(queue) < QueueCap /\ ~refused THEN Append(queue, f) ELSE queue
       /\ IF refused THEN Answer(f.n) ELSE UNCHANGED replies
    /\ chan' = Tail(chan)
    /\ UNCHANGED <<sent, asked, cancelledQueued, mode, active, canceled, cancelledActive, retry, eof, legacy, pc, conn,
                   suppressed, greeted, unready, faults>>

DrainEof ==
    /\ Drainable /\ Head(chan).t = "eof"
    /\ eof' = TRUE /\ chan' = Tail(chan)
    /\ UNCHANGED <<sent, asked, queue, cancelledQueued, mode, active, canceled, cancelledActive, retry, legacy, pc, conn,
                   replies, suppressed, greeted, unready, faults>>

\* Where a drain comes to its end.
Quiet == eof \/ chan = <<>>

(***************************************************************************)
(* The main loop                                                           *)
(***************************************************************************)
\* protocol_event: the daemon's own reducer, in the mode the relay has reached.
ProtocolEvent(f) == Validate(mode, f.kind)

\* The body of the loop up to the first attempt.
Handle(f) ==
    CASE f.t = "garbage" -> UNCHANGED <<cancelledQueued, mode, active, legacy, pc, retry, replies>>
      [] IsRequest(f) /\ f.id \in cancelledQueued ->
           /\ cancelledQueued' = cancelledQueued \ {f.id}
           /\ UNCHANGED <<mode, active, legacy, pc, retry, replies>>
      [] IsRequest(f) /\ f.id \notin cancelledQueued /\ ProtocolEvent(f).action \in {"error", "unknown"} ->
           /\ mode' = IF ProtocolEvent(f).action = "error" THEN mode ELSE ProtocolEvent(f).mode
           /\ Answer(f.n)
           /\ UNCHANGED <<cancelledQueued, active, legacy, pc, retry>>
      [] OTHER ->
           /\ mode' = CASE IsRequest(f) -> ProtocolEvent(f).mode
                        [] f.t = "initialized" -> Initialized(mode)
                        [] OTHER -> mode
           /\ legacy' = CASE IsRequest(f) /\ f.kind.method = "initialize" -> [init |-> f, ready |-> FALSE]
                          [] f.t = "initialized" /\ Initialized(mode) = "ready" -> [legacy EXCEPT !.ready = TRUE]
                          [] OTHER -> legacy
           /\ active' = f /\ retry' = 0 /\ pc' = "attempt"
           /\ UNCHANGED <<cancelledQueued, replies>>

Pop ==
    /\ pc = "idle" /\ queue # <<>>
    /\ queue' = Tail(queue) /\ Handle(Head(queue))
    /\ canceled' = FALSE /\ cancelledActive' = FALSE
    /\ UNCHANGED <<chan, sent, asked, eof, conn, suppressed, greeted, unready, faults>>

Receive ==
    /\ pc = "idle" /\ queue = <<>> /\ chan # <<>> /\ Head(chan).t # "eof"
    /\ chan' = Tail(chan) /\ Handle(Head(chan))
    /\ canceled' = FALSE /\ cancelledActive' = FALSE
    /\ UNCHANGED <<sent, asked, queue, eof, conn, suppressed, greeted, unready, faults>>

ReceiveEof ==
    /\ pc = "idle" /\ queue = <<>> /\ chan # <<>> /\ Head(chan).t = "eof"
    /\ pc' = "done" /\ chan' = Tail(chan)
    /\ UNCHANGED <<sent, asked, queue, cancelledQueued, mode, active, canceled, cancelledActive, retry, eof, legacy, conn,
                   replies, suppressed, greeted, unready, faults>>

EndCall ==
    /\ active' = NoFrame /\ canceled' = FALSE /\ cancelledActive' = FALSE
    /\ pc' = IF eof THEN "done" ELSE "idle"

ReadOnly == IsRequest(active)

NeedsSetup == legacy.ready /\ legacy.init # NoFrame /\ active.kind.method # "initialize"

\* reconnect and attach_mcp, then the handshake the client made earlier.
Attempt ==
    /\ pc = "attempt"
    /\ \/ /\ conn.on /\ pc' = "drain" /\ UNCHANGED <<conn, faults>>
       \/ /\ ~conn.on
          /\ conn' = IF NeedsSetup THEN [Attached EXCEPT !.up = <<legacy.init>>] ELSE Attached
          /\ pc' = IF NeedsSetup THEN "setup" ELSE "drain"
          /\ UNCHANGED faults
       \/ /\ ~conn.on /\ faults < MaxFaults
          /\ faults' = faults + 1 /\ pc' = "drain" /\ UNCHANGED conn
    /\ canceled' = FALSE
    /\ UNCHANGED <<chan, sent, asked, queue, cancelledQueued, mode, active, cancelledActive, retry, eof, legacy,
                   replies, suppressed, greeted, unready>>

\* The end of the setup: its reply, or anything else, which drops the connection.
SetupEnds ==
    /\ pc = "setup" /\ Quiet
    /\ \/ /\ ~eof /\ conn.down # <<>> /\ Head(conn.down) = legacy.init.n
          /\ conn' = [conn EXCEPT !.down = Tail(@), !.up = IF conn.alive THEN Append(@, Note("initialized", 0)) ELSE @]
       \/ (eof \/ (conn.down = <<>> /\ ~conn.alive)) /\ conn' = NoConn
    /\ IF eof THEN EndCall ELSE pc' = "drain" /\ UNCHANGED <<active, canceled, cancelledActive>>
    /\ UNCHANGED <<chan, sent, asked, queue, cancelledQueued, mode, retry, eof, legacy,
                   replies, suppressed, greeted, unready, faults>>

\* After the drain before the request is written: without a connection the call
\* fails, unless it was cancelled meanwhile.
Stop == eof \/ canceled \/ cancelledActive

Unattached ==
    /\ pc = "drain" /\ Quiet /\ ~conn.on
    /\ IF IsRequest(active) /\ ~Stop THEN Answer(active.n) ELSE UNCHANGED replies
    /\ EndCall
    /\ UNCHANGED <<chan, sent, asked, queue, cancelledQueued, mode, retry, eof, legacy, conn, suppressed, greeted, unready, faults>>

Write ==
    /\ pc = "drain" /\ Quiet /\ conn.on
    /\ IF Stop THEN EndCall /\ UNCHANGED conn
       ELSE /\ conn' = IF conn.alive THEN [conn EXCEPT !.up = Append(@, active)] ELSE conn
            /\ IF IsRequest(active) THEN pc' = "await" /\ UNCHANGED <<active, canceled, cancelledActive>>
                                    ELSE EndCall
    /\ UNCHANGED <<chan, sent, asked, queue, cancelledQueued, mode, retry, eof, legacy, replies, suppressed, greeted, unready, faults>>

\* Only a read is repeated, and only once.
Again == ReadOnly /\ retry = 0

\* The failure of a write or a read: another attempt, or a drain and an answer.
Broken(again) ==
    /\ conn' = NoConn
    /\ IF again
       THEN retry' = retry + 1 /\ pc' = "attempt" /\ UNCHANGED <<active, canceled, cancelledActive>>
       ELSE pc' = "drain" /\ UNCHANGED <<active, canceled, cancelledActive, retry>>

WriteFails ==
    /\ pc = "drain" /\ Quiet /\ conn.on /\ ~conn.alive /\ ~Stop
    /\ IF IsRequest(active) THEN Broken(Again) ELSE conn' = NoConn /\ EndCall /\ UNCHANGED retry
    /\ UNCHANGED <<chan, sent, asked, queue, cancelledQueued, mode, eof, legacy, replies, suppressed, greeted, unready, faults>>

\* Mutant: the failure is reported although another attempt follows.
BugReadFails ==
    /\ pc = "await" /\ ~canceled /\ ~eof /\ ~conn.alive /\ conn.down = <<>>
    /\ Broken(Again) /\ Answer(active.n)
    /\ UNCHANGED <<chan, sent, asked, queue, cancelledQueued, mode, eof, legacy, suppressed, greeted, unready, faults>>

\* The connection ends before a reply, or within one; only the first may be repeated.
ReadFails ==
    /\ pc = "await" /\ ~canceled /\ ~eof /\ ~conn.alive /\ conn.down = <<>>
    /\ \E partial \in BOOLEAN : Broken(Again /\ ~partial)
    /\ UNCHANGED <<chan, sent, asked, queue, cancelledQueued, mode, eof, legacy, replies, suppressed, greeted, unready, faults>>

\* The ten-second deadline of read_mcp_line.
Deadline ==
    /\ pc = "await" /\ ~canceled /\ ~eof /\ Quiet /\ faults < MaxFaults
    /\ Broken(Again)
    /\ faults' = faults + 1
    /\ UNCHANGED <<chan, sent, asked, queue, cancelledQueued, mode, eof, legacy, replies, suppressed, greeted, unready>>

SetupDeadline ==
    /\ pc = "setup" /\ ~eof /\ Quiet /\ faults < MaxFaults
    /\ conn' = NoConn /\ pc' = "drain"
    /\ faults' = faults + 1
    /\ UNCHANGED <<chan, sent, asked, queue, cancelledQueued, mode, active, canceled, cancelledActive, retry, eof, legacy,
                   replies, suppressed, greeted, unready>>

\* A complete reply, once all ready input has been looked at.
Reply ==
    /\ pc = "await" /\ ~canceled /\ ~eof /\ Quiet /\ conn.down # <<>>
    /\ IF Head(conn.down) = active.n
       THEN Answer(active.n) /\ EndCall
       ELSE pc' = "mismatch" /\ UNCHANGED <<replies, active, canceled, cancelledActive>>
    /\ greeted' = (greeted \/ active.kind.method = "initialize")
    /\ conn' = [conn EXCEPT !.down = Tail(@)]
    /\ UNCHANGED <<chan, sent, asked, queue, cancelledQueued, mode, retry, eof, legacy, suppressed, unready, faults>>

\* "No response from the canceled generation can reach a later ID."
Cancelled ==
    /\ pc = "await" /\ (canceled \/ eof) /\ Quiet
    /\ conn' = IF eof THEN conn ELSE NoConn
    /\ EndCall
    /\ UNCHANGED <<chan, sent, asked, queue, cancelledQueued, mode, retry, eof, legacy, replies, suppressed, greeted, unready, faults>>

(***************************************************************************)
(* The daemon at the other end of the connection                           *)
(***************************************************************************)
DaemonRequest ==
    /\ conn.alive /\ conn.up # <<>> /\ IsRequest(Head(conn.up))
    /\ LET f == Head(conn.up)
           v == Validate(conn.mode, f.kind) IN
        /\ conn' = [conn EXCEPT !.up = Tail(@), !.down = Append(@, f.n),
                                !.mode = IF v.action = "error" THEN @ ELSE v.mode]
        /\ unready' = (unready \/ v.action = "error")
    /\ UNCHANGED <<chan, sent, asked, queue, cancelledQueued, mode, active, canceled, cancelledActive, retry, eof, legacy, pc,
                   replies, suppressed, greeted, faults>>

DaemonNote ==
    /\ conn.alive /\ conn.up # <<>> /\ ~IsRequest(Head(conn.up))
    /\ conn' = [conn EXCEPT !.up = Tail(@), !.mode = IF Head(conn.up).t = "initialized" THEN Initialized(@) ELSE @]
    /\ UNCHANGED <<chan, sent, asked, queue, cancelledQueued, mode, active, canceled, cancelledActive, retry, eof, legacy, pc,
                   replies, suppressed, greeted, unready, faults>>

\* The daemon had not answered yet when the cancellation came.
DaemonCancel ==
    /\ conn.alive /\ conn.up # <<>> /\ IsRequest(Head(conn.up))
    /\ \E i \in 2..Len(conn.up) : conn.up[i] = Note("cancel", Head(conn.up).id)
    /\ conn' = [conn EXCEPT !.up = Tail(@)]
    /\ UNCHANGED <<chan, sent, asked, queue, cancelledQueued, mode, active, canceled, cancelledActive, retry, eof, legacy, pc,
                   replies, suppressed, greeted, unready, faults>>

\* The daemon ends; what it wrote can still be read.
DaemonDies ==
    /\ conn.alive /\ faults < MaxFaults
    /\ conn' = [conn EXCEPT !.alive = FALSE, !.up = <<>>]
    /\ faults' = faults + 1
    /\ UNCHANGED <<chan, sent, asked, queue, cancelledQueued, mode, active, canceled, cancelledActive, retry, eof, legacy, pc,
                   replies, suppressed, greeted, unready>>

ClientStep == ClientRequest \/ ClientCancel \/ ClientInitialized \/ ClientEof \/ ClientGarbage

RelayStep ==
    \/ DrainCancel \/ DrainFrame \/ DrainEof
    \/ Pop \/ Receive \/ ReceiveEof \/ Attempt \/ SetupEnds \/ SetupDeadline \/ Unattached
    \/ Write \/ WriteFails \/ ReadFails \/ Reply \/ Cancelled

DaemonStep == DaemonRequest \/ DaemonNote \/ DaemonCancel

Next == ClientStep \/ RelayStep \/ Deadline \/ DaemonStep \/ DaemonDies

Spec == Init /\ [][Next]_vars

(***************************************************************************)
(* Properties                                                              *)
(***************************************************************************)
TypeOK ==
    /\ Len(chan) <= ChanCap /\ Len(queue) <= QueueCap
    /\ mode \in Modes /\ conn.mode \in Modes
    /\ retry \in 0..1 /\ cancelledQueued \subseteq Ids
    /\ pc \in {"idle", "attempt", "setup", "drain", "await", "done", "mismatch"}
    /\ (pc \in {"attempt", "setup", "drain", "await", "mismatch"}) = (active # NoFrame)

\* Nobody is answered twice, whichever of the refusals, the failed attempts and
\* the daemons' replies meet.
AtMostOneReply == \A n \in Serials : replies[n] <= 1

\* A cancelled request is not answered any more (mcp-readonly-pilot-contract.md:
\* "suppress every further response for that outstanding request").
CancelSuppresses == \A n \in suppressed : replies[n] = 0

\* No reply of an earlier request reaches the one that waits now, however the
\* connections were lost and replaced.
NoStrayReply == pc # "mismatch"

\* When the relay waits for input, everything it took in was answered or
\* cancelled: no request is lost in the queue, a retry or a reconnection.
NothingLost ==
    pc = "idle" /\ queue = <<>> =>
        \A n \in 1..asked :
            n \in suppressed \/ replies[n] = 1 \/ \E i \in 1..Len(chan) : chan[i].n = n

\* A legacy call never reaches a daemon that has not seen the client's handshake,
\* and no admitted request one that would refuse it: the relay and the daemon of
\* the moment agree on the protocol.
HandshakeFirst == ~unready

=============================================================================
