---------------------------- MODULE CausalWitness ----------------------------
(***************************************************************************)
(* The causal witness stream of a checkout                                 *)
(* (src/src/daemon/causal_witness.rs): the queue tick reports H_READY,     *)
(* WATCH_PENDING and WATCH_ACK events, `send` offers them to a bounded     *)
(* queue without waiting, and one task writes one record per connection to *)
(* a socket that may fail at any write.  "On a lost event or transport     *)
(* error the stream stops: later ACKs must not certify a gap."             *)
(*                                                                         *)
(* All three producers run on the queue-tick loop of http.rs, so they are  *)
(* one process; `send` is two steps, because it loads `failed`, tries the  *)
(* queue and only then stores `failed`, and the writer runs in between.    *)
(***************************************************************************)
EXTENDS Naturals, Sequences

CONSTANTS
    QUEUE_CAPACITY,  \* slots of the queue
    MaxEvents,       \* bound on the events the producers emit
    MaxLineages      \* bound on the watchers installed in turn

VARIABLES
    queue,      \* events accepted and not yet dequeued
    failed,     \* the flag that the producers and the writer share
    dropping,   \* a try_send failed and `failed` is not stored yet
    writer,     \* the writer: its place, the event it holds, stream_seq
    wire,       \* records the reader has received whole, in order
    ordinal,    \* the lineage ordinal of the installed watcher
    generation, \* generation of that watcher
    pending,    \* witness_reported_generation, 0 when none
    reported,   \* causal_h_reported: the last lineage whose H was reported
    emitted     \* history: every event handed to `send`

vars == <<queue, failed, dropping, writer, wire, ordinal, generation, pending,
          reported, emitted>>

producer == <<ordinal, generation, pending, reported>>

Event(kind, lineage, gen) == [kind |-> kind, lineage |-> lineage, gen |-> gen]

Record(event, seq) == [event |-> event, seq |-> seq]

NoEvent == Event("none", 0, 0)

Init ==
    /\ queue = <<>> /\ failed = FALSE /\ dropping = FALSE
    /\ writer = [at |-> "recv", event |-> NoEvent, seq |-> 0]
    /\ wire = <<>>
    /\ ordinal = 1 /\ generation = 1 /\ pending = 0 /\ reported = 0
    /\ emitted = <<>>

(***************************************************************************)
(* The producers                                                           *)
(***************************************************************************)

\* The load of `failed` and try_send; the writer's end drops the receiver.
Send(event) ==
    /\ emitted' = Append(emitted, event)
    /\ IF failed
       THEN UNCHANGED <<queue, dropping>>
       ELSE IF Len(queue) < QUEUE_CAPACITY /\ writer.at # "stopped"
       THEN queue' = Append(queue, event) /\ UNCHANGED dropping
       ELSE dropping' = TRUE /\ UNCHANGED queue

\* The tick goes on only once `send` has returned.
Producing == ~dropping /\ Len(emitted) < MaxEvents

\* The store that ends a failed send.
StoreFailed ==
    /\ dropping
    /\ dropping' = FALSE /\ failed' = TRUE
    /\ UNCHANGED <<queue, writer, wire, emitted, producer>>

\* A new watcher: attach_causal_witness for a new owner, or the options
\* changed.  Its generations are comparable only within the lineage.
Rewatch ==
    /\ ~dropping /\ ordinal < MaxLineages
    /\ ordinal' = ordinal + 1 /\ generation' = 1 /\ pending' = 0
    /\ UNCHANGED <<queue, failed, dropping, writer, wire, reported, emitted>>

\* A hint arrived: the next drain has a new generation.
Hint ==
    /\ generation = pending /\ Len(emitted) < MaxEvents
    /\ generation' = generation + 1
    /\ UNCHANGED <<queue, failed, dropping, writer, wire, ordinal, pending, reported, emitted>>

WatchPending ==
    /\ Producing /\ pending # generation
    /\ Send(Event("WATCH_PENDING", ordinal, generation))
    /\ pending' = generation
    /\ UNCHANGED <<failed, writer, wire, ordinal, generation, reported>>

\* The tick's inventory was acknowledged, no newer hint and no unfinished
\* request is there (watch_ack returns at once when the queue is not empty).
WatchAck ==
    /\ Producing /\ pending = generation
    /\ Send(Event("WATCH_ACK", ordinal, generation))
    /\ UNCHANGED <<failed, writer, wire, producer>>

\* causal_h_already_reported: only the last reported lineage is remembered.
AlreadyReported == reported = ordinal

\* report_causal_h_ready after a tick that ended well.
HReady ==
    /\ Producing /\ ~AlreadyReported
    /\ Send(Event("H_READY", ordinal, 0))
    /\ reported' = ordinal
    /\ UNCHANGED <<failed, writer, wire, ordinal, generation, pending>>

(***************************************************************************)
(* The writer task                                                         *)
(***************************************************************************)

\* recv, and the first look at `failed`.
Dequeue ==
    /\ writer.at = "recv" /\ queue # <<>>
    /\ queue' = Tail(queue)
    /\ writer' = [writer EXCEPT !.event = Head(queue),
                                !.at = IF failed THEN "error" ELSE "number"]
    /\ UNCHANGED <<failed, dropping, wire, emitted, producer>>

\* stream_seq is taken, and `failed` is looked at again: a loss meanwhile
\* gives the number back to the ERROR record.
Number ==
    /\ writer.at = "number"
    /\ writer' = IF failed THEN [writer EXCEPT !.at = "error"]
                           ELSE [writer EXCEPT !.at = "write", !.seq = @ + 1]
    /\ UNCHANGED <<queue, failed, dropping, wire, emitted, producer>>

WriteOne ==
    /\ writer.at = "write"
    /\ wire' = Append(wire, Record(writer.event, writer.seq))
    /\ writer' = [writer EXCEPT !.at = "recv", !.event = NoEvent]
    /\ UNCHANGED <<queue, failed, dropping, emitted, producer>>

\* A refused connection, a partial write or the deadline; the reader may have
\* the whole record although the writer was told otherwise.
WriteFails ==
    /\ writer.at = "write"
    /\ \/ UNCHANGED wire
       \/ wire' = Append(wire, Record(writer.event, writer.seq))
    /\ failed' = TRUE
    /\ writer' = [writer EXCEPT !.at = "error"]
    /\ UNCHANGED <<queue, dropping, emitted, producer>>

\* send_error is best effort, and the task ends: the receiver is dropped.
SendError ==
    /\ writer.at = "error"
    /\ \/ UNCHANGED wire
       \/ wire' = Append(wire, Record([writer.event EXCEPT !.kind = "ERROR"], writer.seq + 1))
    /\ writer' = [writer EXCEPT !.at = "stopped", !.event = NoEvent]
    /\ queue' = <<>>
    /\ UNCHANGED <<failed, dropping, emitted, producer>>

Next ==
    \/ StoreFailed \/ Rewatch \/ Hint \/ WatchPending \/ WatchAck \/ HReady
    \/ Dequeue \/ Number \/ WriteOne \/ WriteFails \/ SendError

Spec == Init /\ [][Next]_vars

(***************************************************************************)
(* Properties                                                              *)
(***************************************************************************)

Events == [kind : {"none", "H_READY", "WATCH_PENDING", "WATCH_ACK", "ERROR"},
           lineage : 0..MaxLineages, gen : 0..(MaxEvents + 1)]

\* The type invariant: the queue never holds more than QUEUE_CAPACITY events.
TypeOK ==
    /\ queue \in Seq(Events) /\ Len(queue) <= QUEUE_CAPACITY
    /\ failed \in BOOLEAN /\ dropping \in BOOLEAN
    /\ writer \in [at : {"recv", "number", "write", "error", "stopped"},
                   event : Events, seq : 0..MaxEvents]
    /\ wire \in Seq([event : Events, seq : 1..(MaxEvents + 1)])
    /\ ordinal \in 1..MaxLineages /\ generation \in 1..(MaxEvents + 1)
    /\ pending \in 0..generation /\ reported \in 0..ordinal

IsError(i) == wire[i].event.kind = "ERROR"

\* What the reader gets is what was emitted, from the first event on and with
\* nothing left out: the record numbered s is the s-th emitted event, numbers
\* rise by one, and only an ERROR may skip the number of a record that the
\* reader did not get (causal_witness.rs: "later ACKs must not certify a gap").
NoGap ==
    \A i \in DOMAIN wire :
        \/ IsError(i)
        \/ /\ wire[i].seq = i
           /\ wire[i].event = emitted[i]

\* After an ERROR the stream is over: nothing is received behind one.
ErrorIsLast == \A i \in DOMAIN wire : IsError(i) => i = Len(wire)

\* An acknowledgement that reaches the reader follows, on the wire, the
\* announcement of the same generation of the same watcher: the reader saw the
\* work become pending before it is told that it settled.
AckAfterPending ==
    \A i \in DOMAIN wire :
        wire[i].event.kind = "WATCH_ACK" =>
            \E j \in 1..(i - 1) :
                wire[j].event = [wire[i].event EXCEPT !.kind = "WATCH_PENDING"]

\* One readiness report per lineage, although only the last key is remembered.
HOncePerLineage ==
    \A i, j \in DOMAIN emitted :
        emitted[i].kind = "H_READY" /\ emitted[i] = emitted[j] => i = j

=============================================================================
