---------------------------- MODULE RequestQueue ----------------------------
(***************************************************************************)
(* What the durable index queue promises its clients: an accepted request  *)
(* stays accepted, requests are answered one at a time in the order of     *)
(* acceptance, and a request may be abandoned out of order only because    *)
(* the workspace root it was accepted for is not the root any more.        *)
(***************************************************************************)
EXTENDS Naturals, Sequences

CONSTANT RootIds  \* workspace root inodes

VARIABLE queue  \* accepted requests: the root they are for and their answer

Open == {i \in DOMAIN queue : queue[i].answer = "open"}

Init == queue = <<>>

\* A client's request is accepted for the root r.
Accept ==
    \E r \in RootIds : queue' = Append(queue, [root |-> r, answer |-> "open"])

\* The earliest open request is answered.
Answer ==
    \E i \in Open, a \in {"done", "failed"} :
        /\ \A j \in Open : i <= j
        /\ queue' = [queue EXCEPT ![i].answer = a]

\* All open requests of one root, or of all roots but one, fail together.
Abandon ==
    \E r \in RootIds, lost \in BOOLEAN :
        queue' = [i \in DOMAIN queue |->
                    IF i \in Open /\ (queue[i].root = r) = lost
                    THEN [queue[i] EXCEPT !.answer = "failed"]
                    ELSE queue[i]]

Next == Accept \/ Answer \/ Abandon

Spec == Init /\ [][Next]_queue
=============================================================================
