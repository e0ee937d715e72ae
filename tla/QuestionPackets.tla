-------------------------- MODULE QuestionPackets --------------------------
(***************************************************************************)
(* Question packets in http.rs: a preview builds a packet from one revision*)
(* and puts it into a bounded cache; export, import, manual selection, Jev *)
(* and ACP requests take it from there, work on it (a provider for up to   *)
(* minutes) and answer.  Meanwhile other leaders' and this leader's        *)
(* publications supersede the packet's revision, retention releases it,    *)
(* another leader takes over, or the index is made anew.                   *)
(*                                                                         *)
(* A fence is a root and a leader that still are those of the request's    *)
(* first read (module EvidenceRead models how that is found out).          *)
(***************************************************************************)
EXTENDS Integers, Sequences, FiniteSets, SequencesExt, FiniteSetsExt

CONSTANTS Previews,        \* previews at one time
          Uses,            \* requests that use a cached packet
          Seeds,           \* questions that can be asked
          Size,            \* serialised bytes of the packet of a question
          MAX_PACKETS, MAX_PACKET_BYTES, MAX_CACHE_BYTES,
          MaxKept,         \* bound: a preview begins after fewer successful ones
          MaxRev,          \* bound on publications
          MaxOwner         \* bound on leaders

None == [seed |-> "none", rev |-> 0, bytes |-> 0]

(* packet_id is a hash of the request, the revision and the evidence. *)
Packets == [seed : Seeds, rev : 1..MaxRev, bytes : 0..MAX_PACKET_BYTES]
SameId(p, q) == p.seed = q.seed /\ p.rev = q.rev

VARIABLES rev,             \* the current revision
          oldest,          \* the oldest revision that is not released
          owner,           \* the leader's incarnation
          ready,           \* evidence can be read (root present, leader alive)
          cache,           \* PacketCache.packets, with its running total
          bytes,
          mutex,           \* the preview that holds the cache's mutex
          prior,           \* what it found there
          pre,             \* previews: where they are, packet and leader
          use,             \* uses: see Unused
          kept             \* packets of the previews that succeeded, in order

world == <<rev, oldest, owner, ready>>
cached == <<cache, bytes, mutex, prior, kept>>
vars == <<world, cached, pre, use>>

(* provider: jev-run and acp-answer.  owner: the leader of the first read.   *)
(* now: the revision that the status after the provider told, 0 for none.    *)
(* pinned: a fence has found the packet's revision.  since and low are       *)
(* history: the revision that was current when the request began (for a      *)
(* provider's: when the provider had ended), and the oldest one when the     *)
(* answer was assembled.                                                     *)
Unused == [at |-> "idle", packet |-> None, provider |-> FALSE, owner |-> 0, now |-> 0,
           pinned |-> FALSE, since |-> 0, low |-> 0]

(* No preview is in progress. *)
NoPreview == [at |-> "idle", packet |-> None, owner |-> 0]

TypeOK ==
  /\ rev \in 1..MaxRev /\ oldest \in 1..rev /\ owner \in 1..MaxOwner /\ ready \in BOOLEAN
  /\ Range(cache) \subseteq Packets /\ Range(kept) \subseteq Packets
  /\ bytes \in Nat
  /\ mutex \in Previews \cup {"free"}
  /\ pre \in [Previews -> [at : {"idle", "built", "cached"},
                           packet : Packets \cup {None}, owner : 0..MaxOwner]]
  /\ use \in [Uses -> [at : {"idle", "open", "found", "ran", "reread", "checked", "done", "ok",
                             "failed"},
                       packet : Packets \cup {None}, provider : BOOLEAN, owner : 0..MaxOwner,
                       now : 0..MaxRev, pinned : BOOLEAN, since : 0..MaxRev, low : 0..MaxRev]]

Init ==
  /\ rev = 1 /\ oldest = 1 /\ owner = 1 /\ ready = TRUE
  /\ cache = <<>> /\ bytes = 0 /\ mutex = "free"
  /\ prior = [packets |-> <<>>, bytes |-> 0]
  /\ pre = [r \in Previews |-> NoPreview]
  /\ use = [u \in Uses |-> Unused]
  /\ kept = <<>>

------------------------------------------------------------------------------
(* PacketCache *)

Total(ps) == FoldSeq(LAMBDA p, n : p.bytes + n, 0, ps)

Others(ps, p) == SelectSeq(ps, LAMBDA q : ~SameId(p, q))

(* The loop's exit: a place, and bytes for the new packet. *)
Fits(ps, n) == Len(ps) < MAX_PACKETS /\ Total(ps) + n <= MAX_CACHE_BYTES

(* The oldest packets are popped until the new one fits. *)
Popped(ps, n) == SubSeq(ps, 1 + Min({k \in 0..Len(ps) :
                   Fits(SubSeq(ps, k + 1, Len(ps)), n)}), Len(ps))

(* remember: a packet with the same id is replaced and becomes the newest. *)
Remember(ps, p) == Append(Popped(Others(ps, p), p.bytes), p)

(* The running total after remember. *)
Running(n, ps, p) ==
  n + p.bytes - (Total(ps) - Total(Others(ps, p)))
              - (Total(Others(ps, p)) - Total(Popped(Others(ps, p), p.bytes)))

(* question_preview: the packet is built under one snapshot; a question that *)
(* was asked of another revision than the current one is refused, and so is  *)
(* a packet that is too large.                                               *)
Build(r) ==
  /\ pre[r].at = "idle" /\ ready /\ Len(kept) < MaxKept
  /\ \E s \in Seeds, expected \in 1..rev :
       pre' = [pre EXCEPT ![r] =
         IF expected = rev /\ Size[s] <= MAX_PACKET_BYTES
         THEN [at |-> "built", packet |-> [seed |-> s, rev |-> rev, bytes |-> Size[s]],
               owner |-> owner]
         ELSE NoPreview]
  /\ UNCHANGED <<world, cached, use>>

Admit(r) ==
  /\ pre[r].at = "built" /\ mutex = "free"
  /\ mutex' = r
  /\ prior' = [packets |-> cache, bytes |-> bytes]
  /\ cache' = Remember(cache, pre[r].packet)
  /\ bytes' = Running(bytes, cache, pre[r].packet)
  /\ pre' = [pre EXCEPT ![r].at = "cached"]
  /\ UNCHANGED <<world, kept, use>>

(* ReadFence::verify: the root, and the leader of the request's first read.  *)
(* It does not look at the revision.                                         *)
Verified(x) == ready /\ owner = x.owner

(* Mutant: a failed preview leaves its packet in the cache. *)
BugFenced(r) ==
  /\ pre[r].at = "cached"
  /\ mutex' = "free"
  /\ pre' = [pre EXCEPT ![r] = NoPreview]
  /\ kept' = IF Verified(pre[r]) THEN Append(kept, pre[r].packet) ELSE kept
  /\ UNCHANGED <<world, cache, bytes, prior, use>>

(* The final fence runs under the mutex; its failure restores the cache.  A  *)
(* packet that was superseded meanwhile stays there.                         *)
Fenced(r) ==
  /\ pre[r].at = "cached"
  /\ mutex' = "free"
  /\ pre' = [pre EXCEPT ![r] = NoPreview]
  /\ IF Verified(pre[r])
     THEN kept' = Append(kept, pre[r].packet) /\ UNCHANGED <<cache, bytes>>
     ELSE cache' = prior.packets /\ bytes' = prior.bytes /\ UNCHANGED kept
  /\ UNCHANGED <<world, prior, use>>

------------------------------------------------------------------------------
(* A request that names a packet.                                            *)

Go(u, x) == use' = [use EXCEPT ![u] = x] /\ UNCHANGED <<world, cached, pre>>
Fail(u) == Go(u, [Unused EXCEPT !.at = "failed"])

(* cached_packet begins with a snapshot and its revision ...                 *)
OpenUse(u) ==
  /\ use[u].at = "idle" /\ ready
  /\ \E b \in BOOLEAN :
       Go(u, [Unused EXCEPT !.at = "open", !.provider = b, !.owner = owner, !.since = rev])

(* Mutant: a packet of any revision will do. *)
BugLookup(u) ==
  /\ use[u].at = "open" /\ mutex = "free"
  /\ \/ \E k \in DOMAIN cache : Go(u, [use[u] EXCEPT !.at = "found", !.packet = cache[k]])
     \/ Fail(u)

(* ... then takes the packet from the cache, which must be of that revision  *)
(* and what the snapshot stores of it.                                       *)
Lookup(u) ==
  /\ use[u].at = "open" /\ mutex = "free"
  /\ \/ \E k \in DOMAIN cache :
          /\ cache[k].rev = use[u].since
          /\ Go(u, [use[u] EXCEPT !.at = "found", !.packet = cache[k]])
     \/ Fail(u)

(* Local work ends with the answer, or fails. *)
Worked(u) ==
  /\ use[u].at = "found" /\ ~use[u].provider
  /\ \/ Go(u, [use[u] EXCEPT !.at = "done", !.low = oldest])
     \/ Fail(u)

Ran(u) ==
  /\ use[u].at = "found" /\ use[u].provider
  /\ Go(u, [use[u] EXCEPT !.at = "ran", !.since = rev])

(* Whatever the provider said: the status, of whoever leads now, ...         *)
Reread(u) ==
  /\ use[u].at = "ran"
  /\ Go(u, [use[u] EXCEPT !.at = "reread", !.now = IF ready THEN rev ELSE 0])

(* EvidenceFence::finish under ExactPin: in a snapshot of its own it finds   *)
(* the packet's revision, which may be superseded but not released, ...      *)
Readable(x) == ready /\ x.packet.rev \in oldest..rev

Pin(u) ==
  /\ use[u].at \in {"reread", "done"} /\ ~use[u].pinned
  /\ IF Verified(use[u]) /\ Readable(use[u])
     THEN Go(u, [use[u] EXCEPT !.pinned = TRUE]) ELSE Fail(u)

(* ... and verifies once more.  After a provider this is only the first      *)
(* fence, and the status must have told the packet's revision.               *)
Recheck(u) ==
  /\ use[u].at = "reread" /\ use[u].pinned
  /\ IF Verified(use[u]) /\ use[u].now = use[u].packet.rev
     THEN Go(u, [use[u] EXCEPT !.at = "checked", !.pinned = FALSE]) ELSE Fail(u)

Assemble(u) ==
  /\ use[u].at = "checked"
  /\ \/ Go(u, [use[u] EXCEPT !.at = "done", !.low = oldest])
     \/ Fail(u)

(* finish_packet_result: the last fence, then the answer. *)
FinishUse(u) ==
  /\ use[u].at = "done" /\ use[u].pinned
  /\ IF Verified(use[u]) THEN Go(u, [Unused EXCEPT !.at = "ok"]) ELSE Fail(u)

------------------------------------------------------------------------------
(* The rest of the system. *)

Publish ==
  /\ ready /\ rev < MaxRev /\ rev' = rev + 1
  /\ UNCHANGED <<oldest, owner, ready, cached, pre, use>>

(* Retention releases the oldest superseded revision. *)
ReleasePin ==
  /\ oldest < rev /\ oldest' = oldest + 1
  /\ UNCHANGED <<rev, owner, ready, cached, pre, use>>

(* Another leader, over the same index or over one made anew: pins of an     *)
(* older generation are not found any more.                                  *)
TakeOver ==
  /\ owner < MaxOwner /\ owner' = owner + 1
  /\ \/ UNCHANGED <<rev, oldest>>
     \/ rev < MaxRev /\ rev' = rev + 1 /\ oldest' = rev + 1
  /\ UNCHANGED <<ready, cached, pre, use>>

RootChanges ==
  /\ ready' = ~ready
  /\ UNCHANGED <<rev, oldest, owner, cached, pre, use>>

Next ==
  \/ \E r \in Previews : Build(r) \/ Admit(r) \/ Fenced(r)
  \/ \E u \in Uses :
       \/ OpenUse(u) \/ Lookup(u) \/ Worked(u) \/ Ran(u) \/ Reread(u) \/ Pin(u)
       \/ Recheck(u) \/ Assemble(u) \/ FinishUse(u)
  \/ Publish \/ ReleasePin \/ TakeOver \/ RootChanges

Spec == Init /\ [][Next]_vars

------------------------------------------------------------------------------
(* Properties. *)

(* The cache is what the successful previews alone would have made of it: a  *)
(* preview whose last fence fails neither evicts a packet nor replaces one   *)
(* with the same id (http.rs, remember_fenced).                              *)
CacheIsHistory ==
  mutex = "free" => cache = FoldLeft(Remember, <<>>, kept)

(* The running byte total is right and within its bound, and so is the       *)
(* number of packets: eviction counts the packet that comes in.              *)
CacheBounded ==
  /\ bytes = Total(cache) /\ bytes <= MAX_CACHE_BYTES
  /\ Len(cache) <= MAX_PACKETS

(* An answer leaves under the leader of the request's first read.  Its       *)
(* revision may be superseded by then, but by nothing that was published     *)
(* before the request began or, after a provider, before the provider had    *)
(* ended; and it was not released before the answer was assembled (http.rs,  *)
(* cached_packet, finish_packet_result; store.rs, ExactPin).                 *)
AnswerWasCurrent ==
  \A u \in Uses : use'[u].at = "ok" /\ use[u].at # "ok" =>
    /\ ready /\ owner = use[u].owner
    /\ use[u].packet.rev \in use[u].since..rev
    /\ use[u].packet.rev >= use[u].low

==============================================================================
