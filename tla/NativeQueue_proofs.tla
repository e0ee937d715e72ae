------------------------- MODULE NativeQueue_proofs -------------------------
(***************************************************************************)
(* For any number of daemons and commands, rows, crashes, faults and root  *)
(* moves: the types of the queue's state and the leader fence; claims in   *)
(* order, pins honoured, work published once, terminal rows final; and the *)
(* queue implements RequestQueue.                                          *)
(***************************************************************************)
EXTENDS NativeQueue, SequenceTheorems, TLAPS

-----------------------------------------------------------------------------
(* What the helpers return *)

\* Replacing rows in place yields a queue of the same length.
LEMMA SameLength ==
    ASSUME NEW S, NEW s \in Seq(S), NEW f, f = [i \in DOMAIN s |-> f[i]],
           \A i \in DOMAIN s : f[i] \in S
    PROVE  f \in Seq(S) /\ Len(f) = Len(s) /\ DOMAIN f = DOMAIN s
  <1>1. f \in [1..Len(s) -> S] /\ Len(s) \in Nat /\ DOMAIN s = 1..Len(s)
    BY LenProperties
  <1>2. f \in Seq(S)
    BY <1>1, SeqDef
  <1> QED
    BY <1>1, <1>2, LenProperties

\* Failing rows of changed roots leaves rows, in number and type.
LEMMA FailChangedRootType ==
    ASSUME TypeOK, NEW p \in Proc, NEW k \in Nat
    PROVE  /\ FailChangedRoot(p, k) \in Seq(Rows)
           /\ DOMAIN FailChangedRoot(p, k) = DOMAIN rows
  <1>1. \A i \in DOMAIN rows : rows[i] \in Rows
    BY ElementOfSeq, LenProperties DEF TypeOK
  <1>2. \A i \in DOMAIN rows : FailChangedRoot(p, k)[i] \in Rows
    BY <1>1 DEF FailChangedRoot, Rows, RowStates, Errors
  <1>3. FailChangedRoot(p, k) = [i \in DOMAIN rows |-> FailChangedRoot(p, k)[i]]
    BY DEF FailChangedRoot
  <1> QED
    BY <1>2, <1>3, SameLength DEF TypeOK

\* The empty values have their types.
LEMMA NoPinType == NoPin \in Pins
  BY DEF NoPin, Pins

LEMMA OutcomeTypes ==
    /\ \A pin \in Pins : Done(pin) \in Outcomes
    /\ \A code \in Errors : Failed(code) \in Outcomes
  BY NoPinType DEF Done, Failed, Outcomes, Errors

LEMMA NoSlotType == NoSlot \in Slots
  BY OutcomeTypes DEF NoSlot, Slots, NoOut, Errors

LEMMA OffType == Off \in Process
  BY NoPinType, NoSlotType DEF Off, Process, PCs

\* A publication advances the head by one revision.
LEMMA NextPinType == \A pin \in Pins : Next1(pin) \in Pins /\ Next1(pin) # pin
  BY DEF Next1, Pins

\* A dropped session leaves a process without an incarnation.
LEMMA DroppedFacts ==
    ASSUME TypeOK, NEW p \in Proc, NEW next \in {"start", "idle"}
    PROVE  /\ Dropped(p, next) \in Process
           /\ Dropped(p, next).inc = 0
           /\ Dropped(p, next).pc \in {"off", next}
  <1>1. st[p] \in Process /\ next \in PCs
    BY DEF TypeOK, PCs
  <1>2. CASE p \in Clis
    <2>1. Dropped(p, next) = Off
      BY <1>2 DEF Dropped
    <2> QED BY <2>1, OffType DEF Off
  <1>3. CASE p \notin Clis
    <2> DEFINE r == [st[p] EXCEPT !.pc = next, !.inc = 0, !.job = 0, !.before = NoPin,
                                  !.acked = FALSE, !.follows = 0]
    <2>1. Dropped(p, next) = r
      BY <1>3 DEF Dropped
    <2>2. r \in Process
      BY <1>1, NoPinType DEF Process
    <2>3. r.inc = 0 /\ r.pc = next
      BY <1>1 DEF Process
    <2> QED BY <2>1, <2>2, <2>3
  <1> QED BY <1>2, <1>3

\* A failed election returns to one of two waiting places.
LEMMA BackFacts ==
    ASSUME NEW p \in Proc PROVE Back(p) \in {"start", "idle"}
  BY DEF Back

\* The end of a drain keeps the session.
LEMMA EndDrainFacts ==
    ASSUME TypeOK, NEW p \in Proc, NEW a \in BOOLEAN, NEW u
    PROVE  /\ EndDrain(p, a, u) \in Process
           /\ EndDrain(p, a, u).inc = st[p].inc
           /\ EndDrain(p, a, u).pc \in {"watch", "lead"}
  <1>1. st[p] \in Process
    BY DEF TypeOK
  <1> DEFINE pc == IF p \in Clis \/ a \/ u = {} THEN "watch" ELSE "lead"
  <1>2. pc \in {"watch", "lead"} /\ pc \in PCs
    BY DEF PCs
  <1> DEFINE r == [st[p] EXCEPT !.pc = pc, !.job = 0, !.before = NoPin, !.acked = a,
                                !.via = "kept"]
  <1>3. EndDrain(p, a, u) = r
    BY DEF EndDrain
  <1> HIDE DEF pc
  <1>4. r \in Process
    BY <1>1, <1>2, NoPinType DEF Process
  <1>5. r.inc = st[p].inc /\ r.pc = pc
    BY <1>1 DEF Process
  <1> QED BY <1>2, <1>3, <1>4, <1>5

\* So does an acknowledgement.
LEMMA AckedFacts ==
    ASSUME TypeOK, NEW p \in Proc
    PROVE  /\ Acked(p) \in Process
           /\ Acked(p).inc = st[p].inc
           /\ Acked(p).pc \in {"watch", "lead", "drain"}
  <1>1. st[p] \in Process /\ "drain" \in PCs
    BY DEF TypeOK, PCs
  <1>2. CASE st[p].job # 0 /\ st[p].cutoff = 0
    <2> DEFINE e == EndDrain(p, TRUE, {})
    <2>1. e \in Process /\ e.inc = st[p].inc /\ e.pc \in {"watch", "lead"}
      BY EndDrainFacts
    <2>2. Acked(p) = [e EXCEPT !.slot = NoSlot]
      BY <1>2 DEF Acked
    <2> HIDE DEF e
    <2>3. [e EXCEPT !.slot = NoSlot] \in Process
      BY <2>1, NoSlotType DEF Process
    <2>4. [e EXCEPT !.slot = NoSlot].inc = e.inc /\ [e EXCEPT !.slot = NoSlot].pc = e.pc
      BY <2>1 DEF Process
    <2> QED BY <2>1, <2>2, <2>3, <2>4
  <1>3. CASE ~(st[p].job # 0 /\ st[p].cutoff = 0)
    <2> DEFINE r == [st[p] EXCEPT !.pc = "drain", !.slot = NoSlot, !.job = 0,
                                  !.before = NoPin, !.acked = TRUE]
    <2>1. Acked(p) = r
      BY <1>3 DEF Acked
    <2>2. r \in Process
      BY <1>1, NoPinType, NoSlotType DEF Process
    <2>3. r.inc = st[p].inc /\ r.pc = "drain"
      BY <1>1 DEF Process
    <2> QED BY <2>1, <2>2, <2>3
  <1> QED BY <1>2, <1>3

\* And a completion kept for the next tick.
LEMMA KeepFacts ==
    ASSUME TypeOK, NEW p \in Proc
    PROVE  /\ KeepForRetry(p) \in Process
           /\ KeepForRetry(p).inc = st[p].inc
           /\ KeepForRetry(p).pc = "lead"
  <1>1. st[p] \in Process
    BY DEF TypeOK
  <1>2. NoPin \in Pins /\ "lead" \in PCs
    BY DEF NoPin, Pins, PCs
  <1>3. KeepForRetry(p) \in Process
    BY <1>1, <1>2 DEF KeepForRetry, Process
  <1>4. KeepForRetry(p).inc = st[p].inc /\ KeepForRetry(p).pc = "lead"
    BY <1>1 DEF KeepForRetry, Process
  <1> QED BY <1>3, <1>4

-----------------------------------------------------------------------------
(* The leader fence *)

\* Program points without a leader session.
NoSession == {"off", "enq", "start", "idle", "recreate"}

\* A process inside an election or a drain holds the flock; one that has written its
\* incarnation still reads it back; every other process has none. This strengthens
\* LeaderFenced with the program points, which is what the steps preserve.
SessionInv ==
    \A p \in Proc :
        /\ st[p].pc \in NoSession \cup {"won"} => st[p].inc = 0
        /\ st[p].pc \notin NoSession => lock = p
        /\ st[p].pc \notin NoSession \cup {"won"} =>
                st[p].inc = incarnation /\ incarnation # 0

\* A step that keeps the lock, the incarnation and the kind of program point.
LEMMA FenceKept ==
    ASSUME TypeOK, SessionInv, NEW p \in Proc, NEW r \in Process,
           st' = [st EXCEPT ![p] = r], lock' = lock, incarnation' = incarnation,
           r.inc = st[p].inc,
           r.pc \in NoSession <=> st[p].pc \in NoSession,
           r.pc = "won" <=> st[p].pc = "won"
    PROVE  SessionInv'
  <1>1. st \in [Proc -> Process]
    BY DEF TypeOK
  <1> QED
    BY <1>1 DEF SessionInv

\* A step that gives up the session; the registry may keep the flock for a while.
LEMMA FenceDropped ==
    ASSUME TypeOK, SessionInv, NEW p \in Proc, NEW r \in Process,
           st' = [st EXCEPT ![p] = r], lock' \in {None, p}, incarnation' = incarnation,
           st[p].pc \notin NoSession, r.pc \in NoSession, r.inc = 0
    PROVE  SessionInv'
  <1>1. st \in [Proc -> Process] /\ None \notin Proc
    BY ProcAssumption DEF TypeOK
  <1>2. \A q \in Proc \ {p} : st[q].pc \in NoSession
    BY DEF SessionInv
  <1> QED
    BY <1>1, <1>2 DEF SessionInv

\* While the flock is free nobody is inside an election or a drain.
LEMMA FenceFree ==
    ASSUME SessionInv, lock = None
    PROVE  \A p \in Proc : st[p].pc \in NoSession /\ st[p].inc = 0
  BY ProcAssumption DEF SessionInv

\* A step that takes the free flock, with or without a new incarnation.
LEMMA FenceTaken ==
    ASSUME TypeOK, SessionInv, NEW p \in Proc, NEW r \in Process, lock = None,
           st' = [st EXCEPT ![p] = r], lock' = p,
           \/ r.pc = "won" /\ r.inc = 0
           \/ r.pc \notin NoSession \cup {"won"} /\ r.inc = incarnation' /\ r.inc # 0
    PROVE  SessionInv'
  <1>1. st \in [Proc -> Process]
    BY DEF TypeOK
  <1>2. \A q \in Proc : st[q].pc \in NoSession /\ st[q].inc = 0
    BY FenceFree
  <1>3. r.pc \notin NoSession
    BY DEF NoSession
  <1> QED
    BY <1>1, <1>2, <1>3 DEF SessionInv

\* A process outside any session loses a flock that only lingered.
LEMMA FenceReleased ==
    ASSUME TypeOK, SessionInv, NEW p \in Proc, NEW r \in Process,
           st' = [st EXCEPT ![p] = r], lock = p, lock' = None, incarnation' = incarnation,
           st[p].pc \in NoSession, r.pc \in NoSession, r.inc = 0
    PROVE  SessionInv'
  <1>1. st \in [Proc -> Process]
    BY DEF TypeOK
  <1>2. \A q \in Proc : st[q].pc \in NoSession
    BY DEF SessionInv
  <1> QED
    BY <1>1, <1>2 DEF SessionInv

\* replace_serving_session(None) and a failed election keep types and fence.
LEMMA DropElectedInv ==
    ASSUME TypeOK, SessionInv, NEW p \in Proc, st[p].pc \notin NoSession,
           DropElected(p), incarnation' = incarnation
    PROVE  SessionInv' /\ st' \in [Proc -> Process] /\ lock' \in Proc \cup {None}
  <1> DEFINE r == Dropped(p, Back(p))
  <1>1. r \in Process /\ r.inc = 0 /\ r.pc \in {"off", "start", "idle"}
    BY BackFacts, DroppedFacts
  <1>2. st' = [st EXCEPT ![p] = r] /\ lock' = None
    BY DEF DropElected
  <1>3. r.pc \in NoSession
    BY <1>1 DEF NoSession
  <1> HIDE DEF r
  <1> QED
    BY <1>1, <1>2, <1>3, FenceDropped DEF TypeOK

LEMMA DropRetainedInv ==
    ASSUME TypeOK, SessionInv, NEW p \in Proc, st[p].pc \notin NoSession,
           DropRetained(p), incarnation' = incarnation
    PROVE  SessionInv' /\ st' \in [Proc -> Process] /\ lock' \in Proc \cup {None}
  <1> DEFINE r == Dropped(p, "idle")
  <1>1. r \in Process /\ r.inc = 0 /\ r.pc \in {"off", "idle"}
    BY DroppedFacts
  <1>2. st' = [st EXCEPT ![p] = r] /\ lock' \in {None, p}
    BY DEF DropRetained
  <1>3. r.pc \in NoSession
    BY <1>1 DEF NoSession
  <1> HIDE DEF r
  <1> QED
    BY <1>1, <1>2, <1>3, FenceDropped DEF TypeOK

\* A step inside a session.
LEMMA SessionKept ==
    ASSUME TypeOK, SessionInv, NEW p \in Proc, NEW r \in Process,
           st' = [st EXCEPT ![p] = r], lock' = lock, incarnation' = incarnation,
           r.inc = st[p].inc, st[p].pc \notin NoSession \cup {"won"},
           r.pc \notin NoSession \cup {"won"}
    PROVE  SessionInv' /\ st' \in [Proc -> Process] /\ lock' \in Proc \cup {None}
  BY FenceKept DEF TypeOK

\* The terminal update keeps the rows' types.
LEMMA FinishRowType ==
    ASSUME TypeOK, NEW p \in Proc, FinishRow(p)
    PROVE  rows' \in Seq(Rows)
  <1> DEFINE i == st[p].slot.row
             out == st[p].slot.out
  <1>1. \A j \in DOMAIN rows : rows[j] \in Rows
    BY ElementOfSeq, LenProperties DEF TypeOK
  <1>2. out \in Outcomes
    BY DEF TypeOK, Process, Slots
  <1>3. rows' = [j \in DOMAIN rows |-> IF j = i THEN Terminal(rows[j], out) ELSE rows[j]]
    BY DEF FinishRow
  <1>4. \A j \in DOMAIN rows : Terminal(rows[j], out) \in Rows
    BY <1>1, <1>2 DEF Terminal, Rows, RowStates, Outcomes
  <1>5. \A j \in DOMAIN rows : rows'[j] \in Rows
    BY <1>1, <1>3, <1>4
  <1>6. rows' = [j \in DOMAIN rows |-> rows'[j]]
    BY <1>3
  <1> QED
    BY <1>5, <1>6, SameLength DEF TypeOK

\* A fault is counted.
LEMMA FaultType ==
    ASSUME TypeOK, Fault
    PROVE  used' \in [crashes : Nat, faults : Nat, edits : Nat, moves : Nat]
  BY DEF TypeOK, Fault

\* After the watcher the session stays, or a command that is done lets it go.
LEMMA AfterWatchInv ==
    ASSUME TypeOK, SessionInv, NEW p \in Proc, st[p].pc = "watch", AfterWatch(p),
           incarnation' = incarnation
    PROVE  SessionInv' /\ st' \in [Proc -> Process] /\ lock' \in Proc \cup {None}
  <1>1. st \in [Proc -> Process] /\ st[p] \in Process /\ "lead" \in PCs
    BY DEF TypeOK, PCs
  <1>2. st[p].pc \notin NoSession /\ st[p].pc # "won"
    BY DEF NoSession
  <1>3. CASE st[p].cutoff # 0 /\ st[p].acked
    BY <1>2, <1>3, DropRetainedInv DEF AfterWatch
  <1>4. CASE ~(st[p].cutoff # 0 /\ st[p].acked)
    <2> DEFINE r == [st[p] EXCEPT !.pc = "lead", !.acked = FALSE]
    <2>1. r \in Process
      BY <1>1 DEF Process
    <2>2. r.inc = st[p].inc /\ r.pc = "lead"
      BY <1>1 DEF Process
    <2>3. st' = [st EXCEPT ![p] = r] /\ lock' = lock
      BY <1>1, <1>4 DEF AfterWatch
    <2> HIDE DEF r
    <2> QED
      BY <1>2, <2>1, <2>2, <2>3, SessionKept DEF NoSession
  <1> QED BY <1>3, <1>4

\* Updating one row in place.
LEMMA RowUpdate ==
    ASSUME NEW s \in Seq(Rows), NEW i, NEW e, i \in DOMAIN s => e \in Rows
    PROVE  [s EXCEPT ![i] = e] \in Seq(Rows) /\ DOMAIN [s EXCEPT ![i] = e] = DOMAIN s
  <1> DEFINE f == [s EXCEPT ![i] = e]
  <1>1. \A j \in DOMAIN s : s[j] \in Rows
    BY ElementOfSeq, LenProperties
  <1>2. f = [j \in DOMAIN s |-> f[j]] /\ \A j \in DOMAIN s : f[j] \in Rows
    BY <1>1
  <1> QED
    BY <1>2, SameLength

\* Every step preserves types and fence, one action at a time.
LEMMA InvStep == TypeOK /\ SessionInv /\ [Next]_vars => TypeOK' /\ SessionInv'
  <1> SUFFICES ASSUME TypeOK, SessionInv, [Next]_vars PROVE TypeOK' /\ SessionInv'
    OBVIOUS
  <1>st. st \in [Proc -> Process] /\ \A p \in Proc : st[p] \in Process
    BY DEF TypeOK
  <1>nat. incarnation \in Nat /\ rootNow \in Nat
    BY DEF TypeOK
  <1>ix. /\ index \in [pin : Pins, marker : Nat, root : Nat]
         /\ index.pin \in Pins /\ index.marker \in Nat /\ index.root \in Nat
    BY DEF TypeOK
  <1>1. ASSUME NEW p \in Proc, Start(p) PROVE TypeOK' /\ SessionInv'
    <2> DEFINE r == [Off EXCEPT !.pc = "start", !.root = rootNow]
    <2>1. r \in Process /\ r.inc = 0 /\ r.pc = "start"
      BY <1>nat, OffType DEF Off, Process, PCs
    <2>2. st' = [st EXCEPT ![p] = r]
      BY <1>1 DEF Start
    <2>3. st[p].pc = "off" /\ st[p].inc = 0
      BY <1>1 DEF Start, SessionInv, NoSession
    <2> HIDE DEF r
    <2>4. SessionInv'
      <3>1. r.pc \in NoSession <=> st[p].pc \in NoSession
        BY <1>1, <2>1, <2>2, <2>3 DEF Start, NoSession
      <3>2. r.pc = "won" <=> st[p].pc = "won"
        BY <1>1, <2>1, <2>2, <2>3 DEF Start, NoSession
      <3>3. lock' = lock /\ incarnation' = incarnation
        BY <1>1, <2>1, <2>2, <2>3 DEF Start
      <3> QED BY <2>1, <2>2, <2>3, <3>1, <3>2, <3>3, FenceKept
    <2> QED
      BY <1>st, <1>1, <2>1, <2>2, <2>4 DEF Start, TypeOK
  <1>2. ASSUME NEW p \in Proc, Crash(p) PROVE TypeOK' /\ SessionInv'
    <2>1. st' = [st EXCEPT ![p] = Off]
      BY <1>2 DEF Crash
    <2>2. Off \in Process /\ Off.inc = 0 /\ Off.pc = "off" /\ Off.pc \in NoSession
      BY OffType DEF Off, NoSession
    <2>3. ASSUME st[p].pc \notin NoSession PROVE SessionInv'
      BY <1>2, <2>1, <2>2, <2>3, FenceDropped DEF Crash, SessionInv
    <2>4. ASSUME st[p].pc \in NoSession, lock = p PROVE SessionInv'
      BY <1>2, <2>1, <2>2, <2>4, FenceReleased DEF Crash
    <2>5. ASSUME st[p].pc \in NoSession, lock # p PROVE SessionInv'
      <3>1. st[p].inc = 0 /\ st[p].pc # "won" /\ Off.pc # "won"
        BY <2>2, <2>5 DEF SessionInv, NoSession
      <3> QED
        BY <1>2, <2>1, <2>2, <2>5, <3>1, FenceKept DEF Crash
    <2>6. SessionInv'
      BY <2>3, <2>4, <2>5
    <2>7. used' \in [crashes : Nat, faults : Nat, edits : Nat, moves : Nat]
      <3>1. used \in [crashes : Nat, faults : Nat, edits : Nat, moves : Nat]
        BY DEF TypeOK
      <3>2. used' = [used EXCEPT !.crashes = @ + 1]
        BY <1>2 DEF Crash
      <3> QED BY <3>1, <3>2
    <2>8. wtx' \in Txs
      BY <1>2 DEF Crash, TypeOK, Txs, NoTx, NoPin, Pins
    <2>9. st' \in [Proc -> Process]
      BY <1>st, <2>1, <2>2
    <2> QED
      BY <1>2, <2>6, <2>7, <2>8, <2>9 DEF Crash, TypeOK
  <1>3. ASSUME MoveRoot PROVE TypeOK' /\ SessionInv'
    <2>1. rootNow' \in Nat
      BY <1>3, BoundAssumption DEF MoveRoot
    <2>2. used' \in [crashes : Nat, faults : Nat, edits : Nat, moves : Nat]
      BY <1>3 DEF MoveRoot, TypeOK
    <2> QED
      BY <1>3, <2>1, <2>2 DEF MoveRoot, TypeOK, SessionInv
  <1>4. ASSUME NEW p \in Proc, EnqueueBegin(p) PROVE TypeOK' /\ SessionInv'
    <2>1. wtx' \in Txs
      BY <1>st, <1>nat, <1>ix, <1>4, NoPinType DEF EnqueueBegin, Txs, Process
    <2>2. ASSUME UNCHANGED st PROVE TypeOK' /\ SessionInv'
      BY <1>4, <2>1, <2>2 DEF EnqueueBegin, TypeOK, SessionInv
    <2>3. ASSUME st[p].pc = "off", st' = [st EXCEPT ![p] = [Off EXCEPT !.pc = "enq", !.root = rootNow]]
          PROVE  TypeOK' /\ SessionInv'
      <3> DEFINE r == [Off EXCEPT !.pc = "enq", !.root = rootNow]
      <3>1. r \in Process /\ r.inc = 0 /\ r.pc = "enq"
        BY <1>nat, OffType DEF Off, Process, PCs
      <3>2. st[p].inc = 0
        BY <2>3 DEF SessionInv, NoSession
      <3>3. st' = [st EXCEPT ![p] = r]
        BY <2>3
      <3> HIDE DEF r
      <3>4. SessionInv'
        <4>1. r.pc \in NoSession <=> st[p].pc \in NoSession
          BY <1>4, <2>3, <3>1, <3>2, <3>3 DEF EnqueueBegin, NoSession
        <4>2. r.pc = "won" <=> st[p].pc = "won"
          BY <1>4, <2>3, <3>1, <3>2, <3>3 DEF EnqueueBegin, NoSession
        <4>3. lock' = lock /\ incarnation' = incarnation
          BY <1>4, <2>3, <3>1, <3>2, <3>3 DEF EnqueueBegin
        <4> QED BY <2>3, <3>1, <3>2, <3>3, <4>1, <4>2, <4>3, FenceKept
      <3> QED
        BY <1>st, <1>4, <2>1, <3>1, <3>3, <3>4 DEF EnqueueBegin, TypeOK
    <2> QED
      BY <1>4, <2>2, <2>3 DEF EnqueueBegin
  <1>5. ASSUME NEW p \in Proc, EnqueueCommit(p) PROVE TypeOK' /\ SessionInv'
    <2> DEFINE pc == IF p \in Clis THEN "idle" ELSE st[p].pc
               r == [st[p] EXCEPT !.local = @ \cup {Len(rows) + 1}, !.pc = pc]
    <2>1. pc \in PCs /\ (p \in Clis => pc = "idle" /\ st[p].pc = "enq")
                     /\ (p \notin Clis => pc = st[p].pc)
      BY <1>st, <1>5 DEF EnqueueCommit, Process, PCs
    <2>2. Len(rows) + 1 \in Nat
      BY LenProperties DEF TypeOK
    <2>3. st' = [st EXCEPT ![p] = r]
      BY <1>st, <1>5 DEF EnqueueCommit
    <2> HIDE DEF pc
    <2>4. r \in Process
      BY <1>st, <2>1, <2>2 DEF Process
    <2>5. r.inc = st[p].inc /\ r.pc = pc
      BY <1>st DEF Process
    <2> HIDE DEF r
    <2>6. SessionInv'
      <3>1. r.pc \in NoSession <=> st[p].pc \in NoSession
        BY <1>5, <2>1, <2>3, <2>4, <2>5 DEF EnqueueCommit, NoSession
      <3>2. r.pc = "won" <=> st[p].pc = "won"
        BY <1>5, <2>1, <2>3, <2>4, <2>5 DEF EnqueueCommit, NoSession
      <3>3. lock' = lock /\ incarnation' = incarnation
        BY <1>5, <2>1, <2>3, <2>4, <2>5 DEF EnqueueCommit
      <3> QED BY <2>1, <2>3, <2>4, <2>5, <3>1, <3>2, <3>3, FenceKept
    <2>7. NewRow(wtx) \in Rows
      BY NoPinType DEF TypeOK, Txs, NewRow, Rows, RowStates, Errors
    <2>8. rows' \in Seq(Rows)
      BY <1>5, <2>7, AppendProperties DEF EnqueueCommit, TypeOK
    <2>9. wtx' \in Txs
      BY <1>5, NoPinType DEF EnqueueCommit, NoTx, Txs
    <2>10. st' \in [Proc -> Process]
      BY <1>st, <2>3, <2>4
    <2> QED
      BY <1>5, <2>6, <2>8, <2>9, <2>10 DEF EnqueueCommit, TypeOK
  <1>6. ASSUME NEW p \in Proc, TakeLock(p) PROVE TypeOK' /\ SessionInv'
    <2>0. lock = None /\ lock' = p /\ incarnation' = incarnation
      BY <1>6 DEF TakeLock, FlockFree
    <2>1. st[p].inc = 0
      BY <2>0, FenceFree
    <2>2. PICK r \in Process : st' = [st EXCEPT ![p] = r] /\ r.pc = "won" /\ r.inc = st[p].inc
      <3>1. ASSUME NEW v \in {"start", "pending"}, st' = [st EXCEPT ![p].pc = "won", ![p].via = v]
            PROVE  \E r \in Process : st' = [st EXCEPT ![p] = r] /\ r.pc = "won" /\ r.inc = st[p].inc
        <4> DEFINE r == [st[p] EXCEPT !.pc = "won", !.via = v]
        <4>1. "won" \in PCs
          BY DEF PCs
        <4>2. r \in Process
          BY <1>st, <4>1 DEF Process
        <4>3. r.pc = "won" /\ r.inc = st[p].inc
          BY <1>st DEF Process
        <4>4. st' = [st EXCEPT ![p] = r]
          BY <1>st, <3>1
        <4> QED BY <4>2, <4>3, <4>4
      <3>2. ASSUME st' = [st EXCEPT ![p].pc = "won", ![p].via = "empty",
                                    ![p].retry = TRUE, ![p].follows = 0]
            PROVE  \E r \in Process : st' = [st EXCEPT ![p] = r] /\ r.pc = "won" /\ r.inc = st[p].inc
        <4> DEFINE r == [st[p] EXCEPT !.pc = "won", !.via = "empty", !.retry = TRUE, !.follows = 0]
        <4>1. "won" \in PCs
          BY DEF PCs
        <4>2. r \in Process
          BY <1>st, <4>1 DEF Process
        <4>3. r.pc = "won" /\ r.inc = st[p].inc
          BY <1>st DEF Process
        <4>4. st' = [st EXCEPT ![p] = r]
          BY <1>st, <3>2
        <4> QED BY <4>2, <4>3, <4>4
      <3> QED
        BY <1>6, <3>1, <3>2 DEF TakeLock
    <2>3. SessionInv'
      BY <2>0, <2>1, <2>2, FenceTaken
    <2> QED
      BY <1>st, <1>6, <2>0, <2>2, <2>3 DEF TakeLock, TypeOK
  <1>7. ASSUME NEW p \in Proc, Follow(p) PROVE TypeOK' /\ SessionInv'
    <2> DEFINE again == (st[p].pc = "idle")
               r == [st[p] EXCEPT !.pc = "idle", !.follows = incarnation, !.retry = again]
    <2>1. "idle" \in PCs /\ st[p].pc \in {"start", "idle"} /\ again \in BOOLEAN
      BY <1>7 DEF PCs, Follow, Followable
    <2>4. st' = [st EXCEPT ![p] = r]
      BY <1>st, <1>7 DEF Follow
    <2> HIDE DEF again
    <2>2. r \in Process
      BY <1>st, <1>nat, <2>1 DEF Process
    <2>3. r.pc = "idle" /\ r.inc = st[p].inc
      BY <1>st DEF Process
    <2> HIDE DEF r
    <2>5. SessionInv'
      <3>1. r.pc \in NoSession <=> st[p].pc \in NoSession
        BY <1>7, <2>1, <2>2, <2>3, <2>4 DEF Follow, NoSession
      <3>2. r.pc = "won" <=> st[p].pc = "won"
        BY <1>7, <2>1, <2>2, <2>3, <2>4 DEF Follow, NoSession
      <3>3. lock' = lock /\ incarnation' = incarnation
        BY <1>7, <2>1, <2>2, <2>3, <2>4 DEF Follow
      <3> QED BY <2>1, <2>2, <2>3, <2>4, <3>1, <3>2, <3>3, FenceKept
    <2>6. st' \in [Proc -> Process]
      BY <1>st, <2>2, <2>4
    <2> QED
      BY <1>7, <2>5, <2>6 DEF Follow, TypeOK
  <1>8. ASSUME NEW p \in Proc, WriteIncarnation(p) PROVE TypeOK' /\ SessionInv'
    <2> DEFINE r == [st[p] EXCEPT !.pc = "elected", !.inc = incarnation + 1]
    <2>1. incarnation + 1 \in Nat /\ incarnation + 1 # 0 /\ "elected" \in PCs
      BY <1>nat DEF PCs
    <2>2. r \in Process
      BY <1>st, <2>1 DEF Process
    <2>3. r.pc = "elected" /\ r.inc = incarnation + 1
      BY <1>st DEF Process
    <2>4. st' = [st EXCEPT ![p] = r] /\ incarnation' = incarnation + 1 /\ lock' = lock
      BY <1>st, <1>8 DEF WriteIncarnation
    <2>5. lock = p /\ \A q \in Proc \ {p} : st[q].pc \in NoSession
      BY <1>8 DEF WriteIncarnation, SessionInv, NoSession
    <2> HIDE DEF r
    <2>6. SessionInv'
      BY <1>st, <2>1, <2>3, <2>4, <2>5 DEF SessionInv, NoSession
    <2>7. st' \in [Proc -> Process] /\ incarnation' \in Nat
      BY <1>st, <2>1, <2>2, <2>4
    <2> QED
      BY <1>8, <2>6, <2>7 DEF WriteIncarnation, TypeOK
  <1>9. ASSUME NEW p \in Proc, Rebind(p) PROVE TypeOK' /\ SessionInv'
    <2> DEFINE r == [st[p] EXCEPT !.pc = "rebound"]
    <2>1. "rebound" \in PCs
      BY DEF PCs
    <2>2. r \in Process
      BY <1>st, <2>1 DEF Process
    <2>3. r.inc = st[p].inc /\ r.pc = "rebound"
      BY <1>st DEF Process
    <2>4. st' = [st EXCEPT ![p] = r]
      BY <1>st, <1>9 DEF Rebind
    <2> HIDE DEF r
    <2>5. SessionInv' /\ st' \in [Proc -> Process]
      BY <1>9, <2>2, <2>3, <2>4, SessionKept DEF Rebind, NoSession
    <2>6. st[p].inc \in Nat
      BY <1>st DEF Process
    <2>7. index' \in [pin : Pins, marker : Nat, root : Nat]
      BY <1>ix, <1>9, <2>6 DEF Rebind
    <2> QED
      BY <1>9, <2>5, <2>7 DEF Rebind, TypeOK
  <1>10. ASSUME NEW p \in Proc, ResolveRoots(p) PROVE TypeOK' /\ SessionInv'
    <2> DEFINE r == [st[p] EXCEPT !.pc = "h"]
    <2>1. "h" \in PCs
      BY DEF PCs
    <2>2. r \in Process
      BY <1>st, <2>1 DEF Process
    <2>3. r.inc = st[p].inc /\ r.pc = "h"
      BY <1>st DEF Process
    <2>4. st' = [st EXCEPT ![p] = r]
      BY <1>st, <1>10 DEF ResolveRoots
    <2> HIDE DEF r
    <2>5. SessionInv' /\ st' \in [Proc -> Process]
      BY <1>10, <2>2, <2>3, <2>4, SessionKept DEF ResolveRoots, NoSession
    <2>6. st[p].inc \in Nat
      BY <1>st DEF Process
    <2>7. rows' \in Seq(Rows)
      BY <1>10, <2>6, FailChangedRootType DEF ResolveRoots
    <2> QED
      BY <1>10, <2>5, <2>7 DEF ResolveRoots, TypeOK
  <1>11. ASSUME NEW p \in Proc, CommitH(p) PROVE TypeOK' /\ SessionInv'
    <2> DEFINE r == [st[p] EXCEPT !.pc = "attestH"]
    <2>1. "attestH" \in PCs
      BY DEF PCs
    <2>2. r \in Process
      BY <1>st, <2>1 DEF Process
    <2>3. r.inc = st[p].inc /\ r.pc = "attestH"
      BY <1>st DEF Process
    <2>4. st' = [st EXCEPT ![p] = r]
      BY <1>st, <1>11 DEF CommitH
    <2> HIDE DEF r
    <2>5. SessionInv' /\ st' \in [Proc -> Process]
      BY <1>11, <2>2, <2>3, <2>4, SessionKept DEF CommitH, NoSession
    <2>6. st[p].inc \in Nat
      BY <1>st DEF Process
    <2>7. index' \in [pin : Pins, marker : Nat, root : Nat]
      BY <1>ix, <1>11, <2>6, NextPinType DEF CommitH, Publish
    <2>8. hist' \in [pubs : SUBSET [row : Nat, inc : Nat, pin : Pins], hs : SUBSET Nat]
      BY <1>11, <2>6 DEF CommitH, TypeOK
    <2> QED
      BY <1>11, <2>5, <2>7, <2>8 DEF CommitH, TypeOK
  <1>12. ASSUME NEW p \in Proc, AttestH(p) PROVE TypeOK' /\ SessionInv'
    <2> DEFINE again == st[p].retry /\ st[p].via \in {"pending", "kept"}
               r == [st[p] EXCEPT !.pc = "lead", !.att = st[p].inc, !.follows = 0, !.retry = again]
    <2>1. "lead" \in PCs /\ again \in BOOLEAN
      BY DEF PCs
    <2>4. st' = [st EXCEPT ![p] = r]
      BY <1>st, <1>12 DEF AttestH
    <2> HIDE DEF again
    <2>2. r \in Process
      BY <1>st, <2>1 DEF Process
    <2>3. r.inc = st[p].inc /\ r.pc = "lead"
      BY <1>st DEF Process
    <2> HIDE DEF r
    <2>5. SessionInv' /\ st' \in [Proc -> Process]
      BY <1>12, <2>2, <2>3, <2>4, SessionKept DEF AttestH, NoSession
    <2> QED
      BY <1>12, <2>5 DEF AttestH, TypeOK
  <1>13. ASSUME NEW p \in Proc, ElectionFault(p) PROVE TypeOK' /\ SessionInv'
    <2>1. st[p].pc \notin NoSession
      BY <1>13 DEF ElectionFault, NoSession
    <2>2. SessionInv' /\ st' \in [Proc -> Process] /\ lock' \in Proc \cup {None}
      <3>1. CASE DropElected(p)
        BY <1>13, <2>1, <3>1, DropElectedInv DEF ElectionFault
      <3>2. CASE st' = [st EXCEPT ![p].pc = "idle", ![p].inc = 0] /\ lock' = None
        <4> DEFINE r == [st[p] EXCEPT !.pc = "idle", !.inc = 0]
        <4>1. "idle" \in PCs
          BY DEF PCs
        <4>2. r \in Process
          BY <1>st, <4>1 DEF Process
        <4>3. r.pc = "idle" /\ r.inc = 0
          BY <1>st DEF Process
        <4>4. st' = [st EXCEPT ![p] = r] /\ lock' = None
          BY <1>st, <3>2
        <4> HIDE DEF r
        <4>5. r.pc \in NoSession
          BY <4>3 DEF NoSession
        <4>6. st' \in [Proc -> Process]
          BY <1>st, <4>2, <4>4
        <4>7. SessionInv'
          BY <1>13, <2>1, <4>2, <4>3, <4>4, <4>5, FenceDropped DEF ElectionFault
        <4> QED BY <4>4, <4>6, <4>7
      <3> QED BY <1>13, <3>1, <3>2 DEF ElectionFault
    <2>3. used' \in [crashes : Nat, faults : Nat, edits : Nat, moves : Nat]
      BY <1>13, FaultType DEF ElectionFault
    <2> QED
      BY <1>13, <2>2, <2>3 DEF ElectionFault, TypeOK
  <1>14. ASSUME NEW p \in Proc, AmbiguousH(p) PROVE TypeOK' /\ SessionInv'
    <2>1. st[p].pc \notin NoSession
      BY <1>14 DEF AmbiguousH, NoSession
    <2>2. SessionInv' /\ st' \in [Proc -> Process] /\ lock' \in Proc \cup {None}
      BY <1>14, <2>1, DropElectedInv DEF AmbiguousH
    <2>6. st[p].inc \in Nat
      BY <1>st DEF Process
    <2>7. index' \in [pin : Pins, marker : Nat, root : Nat]
      BY <1>ix, <1>14, <2>6, NextPinType DEF AmbiguousH, Publish
    <2>8. hist' \in [pubs : SUBSET [row : Nat, inc : Nat, pin : Pins], hs : SUBSET Nat]
      BY <1>14, <2>6 DEF AmbiguousH, TypeOK
    <2>9. used' \in [crashes : Nat, faults : Nat, edits : Nat, moves : Nat]
      BY <1>14, FaultType DEF AmbiguousH
    <2> QED
      BY <1>14, <2>2, <2>7, <2>8, <2>9 DEF AmbiguousH, TypeOK
  <1>15. ASSUME NEW p \in Proc, DrainStart(p) PROVE TypeOK' /\ SessionInv'
    <2> DEFINE pc == IF OwnSlot(p) THEN "finish" ELSE "drain"
               slot == IF OwnSlot(p) THEN st[p].slot ELSE NoSlot
               r == [st[p] EXCEPT !.pc = pc, !.slot = slot, !.acked = FALSE]
    <2>1. pc \in PCs /\ pc \in {"finish", "drain"} /\ slot \in Slots
      BY <1>st, NoSlotType DEF PCs, Process
    <2>2. st' = [st EXCEPT ![p] = r]
      BY <1>st, <1>15 DEF DrainStart
    <2> HIDE DEF pc, slot
    <2>3. r \in Process
      BY <1>st, <2>1 DEF Process
    <2>4. r.inc = st[p].inc /\ r.pc = pc
      BY <1>st DEF Process
    <2> HIDE DEF r
    <2>5. SessionInv' /\ st' \in [Proc -> Process]
      BY <1>15, <2>1, <2>2, <2>3, <2>4, SessionKept DEF DrainStart, NoSession
    <2>6. st[p].inc \in Nat
      BY <1>st DEF Process
    <2>7. rows' \in Seq(Rows)
      BY <1>15, <2>6, FailChangedRootType DEF DrainStart
    <2> QED
      BY <1>15, <2>5, <2>7 DEF DrainStart, TypeOK
  <1>16. ASSUME NEW p \in Proc, NEW i \in DOMAIN rows, Claim(p, i) PROVE TypeOK' /\ SessionInv'
    <2> DEFINE r == [st[p] EXCEPT !.pc = "claimed", !.job = i]
    <2>i. i \in Nat
      BY LenProperties DEF TypeOK
    <2>1. "claimed" \in PCs
      BY DEF PCs
    <2>2. r \in Process
      BY <1>st, <2>1, <2>i DEF Process
    <2>3. r.inc = st[p].inc /\ r.pc = "claimed"
      BY <1>st DEF Process
    <2>4. st' = [st EXCEPT ![p] = r]
      BY <1>st, <1>16 DEF Claim
    <2> HIDE DEF r
    <2>5. SessionInv' /\ st' \in [Proc -> Process]
      BY <1>16, <2>2, <2>3, <2>4, SessionKept DEF Claim, NoSession
    <2>6. st[p].inc \in Nat /\ rows[i] \in Rows
      BY <1>st, ElementOfSeq, LenProperties DEF Process, TypeOK
    <2> DEFINE row == [rows[i] EXCEPT !.state = "running", !.claim = st[p].inc]
    <2>7. row \in Rows
      BY <2>6 DEF Rows, RowStates
    <2>8. rows' = [rows EXCEPT ![i] = row]
      BY <1>16 DEF Claim
    <2> HIDE DEF row
    <2>9. rows' \in Seq(Rows)
      BY <2>7, <2>8, RowUpdate DEF TypeOK
    <2> QED
      BY <1>16, <2>5, <2>9 DEF Claim, TypeOK
  <1>17. ASSUME NEW p \in Proc, ClaimNone(p) PROVE TypeOK' /\ SessionInv'
    <2> DEFINE a == st[p].acked \/ st[p].cutoff # 0
               r == EndDrain(p, a, Unfinished)
    <2>1. a \in BOOLEAN
      OBVIOUS
    <2>2. st' = [st EXCEPT ![p] = r]
      BY <1>17 DEF ClaimNone
    <2> HIDE DEF a
    <2>3. r \in Process /\ r.inc = st[p].inc /\ r.pc \in {"watch", "lead"}
      BY <2>1, EndDrainFacts
    <2> HIDE DEF r
    <2>4. SessionInv' /\ st' \in [Proc -> Process]
      BY <1>17, <2>2, <2>3, SessionKept DEF ClaimNone, NoSession
    <2> QED
      BY <1>17, <2>4 DEF ClaimNone, TypeOK
  <1>18. ASSUME NEW p \in Proc, ClaimForeign(p) PROVE TypeOK' /\ SessionInv'
    <2>1. st[p].pc \notin NoSession
      BY <1>18 DEF ClaimForeign, NoSession
    <2>2. SessionInv' /\ st' \in [Proc -> Process] /\ lock' \in Proc \cup {None}
      BY <1>18, <2>1, DropRetainedInv DEF ClaimForeign
    <2> QED
      BY <1>18, <2>2 DEF ClaimForeign, TypeOK
  <1>19. ASSUME NEW p \in Proc, Prepare(p) PROVE TypeOK' /\ SessionInv'
    <2>1. {"finish", "prepared"} \subseteq PCs /\ st[p].job \in Nat /\ st[p].inc \in Nat
      BY <1>st DEF PCs, Process
    <2>2. ASSUME Stale(rows[st[p].job]) PROVE SessionInv' /\ st' \in [Proc -> Process]
      <3> DEFINE slot == [row |-> st[p].job, inc |-> st[p].inc, out |-> Conflict]
                 r == [st[p] EXCEPT !.pc = "finish", !.slot = slot]
      <3>1. slot \in Slots
        BY <2>1, OutcomeTypes DEF Slots, Conflict, Errors
      <3>2. st' = [st EXCEPT ![p] = r]
        BY <1>st, <1>19, <2>2 DEF Prepare
      <3> HIDE DEF slot
      <3>3. r \in Process
        BY <1>st, <2>1, <3>1 DEF Process
      <3>4. r.inc = st[p].inc /\ r.pc = "finish"
        BY <1>st DEF Process
      <3> HIDE DEF r
      <3> QED
        BY <1>19, <3>2, <3>3, <3>4, SessionKept DEF Prepare, NoSession
    <2>3. ASSUME ~Stale(rows[st[p].job]) PROVE SessionInv' /\ st' \in [Proc -> Process]
      <3> DEFINE r == [st[p] EXCEPT !.pc = "prepared", !.before = index.pin]
      <3>1. st' = [st EXCEPT ![p] = r]
        BY <1>st, <1>19, <2>3 DEF Prepare
      <3>2. r \in Process
        BY <1>st, <1>ix, <2>1 DEF Process
      <3>3. r.inc = st[p].inc /\ r.pc = "prepared"
        BY <1>st DEF Process
      <3> HIDE DEF r
      <3> QED
        BY <1>19, <3>1, <3>2, <3>3, SessionKept DEF Prepare, NoSession
    <2> QED
      BY <1>19, <2>2, <2>3 DEF Prepare, TypeOK
  <1>20. ASSUME NEW p \in Proc, PublishCommit(p) PROVE TypeOK' /\ SessionInv'
    <2> DEFINE r == [st[p] EXCEPT !.pc = "attest"]
    <2>1. "attest" \in PCs
      BY DEF PCs
    <2>2. r \in Process
      BY <1>st, <2>1 DEF Process
    <2>3. r.inc = st[p].inc /\ r.pc = "attest"
      BY <1>st DEF Process
    <2>4. st' = [st EXCEPT ![p] = r]
      BY <1>st, <1>20 DEF PublishCommit
    <2> HIDE DEF r
    <2>5. SessionInv' /\ st' \in [Proc -> Process]
      BY <1>20, <2>2, <2>3, <2>4, SessionKept DEF PublishCommit, NoSession
    <2>6. st[p].inc \in Nat
      BY <1>st DEF Process
    <2>7. index' \in [pin : Pins, marker : Nat, root : Nat]
      BY <1>ix, <1>20, <2>6, NextPinType DEF PublishCommit, Publish
    <2> DEFINE u == [row |-> st[p].job, inc |-> st[p].inc, pin |-> Next1(index.pin)]
    <2>8. u \in [row : Nat, inc : Nat, pin : Pins]
      BY <1>st, <1>ix, NextPinType DEF Process
    <2>9. hist' = [hist EXCEPT !.pubs = @ \cup {u}]
      BY <1>20 DEF PublishCommit
    <2> HIDE DEF u
    <2>10. hist' \in [pubs : SUBSET [row : Nat, inc : Nat, pin : Pins], hs : SUBSET Nat]
      BY <2>8, <2>9 DEF TypeOK
    <2> QED
      BY <1>20, <2>5, <2>7, <2>10 DEF PublishCommit, TypeOK
  <1>21. ASSUME NEW p \in Proc, AttestJob(p) PROVE TypeOK' /\ SessionInv'
    <2> DEFINE slot == [row |-> st[p].job, inc |-> st[p].inc, out |-> Done(index.pin)]
               r == [st[p] EXCEPT !.pc = "finish", !.att = st[p].inc, !.slot = slot]
    <2>1. "finish" \in PCs /\ st[p].job \in Nat /\ st[p].inc \in Nat
      BY <1>st DEF PCs, Process
    <2>2. slot \in Slots
      BY <1>ix, <2>1, OutcomeTypes DEF Slots
    <2>3. st' = [st EXCEPT ![p] = r]
      BY <1>st, <1>21 DEF AttestJob
    <2> HIDE DEF slot
    <2>4. r \in Process
      BY <1>st, <2>1, <2>2 DEF Process
    <2>5. r.inc = st[p].inc /\ r.pc = "finish"
      BY <1>st DEF Process
    <2> HIDE DEF r
    <2>6. SessionInv' /\ st' \in [Proc -> Process]
      BY <1>21, <2>3, <2>4, <2>5, SessionKept DEF AttestJob, NoSession
    <2> QED
      BY <1>21, <2>6 DEF AttestJob, TypeOK
  <1>22. ASSUME NEW p \in Proc, PublishFailed(p) PROVE TypeOK' /\ SessionInv'
    <2> DEFINE slot == [row |-> st[p].job, inc |-> st[p].inc, out |-> Failed("index_failed")]
               r == [st[p] EXCEPT !.pc = "finish", !.slot = slot]
    <2>1. "finish" \in PCs /\ st[p].job \in Nat /\ st[p].inc \in Nat
      BY <1>st DEF PCs, Process
    <2>2. slot \in Slots
      BY <1>ix, <2>1, OutcomeTypes DEF Slots, Errors
    <2>3. st' = [st EXCEPT ![p] = r]
      BY <1>st, <1>22 DEF PublishFailed
    <2> HIDE DEF slot
    <2>4. r \in Process
      BY <1>st, <2>1, <2>2 DEF Process
    <2>5. r.inc = st[p].inc /\ r.pc = "finish"
      BY <1>st DEF Process
    <2> HIDE DEF r
    <2>6. SessionInv' /\ st' \in [Proc -> Process]
      BY <1>22, <2>3, <2>4, <2>5, SessionKept DEF PublishFailed, NoSession
    <2>9. used' \in [crashes : Nat, faults : Nat, edits : Nat, moves : Nat]
      BY <1>22, FaultType DEF PublishFailed
    <2> QED
      BY <1>22, <2>6, <2>9 DEF PublishFailed, TypeOK
  <1>23. ASSUME NEW p \in Proc, PublishBusy(p) PROVE TypeOK' /\ SessionInv'
    <2> DEFINE before == IF st[p].pc = "claimed" THEN index.pin ELSE st[p].before
               r == [st[p] EXCEPT !.pc = "requeue", !.before = before]
    <2>1. "requeue" \in PCs /\ before \in Pins
      BY <1>st, <1>ix DEF PCs, Process
    <2>2. st' = [st EXCEPT ![p] = r]
      BY <1>st, <1>23 DEF PublishBusy
    <2> HIDE DEF before
    <2>3. r \in Process
      BY <1>st, <2>1 DEF Process
    <2>4. r.inc = st[p].inc /\ r.pc = "requeue"
      BY <1>st DEF Process
    <2> HIDE DEF r
    <2>5. SessionInv' /\ st' \in [Proc -> Process]
      BY <1>23, <2>2, <2>3, <2>4, SessionKept DEF PublishBusy, NoSession
    <2>6. used' \in [crashes : Nat, faults : Nat, edits : Nat, moves : Nat]
      BY <1>23, FaultType DEF PublishBusy
    <2> QED
      BY <1>23, <2>5, <2>6 DEF PublishBusy, TypeOK
  <1>24. ASSUME NEW p \in Proc, Requeue(p) PROVE TypeOK' /\ SessionInv'
    <2> DEFINE i == st[p].job
               resolved == FailChangedRoot(p, st[p].inc)
    <2>1. st[p].inc \in Nat /\ st[p].pc = "requeue" /\ st[p].pc \notin NoSession
      BY <1>st, <1>24 DEF Requeue, Process, NoSession
    <2>2. resolved \in Seq(Rows)
      BY <2>1, FailChangedRootType
    <2>3. ASSUME SameHead(p)
          PROVE  SessionInv' /\ st' \in [Proc -> Process] /\ lock' \in Proc \cup {None}
                 /\ rows' \in Seq(Rows)
      <3> DEFINE a == st[p].acked \/ st[p].cutoff # 0
                 r == EndDrain(p, a, {i})
                 row == [resolved[i] EXCEPT !.state = "queued", !.claim = 0]
      <3>1. a \in BOOLEAN
        OBVIOUS
      <3>2. /\ st' = [st EXCEPT ![p] = r] /\ lock' = lock
            /\ rows' = [resolved EXCEPT ![i] = row]
        BY <1>24, <2>3 DEF Requeue
      <3> HIDE DEF a, resolved
      <3>3. r \in Process /\ r.inc = st[p].inc /\ r.pc \in {"watch", "lead"}
        BY <3>1, EndDrainFacts
      <3>4. i \in DOMAIN resolved => row \in Rows
        <4>1. i \in DOMAIN resolved => resolved[i] \in Rows
          BY <2>2, ElementOfSeq, LenProperties
        <4> HIDE DEF i
        <4> QED BY <4>1 DEF Rows, RowStates
      <3> HIDE DEF r, row, i
      <3>5. rows' \in Seq(Rows)
        BY <2>2, <3>2, <3>4, RowUpdate
      <3>6. SessionInv' /\ st' \in [Proc -> Process]
        BY <1>24, <2>1, <3>2, <3>3, SessionKept DEF Requeue, NoSession
      <3> QED BY <3>2, <3>5, <3>6 DEF TypeOK
    <2>4. ASSUME ~SameHead(p)
          PROVE  SessionInv' /\ st' \in [Proc -> Process] /\ lock' \in Proc \cup {None}
                 /\ rows' \in Seq(Rows)
      <3>1. DropRetained(p) /\ rows' = resolved
        BY <1>24, <2>4 DEF Requeue
      <3> QED BY <1>24, <2>1, <2>2, <3>1, DropRetainedInv DEF Requeue
    <2> QED
      BY <1>24, <2>3, <2>4 DEF Requeue, TypeOK
  <1>25. ASSUME NEW p \in Proc, Finish(p) PROVE TypeOK' /\ SessionInv'
    <2>1. Acked(p) \in Process /\ Acked(p).inc = st[p].inc
                 /\ Acked(p).pc \in {"watch", "lead", "drain"}
      BY AckedFacts
    <2>2. SessionInv' /\ st' \in [Proc -> Process]
      BY <1>25, <2>1, SessionKept DEF Finish, NoSession
    <2>3. rows' \in Seq(Rows)
      BY <1>25, FinishRowType DEF Finish, TypeOK
    <2> QED
      BY <1>25, <2>2, <2>3 DEF Finish, TypeOK
  <1>26. ASSUME NEW p \in Proc, FinishBusy(p) PROVE TypeOK' /\ SessionInv'
    <2>1. KeepForRetry(p) \in Process /\ KeepForRetry(p).inc = st[p].inc
                 /\ KeepForRetry(p).pc = "lead"
      BY KeepFacts
    <2>2. SessionInv' /\ st' \in [Proc -> Process] /\ lock' \in Proc \cup {None}
      <3>1. CASE st[p].cutoff = 0
        BY <1>26, <2>1, <3>1, SessionKept DEF FinishBusy, NoSession
      <3>2. CASE st[p].cutoff # 0
        <4>1. st[p].pc \notin NoSession
          BY <1>26 DEF FinishBusy, NoSession
        <4> QED
          BY <1>26, <3>2, <4>1, DropRetainedInv DEF FinishBusy
      <3> QED BY <3>1, <3>2
    <2>3. rows' \in Seq(Rows)
      BY <1>26, FinishRowType DEF FinishBusy, TypeOK
    <2>4. used' \in [crashes : Nat, faults : Nat, edits : Nat, moves : Nat]
      BY <1>26, FaultType DEF FinishBusy
    <2> QED
      BY <1>26, <2>2, <2>3, <2>4 DEF FinishBusy, TypeOK
  <1>27. ASSUME NEW p \in Proc, DrainFault(p) PROVE TypeOK' /\ SessionInv'
    <2>1. st[p].pc \notin NoSession
      BY <1>27 DEF DrainFault, NoSession
    <2>2. SessionInv' /\ st' \in [Proc -> Process] /\ lock' \in Proc \cup {None}
      BY <1>27, <2>1, DropRetainedInv DEF DrainFault
    <2>9. used' \in [crashes : Nat, faults : Nat, edits : Nat, moves : Nat]
      BY <1>27, FaultType DEF DrainFault
    <2> QED
      BY <1>27, <2>2, <2>9 DEF DrainFault, TypeOK
  <1>28. ASSUME NEW p \in Proc, WatchPublish(p) PROVE TypeOK' /\ SessionInv'
    <2>1. SessionInv' /\ st' \in [Proc -> Process] /\ lock' \in Proc \cup {None}
      BY <1>28, AfterWatchInv DEF WatchPublish
    <2>6. st[p].inc \in Nat
      BY <1>st DEF Process
    <2>7. index' \in [pin : Pins, marker : Nat, root : Nat]
      BY <1>ix, <1>28, <2>6, NextPinType DEF WatchPublish, Publish
    <2>9. used' \in [crashes : Nat, faults : Nat, edits : Nat, moves : Nat]
      BY <1>28 DEF WatchPublish, TypeOK
    <2> QED
      BY <1>28, <2>1, <2>7, <2>9 DEF WatchPublish, TypeOK
  <1>29. ASSUME NEW p \in Proc, WatchIdle(p) PROVE TypeOK' /\ SessionInv'
    <2>1. SessionInv' /\ st' \in [Proc -> Process] /\ lock' \in Proc \cup {None}
      BY <1>29, AfterWatchInv DEF WatchIdle
    <2> QED
      BY <1>29, <2>1 DEF WatchIdle, TypeOK
  <1>30. ASSUME NEW p \in Proc, CliRelease(p) PROVE TypeOK' /\ SessionInv'
    <2>1. st[p].pc \notin NoSession /\ Len(rows) \in Nat /\ "watch" \in PCs
      BY <1>30, LenProperties DEF CliRelease, NoSession, TypeOK, PCs
    <2>2. ASSUME DropRetained(p)
          PROVE  SessionInv' /\ st' \in [Proc -> Process] /\ lock' \in Proc \cup {None}
      BY <1>30, <2>1, <2>2, DropRetainedInv DEF CliRelease
    <2>3. ASSUME st' = [st EXCEPT ![p].pc = "watch", ![p].acked = FALSE, ![p].cutoff = Len(rows)],
                 UNCHANGED lock
          PROVE  SessionInv' /\ st' \in [Proc -> Process] /\ lock' \in Proc \cup {None}
      <3> DEFINE r == [st[p] EXCEPT !.pc = "watch", !.acked = FALSE, !.cutoff = Len(rows)]
      <3>1. r \in Process
        BY <1>st, <2>1 DEF Process
      <3>2. r.inc = st[p].inc /\ r.pc = "watch"
        BY <1>st DEF Process
      <3>3. st' = [st EXCEPT ![p] = r]
        BY <1>st, <2>3
      <3> HIDE DEF r
      <3> QED
        BY <1>30, <2>3, <3>1, <3>2, <3>3, SessionKept DEF CliRelease, NoSession
    <2> QED
      BY <1>30, <2>2, <2>3 DEF CliRelease, TypeOK
  <1>31. ASSUME NEW p \in Proc, CliExit(p) PROVE TypeOK' /\ SessionInv'
    <2>1. Off \in Process /\ Off.inc = 0 /\ Off.pc = "off"
      BY OffType DEF Off
    <2>2. st[p].inc = 0
      BY <1>31 DEF CliExit, SessionInv, NoSession
    <2>3. SessionInv'
      <3>1. Off.pc \in NoSession <=> st[p].pc \in NoSession
        BY <1>31, <2>1, <2>2 DEF CliExit, NoSession
      <3>2. Off.pc = "won" <=> st[p].pc = "won"
        BY <1>31, <2>1, <2>2 DEF CliExit, NoSession
      <3>3. lock' = lock /\ incarnation' = incarnation /\ st' = [st EXCEPT ![p] = Off]
        BY <1>31, <2>1, <2>2 DEF CliExit
      <3> QED BY <2>1, <2>2, <3>1, <3>2, <3>3, FenceKept
    <2>4. st' \in [Proc -> Process]
      BY <1>st, <1>31, <2>1 DEF CliExit
    <2> QED
      BY <1>31, <2>3, <2>4 DEF CliExit, TypeOK
  <1>32. ASSUME NEW p \in Proc, RootLoss(p) PROVE TypeOK' /\ SessionInv'
    <2>1. st[p].pc \notin NoSession
      BY <1>32 DEF RootLoss, Leased, Electing, Draining, NoSession
    <2>2. SessionInv' /\ st' \in [Proc -> Process] /\ lock' \in Proc \cup {None}
      BY <1>32, <2>1, DropElectedInv, DropRetainedInv DEF RootLoss
    <2>3. st[p].inc \in Nat
      BY <1>st DEF Process
    <2>4. rows' \in Seq(Rows)
      BY <1>32, <2>3, FailChangedRootType DEF RootLoss
    <2> QED
      BY <1>32, <2>2, <2>4 DEF RootLoss, TypeOK
  <1>33. ASSUME NEW p \in Proc, RootError(p) PROVE TypeOK' /\ SessionInv'
    <2>1. st[p].pc \notin NoSession
      BY <1>33 DEF RootError, Leased, Electing, Draining, NoSession
    <2>2. SessionInv' /\ st' \in [Proc -> Process] /\ lock' \in Proc \cup {None}
      BY <1>33, <2>1, DropElectedInv, DropRetainedInv DEF RootError
    <2> QED
      BY <1>33, <2>2 DEF RootError, TypeOK
  <1>34. ASSUME NEW p \in Proc, FollowerRootLoss(p) PROVE TypeOK' /\ SessionInv'
    <2> DEFINE r == [st[p] EXCEPT !.follows = 0]
    <2>1. "idle" \in PCs
      BY DEF PCs
    <2>2. r \in Process
      BY <1>st, <1>nat, <2>1, OffType DEF Process
    <2>3. r.inc = st[p].inc /\ r.pc = st[p].pc
      BY <1>st, OffType DEF Process, Off
    <2>4. st' = [st EXCEPT ![p] = r]
      BY <1>st, <1>34 DEF FollowerRootLoss
    <2>5. st[p].inc = 0 /\ st[p].pc \in NoSession
      BY <1>34 DEF FollowerRootLoss, SessionInv, NoSession
    <2> HIDE DEF r
    <2>6. SessionInv'
      <3>1. r.pc \in NoSession <=> st[p].pc \in NoSession
        BY <1>34, <2>2, <2>3, <2>4, <2>5 DEF FollowerRootLoss, NoSession
      <3>2. r.pc = "won" <=> st[p].pc = "won"
        BY <1>34, <2>2, <2>3, <2>4, <2>5 DEF FollowerRootLoss, NoSession
      <3>3. lock' = lock /\ incarnation' = incarnation
        BY <1>34, <2>2, <2>3, <2>4, <2>5 DEF FollowerRootLoss
      <3> QED BY <2>2, <2>3, <2>4, <2>5, <3>1, <3>2, <3>3, FenceKept
    <2>7. st' \in [Proc -> Process]
      BY <1>st, <2>2, <2>4
    <2> QED
      BY <1>34, <2>6, <2>7 DEF FollowerRootLoss, TypeOK
  <1>35. ASSUME NEW p \in Proc, Reopen(p) PROVE TypeOK' /\ SessionInv'
    <2> DEFINE r == [Off EXCEPT !.pc = "start", !.root = rootNow]
    <2>1. "start" \in PCs
      BY DEF PCs
    <2>2. r \in Process
      BY <1>st, <1>nat, <2>1, OffType DEF Process
    <2>3. r.inc = 0 /\ r.pc = "start"
      BY <1>st, OffType DEF Process, Off
    <2>4. st' = [st EXCEPT ![p] = r]
      BY <1>st, <1>35 DEF Reopen
    <2>5. st[p].inc = 0 /\ st[p].pc \in NoSession
      BY <1>35 DEF Reopen, SessionInv, NoSession
    <2> HIDE DEF r
    <2>6. SessionInv'
      <3>1. r.pc \in NoSession <=> st[p].pc \in NoSession
        BY <1>35, <2>2, <2>3, <2>4, <2>5 DEF Reopen, NoSession
      <3>2. r.pc = "won" <=> st[p].pc = "won"
        BY <1>35, <2>2, <2>3, <2>4, <2>5 DEF Reopen, NoSession
      <3>3. lock' = lock /\ incarnation' = incarnation
        BY <1>35, <2>2, <2>3, <2>4, <2>5 DEF Reopen
      <3> QED BY <2>2, <2>3, <2>4, <2>5, <3>1, <3>2, <3>3, FenceKept
    <2>7. st' \in [Proc -> Process]
      BY <1>st, <2>2, <2>4
    <2> QED
      BY <1>35, <2>6, <2>7 DEF Reopen, TypeOK
  <1>36. ASSUME NEW p \in Proc, PhaseRefresh(p) PROVE TypeOK' /\ SessionInv'
    <2>1. st[p].pc \in NoSession /\ st[p].inc = 0 /\ st' = [st EXCEPT ![p] = st[p]]
      BY <1>st, <1>36 DEF PhaseRefresh, SessionInv, NoSession
    <2>2. SessionInv'
      BY <1>st, <1>36, <2>1, FenceReleased DEF PhaseRefresh
    <2> QED
      BY <1>36, <2>2 DEF PhaseRefresh, TypeOK
  <1>37. ASSUME NEW p \in Proc, RecreateFail(p) PROVE TypeOK' /\ SessionInv'
    <2> DEFINE v == IF st[p].pc = "start" THEN "start" ELSE "kept"
               r == [st[p] EXCEPT !.pc = "recreate", !.follows = 0, !.via = v]
    <2>1. "recreate" \in PCs /\ v \in {"start", "empty", "pending", "kept"}
      BY DEF PCs
    <2>2. st' = [st EXCEPT ![p] = r]
      BY <1>st, <1>37 DEF RecreateFail
    <2> HIDE DEF v
    <2>3. r \in Process
      BY <1>st, <2>1 DEF Process
    <2>4. r.inc = st[p].inc /\ r.pc = "recreate"
      BY <1>st DEF Process
    <2>5. lock = None /\ lock' = None
      BY <1>37 DEF RecreateFail, FlockFree
    <2>6. \A q \in Proc : st[q].pc \in NoSession /\ st[q].inc = 0
      BY <2>5, FenceFree
    <2> HIDE DEF r
    <2>7. \A q \in Proc : st'[q].pc \in NoSession /\ st'[q].inc = 0
      BY <1>st, <2>2, <2>4, <2>6 DEF NoSession
    <2>8. SessionInv'
      BY <2>7 DEF SessionInv, NoSession
    <2>9. incarnation' \in Nat /\ incarnation + 1 \in Nat
      BY <1>nat, <1>37 DEF RecreateFail
    <2>11. st' \in [Proc -> Process]
      BY <1>st, <2>2, <2>3
    <2>10. rows' \in Seq(Rows)
      BY <1>37, <2>9, FailChangedRootType DEF RecreateFail
    <2> QED
      BY <1>37, <2>8, <2>9, <2>10, <2>11 DEF RecreateFail, TypeOK
  <1>38. ASSUME NEW p \in Proc, RecreateTake(p) PROVE TypeOK' /\ SessionInv'
    <2> DEFINE r == [st[p] EXCEPT !.pc = "swap", !.inc = incarnation + 1]
    <2>1. "swap" \in PCs /\ incarnation + 1 \in Nat /\ incarnation + 1 # 0
      BY <1>nat DEF PCs
    <2>2. r \in Process
      BY <1>st, <2>1 DEF Process
    <2>3. r.inc = incarnation + 1 /\ r.pc = "swap"
      BY <1>st DEF Process
    <2>4. st' = [st EXCEPT ![p] = r] /\ lock = None /\ lock' = p /\ incarnation' = incarnation + 1
      BY <1>st, <1>38 DEF RecreateTake, FlockFree
    <2> HIDE DEF r
    <2>5. r.pc \notin NoSession \cup {"won"} /\ r.inc = incarnation' /\ r.inc # 0
      BY <2>1, <2>3, <2>4 DEF NoSession
    <2>6. SessionInv'
      BY <2>2, <2>4, <2>5, FenceTaken
    <2>7. st' \in [Proc -> Process] /\ incarnation' \in Nat
      BY <1>st, <2>1, <2>2, <2>4
    <2> QED
      BY <1>38, <2>4, <2>6, <2>7 DEF RecreateTake, TypeOK
  <1>39. ASSUME NEW p \in Proc, RecreateDefer(p) PROVE TypeOK' /\ SessionInv'
    <2> DEFINE r == [st[p] EXCEPT !.pc = Back(p)]
    <2>1. Back(p) \in PCs /\ Back(p) \in {"start", "idle"}
      BY BackFacts DEF PCs
    <2>2. r \in Process
      BY <1>st, <2>1 DEF Process
    <2>3. r.inc = st[p].inc /\ r.pc = Back(p)
      BY <1>st DEF Process
    <2>4. st' = [st EXCEPT ![p] = r]
      BY <1>st, <1>39 DEF RecreateDefer
    <2> HIDE DEF r
    <2>5. SessionInv'
      <3>1. r.pc \in NoSession <=> st[p].pc \in NoSession
        BY <1>39, <2>1, <2>2, <2>3, <2>4 DEF RecreateDefer, NoSession
      <3>2. r.pc = "won" <=> st[p].pc = "won"
        BY <1>39, <2>1, <2>2, <2>3, <2>4 DEF RecreateDefer, NoSession
      <3>3. lock' = lock /\ incarnation' = incarnation
        BY <1>39, <2>1, <2>2, <2>3, <2>4 DEF RecreateDefer
      <3> QED BY <2>1, <2>2, <2>3, <2>4, <3>1, <3>2, <3>3, FenceKept
    <2>6. st' \in [Proc -> Process]
      BY <1>st, <2>2, <2>4
    <2> QED
      BY <1>39, <2>5, <2>6 DEF RecreateDefer, TypeOK
  <1>40. ASSUME NEW p \in Proc, Swap(p) PROVE TypeOK' /\ SessionInv'
    <2> DEFINE r == [st[p] EXCEPT !.pc = "attestH"]
    <2>1. "attestH" \in PCs
      BY DEF PCs
    <2>2. r \in Process
      BY <1>st, <2>1 DEF Process
    <2>3. r.inc = st[p].inc /\ r.pc = "attestH"
      BY <1>st DEF Process
    <2>4. st' = [st EXCEPT ![p] = r]
      BY <1>st, <1>40 DEF Swap
    <2> HIDE DEF r
    <2>5. SessionInv' /\ st' \in [Proc -> Process]
      BY <1>40, <2>2, <2>3, <2>4, SessionKept DEF Swap, NoSession
    <2>6. st[p].inc \in Nat
      BY <1>st DEF Process
    <2>8. hist' \in [pubs : SUBSET [row : Nat, inc : Nat, pin : Pins], hs : SUBSET Nat]
      BY <1>40, <2>6 DEF Swap, TypeOK
    <2>7. FreshHead \in Pins /\ st[p].root \in Nat
      BY <1>st, <1>ix DEF FreshHead, Pins, Process
    <2>9. index' \in [pin : Pins, marker : Nat, root : Nat]
      BY <1>40, <2>6, <2>7 DEF Swap
    <2> QED
      BY <1>40, <2>5, <2>8, <2>9 DEF Swap, TypeOK
  <1>41. ASSUME NEW p \in Proc, EnqueueLost(p) PROVE TypeOK' /\ SessionInv'
    <2>1. NewRow(wtx) \in Rows
      BY NoPinType DEF TypeOK, Txs, NewRow, Rows, RowStates, Errors
    <2>2. rows' \in Seq(Rows)
      BY <1>41, <2>1, AppendProperties DEF EnqueueLost, TypeOK
    <2>3. wtx' \in Txs
      BY <1>41, NoPinType DEF EnqueueLost, NoTx, Txs
    <2>4. used' \in [crashes : Nat, faults : Nat, edits : Nat, moves : Nat]
      <3>1. CASE Live(p)
        BY <1>41, <3>1, FaultType DEF EnqueueLost
      <3>2. CASE ~Live(p)
        BY <1>41, <3>2 DEF EnqueueLost, TypeOK
      <3> QED BY <3>1, <3>2
    <2>5. st' \in [Proc -> Process] /\ SessionInv'
      <3>1. CASE p \in Clis
        <4>1. st' = [st EXCEPT ![p] = Off] /\ st[p].pc = "enq" /\ st[p].inc = 0
          BY <1>41, <3>1 DEF EnqueueLost, SessionInv, NoSession
        <4>2. Off \in Process /\ Off.inc = 0 /\ Off.pc = "off"
          BY OffType DEF Off
        <4>3. SessionInv'
          <5>1. Off.pc \in NoSession <=> st[p].pc \in NoSession
            BY <1>41, <4>1, <4>2 DEF EnqueueLost, NoSession
          <5>2. Off.pc = "won" <=> st[p].pc = "won"
            BY <1>41, <4>1, <4>2 DEF EnqueueLost, NoSession
          <5>3. lock' = lock /\ incarnation' = incarnation
            BY <1>41, <4>1, <4>2 DEF EnqueueLost
          <5> QED BY <4>1, <4>2, <5>1, <5>2, <5>3, FenceKept
        <4> QED BY <1>st, <4>1, <4>2, <4>3
      <3>2. CASE p \notin Clis
        BY <1>st, <1>41, <3>2 DEF EnqueueLost, SessionInv
      <3> QED BY <3>1, <3>2
    <2> QED
      BY <1>41, <2>2, <2>3, <2>4, <2>5 DEF EnqueueLost, TypeOK
  <1>42. ASSUME NEW p \in Proc, FollowRefused(p) PROVE TypeOK' /\ SessionInv'
    <2> DEFINE r == [st[p] EXCEPT !.follows = 0, !.retry = TRUE]
    <2>1. r \in Process
      BY <1>st DEF Process
    <2>2. r.pc = st[p].pc /\ r.inc = st[p].inc
      BY <1>st DEF Process
    <2>3. st' = [st EXCEPT ![p] = r]
      BY <1>st, <1>42 DEF FollowRefused
    <2> HIDE DEF r
    <2>4. SessionInv'
      <3>1. r.pc \in NoSession <=> st[p].pc \in NoSession
        BY <1>42, <2>1, <2>2, <2>3 DEF FollowRefused, NoSession
      <3>2. r.pc = "won" <=> st[p].pc = "won"
        BY <1>42, <2>1, <2>2, <2>3 DEF FollowRefused, NoSession
      <3>3. lock' = lock /\ incarnation' = incarnation
        BY <1>42, <2>1, <2>2, <2>3 DEF FollowRefused
      <3> QED BY <2>1, <2>2, <2>3, <3>1, <3>2, <3>3, FenceKept
    <2>5. st' \in [Proc -> Process]
      BY <1>st, <2>1, <2>3
    <2> QED
      BY <1>42, <2>4, <2>5 DEF FollowRefused, TypeOK
  <1>43. ASSUME UNCHANGED vars PROVE TypeOK' /\ SessionInv'
    BY <1>43 DEF vars, TypeOK, SessionInv
  <1> QED
    BY <1>1, <1>2, <1>3, <1>4, <1>5, <1>6, <1>7, <1>8, <1>9, <1>10, <1>11, <1>12, <1>13, <1>14, <1>15, <1>16, <1>17, <1>18, <1>19, <1>20, <1>21, <1>22, <1>23, <1>24, <1>25, <1>26, <1>27, <1>28, <1>29, <1>30, <1>31, <1>32, <1>33, <1>34, <1>35, <1>36, <1>37, <1>38, <1>39, <1>40, <1>41, <1>42, <1>43
       DEF Next, EnqueueEnd, Step, Faulty, Elect, Drain, RootChange

\* The initial state: nobody runs.
LEMMA InvInit == Init => TypeOK /\ SessionInv
  <1> SUFFICES ASSUME Init PROVE TypeOK /\ SessionInv
    OBVIOUS
  <1>1. rows \in Seq(Rows)
    BY EmptySeq DEF Init
  <1>2. st \in [Proc -> Process]
    BY OffType DEF Init
  <1>3. TypeOK
    BY <1>1, <1>2, NoPinType DEF Init, TypeOK, Txs, NoTx, Pins
  <1>4. \A p \in Proc : st[p].pc = "off" /\ st[p].inc = 0
    BY DEF Init, Off
  <1>5. SessionInv
    BY <1>4 DEF SessionInv, NoSession
  <1> QED BY <1>3, <1>5

\* The fence follows from the strengthened invariant.
LEMMA FenceFollows == SessionInv => LeaderFenced
  BY DEF SessionInv, LeaderFenced, NoSession

\* Types are preserved by every handler, for every number of processes, rows, crashes,
\* faults and root moves.
THEOREM QueueTypeCorrect == Spec => []TypeOK
  <1> QED BY InvInit, InvStep, PTL DEF Spec

\* Two processes never hold leader sessions at once, and a session's incarnation is
\* the one leader.lock holds, whatever crashes, storage errors, lingering flocks and
\* root replacements happen.
THEOREM QueueLeaderFenced == Spec => []LeaderFenced
  <1> QED BY InvInit, InvStep, FenceFollows, PTL DEF Spec

-----------------------------------------------------------------------------
(* The inductive invariant *)

\* Program points of a leader whose H is committed, ...
Reconciled == {"attestH", "lead", "drain", "claimed", "prepared", "attest", "finish",
               "requeue", "watch"}

\* ... of one that serves the index of its own root, and of one that works on a row.
Rooted == Reconciled \cup {"rebound", "h"}
Working == {"claimed", "prepared", "attest", "requeue"}

Pub(i, k, pin) == [row |-> i, inc |-> k, pin |-> pin]

\* What publications leave behind: the head is at or after all of them, no two share
\* a pin, and a row the current incarnation published for is terminal or still its own.
PubsInv ==
    /\ \A u \in hist.pubs :
        /\ u.row \in DOMAIN rows
        /\ u.inc <= incarnation
        /\ AtLeast(index.pin, u.pin)
        /\ u.inc = incarnation =>
              \/ IsTerminal(rows[u.row])
              \/ rows[u.row].state = "running" /\ rows[u.row].claim = u.inc
    /\ \A a, b \in hist.pubs : a.pin = b.pin => a = b

QueueInv ==
    /\ PubsInv /\ FifoOrder /\ ClaimAfterH /\ OnePublication /\ DoneOwnPublication
    /\ AckedPinsGrow /\ ExpectedHonoured

\* What a process knows about the row it works on.
JobInv(p) ==
    LET s == st[p] IN
    /\ s.pc \in Reconciled => s.inc \in hist.hs
    /\ s.pc \in Rooted => index.root = s.root
    /\ s.pc \in Working =>
        /\ s.job \in DOMAIN rows
        /\ rows[s.job].state = "running" /\ rows[s.job].claim = s.inc
        /\ rows[s.job].root = s.root
    /\ s.pc \in {"claimed", "prepared"} \/ (s.pc = "requeue" /\ index.pin = s.before) =>
        \A u \in hist.pubs : ~(u.row = s.job /\ u.inc = s.inc)
    /\ s.pc \in {"prepared", "attest"} => rows[s.job].want \in {NoPin, s.before}
    /\ s.pc = "attest" => /\ index.pin = Next1(s.before)
                          /\ Pub(s.job, s.inc, index.pin) \in hist.pubs

\* A completion cached under the session's own incarnation.
HasOwnSlot(s) == s.inc # 0 /\ s.slot.row # 0 /\ s.slot.inc = s.inc

\* What a process has cached.
SlotInv(p) ==
    LET s == st[p] IN
    /\ s.slot.inc <= incarnation
    /\ s.slot.row # 0 =>
        /\ s.slot.row \in DOMAIN rows
        /\ s.slot.out.err = "none" =>
            /\ Pub(s.slot.row, s.slot.inc, s.slot.out.pin) \in hist.pubs
            /\ rows[s.slot.row].want # NoPin => s.slot.out.pin = Next1(rows[s.slot.row].want)
    /\ HasOwnSlot(s) =>
        /\ s.pc \in {"finish", "lead"}
        /\ rows[s.slot.row].state \in {"queued", "running"} =>
            /\ rows[s.slot.row].state = "running" /\ rows[s.slot.row].claim = s.inc
            /\ s.slot.out.err = "none" => index.pin = s.slot.out.pin

ProcsInv == \A p \in Proc : JobInv(p) /\ SlotInv(p)

\* Roots in use are roots of the model.
RootsInv ==
    /\ rootNow \in 1..MaxRoots
    /\ \A p \in Proc : st[p].pc # "off" => st[p].root \in 1..MaxRoots
    /\ wtx.by \in Proc => wtx.root \in 1..MaxRoots

\* Types and fence of NativeQueue_proofs, the queue's own history, what the processes
\* know of it, and the roots.
OrderInv == TypeOK /\ SessionInv /\ QueueInv /\ ProcsInv /\ RootsInv

-----------------------------------------------------------------------------
(* Pins *)

\* The order of pins: reflexive, transitive, and strict across a publication.
LEMMA PinOrder ==
    ASSUME NEW a \in Pins, NEW b \in Pins, NEW c \in Pins
    PROVE  /\ AtLeast(a, a)
           /\ AtLeast(a, b) /\ AtLeast(b, c) => AtLeast(a, c)
           /\ AtLeast(Next1(a), a)
           /\ AtLeast(a, b) => Next1(a) # b
  BY DEF AtLeast, Pins, Next1

\* Every accepted row is a row.
LEMMA RowTypes == ASSUME TypeOK PROVE \A i \in DOMAIN rows : rows[i] \in Rows /\ i \in Nat
  BY ElementOfSeq, LenProperties DEF TypeOK

-----------------------------------------------------------------------------
(* What the helpers that end a piece of work leave in the process *)

\* Dropping the session keeps the root, and the cached completion or none.
LEMMA DroppedKeeps ==
    ASSUME TypeOK, NEW p \in Proc, NEW next \in {"start", "idle"}
    PROVE  /\ Dropped(p, next).slot \in {st[p].slot, NoSlot}
           /\ Dropped(p, next).pc = "off" \/ Dropped(p, next).root = st[p].root
  <1>1. st[p] \in Process
    BY DEF TypeOK
  <1>2. CASE p \in Clis
    BY <1>2 DEF Dropped, Off
  <1>3. CASE p \notin Clis
    BY <1>1, <1>3 DEF Dropped, Process
  <1> QED BY <1>2, <1>3

\* The end of a drain keeps the root and the cached completion.
LEMMA EndDrainKeeps ==
    ASSUME TypeOK, NEW p \in Proc, NEW a \in BOOLEAN, NEW u
    PROVE  EndDrain(p, a, u).slot = st[p].slot /\ EndDrain(p, a, u).root = st[p].root
  <1>1. st[p] \in Process
    BY DEF TypeOK
  <1> QED BY <1>1 DEF EndDrain, Process

\* After an acknowledged completion nothing is cached.
LEMMA AckedKeeps ==
    ASSUME TypeOK, NEW p \in Proc
    PROVE  Acked(p).slot = NoSlot /\ Acked(p).root = st[p].root
  <1>1. st[p] \in Process
    BY DEF TypeOK
  <1>2. CASE st[p].job # 0 /\ st[p].cutoff = 0
    <2> DEFINE e == EndDrain(p, TRUE, {})
    <2>1. e \in Process /\ e.root = st[p].root
      BY EndDrainFacts, EndDrainKeeps
    <2>2. Acked(p) = [e EXCEPT !.slot = NoSlot]
      BY <1>2 DEF Acked
    <2> HIDE DEF e
    <2> QED BY <2>1, <2>2 DEF Process
  <1>3. CASE ~(st[p].job # 0 /\ st[p].cutoff = 0)
    BY <1>1, <1>3 DEF Acked, Process
  <1> QED BY <1>2, <1>3

\* Keeping the session for a retry keeps the cached completion.
LEMMA KeepKeeps ==
    ASSUME TypeOK, NEW p \in Proc
    PROVE  KeepForRetry(p).slot = st[p].slot /\ KeepForRetry(p).root = st[p].root
  <1>1. st[p] \in Process
    BY DEF TypeOK
  <1> QED BY <1>1 DEF KeepForRetry, Process

-----------------------------------------------------------------------------
(* The shapes of a step *)

\* Only p's volatile state changes.
OnlyProc(p) == \A q \in Proc \ {p} : st'[q] = st[q]

\* The durable state never forgets.
Grows ==
    /\ incarnation' >= incarnation
    /\ hist.pubs \subseteq hist'.pubs /\ hist.hs \subseteq hist'.hs
    /\ \A i \in DOMAIN rows : i \in DOMAIN rows' /\ rows'[i].want = rows[i].want

\* Head, root, incarnation and history stay, and so does every accepted row.
Kept ==
    /\ incarnation' = incarnation /\ hist' = hist
    /\ index'.pin = index.pin /\ index'.root = index.root
    /\ \A i \in DOMAIN rows : i \in DOMAIN rows' /\ rows'[i] = rows[i]

\* p has no session after the step, or one so new that it has done nothing.
Away(p) ==
    /\ st'[p].pc \in NoSession \cup {"won", "elected", "swap"}
    /\ st'[p].inc = 0 \/ st'[p].inc > incarnation
    /\ st'[p].slot \in {st[p].slot, NoSlot}

\* p has a session that serves its own root, works on no row and has cached no
\* completion.
Serving(p) ==
    /\ st'[p].pc \in Rooted \ (Working \cup {"finish"})
    /\ st'[p].pc \in Reconciled => st'[p].inc \in hist'.hs
    /\ index'.root = st'[p].root
    /\ \/ st'[p].slot = NoSlot
       \/ st'[p].slot = st[p].slot /\ st'[p].inc = st[p].inc /\ ~HasOwnSlot(st[p])

\* Roots are where they were.
SameRoots(p) ==
    /\ rootNow' = rootNow /\ wtx' \in {wtx, NoTx} /\ OnlyProc(p)
    /\ \/ st'[p].pc = "off"
       \/ st'[p].root = rootNow
       \/ st[p].pc # "off" /\ st'[p].root = st[p].root

\* A step that leaves the durable state alone forgets nothing.
LEMMA KeptGrows == ASSUME TypeOK, Kept PROVE Grows
  BY DEF TypeOK, Kept, Grows

\* What the invariant reads of q's volatile state.
SameWork(q) ==
    /\ st'[q].pc = st[q].pc /\ st'[q].inc = st[q].inc /\ st'[q].root = st[q].root
    /\ st'[q].job = st[q].job /\ st'[q].before = st[q].before /\ st'[q].slot = st[q].slot

\* A process that did not move knows what it knew when the durable state stays.
LEMMA KeptProc ==
    ASSUME Kept, NEW q \in Proc, SameWork(q), JobInv(q), SlotInv(q)
    PROVE  JobInv(q)' /\ SlotInv(q)'
  <1>1. JobInv(q)'
    BY DEF Kept, SameWork, JobInv, Working, Rooted, Reconciled
  <1>2. SlotInv(q)'
    BY DEF Kept, SameWork, SlotInv, HasOwnSlot
  <1> QED BY <1>1, <1>2

\* A process without a session only relies on what the durable state never forgets.
LEMMA AwayProc ==
    ASSUME TypeOK, TypeOK', Grows, NEW p \in Proc, Away(p), SlotInv(p)
    PROVE  JobInv(p)' /\ SlotInv(p)'
  <1>1. JobInv(p)'
    BY DEF Away, JobInv, Working, Rooted, Reconciled, NoSession
  <1>2. st[p].slot.inc \in Nat /\ incarnation \in Nat /\ incarnation' \in Nat
        /\ st'[p].inc \in Nat
    BY DEF TypeOK, Process, Slots
  <1>3. CASE st'[p].slot = NoSlot
    BY <1>1, <1>2, <1>3 DEF SlotInv, HasOwnSlot, NoSlot
  <1>4. CASE st'[p].slot = st[p].slot
    BY <1>1, <1>2, <1>4 DEF SlotInv, HasOwnSlot, Away, Grows
  <1> QED BY <1>1, <1>3, <1>4 DEF Away

\* A session that works on no row and has cached nothing of its own claims little.
LEMMA ServingProc ==
    ASSUME TypeOK, TypeOK', Grows, NEW p \in Proc, Serving(p), SlotInv(p)
    PROVE  JobInv(p)' /\ SlotInv(p)'
  <1>1. JobInv(p)'
    BY DEF Serving, JobInv, Working, Rooted, Reconciled
  <1>2. st[p].slot.inc \in Nat /\ incarnation \in Nat /\ incarnation' \in Nat
    BY DEF TypeOK, Process, Slots
  <1>3. CASE st'[p].slot = NoSlot
    BY <1>1, <1>2, <1>3 DEF SlotInv, HasOwnSlot, NoSlot
  <1>4. CASE st'[p].slot = st[p].slot /\ st'[p].inc = st[p].inc /\ ~HasOwnSlot(st[p])
    BY <1>1, <1>2, <1>4 DEF SlotInv, HasOwnSlot, Grows
  <1> QED BY <1>1, <1>3, <1>4 DEF Serving

\* A step that leaves the durable state alone concerns only the process that takes it.
LEMMA KeptProcs ==
    ASSUME ProcsInv, Kept, NEW p \in Proc, OnlyProc(p), JobInv(p)', SlotInv(p)'
    PROVE  ProcsInv'
  <1>1. \A q \in Proc \ {p} : JobInv(q)' /\ SlotInv(q)'
    BY KeptProc DEF ProcsInv, OnlyProc, SameWork
  <1> QED BY <1>1 DEF ProcsInv

\* While p leads, or nobody does, no other process has a session.
LEMMA LeaderProcs ==
    ASSUME TypeOK, TypeOK', SessionInv, ProcsInv, Grows, NEW p \in Proc, OnlyProc(p),
           lock \in {None, p}, JobInv(p)', SlotInv(p)'
    PROVE  ProcsInv'
  <1>1. ASSUME NEW q \in Proc \ {p} PROVE JobInv(q)' /\ SlotInv(q)'
    <2>1. st[q].pc \in NoSession /\ st[q].inc = 0
      BY ProcAssumption DEF SessionInv
    <2>2. st'[q] = st[q]
      BY DEF OnlyProc
    <2>3. Away(q)
      BY <2>1, <2>2 DEF Away
    <2> QED BY <2>3, AwayProc DEF ProcsInv
  <1> QED BY <1>1 DEF ProcsInv

\* Roots stay roots of the model.
LEMMA RootsKept ==
    ASSUME RootsInv, NEW p \in Proc, SameRoots(p)
    PROVE  RootsInv'
  <1>1. wtx'.by \in Proc => wtx'.root \in 1..MaxRoots
    BY ProcAssumption DEF RootsInv, SameRoots, NoTx
  <1>2. \A q \in Proc : st'[q].pc # "off" => st'[q].root \in 1..MaxRoots
    BY DEF RootsInv, SameRoots, OnlyProc
  <1> QED BY <1>1, <1>2 DEF RootsInv, SameRoots

-----------------------------------------------------------------------------
(* The queue under each shape of a step *)

\* The history of publications has the types of rows, incarnations and pins.
LEMMA PubTypes ==
    ASSUME TypeOK
    PROVE  \A u \in hist.pubs : u.row \in Nat /\ u.inc \in Nat /\ u.pin \in Pins
  BY DEF TypeOK

\* A row failed because its root is not the root any more.
RootFailed(old, new) ==
    /\ ~IsTerminal(old) /\ new.state = "failed" /\ new.err = "root_changed"
    /\ new.want = old.want

\* Every row but those of I stays, or is failed for its root.
OthersResolved(I) ==
    /\ DOMAIN rows' = DOMAIN rows
    /\ \A j \in DOMAIN rows \ I : rows'[j] = rows[j] \/ RootFailed(rows[j], rows'[j])

\* The index, the incarnation and the history stay.
OnlyRows == UNCHANGED <<index, incarnation, hist>>

\* The queue's own invariant holds while the durable state stays.
LEMMA QueueKept == ASSUME QueueInv, Kept, rows' = rows PROVE QueueInv'
  <1>1. PubsInv'
    BY DEF QueueInv, Kept, PubsInv, IsTerminal
  <1> QED
    BY <1>1 DEF QueueInv, Kept, FifoOrder, ClaimAfterH, OnePublication,
                DoneOwnPublication, AckedPinsGrow, ExpectedHonoured, IsTerminal

\* A new row is at the end, unclaimed.
LEMMA QueueAppended ==
    ASSUME TypeOK, QueueInv, OnlyRows, NEW r \in Rows, rows' = Append(rows, r),
           r.state = "queued", r.claim = 0, r.err = "none"
    PROVE  QueueInv' /\ Kept
  <1> DEFINE n == Len(rows) + 1
  <1>1. /\ DOMAIN rows = 1..Len(rows) /\ Len(rows) \in Nat /\ DOMAIN rows' = 1..n
        /\ rows'[n] = r
        /\ \A i \in DOMAIN rows : rows'[i] = rows[i] /\ i \in DOMAIN rows' /\ i # n
    BY LenProperties, AppendProperties DEF TypeOK
  <1>2. \A i \in DOMAIN rows' : i = n \/ i \in DOMAIN rows
    BY <1>1
  <1>3. \A i \in DOMAIN rows' : i \in Nat
    BY <1>1
  <1> HIDE DEF n
  <1>4. Kept
    BY <1>1 DEF Kept, OnlyRows
  <1>5. PubsInv'
    BY <1>1 DEF QueueInv, PubsInv, OnlyRows, IsTerminal
  <1>6. FifoOrder'
    <2> SUFFICES ASSUME NEW j \in DOMAIN rows',
                        rows'[j].state \in {"running", "done"}
                        \/ rows'[j].err \in {"revision_conflict", "index_failed"},
                        NEW i \in 1..(j - 1)
                 PROVE  IsTerminal(rows'[i])
      BY DEF FifoOrder, IsTerminal
    <2>1. j \in DOMAIN rows
      BY <1>1, <1>2
    <2>2. i \in DOMAIN rows
      BY <1>1, <2>1
    <2> QED BY <1>1, <2>1, <2>2 DEF QueueInv, FifoOrder
  <1>7. ClaimAfterH'
    BY <1>1, <1>2 DEF QueueInv, ClaimAfterH, OnlyRows
  <1>8. OnePublication'
    BY DEF QueueInv, OnePublication, OnlyRows
  <1>9. DoneOwnPublication'
    BY <1>1, <1>2 DEF QueueInv, DoneOwnPublication, OnlyRows
  <1>10. AckedPinsGrow'
    BY <1>1, <1>2 DEF QueueInv, AckedPinsGrow
  <1>11. ExpectedHonoured'
    BY <1>1, <1>2 DEF QueueInv, ExpectedHonoured
  <1> QED
    BY <1>4, <1>5, <1>6, <1>7, <1>8, <1>9, <1>10, <1>11 DEF QueueInv

\* Rows of another root are failed, perhaps under a new incarnation.
LEMMA QueueResolved ==
    ASSUME TypeOK, QueueInv, OthersResolved({}), hist' = hist, index' = index,
           incarnation' \in {incarnation, incarnation + 1}
    PROVE  QueueInv'
  <1>1. \A i \in DOMAIN rows : i \in DOMAIN rows'
                 /\ (rows'[i] = rows[i] \/ RootFailed(rows[i], rows'[i]))
    BY DEF OthersResolved
  <1>2. DOMAIN rows' = DOMAIN rows
    BY DEF OthersResolved
  <1>3. PubsInv'
    <2>1. incarnation \in Nat /\ \A u \in hist.pubs : u.inc \in Nat
      BY DEF TypeOK
    <2> QED
      BY <1>1, <2>1 DEF QueueInv, PubsInv, RootFailed, IsTerminal
  <1>4. FifoOrder'
    <2> SUFFICES ASSUME NEW j \in DOMAIN rows',
                        rows'[j].state \in {"running", "done"}
                        \/ rows'[j].err \in {"revision_conflict", "index_failed"},
                        NEW i \in 1..(j - 1)
                 PROVE  IsTerminal(rows'[i])
      BY DEF FifoOrder, IsTerminal
    <2>1. rows'[j] = rows[j]
      BY <1>1, <1>2 DEF RootFailed
    <2>2. i \in DOMAIN rows /\ IsTerminal(rows[i])
      BY <1>2, <2>1, LenProperties DEF QueueInv, FifoOrder, TypeOK
    <2> QED BY <1>1, <2>2 DEF RootFailed
  <1>5. ClaimAfterH'
    BY <1>1, <1>2 DEF QueueInv, ClaimAfterH, RootFailed
  <1>6. OnePublication'
    BY DEF QueueInv, OnePublication
  <1>7. DoneOwnPublication'
    BY <1>1, <1>2 DEF QueueInv, DoneOwnPublication, RootFailed
  <1>8. AckedPinsGrow'
    BY <1>1, <1>2 DEF QueueInv, AckedPinsGrow, RootFailed
  <1>9. ExpectedHonoured'
    BY <1>1, <1>2 DEF QueueInv, ExpectedHonoured, RootFailed
  <1> QED
    BY <1>3, <1>4, <1>5, <1>6, <1>7, <1>8, <1>9 DEF QueueInv

\* One unfinished row, for which the current incarnation has published nothing, is
\* claimed or requeued.
LEMMA QueueTouched ==
    ASSUME TypeOK, QueueInv, OnlyRows, NEW i \in DOMAIN rows, OthersResolved({i}),
           ~IsTerminal(rows[i]), ~IsTerminal(rows'[i]), rows'[i].state # "done",
           rows'[i].err = rows[i].err, rows'[i].want = rows[i].want,
           rows'[i].claim # 0 => rows'[i].claim \in hist.hs,
           rows'[i].state = "running" => \A j \in Unfinished : i <= j,
           \A u \in hist.pubs : ~(u.row = i /\ u.inc = incarnation)
    PROVE  QueueInv'
  <1>1. \A j \in DOMAIN rows : j = i \/ rows'[j] = rows[j] \/ RootFailed(rows[j], rows'[j])
    BY DEF OthersResolved
  <1>2. DOMAIN rows' = DOMAIN rows /\ hist' = hist /\ index' = index
        /\ incarnation' = incarnation
    BY DEF OthersResolved, OnlyRows
  <1>3. PubsInv'
    BY <1>1, <1>2 DEF QueueInv, PubsInv, RootFailed, IsTerminal
  <1>4. FifoOrder'
    <2> SUFFICES ASSUME NEW j \in DOMAIN rows',
                        rows'[j].state \in {"running", "done"}
                        \/ rows'[j].err \in {"revision_conflict", "index_failed"},
                        NEW k \in 1..(j - 1)
                 PROVE  IsTerminal(rows'[k])
      BY DEF FifoOrder, IsTerminal
    <2>0. DOMAIN rows = 1..Len(rows) /\ Len(rows) \in Nat
      BY LenProperties DEF TypeOK
    <2>1. k \in DOMAIN rows /\ k < j /\ j \in DOMAIN rows /\ ~(j <= k)
      BY <1>2, <2>0
    <2>2. IsTerminal(rows[k])
      <3>1. CASE j = i
        <4>1. CASE rows'[i].state = "running"
          <5>1. k \notin Unfinished
            BY <2>1, <3>1, <4>1
          <5>2. rows[k] \in Rows
            BY <2>1, RowTypes
          <5> QED BY <2>1, <5>1, <5>2 DEF Unfinished, IsTerminal, Rows, RowStates
        <4>2. CASE rows'[i].state # "running"
          <5>1. rows[i].err \in {"revision_conflict", "index_failed"}
            BY <3>1, <4>2
          <5> QED BY <3>1, <5>1 DEF QueueInv, FifoOrder
        <4> QED BY <4>1, <4>2
      <3>2. CASE j # i
        <4>1. rows'[j] = rows[j]
          BY <1>1, <2>1, <3>2 DEF RootFailed
        <4> QED BY <2>1, <4>1 DEF QueueInv, FifoOrder
      <3> QED BY <3>1, <3>2
    <2>3. rows'[k] = rows[k]
      BY <1>1, <2>1, <2>2 DEF RootFailed
    <2> QED BY <2>2, <2>3
  <1>5. ClaimAfterH'
    BY <1>1, <1>2 DEF QueueInv, ClaimAfterH, RootFailed
  <1>6. OnePublication'
    BY <1>2 DEF QueueInv, OnePublication
  <1>7. DoneOwnPublication'
    BY <1>1, <1>2 DEF QueueInv, DoneOwnPublication, RootFailed
  <1>8. AckedPinsGrow'
    BY <1>1, <1>2 DEF QueueInv, AckedPinsGrow, RootFailed
  <1>9. ExpectedHonoured'
    BY <1>1, <1>2 DEF QueueInv, ExpectedHonoured, RootFailed
  <1> QED
    BY <1>3, <1>4, <1>5, <1>6, <1>7, <1>8, <1>9 DEF QueueInv

\* The head advances; nothing was published for a row.
LEMMA QueueHeadAdvanced ==
    ASSUME TypeOK, TypeOK', QueueInv, rows' = rows, incarnation' = incarnation,
           hist'.pubs = hist.pubs, hist.hs \subseteq hist'.hs, AtLeast(index'.pin, index.pin)
    PROVE  QueueInv'
  <1>1. PubsInv'
    <2>1. \A u \in hist.pubs : AtLeast(index'.pin, u.pin)
      <3>1. index.pin \in Pins /\ index'.pin \in Pins
        BY DEF TypeOK
      <3> QED BY <3>1, PubTypes, PinOrder DEF QueueInv, PubsInv
    <2> QED BY <2>1 DEF QueueInv, PubsInv, IsTerminal
  <1> QED
    BY <1>1 DEF QueueInv, FifoOrder, ClaimAfterH, OnePublication,
                DoneOwnPublication, AckedPinsGrow, ExpectedHonoured, IsTerminal

\* A new incarnation has published nothing.
LEMMA QueueNewIncarnation ==
    ASSUME TypeOK, QueueInv, rows' = rows, incarnation' = incarnation + 1,
           hist' = hist, index' = index
    PROVE  QueueInv'
  <1>1. PubsInv'
    <2>1. incarnation \in Nat /\ \A u \in hist.pubs : u.inc \in Nat
      BY DEF TypeOK
    <2> QED BY <2>1 DEF QueueInv, PubsInv, IsTerminal
  <1> QED
    BY <1>1 DEF QueueInv, FifoOrder, ClaimAfterH, OnePublication,
                DoneOwnPublication, AckedPinsGrow, ExpectedHonoured, IsTerminal

\* The publication for a claimed row.
LEMMA QueuePublished ==
    ASSUME TypeOK, QueueInv, rows' = rows, incarnation' = incarnation, incarnation # 0,
           NEW i \in DOMAIN rows, rows[i].state = "running", rows[i].claim = incarnation,
           \A u \in hist.pubs : ~(u.row = i /\ u.inc = incarnation),
           index'.pin = Next1(index.pin), hist'.hs = hist.hs,
           hist'.pubs = hist.pubs \cup {Pub(i, incarnation, Next1(index.pin))}
    PROVE  QueueInv'
  <1> DEFINE new == Pub(i, incarnation, Next1(index.pin))
  <1>1. index.pin \in Pins /\ Next1(index.pin) \in Pins /\ incarnation \in Nat
    BY NextPinType DEF TypeOK
  <1>2. new.row = i /\ new.inc = incarnation /\ new.pin = Next1(index.pin)
    BY DEF Pub
  <1>3. \A u \in hist.pubs : AtLeast(Next1(index.pin), u.pin) /\ u.pin # new.pin
    BY <1>1, <1>2, PubTypes, PinOrder DEF QueueInv, PubsInv
  <1>4. AtLeast(index'.pin, new.pin)
    BY <1>1, <1>2, PinOrder
  <1>5. \A u \in hist'.pubs : u = new \/ u \in hist.pubs
    OBVIOUS
  <1> HIDE DEF new
  <1>6. PubsInv'
    <2>1. ASSUME NEW u \in hist'.pubs
          PROVE  /\ u.row \in DOMAIN rows /\ u.inc <= incarnation /\ AtLeast(index'.pin, u.pin)
                 /\ u.inc = incarnation =>
                      \/ IsTerminal(rows[u.row])
                      \/ rows[u.row].state = "running" /\ rows[u.row].claim = u.inc
      BY <1>1, <1>2, <1>3, <1>4, <1>5 DEF QueueInv, PubsInv
    <2>2. \A a, b \in hist'.pubs : a.pin = b.pin => a = b
      BY <1>3, <1>5 DEF QueueInv, PubsInv
    <2> QED BY <2>1, <2>2 DEF PubsInv, IsTerminal
  <1>7. OnePublication'
    BY <1>2, <1>5 DEF QueueInv, OnePublication
  <1>8. DoneOwnPublication'
    BY DEF QueueInv, DoneOwnPublication
  <1> QED
    BY <1>6, <1>7, <1>8 DEF QueueInv, FifoOrder, ClaimAfterH, AckedPinsGrow,
                            ExpectedHonoured, IsTerminal

\* The cached completion of the row is written.
LEMMA QueueFinished ==
    ASSUME TypeOK, QueueInv, OnlyRows, NEW i \in DOMAIN rows, NEW out \in Outcomes,
           rows[i].state = "running", rows[i].claim \in hist.hs,
           rows' = [rows EXCEPT ![i] = Terminal(@, out)],
           out.err = "none" =>
               /\ index.pin = out.pin /\ Pub(i, rows[i].claim, out.pin) \in hist.pubs
               /\ rows[i].want # NoPin => out.pin = Next1(rows[i].want)
    PROVE  QueueInv'
  <1> DEFINE new == Terminal(rows[i], out)
  <1>0. rows[i] \in Rows
    BY RowTypes
  <1>1. /\ new.state = IF out.err = "none" THEN "done" ELSE "failed"
        /\ new.pin = out.pin /\ new.err = out.err
        /\ new.claim = rows[i].claim /\ new.want = rows[i].want
    BY <1>0 DEF Terminal, Rows
  <1>2. IsTerminal(new) /\ (new.state = "done" <=> out.err = "none") /\ new.state # "running"
    BY <1>1 DEF IsTerminal
  <1>3. DOMAIN rows' = DOMAIN rows /\ rows'[i] = new
        /\ \A j \in DOMAIN rows : j # i => rows'[j] = rows[j]
    OBVIOUS
  <1>4. DOMAIN rows = 1..Len(rows) /\ Len(rows) \in Nat
    BY LenProperties DEF TypeOK
  <1>5. ~IsTerminal(rows[i]) /\ \A k \in 1..(i - 1) : IsTerminal(rows[k])
    BY DEF IsTerminal, QueueInv, FifoOrder
  <1> HIDE DEF new
  <1>6. hist' = hist /\ index' = index /\ incarnation' = incarnation
    BY DEF OnlyRows
  <1>7. PubsInv'
    BY <1>2, <1>3, <1>6 DEF QueueInv, PubsInv, IsTerminal
  <1>8. FifoOrder'
    <2> SUFFICES ASSUME NEW j \in DOMAIN rows',
                        rows'[j].state \in {"running", "done"}
                        \/ rows'[j].err \in {"revision_conflict", "index_failed"},
                        NEW k \in 1..(j - 1)
                 PROVE  IsTerminal(rows'[k])
      BY DEF FifoOrder, IsTerminal
    <2>1. j \in DOMAIN rows /\ k \in DOMAIN rows
      BY <1>3, <1>4
    <2>2. CASE j = i
      BY <1>3, <1>4, <1>5, <2>1, <2>2
    <2>3. CASE j # i
      <3>1. IsTerminal(rows[k])
        BY <1>3, <2>1, <2>3 DEF QueueInv, FifoOrder
      <3> QED BY <1>2, <1>3, <2>1, <3>1
    <2> QED BY <2>2, <2>3
  <1>9. ClaimAfterH'
    BY <1>1, <1>3, <1>6 DEF QueueInv, ClaimAfterH
  <1>10. OnePublication'
    BY <1>6 DEF QueueInv, OnePublication
  <1>11. DoneOwnPublication'
    BY <1>1, <1>2, <1>3, <1>6 DEF QueueInv, DoneOwnPublication, Pub
  <1>12. ExpectedHonoured'
    BY <1>1, <1>2, <1>3 DEF QueueInv, ExpectedHonoured
  <1>13. AckedPinsGrow'
    <2> SUFFICES ASSUME NEW a \in DOMAIN rows', NEW b \in DOMAIN rows', a < b,
                        rows'[a].state = "done", rows'[b].state = "done"
                 PROVE  AtLeast(rows'[b].pin, rows'[a].pin) /\ rows'[b].pin # rows'[a].pin
      BY DEF AckedPinsGrow, AtLeast
    <2>1. CASE a # i /\ b # i
      BY <1>3, <2>1 DEF QueueInv, AckedPinsGrow
    <2>2. CASE a = i
      <3>1. b # i /\ rows[b].state = "done" /\ i \in 1..(b - 1)
        BY <1>3, <1>4, <2>2
      <3>2. IsTerminal(rows[i])
        BY <1>3, <3>1 DEF QueueInv, FifoOrder
      <3> QED BY <1>5, <3>2
    <2>3. CASE b = i
      <3>1. a # i /\ rows'[a] = rows[a] /\ out.err = "none" /\ rows'[b].pin = out.pin
        BY <1>1, <1>2, <1>3, <1>4, <2>3
      <3>2. Pub(a, rows[a].claim, rows[a].pin) \in hist.pubs
        BY <1>3, <3>1 DEF QueueInv, DoneOwnPublication, Pub
      <3>3. Pub(i, rows[i].claim, out.pin) \in hist.pubs /\ index.pin = out.pin
        BY <3>1
      <3>4. AtLeast(out.pin, rows[a].pin)
        BY <3>2, <3>3 DEF QueueInv, PubsInv, Pub
      <3>5. out.pin # rows[a].pin
        BY <3>1, <3>2, <3>3 DEF QueueInv, PubsInv, Pub
      <3> QED BY <3>1, <3>4, <3>5
    <2> QED BY <2>1, <2>2, <2>3
  <1> QED
    BY <1>7, <1>8, <1>9, <1>10, <1>11, <1>12, <1>13 DEF QueueInv

-----------------------------------------------------------------------------
(* One step *)

\* The part of the invariant that this module adds.
RestInv == QueueInv /\ ProcsInv /\ RootsInv

Quiet == UNCHANGED <<incarnation, index, rows, hist>>

\* A step that writes nothing durable keeps all of it.
LEMMA QuietKept == ASSUME Quiet PROVE Kept
  BY DEF Quiet, Kept

\* A step after which p has no session, or an idle one.
LEMMA Settled ==
    ASSUME OrderInv, TypeOK', NEW p \in Proc, SameRoots(p), QueueInv',
           Away(p) \/ Serving(p), Kept \/ (Grows /\ lock \in {None, p})
    PROVE  RestInv'
  <1>0. TypeOK /\ SessionInv /\ ProcsInv /\ RootsInv /\ SlotInv(p) /\ OnlyProc(p)
    BY DEF OrderInv, ProcsInv, SameRoots
  <1>1. Grows
    BY <1>0, KeptGrows
  <1>2. JobInv(p)' /\ SlotInv(p)'
    BY <1>0, <1>1, AwayProc, ServingProc
  <1>3. ProcsInv'
    BY <1>0, <1>1, <1>2, KeptProcs, LeaderProcs
  <1>4. RootsInv'
    BY <1>0, RootsKept
  <1> QED BY <1>3, <1>4 DEF RestInv

\* A step that writes nothing durable and leaves p without work.
LEMMA QuietSettled ==
    ASSUME OrderInv, TypeOK', NEW p \in Proc, SameRoots(p), Quiet, Away(p) \/ Serving(p)
    PROVE  RestInv'
  <1>1. QueueInv' /\ Kept
    BY QuietKept, QueueKept DEF OrderInv, Quiet
  <1> QED BY <1>1, Settled

\* A step that leaves the durable state alone but p at work on a row.
LEMMA QuietWorking ==
    ASSUME OrderInv, NEW p \in Proc, SameRoots(p), Quiet, JobInv(p)', SlotInv(p)'
    PROVE  RestInv'
  <1>1. QueueInv' /\ Kept
    BY QuietKept, QueueKept DEF OrderInv, Quiet
  <1>2. ProcsInv'
    BY <1>1, KeptProcs DEF OrderInv, SameRoots
  <1> QED BY <1>1, <1>2, RootsKept DEF OrderInv, RestInv

\* A step of the leader that leaves it at work on a row.
LEMMA LeaderWorking ==
    ASSUME OrderInv, TypeOK', NEW p \in Proc, SameRoots(p), QueueInv', Grows, lock = p,
           JobInv(p)', SlotInv(p)'
    PROVE  RestInv'
  <1>1. ProcsInv'
    BY LeaderProcs DEF OrderInv, SameRoots
  <1> QED BY <1>1, RootsKept DEF OrderInv, RestInv

\* A session is in use: its process holds the lock.
LEMMA InSession ==
    ASSUME SessionInv, NEW p \in Proc, st[p].pc \notin NoSession
    PROVE  /\ lock = p
           /\ st[p].pc # "won" => st[p].inc = incarnation /\ incarnation # 0
           /\ st[p].pc # "off"
  BY DEF SessionInv, NoSession

\* A process that neither leads nor finishes has no completion of its own cached.
LEMMA NoOwnSlot ==
    ASSUME NEW p \in Proc, SlotInv(p), st[p].pc \notin {"finish", "lead"}
    PROVE  ~HasOwnSlot(st[p])
  BY DEF SlotInv

\* Both ways to give up a session.
LEMMA DropElectedAway ==
    ASSUME TypeOK, NEW p \in Proc, DropElected(p)
    PROVE  /\ OnlyProc(p) /\ Away(p)
           /\ st'[p].pc = "off" \/ st'[p].root = st[p].root
  <1> DEFINE r == Dropped(p, Back(p))
  <1>1. /\ r.inc = 0 /\ r.pc \in {"off", "start", "idle"} /\ r.slot \in {st[p].slot, NoSlot}
        /\ r.pc = "off" \/ r.root = st[p].root
    BY BackFacts, DroppedFacts, DroppedKeeps
  <1>2. st' = [st EXCEPT ![p] = r] /\ st \in [Proc -> Process]
    BY DEF DropElected, TypeOK
  <1> HIDE DEF r
  <1>3. st'[p] = r /\ OnlyProc(p)
    BY <1>2 DEF OnlyProc
  <1> QED BY <1>1, <1>3 DEF Away, NoSession

\* Dropping the retained session leaves p without one.
LEMMA DropRetainedAway ==
    ASSUME TypeOK, NEW p \in Proc, DropRetained(p)
    PROVE  /\ OnlyProc(p) /\ Away(p)
           /\ st'[p].pc = "off" \/ st'[p].root = st[p].root
  <1> DEFINE r == Dropped(p, "idle")
  <1>1. /\ r.inc = 0 /\ r.pc \in {"off", "idle"} /\ r.slot \in {st[p].slot, NoSlot}
        /\ r.pc = "off" \/ r.root = st[p].root
    BY DroppedFacts, DroppedKeeps
  <1>2. st' = [st EXCEPT ![p] = r] /\ st \in [Proc -> Process]
    BY DEF DropRetained, TypeOK
  <1> HIDE DEF r
  <1>3. st'[p] = r /\ OnlyProc(p)
    BY <1>2 DEF OnlyProc
  <1> QED BY <1>1, <1>3 DEF Away, NoSession

\* fail_changed_root_requests fails unfinished rows and leaves the others alone; a
\* live holder leaves its own root's rows alone.
LEMMA ResolvedRows ==
    ASSUME TypeOK, NEW p \in Proc, NEW k \in Nat
    PROVE  LET f == FailChangedRoot(p, k)
           IN /\ DOMAIN f = DOMAIN rows
              /\ \A i \in DOMAIN rows : f[i] = rows[i] \/ RootFailed(rows[i], f[i])
              /\ \A i \in DOMAIN rows :
                    Live(p) /\ rows[i].root = st[p].root => f[i] = rows[i]
  <1>1. ASSUME NEW i \in DOMAIN rows, i \in Unfinished,
               NEW r, r = [rows[i] EXCEPT !.state = "failed", !.claim = k, !.err = "root_changed"]
        PROVE  RootFailed(rows[i], r)
    <2>1. rows[i] \in Rows
      BY RowTypes
    <2> QED BY <1>1, <2>1 DEF RootFailed, Unfinished, IsTerminal, Rows
  <1> QED BY <1>1 DEF FailChangedRoot

\* Failing the rows of changed roots changes open rows only.
LEMMA ResolveGrows ==
    ASSUME TypeOK, NEW p \in Proc, NEW k \in Nat, rows' = FailChangedRoot(p, k),
           hist' = hist, index' = index, incarnation' \in {incarnation, incarnation + 1},
           QueueInv
    PROVE  OthersResolved({}) /\ Grows /\ QueueInv'
  <1>1. OthersResolved({})
    BY ResolvedRows DEF OthersResolved
  <1>2. Grows
    BY <1>1 DEF OthersResolved, RootFailed, Grows, TypeOK
  <1> QED BY <1>1, <1>2, QueueResolved

\* A cached completion survives the resolution of other rows.
LEMMA SlotResolved ==
    ASSUME OthersResolved({}), OnlyRows, NEW p \in Proc, SlotInv(p),
           st'[p].slot = st[p].slot, st'[p].inc = st[p].inc, st'[p].pc \in {"finish", "lead"}
    PROVE  SlotInv(p)'
  <1>1. \A i \in DOMAIN rows : i \in DOMAIN rows' /\ rows'[i].want = rows[i].want
              /\ (rows'[i] = rows[i] \/ rows'[i].state = "failed")
    BY DEF OthersResolved, RootFailed
  <1> QED BY <1>1 DEF SlotInv, HasOwnSlot, OnlyRows

-----------------------------------------------------------------------------
(* The steps that work on a row *)

\* A drain starts: rows of changed roots fail, a stale cached completion is forgotten.
LEMMA DrainStartRest ==
    ASSUME OrderInv, TypeOK', NEW p \in Proc, DrainStart(p)
    PROVE  RestInv'
  <1>0. /\ TypeOK /\ SessionInv /\ QueueInv /\ JobInv(p) /\ SlotInv(p)
        /\ st \in [Proc -> Process] /\ st[p] \in Process /\ st[p].inc \in Nat
    BY DEF OrderInv, ProcsInv, TypeOK, Process
  <1>1. /\ st[p].pc = "lead" /\ rows' = FailChangedRoot(p, st[p].inc)
        /\ UNCHANGED <<lock, incarnation, index, wtx, rootNow, used, hist>>
    BY DEF DrainStart
  <1>2. lock = p /\ st[p].inc = incarnation /\ incarnation # 0
    BY <1>0, <1>1, InSession DEF NoSession
  <1>3. OthersResolved({}) /\ Grows /\ QueueInv'
    BY <1>0, <1>1, ResolveGrows
  <1>4. /\ st'[p].pc = IF OwnSlot(p) THEN "finish" ELSE "drain"
        /\ st'[p].slot = IF OwnSlot(p) THEN st[p].slot ELSE NoSlot
        /\ st'[p].inc = st[p].inc /\ st'[p].root = st[p].root /\ OnlyProc(p)
    BY <1>0 DEF DrainStart, OnlyProc, Process
  <1>5. SameRoots(p)
    BY <1>1, <1>4 DEF SameRoots
  <1>6. st[p].inc \in hist.hs /\ index.root = st[p].root
    BY <1>0, <1>1 DEF JobInv, Rooted, Reconciled
  <1>7. CASE OwnSlot(p)
    <2>1. JobInv(p)'
      BY <1>1, <1>4, <1>6, <1>7 DEF JobInv, Rooted, Reconciled, Working
    <2>2. SlotInv(p)'
      BY <1>0, <1>1, <1>3, <1>4, <1>7, SlotResolved DEF OnlyRows
    <2> QED BY <1>2, <1>3, <1>5, <2>1, <2>2, LeaderWorking
  <1>8. CASE ~OwnSlot(p)
    <2>1. Serving(p)
      BY <1>1, <1>4, <1>6, <1>8 DEF Serving, Rooted, Reconciled, Working
    <2> QED BY <1>2, <1>3, <1>5, <2>1, Settled
  <1> QED BY <1>7, <1>8

\* The earliest open row is claimed under the leader's incarnation.
LEMMA ClaimRest ==
    ASSUME OrderInv, TypeOK', NEW p \in Proc, NEW i \in DOMAIN rows, Claim(p, i)
    PROVE  RestInv'
  <1>0. /\ TypeOK /\ SessionInv /\ QueueInv /\ JobInv(p) /\ SlotInv(p)
        /\ st \in [Proc -> Process] /\ st[p] \in Process /\ rows[i] \in Rows
    BY RowTypes DEF OrderInv, ProcsInv, TypeOK
  <1>1. /\ st[p].pc = "drain" /\ IsFifoHead(i) /\ OwnRoot(p, i) /\ ~HeldByMe(p, i)
        /\ UNCHANGED <<lock, incarnation, index, wtx, rootNow, used, hist>>
    BY DEF Claim
  <1>2. lock = p /\ st[p].inc = incarnation /\ incarnation # 0
    BY <1>0, <1>1, InSession DEF NoSession
  <1>3. st[p].inc \in hist.hs /\ index.root = st[p].root
    BY <1>0, <1>1 DEF JobInv, Rooted, Reconciled
  <1>4. /\ DOMAIN rows' = DOMAIN rows
        /\ \A j \in DOMAIN rows : j # i => rows'[j] = rows[j]
        /\ rows'[i] = [rows[i] EXCEPT !.state = "running", !.claim = st[p].inc]
    BY DEF Claim
  <1>5. /\ rows'[i].state = "running" /\ rows'[i].claim = st[p].inc
        /\ rows'[i].err = rows[i].err /\ rows'[i].want = rows[i].want
        /\ rows'[i].root = rows[i].root
    <2> DEFINE r == [rows[i] EXCEPT !.state = "running", !.claim = st[p].inc]
    <2>1. /\ r.state = "running" /\ r.claim = st[p].inc /\ r.err = rows[i].err
          /\ r.want = rows[i].want /\ r.root = rows[i].root
      BY <1>0 DEF Rows
    <2> HIDE DEF r
    <2>2. rows'[i] = r
      BY <1>4 DEF r
    <2> QED BY <2>1, <2>2
  <1>6. rows[i].state \in {"queued", "running"} /\ \A j \in Unfinished : i <= j
    BY <1>1 DEF IsFifoHead, Unfinished
  <1>7. \A u \in hist.pubs : ~(u.row = i /\ u.inc = incarnation)
    BY <1>0, <1>1, <1>2, <1>6 DEF QueueInv, PubsInv, HeldByMe, IsTerminal
  <1>8. QueueInv'
    <2>1. OthersResolved({i}) /\ OnlyRows
      BY <1>1, <1>4 DEF OthersResolved, OnlyRows
    <2>2. ~IsTerminal(rows[i]) /\ ~IsTerminal(rows'[i])
      BY <1>5, <1>6 DEF IsTerminal
    <2> QED BY <1>0, <1>3, <1>5, <1>6, <1>7, <2>1, <2>2, QueueTouched
  <1>9. Grows
    <2>1. \A j \in DOMAIN rows : j \in DOMAIN rows' /\ rows'[j].want = rows[j].want
      BY <1>4, <1>5
    <2>2. incarnation \in Nat
      BY <1>0 DEF TypeOK
    <2> QED BY <1>1, <2>1, <2>2 DEF Grows
  <1>10. /\ st'[p].pc = "claimed" /\ st'[p].job = i /\ st'[p].inc = st[p].inc
         /\ st'[p].root = st[p].root /\ st'[p].slot = st[p].slot /\ OnlyProc(p)
    BY <1>0 DEF Claim, OnlyProc, Process
  <1>11. SameRoots(p)
    BY <1>1, <1>10 DEF SameRoots
  <1>12. JobInv(p)'
    BY <1>1, <1>2, <1>3, <1>4, <1>5, <1>7, <1>10
       DEF JobInv, Rooted, Reconciled, Working, OwnRoot
  <1>13. SlotInv(p)'
    <2>1. ~HasOwnSlot(st[p])
      BY <1>0, <1>1, NoOwnSlot
    <2> QED BY <1>0, <1>1, <1>9, <1>10, <2>1 DEF SlotInv, HasOwnSlot, Grows
  <1> QED BY <1>2, <1>8, <1>9, <1>11, <1>12, <1>13, LeaderWorking

\* The baseline is captured, or a stale expected pin is cached as a conflict.
LEMMA PrepareRest ==
    ASSUME OrderInv, TypeOK', NEW p \in Proc, Prepare(p)
    PROVE  RestInv'
  <1>0. /\ TypeOK /\ SessionInv /\ JobInv(p) /\ SlotInv(p)
        /\ st \in [Proc -> Process] /\ st[p] \in Process
    BY DEF OrderInv, ProcsInv, TypeOK
  <1>1. /\ st[p].pc = "claimed" /\ Quiet
        /\ UNCHANGED <<wtx, rootNow>>
    BY DEF Prepare, Quiet
  <1>2. st[p].inc = incarnation /\ incarnation # 0
    BY <1>0, <1>1, InSession DEF NoSession
  <1>3. /\ st[p].inc \in hist.hs /\ index.root = st[p].root
        /\ st[p].job \in DOMAIN rows
        /\ rows[st[p].job].state = "running" /\ rows[st[p].job].claim = st[p].inc
        /\ rows[st[p].job].root = st[p].root
        /\ \A u \in hist.pubs : ~(u.row = st[p].job /\ u.inc = st[p].inc)
    BY <1>0, <1>1 DEF JobInv, Rooted, Reconciled, Working
  <1>4. CASE Stale(rows[st[p].job])
    <2>1. /\ st'[p].pc = "finish" /\ st'[p].inc = st[p].inc /\ st'[p].root = st[p].root
          /\ st'[p].slot = [row |-> st[p].job, inc |-> st[p].inc, out |-> Conflict]
          /\ OnlyProc(p)
      BY <1>0, <1>4 DEF Prepare, OnlyProc, Process
    <2>2. JobInv(p)'
      BY <1>1, <1>3, <2>1 DEF JobInv, Rooted, Reconciled, Working, Quiet
    <2>3. SlotInv(p)'
      BY <1>0, <1>1, <1>2, <1>3, <2>1
         DEF SlotInv, HasOwnSlot, Quiet, Conflict, Failed, TypeOK
    <2> QED BY <1>1, <2>1, <2>2, <2>3, QuietWorking DEF SameRoots
  <1>5. CASE ~Stale(rows[st[p].job])
    <2>1. /\ st'[p].pc = "prepared" /\ st'[p].inc = st[p].inc /\ st'[p].root = st[p].root
          /\ st'[p].slot = st[p].slot /\ st'[p].job = st[p].job /\ st'[p].before = index.pin
          /\ OnlyProc(p)
      BY <1>0, <1>5 DEF Prepare, OnlyProc, Process
    <2>2. JobInv(p)'
      BY <1>1, <1>3, <1>5, <2>1 DEF JobInv, Rooted, Reconciled, Working, Quiet, Stale
    <2>3. SlotInv(p)'
      <3>1. ~HasOwnSlot(st[p])
        BY <1>0, <1>1, NoOwnSlot
      <3> QED BY <1>0, <1>1, <2>1, <3>1 DEF SlotInv, HasOwnSlot, Quiet
    <2> QED BY <1>1, <2>1, <2>2, <2>3, QuietWorking DEF SameRoots
  <1> QED BY <1>4, <1>5

\* The row's work is published by compare-and-set on the head.
LEMMA PublishCommitRest ==
    ASSUME OrderInv, TypeOK', NEW p \in Proc, PublishCommit(p)
    PROVE  RestInv'
  <1>0. /\ TypeOK /\ SessionInv /\ QueueInv /\ JobInv(p) /\ SlotInv(p)
        /\ st \in [Proc -> Process] /\ st[p] \in Process
        /\ index \in [pin : Pins, marker : Nat, root : Nat]
        /\ hist \in [pubs : SUBSET [row : Nat, inc : Nat, pin : Pins], hs : SUBSET Nat]
    BY DEF OrderInv, ProcsInv, TypeOK
  <1>1. /\ st[p].pc = "prepared" /\ index.pin = st[p].before
        /\ UNCHANGED <<lock, incarnation, rows, wtx, rootNow, used>>
    BY DEF PublishCommit
  <1>2. lock = p /\ st[p].inc = incarnation /\ incarnation # 0
    BY <1>0, <1>1, InSession DEF NoSession
  <1>3. /\ st[p].inc \in hist.hs /\ index.root = st[p].root
        /\ st[p].job \in DOMAIN rows
        /\ rows[st[p].job].state = "running" /\ rows[st[p].job].claim = st[p].inc
        /\ rows[st[p].job].root = st[p].root
        /\ \A u \in hist.pubs : ~(u.row = st[p].job /\ u.inc = st[p].inc)
        /\ rows[st[p].job].want \in {NoPin, st[p].before}
    BY <1>0, <1>1 DEF JobInv, Rooted, Reconciled, Working
  <1>4. index'.pin = Next1(index.pin) /\ index'.root = index.root
    BY <1>0 DEF PublishCommit, Publish
  <1>5. /\ hist'.hs = hist.hs
        /\ hist'.pubs = hist.pubs \cup {Pub(st[p].job, st[p].inc, Next1(index.pin))}
    BY <1>0 DEF PublishCommit, Pub
  <1>6. QueueInv'
    BY <1>0, <1>1, <1>2, <1>3, <1>4, <1>5, QueuePublished
  <1>7. Grows
    BY <1>0, <1>1, <1>5 DEF Grows, TypeOK
  <1>8. /\ st'[p].pc = "attest" /\ st'[p].inc = st[p].inc /\ st'[p].root = st[p].root
        /\ st'[p].slot = st[p].slot /\ st'[p].job = st[p].job
        /\ st'[p].before = st[p].before /\ OnlyProc(p)
    BY <1>0 DEF PublishCommit, OnlyProc, Process
  <1>9. JobInv(p)'
    BY <1>1, <1>3, <1>4, <1>5, <1>8 DEF JobInv, Rooted, Reconciled, Working
  <1>10. SlotInv(p)'
    <2>1. ~HasOwnSlot(st[p])
      BY <1>0, <1>1, NoOwnSlot
    <2> QED BY <1>0, <1>1, <1>5, <1>8, <2>1 DEF SlotInv, HasOwnSlot
  <1> QED BY <1>1, <1>2, <1>6, <1>7, <1>8, <1>9, <1>10, LeaderWorking DEF SameRoots

\* What a process at work on a row knows.
LEMMA WorkingFacts ==
    ASSUME OrderInv, NEW p \in Proc, st[p].pc \in Working
    PROVE  /\ lock = p /\ st[p].inc = incarnation /\ incarnation # 0 /\ st[p].pc # "off"
           /\ st[p].inc \in hist.hs /\ index.root = st[p].root
           /\ st[p].job \in DOMAIN rows
           /\ rows[st[p].job].state = "running" /\ rows[st[p].job].claim = st[p].inc
           /\ rows[st[p].job].root = st[p].root
           /\ ~HasOwnSlot(st[p])
  <1>0. SessionInv /\ JobInv(p) /\ SlotInv(p)
    BY DEF OrderInv, ProcsInv
  <1>1. st[p].pc \notin NoSession /\ st[p].pc # "won" /\ st[p].pc \notin {"finish", "lead"}
    BY DEF Working, NoSession
  <1>2. st[p].pc \in Reconciled /\ st[p].pc \in Rooted
    BY DEF Working, Reconciled, Rooted
  <1> QED BY <1>0, <1>1, <1>2, InSession, NoOwnSlot DEF JobInv

\* The publication is verified and its completion cached.
LEMMA AttestJobRest ==
    ASSUME OrderInv, TypeOK', NEW p \in Proc, AttestJob(p)
    PROVE  RestInv'
  <1>0. /\ JobInv(p) /\ SlotInv(p) /\ incarnation \in Nat
        /\ st \in [Proc -> Process] /\ st[p] \in Process
    BY DEF OrderInv, ProcsInv, TypeOK
  <1>1. st[p].pc = "attest" /\ Quiet /\ UNCHANGED <<wtx, rootNow>>
    BY DEF AttestJob, Quiet
  <1>2. /\ st[p].inc = incarnation /\ st[p].inc \in hist.hs /\ index.root = st[p].root
        /\ st[p].job \in DOMAIN rows /\ st[p].pc # "off"
        /\ rows[st[p].job].state = "running" /\ rows[st[p].job].claim = st[p].inc
    BY <1>1, WorkingFacts DEF Working
  <1>3. /\ rows[st[p].job].want \in {NoPin, st[p].before}
        /\ index.pin = Next1(st[p].before)
        /\ Pub(st[p].job, st[p].inc, index.pin) \in hist.pubs
    BY <1>0, <1>1 DEF JobInv
  <1>4. /\ st'[p].pc = "finish" /\ st'[p].inc = st[p].inc /\ st'[p].root = st[p].root
        /\ st'[p].slot = [row |-> st[p].job, inc |-> st[p].inc, out |-> Done(index.pin)]
        /\ OnlyProc(p)
    BY <1>0 DEF AttestJob, OnlyProc, Process
  <1>5. JobInv(p)'
    BY <1>1, <1>2, <1>4 DEF JobInv, Rooted, Reconciled, Working, Quiet
  <1>6. SlotInv(p)'
    BY <1>0, <1>1, <1>2, <1>3, <1>4 DEF SlotInv, HasOwnSlot, Quiet, Done
  <1> QED BY <1>1, <1>2, <1>4, <1>5, <1>6, QuietWorking DEF SameRoots

\* The publication fails for good, before its COMMIT or in its attestation.
LEMMA PublishFailedRest ==
    ASSUME OrderInv, TypeOK', NEW p \in Proc, PublishFailed(p)
    PROVE  RestInv'
  <1>0. /\ JobInv(p) /\ SlotInv(p) /\ incarnation \in Nat
        /\ st \in [Proc -> Process] /\ st[p] \in Process
    BY DEF OrderInv, ProcsInv, TypeOK
  <1>1. st[p].pc \in Working /\ Quiet /\ UNCHANGED <<wtx, rootNow>>
    BY DEF PublishFailed, Quiet, Working
  <1>2. /\ st[p].inc = incarnation /\ st[p].inc \in hist.hs /\ index.root = st[p].root
        /\ st[p].job \in DOMAIN rows /\ st[p].pc # "off"
        /\ rows[st[p].job].state = "running" /\ rows[st[p].job].claim = st[p].inc
    BY <1>1, WorkingFacts
  <1>4. /\ st'[p].pc = "finish" /\ st'[p].inc = st[p].inc /\ st'[p].root = st[p].root
        /\ st'[p].slot = [row |-> st[p].job, inc |-> st[p].inc,
                          out |-> Failed("index_failed")]
        /\ OnlyProc(p)
    BY <1>0 DEF PublishFailed, OnlyProc, Process
  <1>5. JobInv(p)'
    BY <1>1, <1>2, <1>4 DEF JobInv, Rooted, Reconciled, Working, Quiet
  <1>6. SlotInv(p)'
    BY <1>0, <1>1, <1>2, <1>4 DEF SlotInv, HasOwnSlot, Quiet, Failed
  <1> QED BY <1>1, <1>2, <1>4, <1>5, <1>6, QuietWorking DEF SameRoots

\* The store is busy at the publication, before or after its COMMIT.
LEMMA PublishBusyRest ==
    ASSUME OrderInv, TypeOK', NEW p \in Proc, PublishBusy(p)
    PROVE  RestInv'
  <1>0. /\ JobInv(p) /\ SlotInv(p) /\ index.pin \in Pins
        /\ st \in [Proc -> Process] /\ st[p] \in Process /\ st[p].before \in Pins
    BY DEF OrderInv, ProcsInv, TypeOK, Process
  <1>1. st[p].pc \in Working /\ Quiet /\ UNCHANGED <<wtx, rootNow>>
        /\ st[p].pc \in {"claimed", "prepared", "attest"}
    BY DEF PublishBusy, Quiet, Working
  <1>2. /\ st[p].inc \in hist.hs /\ index.root = st[p].root /\ ~HasOwnSlot(st[p])
        /\ st[p].job \in DOMAIN rows /\ st[p].pc # "off" /\ rows[st[p].job].root = st[p].root
        /\ rows[st[p].job].state = "running" /\ rows[st[p].job].claim = st[p].inc
    BY <1>1, WorkingFacts
  <1>3. /\ st'[p].pc = "requeue" /\ st'[p].inc = st[p].inc /\ st'[p].root = st[p].root
        /\ st'[p].slot = st[p].slot /\ st'[p].job = st[p].job
        /\ st'[p].before = IF st[p].pc = "claimed" THEN index.pin ELSE st[p].before
        /\ OnlyProc(p)
    BY <1>0 DEF PublishBusy, OnlyProc, Process
  <1>4. index.pin = st'[p].before =>
            \A u \in hist.pubs : ~(u.row = st[p].job /\ u.inc = st[p].inc)
    <2>1. CASE st[p].pc \in {"claimed", "prepared"}
      BY <1>0, <2>1 DEF JobInv
    <2>2. CASE st[p].pc = "attest"
      BY <1>0, <1>3, <2>2, NextPinType DEF JobInv
    <2> QED BY <1>1, <2>1, <2>2
  <1>5. JobInv(p)'
    BY <1>1, <1>2, <1>3, <1>4 DEF JobInv, Rooted, Reconciled, Working, Quiet
  <1>6. SlotInv(p)'
    BY <1>0, <1>1, <1>2, <1>3 DEF SlotInv, HasOwnSlot, Quiet
  <1> QED BY <1>1, <1>2, <1>3, <1>5, <1>6, QuietWorking DEF SameRoots

\* A row is put back while the head is unchanged, else the session is dropped.
LEMMA RequeueRest ==
    ASSUME OrderInv, TypeOK', NEW p \in Proc, Requeue(p)
    PROVE  RestInv'
  <1> DEFINE i == st[p].job
             f == FailChangedRoot(p, st[p].inc)
             a == st[p].acked \/ st[p].cutoff # 0
  <1>0. /\ TypeOK /\ QueueInv /\ JobInv(p) /\ SlotInv(p) /\ incarnation \in Nat
        /\ st \in [Proc -> Process] /\ st[p] \in Process /\ st[p].inc \in Nat /\ a \in BOOLEAN
    BY DEF OrderInv, ProcsInv, TypeOK, Process
  <1>1. st[p].pc = "requeue" /\ Live(p) /\ OnlyRows /\ UNCHANGED <<wtx, rootNow>>
    BY DEF Requeue, OnlyRows
  <1>2. /\ st[p].inc \in hist.hs /\ index.root = st[p].root /\ ~HasOwnSlot(st[p])
        /\ i \in DOMAIN rows /\ st[p].pc # "off" /\ rows[i].root = st[p].root
        /\ rows[i].state = "running" /\ lock = p /\ st[p].inc = incarnation
    BY <1>1, WorkingFacts DEF Working
  <1>3. /\ DOMAIN f = DOMAIN rows
        /\ \A j \in DOMAIN rows : f[j] = rows[j] \/ RootFailed(rows[j], f[j])
        /\ f[i] = rows[i]
    BY <1>0, <1>1, <1>2, ResolvedRows
  <1>4. rows[i] \in Rows
    BY <1>0, <1>2, RowTypes
  <1> HIDE DEF f, a
  <1>5. CASE SameHead(p)
    <2>1. /\ rows' = [f EXCEPT ![i].state = "queued", ![i].claim = 0]
          /\ st' = [st EXCEPT ![p] = EndDrain(p, a, {i})]
      BY <1>5 DEF Requeue, f, a
    <2> DEFINE r == [rows[i] EXCEPT !.state = "queued", !.claim = 0]
    <2>2. r.state = "queued" /\ r.claim = 0 /\ r.err = rows[i].err /\ r.want = rows[i].want
      BY <1>4 DEF Rows
    <2>3. /\ DOMAIN rows' = DOMAIN rows /\ rows'[i] = r
          /\ \A j \in DOMAIN rows : j # i => rows'[j] = f[j]
      BY <1>2, <1>3, <2>1
    <2> HIDE DEF r, i
    <2>4. OthersResolved({i})
      BY <1>3, <2>3 DEF OthersResolved
    <2>5. \A u \in hist.pubs : ~(u.row = i /\ u.inc = incarnation)
      BY <1>0, <1>1, <1>2, <1>5 DEF JobInv, SameHead, i
    <2>6. QueueInv'
      BY <1>0, <1>1, <1>2, <2>2, <2>3, <2>4, <2>5, QueueTouched DEF IsTerminal
    <2>7. Grows
      <3>1. \A j \in DOMAIN rows : j \in DOMAIN rows' /\ rows'[j].want = rows[j].want
        BY <2>2, <2>3, <2>4 DEF OthersResolved, RootFailed
      <3> QED BY <1>0, <1>1, <3>1 DEF Grows, OnlyRows
    <2> DEFINE e == EndDrain(p, a, {i})
    <2>8. /\ e.inc = st[p].inc /\ e.pc \in {"watch", "lead"} /\ e.slot = st[p].slot
          /\ e.root = st[p].root
      BY <1>0, EndDrainFacts, EndDrainKeeps
    <2> HIDE DEF e
    <2>9. st'[p] = e /\ OnlyProc(p)
      BY <1>0, <2>1 DEF OnlyProc, e
    <2>10. Serving(p)
      BY <1>1, <1>2, <2>8, <2>9 DEF Serving, Rooted, Reconciled, Working, OnlyRows
    <2>11. SameRoots(p)
      BY <1>1, <1>2, <2>8, <2>9 DEF SameRoots
    <2> QED BY <1>2, <2>6, <2>7, <2>10, <2>11, Settled
  <1>6. CASE ~SameHead(p)
    <2>1. rows' = f /\ DropRetained(p)
      BY <1>6 DEF Requeue, f
    <2>2. Grows /\ QueueInv'
      BY <1>0, <1>1, <2>1, ResolveGrows DEF f, OnlyRows
    <2>3. Away(p) /\ SameRoots(p)
      BY <1>0, <1>1, <1>2, <2>1, DropRetainedAway DEF SameRoots
    <2> QED BY <1>2, <2>2, <2>3, Settled
  <1> QED BY <1>5, <1>6

\* The terminal write of a cached completion.
LEMMA FinishRowQueue ==
    ASSUME OrderInv, NEW p \in Proc, st[p].pc = "finish", OwnSlot(p), FinishRow(p), OnlyRows
    PROVE  /\ QueueInv' /\ Grows
           /\ st[p].slot.row \in DOMAIN rows /\ IsTerminal(rows'[st[p].slot.row])
  <1> DEFINE i == st[p].slot.row
             out == st[p].slot.out
  <1>0. /\ TypeOK /\ QueueInv /\ SessionInv /\ JobInv(p) /\ SlotInv(p) /\ incarnation \in Nat
        /\ out \in Outcomes
    BY DEF OrderInv, ProcsInv, TypeOK, Process, Slots
  <1>1. /\ i \in DOMAIN rows /\ st[p].slot.inc = st[p].inc
        /\ out.err = "none" =>
            /\ Pub(i, st[p].inc, out.pin) \in hist.pubs
            /\ rows[i].want # NoPin => out.pin = Next1(rows[i].want)
    BY <1>0 DEF SlotInv, OwnSlot
  <1>2. /\ rows[i].state = "running" /\ rows[i].claim = st[p].inc
        /\ out.err = "none" => index.pin = out.pin
        /\ rows' = [rows EXCEPT ![i] = Terminal(@, out)]
    BY DEF FinishRow, HeldByMe
  <1>3. st[p].inc \in hist.hs
    BY <1>0 DEF JobInv, Reconciled
  <1>4. rows[i] \in Rows
    BY <1>0, <1>1, RowTypes
  <1> HIDE DEF i, out
  <1>5. QueueInv'
    BY <1>0, <1>1, <1>2, <1>3, QueueFinished
  <1> DEFINE r == Terminal(rows[i], out)
  <1>6. IsTerminal(r) /\ r.want = rows[i].want
    BY <1>4 DEF Terminal, Rows, IsTerminal
  <1>7. rows'[i] = r /\ DOMAIN rows' = DOMAIN rows
        /\ \A j \in DOMAIN rows : j # i => rows'[j] = rows[j]
    BY <1>1, <1>2
  <1> HIDE DEF r
  <1>8. Grows
    BY <1>0, <1>6, <1>7 DEF Grows, OnlyRows
  <1> QED BY <1>1, <1>5, <1>6, <1>7, <1>8 DEF i

\* The cached completion is written to its row.
LEMMA FinishRest ==
    ASSUME OrderInv, TypeOK', NEW p \in Proc, Finish(p)
    PROVE  RestInv'
  <1>0. /\ TypeOK /\ QueueInv /\ SessionInv /\ JobInv(p)
        /\ st \in [Proc -> Process] /\ incarnation \in Nat
    BY DEF OrderInv, ProcsInv, TypeOK
  <1>1. /\ st[p].pc = "finish" /\ OwnSlot(p) /\ OnlyRows /\ UNCHANGED <<wtx, rootNow>>
        /\ FinishRow(p) \/ rows' = rows
        /\ st' = [st EXCEPT ![p] = Acked(p)]
    BY DEF Finish, OnlyRows
  <1>2. lock = p /\ st[p].pc # "off"
    BY <1>0, <1>1, InSession DEF NoSession
  <1>3. QueueInv' /\ Grows
    <2>1. CASE FinishRow(p)
      BY <1>1, <2>1, FinishRowQueue
    <2>2. CASE rows' = rows
      <3>1. Kept
        BY <1>1, <2>2 DEF Kept, OnlyRows
      <3> QED BY <1>0, <2>2, <3>1, QueueKept, KeptGrows
    <2> QED BY <1>1, <2>1, <2>2
  <1>4. st[p].inc \in hist.hs /\ index.root = st[p].root
    BY <1>0, <1>1 DEF JobInv, Rooted, Reconciled
  <1> DEFINE e == Acked(p)
  <1>5. /\ e.inc = st[p].inc /\ e.pc \in {"watch", "lead", "drain"} /\ e.slot = NoSlot
        /\ e.root = st[p].root
    BY <1>0, AckedFacts, AckedKeeps
  <1> HIDE DEF e
  <1>6. st'[p] = e /\ OnlyProc(p)
    BY <1>0, <1>1 DEF OnlyProc, e
  <1>7. Serving(p)
    BY <1>1, <1>4, <1>5, <1>6 DEF Serving, Rooted, Reconciled, Working, OnlyRows
  <1>8. SameRoots(p)
    BY <1>1, <1>2, <1>5, <1>6 DEF SameRoots
  <1> QED BY <1>2, <1>3, <1>7, <1>8, Settled

\* The terminal write fails, before or after its COMMIT.
LEMMA FinishBusyRest ==
    ASSUME OrderInv, TypeOK', NEW p \in Proc, FinishBusy(p)
    PROVE  RestInv'
  <1>0. /\ TypeOK /\ QueueInv /\ SessionInv /\ JobInv(p) /\ SlotInv(p)
        /\ st \in [Proc -> Process] /\ incarnation \in Nat
    BY DEF OrderInv, ProcsInv, TypeOK
  <1>1. /\ st[p].pc = "finish" /\ OwnSlot(p) /\ OnlyRows /\ UNCHANGED <<wtx, rootNow>>
        /\ FinishRow(p) \/ rows' = rows
    BY DEF FinishBusy, OnlyRows
  <1>2. lock = p /\ st[p].pc # "off"
    BY <1>0, <1>1, InSession DEF NoSession
  <1>3. QueueInv' /\ Grows
    <2>1. CASE FinishRow(p)
      BY <1>1, <2>1, FinishRowQueue
    <2>2. CASE rows' = rows
      <3>1. Kept
        BY <1>1, <2>2 DEF Kept, OnlyRows
      <3> QED BY <1>0, <2>2, <3>1, QueueKept, KeptGrows
    <2> QED BY <1>1, <2>1, <2>2
  <1>4. CASE st[p].cutoff = 0
    <2> DEFINE e == KeepForRetry(p)
    <2>1. /\ e.inc = st[p].inc /\ e.pc = "lead" /\ e.slot = st[p].slot
          /\ e.root = st[p].root
      BY <1>0, KeepFacts, KeepKeeps
    <2>2. st' = [st EXCEPT ![p] = e]
      BY <1>4 DEF FinishBusy
    <2> HIDE DEF e
    <2>3. st'[p] = e /\ OnlyProc(p)
      BY <1>0, <2>2 DEF OnlyProc
    <2>4. SameRoots(p)
      BY <1>1, <1>2, <2>1, <2>3 DEF SameRoots
    <2>5. JobInv(p)'
      BY <1>0, <1>1, <2>1, <2>3 DEF JobInv, Rooted, Reconciled, Working, OnlyRows
    <2>6. SlotInv(p)'
      <3>1. CASE FinishRow(p)
        <4>1. st[p].slot.row \in DOMAIN rows /\ IsTerminal(rows'[st[p].slot.row])
          BY <1>1, <3>1, FinishRowQueue
        <4> QED
          BY <1>0, <1>1, <1>3, <2>1, <2>3, <4>1
             DEF SlotInv, HasOwnSlot, OnlyRows, Grows, IsTerminal
      <3>2. CASE rows' = rows
        BY <1>0, <1>1, <2>1, <2>3, <3>2 DEF SlotInv, HasOwnSlot, OnlyRows
      <3> QED BY <1>1, <3>1, <3>2
    <2> QED BY <1>2, <1>3, <2>4, <2>5, <2>6, LeaderWorking
  <1>5. CASE st[p].cutoff # 0
    <2>1. DropRetained(p)
      BY <1>5 DEF FinishBusy
    <2>2. Away(p) /\ SameRoots(p)
      BY <1>0, <1>1, <1>2, <2>1, DropRetainedAway DEF SameRoots
    <2> QED BY <1>2, <1>3, <2>2, Settled
  <1> QED BY <1>4, <1>5

-----------------------------------------------------------------------------
(* Every step *)

\* After the watcher's work the session is idle or gone.
LEMMA AfterWatchSettles ==
    ASSUME OrderInv, NEW p \in Proc, st[p].pc = "watch", AfterWatch(p),
           hist' = hist, index'.root = index.root, UNCHANGED <<wtx, rootNow>>
    PROVE  SameRoots(p) /\ (Away(p) \/ Serving(p))
  <1>0. TypeOK /\ JobInv(p) /\ SlotInv(p) /\ st \in [Proc -> Process] /\ st[p] \in Process
    BY DEF OrderInv, ProcsInv, TypeOK
  <1>1. CASE st[p].cutoff # 0 /\ st[p].acked
    <2>1. DropRetained(p)
      BY <1>1 DEF AfterWatch
    <2> QED BY <1>0, <2>1, DropRetainedAway DEF SameRoots
  <1>2. CASE ~(st[p].cutoff # 0 /\ st[p].acked)
    <2>1. /\ st'[p].pc = "lead" /\ st'[p].inc = st[p].inc /\ st'[p].slot = st[p].slot
          /\ st'[p].root = st[p].root /\ OnlyProc(p)
      BY <1>0, <1>2 DEF AfterWatch, OnlyProc, Process
    <2>2. ~HasOwnSlot(st[p])
      BY <1>0, NoOwnSlot
    <2>3. st[p].inc \in hist.hs /\ index.root = st[p].root
      BY <1>0 DEF JobInv, Rooted, Reconciled
    <2>4. Serving(p)
      BY <2>1, <2>2, <2>3 DEF Serving, Rooted, Reconciled, Working
    <2> QED BY <2>1, <2>4 DEF SameRoots
  <1> QED BY <1>1, <1>2

\* Every step preserves the invariant, one action at a time.
LEMMA RestStep ==
    ASSUME OrderInv, TypeOK', [Next]_vars
    PROVE  RestInv'
  <1>st. st \in [Proc -> Process] /\ \A p \in Proc : st[p] \in Process
    BY DEF OrderInv, TypeOK
  <1>inv. /\ TypeOK /\ SessionInv /\ QueueInv /\ ProcsInv /\ RootsInv
          /\ \A p \in Proc : JobInv(p) /\ SlotInv(p)
    BY DEF OrderInv, ProcsInv
  <1>nat. /\ incarnation \in Nat /\ \A p \in Proc : st[p].inc \in Nat
          /\ index \in [pin : Pins, marker : Nat, root : Nat] /\ index.pin \in Pins
          /\ hist \in [pubs : SUBSET [row : Nat, inc : Nat, pin : Pins], hs : SUBSET Nat]
    BY <1>st DEF OrderInv, TypeOK, Process
  <1>1. ASSUME NEW p \in Proc, Start(p) PROVE RestInv'
    <2>1. Quiet /\ rootNow' = rootNow /\ wtx' \in {wtx, NoTx}
      BY <1>1 DEF Start, Quiet
    <2>2. OnlyProc(p) /\ Away(p) /\ SameRoots(p)
      BY <1>st, <1>inv, <1>1, <2>1
         DEF Start, OnlyProc, Away, SameRoots, SessionInv, NoSession, Process, Off
    <2> QED BY <2>1, <2>2, QuietSettled
  <1>2. ASSUME NEW p \in Proc, Crash(p) PROVE RestInv'
    <2>1. Quiet /\ rootNow' = rootNow /\ wtx' \in {wtx, NoTx}
      BY <1>2 DEF Crash, Quiet
    <2>2. OnlyProc(p) /\ Away(p) /\ SameRoots(p)
      BY <1>st, <1>inv, <1>2, <2>1
         DEF Crash, OnlyProc, Away, SameRoots, SessionInv, NoSession, Process, Off
    <2> QED BY <2>1, <2>2, QuietSettled
  <1>3. ASSUME NEW p \in Proc, Follow(p) PROVE RestInv'
    <2>1. Quiet /\ rootNow' = rootNow /\ wtx' \in {wtx, NoTx}
      BY <1>3 DEF Follow, Quiet
    <2>2. OnlyProc(p) /\ Away(p) /\ SameRoots(p)
      BY <1>st, <1>inv, <1>3, <2>1
         DEF Follow, OnlyProc, Away, SameRoots, SessionInv, NoSession, Process, Off
    <2> QED BY <2>1, <2>2, QuietSettled
  <1>4. ASSUME NEW p \in Proc, FollowRefused(p) PROVE RestInv'
    <2>1. Quiet /\ rootNow' = rootNow /\ wtx' \in {wtx, NoTx}
      BY <1>4 DEF FollowRefused, Quiet
    <2>2. OnlyProc(p) /\ Away(p) /\ SameRoots(p)
      BY <1>st, <1>inv, <1>4, <2>1
         DEF FollowRefused, OnlyProc, Away, SameRoots, SessionInv, NoSession, Process, Off
    <2> QED BY <2>1, <2>2, QuietSettled
  <1>5. ASSUME NEW p \in Proc, CliExit(p) PROVE RestInv'
    <2>1. Quiet /\ rootNow' = rootNow /\ wtx' \in {wtx, NoTx}
      BY <1>5 DEF CliExit, Quiet
    <2>2. OnlyProc(p) /\ Away(p) /\ SameRoots(p)
      BY <1>st, <1>inv, <1>5, <2>1
         DEF CliExit, OnlyProc, Away, SameRoots, SessionInv, NoSession, Process, Off
    <2> QED BY <2>1, <2>2, QuietSettled
  <1>6. ASSUME NEW p \in Proc, FollowerRootLoss(p) PROVE RestInv'
    <2>1. Quiet /\ rootNow' = rootNow /\ wtx' \in {wtx, NoTx}
      BY <1>6 DEF FollowerRootLoss, Quiet
    <2>2. OnlyProc(p) /\ Away(p) /\ SameRoots(p)
      BY <1>st, <1>inv, <1>6, <2>1
         DEF FollowerRootLoss, OnlyProc, Away, SameRoots, SessionInv, NoSession, Process, Off
    <2> QED BY <2>1, <2>2, QuietSettled
  <1>7. ASSUME NEW p \in Proc, Reopen(p) PROVE RestInv'
    <2>1. Quiet /\ rootNow' = rootNow /\ wtx' \in {wtx, NoTx}
      BY <1>7 DEF Reopen, Quiet
    <2>2. OnlyProc(p) /\ Away(p) /\ SameRoots(p)
      BY <1>st, <1>inv, <1>7, <2>1
         DEF Reopen, OnlyProc, Away, SameRoots, SessionInv, NoSession, Process, Off
    <2> QED BY <2>1, <2>2, QuietSettled
  <1>8. ASSUME NEW p \in Proc, TakeLock(p) PROVE RestInv'
    <2>1. Quiet /\ rootNow' = rootNow /\ wtx' \in {wtx, NoTx}
      BY <1>8 DEF TakeLock, Quiet
    <2>2. OnlyProc(p) /\ Away(p) /\ SameRoots(p)
      BY <1>st, <1>inv, <1>8, <2>1
         DEF TakeLock, OnlyProc, Away, SameRoots, SessionInv, NoSession, Process, Off
    <2> QED BY <2>1, <2>2, QuietSettled
  <1>9. ASSUME NEW p \in Proc, RecreateDefer(p) PROVE RestInv'
    <2>1. Quiet /\ rootNow' = rootNow /\ wtx' \in {wtx, NoTx}
      BY <1>9 DEF RecreateDefer, Quiet
    <2>2. OnlyProc(p) /\ Away(p) /\ SameRoots(p)
      BY <1>st, <1>inv, <1>9, <2>1
         DEF RecreateDefer, OnlyProc, Away, SameRoots, SessionInv, NoSession, Process, Off, Back
    <2> QED BY <2>1, <2>2, QuietSettled
  <1>10. ASSUME NEW p \in Proc, ClaimForeign(p) PROVE RestInv'
    <2>1. Quiet /\ rootNow' = rootNow /\ wtx' = wtx /\ st[p].pc # "off"
      BY <1>10 DEF ClaimForeign, Quiet
    <2>2. Away(p) /\ SameRoots(p)
      BY <1>inv, <1>10, <2>1, DropRetainedAway DEF ClaimForeign, SameRoots
    <2> QED BY <2>1, <2>2, QuietSettled
  <1>11. ASSUME NEW p \in Proc, DrainFault(p) PROVE RestInv'
    <2>1. Quiet /\ rootNow' = rootNow /\ wtx' = wtx /\ st[p].pc # "off"
      BY <1>11 DEF DrainFault, Quiet
    <2>2. Away(p) /\ SameRoots(p)
      BY <1>inv, <1>11, <2>1, DropRetainedAway DEF DrainFault, SameRoots
    <2> QED BY <2>1, <2>2, QuietSettled
  <1>12. ASSUME NEW p \in Proc, RootError(p) PROVE RestInv'
    <2>1. Quiet /\ rootNow' = rootNow /\ wtx' = wtx /\ st[p].pc # "off"
      BY <1>12 DEF RootError, Quiet, Electing, Draining
    <2>2. Away(p) /\ SameRoots(p)
      BY <1>inv, <1>12, <2>1, DropElectedAway, DropRetainedAway DEF RootError, SameRoots
    <2> QED BY <2>1, <2>2, QuietSettled
  <1>13. ASSUME NEW p \in Proc, ElectionFault(p) PROVE RestInv'
    <2>1. Quiet /\ rootNow' = rootNow /\ wtx' = wtx /\ st[p].pc # "off"
      BY <1>13 DEF ElectionFault, Quiet
    <2>2. CASE DropElected(p)
      <3>1. Away(p) /\ SameRoots(p)
        BY <1>inv, <2>1, <2>2, DropElectedAway DEF SameRoots
      <3> QED BY <2>1, <3>1, QuietSettled
    <2>3. CASE st' = [st EXCEPT ![p].pc = "idle", ![p].inc = 0]
      <3>1. Away(p) /\ SameRoots(p)
        BY <1>st, <2>1, <2>3 DEF SameRoots, Away, OnlyProc, NoSession, Process
      <3> QED BY <2>1, <3>1, QuietSettled
    <2> QED BY <1>13, <2>2, <2>3 DEF ElectionFault
  <1>14. ASSUME NEW p \in Proc, CliRelease(p) PROVE RestInv'
    <2>1. Quiet /\ rootNow' = rootNow /\ wtx' = wtx /\ st[p].pc = "lead" /\ ~OwnSlot(p)
      BY <1>14 DEF CliRelease, Quiet
    <2>2. CASE DropRetained(p)
      <3>1. Away(p) /\ SameRoots(p)
        BY <1>inv, <2>1, <2>2, DropRetainedAway DEF SameRoots
      <3> QED BY <2>1, <3>1, QuietSettled
    <2>3. CASE st' = [st EXCEPT ![p].pc = "watch", ![p].acked = FALSE, ![p].cutoff = Len(rows)]
      <3>1. /\ st'[p].pc = "watch" /\ st'[p].inc = st[p].inc /\ st'[p].slot = st[p].slot
            /\ st'[p].root = st[p].root /\ OnlyProc(p)
        BY <1>st, <2>3 DEF OnlyProc, Process
      <3>2. st[p].inc \in hist.hs /\ index.root = st[p].root
        BY <1>inv, <2>1 DEF JobInv, Rooted, Reconciled
      <3>3. Serving(p) /\ SameRoots(p)
        BY <2>1, <3>1, <3>2
           DEF Serving, Rooted, Reconciled, Working, HasOwnSlot, OwnSlot, Quiet, SameRoots
      <3> QED BY <2>1, <3>3, QuietSettled
    <2> QED BY <1>14, <2>2, <2>3 DEF CliRelease
  <1>15. ASSUME NEW p \in Proc, AttestH(p) PROVE RestInv'
    <2>1. Quiet /\ rootNow' = rootNow /\ wtx' = wtx /\ st[p].pc = "attestH"
      BY <1>15 DEF AttestH, Quiet
    <2>2. /\ st'[p].pc = "lead" /\ st'[p].inc = st[p].inc /\ st'[p].slot = st[p].slot
          /\ st'[p].root = st[p].root /\ OnlyProc(p)
      BY <1>st, <1>15 DEF AttestH, OnlyProc, Process
    <2>3. st[p].inc \in hist.hs /\ index.root = st[p].root /\ ~HasOwnSlot(st[p])
      BY <1>inv, <2>1, NoOwnSlot DEF JobInv, Rooted, Reconciled
    <2>4. Serving(p) /\ SameRoots(p)
      BY <2>1, <2>2, <2>3 DEF Serving, Rooted, Reconciled, Working, Quiet, SameRoots
    <2> QED BY <2>1, <2>4, QuietSettled
  <1>16. ASSUME NEW p \in Proc, ClaimNone(p) PROVE RestInv'
    <2> DEFINE e == EndDrain(p, st[p].acked \/ st[p].cutoff # 0, Unfinished)
    <2>1. Quiet /\ rootNow' = rootNow /\ wtx' = wtx /\ st[p].pc = "drain"
          /\ st' = [st EXCEPT ![p] = e]
      BY <1>16 DEF ClaimNone, Quiet
    <2>2. (st[p].acked \/ st[p].cutoff # 0) \in BOOLEAN
      BY <1>st DEF Process
    <2>3. /\ e.pc \in {"watch", "lead"} /\ e.inc = st[p].inc /\ e.slot = st[p].slot
          /\ e.root = st[p].root
      BY <1>inv, <2>2, EndDrainFacts, EndDrainKeeps
    <2> HIDE DEF e
    <2>4. st'[p] = e /\ OnlyProc(p)
      BY <1>st, <2>1 DEF OnlyProc
    <2>5. st[p].inc \in hist.hs /\ index.root = st[p].root /\ ~HasOwnSlot(st[p])
      BY <1>inv, <2>1, NoOwnSlot DEF JobInv, Rooted, Reconciled
    <2>6. Serving(p) /\ SameRoots(p)
      BY <2>1, <2>3, <2>4, <2>5 DEF Serving, Rooted, Reconciled, Working, Quiet, SameRoots
    <2> QED BY <2>1, <2>6, QuietSettled
  <1>17. ASSUME NEW p \in Proc, WatchIdle(p) PROVE RestInv'
    <2>1. Quiet /\ SameRoots(p) /\ (Away(p) \/ Serving(p))
      BY <1>17, AfterWatchSettles DEF WatchIdle, Quiet
    <2> QED BY <2>1, QuietSettled
  <1>18. ASSUME NEW p \in Proc, WatchPublish(p) PROVE RestInv'
    <2>1. /\ rows' = rows /\ incarnation' = incarnation /\ hist' = hist /\ st[p].pc = "watch"
          /\ UNCHANGED <<wtx, rootNow>> /\ AfterWatch(p) /\ Publish(p)
      BY <1>18 DEF WatchPublish
    <2>2. index'.root = index.root /\ AtLeast(index'.pin, index.pin)
      BY <1>nat, <2>1, PinOrder DEF Publish
    <2>3. QueueInv'
      BY <1>inv, <2>1, <2>2, QueueHeadAdvanced
    <2>4. Grows /\ lock = p
      BY <1>inv, <1>nat, <2>1, InSession DEF Grows, NoSession
    <2>5. SameRoots(p) /\ (Away(p) \/ Serving(p))
      BY <2>1, <2>2, AfterWatchSettles
    <2> QED BY <2>3, <2>4, <2>5, Settled
  <1>19. ASSUME NEW p \in Proc, CommitH(p) PROVE RestInv'
    <2>1. /\ rows' = rows /\ incarnation' = incarnation /\ st[p].pc = "h"
          /\ UNCHANGED <<wtx, rootNow>> /\ Publish(p)
          /\ hist' = [hist EXCEPT !.hs = @ \cup {st[p].inc}]
      BY <1>19 DEF CommitH
    <2>2. index'.root = index.root /\ AtLeast(index'.pin, index.pin)
      BY <1>nat, <2>1, PinOrder DEF Publish
    <2>3. hist'.pubs = hist.pubs /\ hist'.hs = hist.hs \cup {st[p].inc}
      BY <1>nat, <2>1
    <2>4. QueueInv'
      BY <1>inv, <2>1, <2>2, <2>3, QueueHeadAdvanced
    <2>5. Grows /\ lock = p
      BY <1>inv, <1>nat, <2>1, <2>3, InSession DEF Grows, NoSession
    <2>6. /\ st'[p].pc = "attestH" /\ st'[p].inc = st[p].inc /\ st'[p].slot = st[p].slot
          /\ st'[p].root = st[p].root /\ OnlyProc(p)
      BY <1>st, <1>19 DEF CommitH, OnlyProc, Process
    <2>7. index.root = st[p].root /\ ~HasOwnSlot(st[p])
      BY <1>inv, <2>1, NoOwnSlot DEF JobInv, Rooted
    <2>8. Serving(p) /\ SameRoots(p)
      BY <2>1, <2>2, <2>3, <2>6, <2>7 DEF Serving, Rooted, Reconciled, Working, SameRoots
    <2> QED BY <2>4, <2>5, <2>8, Settled
  <1>20. ASSUME NEW p \in Proc, AmbiguousH(p) PROVE RestInv'
    <2>1. /\ rows' = rows /\ incarnation' = incarnation /\ st[p].pc = "h"
          /\ UNCHANGED <<wtx, rootNow>> /\ Publish(p) /\ DropElected(p)
          /\ hist' = [hist EXCEPT !.hs = @ \cup {st[p].inc}]
      BY <1>20 DEF AmbiguousH
    <2>2. AtLeast(index'.pin, index.pin)
      BY <1>nat, <2>1, PinOrder DEF Publish
    <2>3. hist'.pubs = hist.pubs /\ hist'.hs = hist.hs \cup {st[p].inc}
      BY <1>nat, <2>1
    <2>4. QueueInv'
      BY <1>inv, <2>1, <2>2, <2>3, QueueHeadAdvanced
    <2>5. Grows /\ lock = p
      BY <1>inv, <1>nat, <2>1, <2>3, InSession DEF Grows, NoSession
    <2>6. Away(p) /\ SameRoots(p)
      BY <1>inv, <2>1, DropElectedAway DEF SameRoots
    <2> QED BY <2>4, <2>5, <2>6, Settled
  <1>21. ASSUME NEW p \in Proc, Rebind(p) PROVE RestInv'
    <2>1. /\ rows' = rows /\ incarnation' = incarnation /\ hist' = hist /\ st[p].pc = "elected"
          /\ UNCHANGED <<wtx, rootNow>> /\ index.root = st[p].root
      BY <1>21 DEF Rebind, IndexOpen
    <2>2. index'.pin = index.pin /\ index'.root = index.root
      BY <1>nat, <1>21 DEF Rebind
    <2>3. Kept
      BY <2>1, <2>2 DEF Kept
    <2>4. QueueInv'
      BY <1>inv, <2>1, <2>3, QueueKept
    <2>5. /\ st'[p].pc = "rebound" /\ st'[p].inc = st[p].inc /\ st'[p].slot = st[p].slot
          /\ st'[p].root = st[p].root /\ OnlyProc(p)
      BY <1>st, <1>21 DEF Rebind, OnlyProc, Process
    <2>6. ~HasOwnSlot(st[p])
      BY <1>inv, <2>1, NoOwnSlot
    <2>7. Serving(p) /\ SameRoots(p)
      BY <2>1, <2>2, <2>5, <2>6 DEF Serving, Rooted, Reconciled, Working, SameRoots
    <2> QED BY <2>3, <2>4, <2>7, Settled
  <1>22. ASSUME NEW p \in Proc, ResolveRoots(p) PROVE RestInv'
    <2>1. /\ rows' = FailChangedRoot(p, st[p].inc) /\ st[p].pc = "rebound"
          /\ UNCHANGED <<incarnation, index, hist, wtx, rootNow>>
      BY <1>22 DEF ResolveRoots
    <2>2. Grows /\ QueueInv'
      BY <1>inv, <1>nat, <2>1, ResolveGrows
    <2>3. lock = p
      BY <1>inv, <2>1, InSession DEF NoSession
    <2>4. /\ st'[p].pc = "h" /\ st'[p].inc = st[p].inc /\ st'[p].slot = st[p].slot
          /\ st'[p].root = st[p].root /\ OnlyProc(p)
      BY <1>st, <1>22 DEF ResolveRoots, OnlyProc, Process
    <2>5. ~HasOwnSlot(st[p]) /\ index.root = st[p].root
      BY <1>inv, <2>1, NoOwnSlot DEF JobInv, Rooted
    <2>6. Serving(p) /\ SameRoots(p)
      BY <2>1, <2>4, <2>5 DEF Serving, Rooted, Reconciled, Working, SameRoots
    <2> QED BY <2>2, <2>3, <2>6, Settled
  <1>23. ASSUME NEW p \in Proc, WriteIncarnation(p) PROVE RestInv'
    <2>1. /\ rows' = rows /\ index' = index /\ hist' = hist /\ incarnation' = incarnation + 1
          /\ UNCHANGED <<wtx, rootNow>> /\ st[p].pc = "won"
      BY <1>23 DEF WriteIncarnation
    <2>2. QueueInv' /\ Grows
      BY <1>inv, <1>nat, <2>1, QueueNewIncarnation DEF Grows
    <2>3. lock = p
      BY <1>inv, <2>1, InSession DEF NoSession
    <2>4. Away(p) /\ SameRoots(p)
      BY <1>st, <1>nat, <1>23, <2>1
         DEF WriteIncarnation, Away, SameRoots, OnlyProc, Process
    <2> QED BY <2>2, <2>3, <2>4, Settled
  <1>24. ASSUME NEW p \in Proc, RecreateTake(p) PROVE RestInv'
    <2>1. /\ rows' = rows /\ index' = index /\ hist' = hist /\ incarnation' = incarnation + 1
          /\ UNCHANGED <<wtx, rootNow>> /\ st[p].pc = "recreate" /\ lock = None
      BY <1>24 DEF RecreateTake, FlockFree
    <2>2. QueueInv' /\ Grows
      BY <1>inv, <1>nat, <2>1, QueueNewIncarnation DEF Grows
    <2>3. Away(p) /\ SameRoots(p)
      BY <1>st, <1>nat, <1>24, <2>1
         DEF RecreateTake, Away, SameRoots, OnlyProc, Process
    <2> QED BY <2>1, <2>2, <2>3, Settled
  <1>25. ASSUME NEW p \in Proc, RecreateFail(p) PROVE RestInv'
    <2>1. /\ rows' = FailChangedRoot(p, incarnation + 1) /\ index' = index /\ hist' = hist
          /\ incarnation' = incarnation + 1 /\ lock = None /\ st[p].pc \in {"start", "idle"}
          /\ UNCHANGED <<wtx, rootNow>>
      BY <1>25 DEF RecreateFail, FlockFree
    <2>2. incarnation + 1 \in Nat /\ st[p].inc = 0
      BY <1>inv, <1>nat, <2>1 DEF SessionInv, NoSession
    <2>3. QueueInv' /\ Grows
      BY <1>inv, <2>1, <2>2, ResolveGrows
    <2>4. Away(p) /\ SameRoots(p)
      BY <1>st, <1>25, <2>1, <2>2
         DEF RecreateFail, Away, SameRoots, OnlyProc, Process, NoSession
    <2> QED BY <2>1, <2>3, <2>4, Settled
  <1>26. ASSUME NEW p \in Proc, RootLoss(p) PROVE RestInv'
    <2>1. /\ rows' = FailChangedRoot(p, st[p].inc) /\ index' = index /\ hist' = hist
          /\ incarnation' = incarnation /\ UNCHANGED <<wtx, rootNow>>
          /\ DropElected(p) \/ DropRetained(p)
      BY <1>26 DEF RootLoss
    <2>2. st[p].pc \notin NoSession
      BY <1>26 DEF RootLoss, Leased, Electing, Draining, NoSession
    <2>3. lock = p /\ st[p].pc # "off"
      BY <1>inv, <2>2, InSession
    <2>4. QueueInv' /\ Grows
      BY <1>inv, <1>nat, <2>1, ResolveGrows
    <2>5. Away(p) /\ SameRoots(p)
      BY <1>inv, <2>1, <2>3, DropElectedAway, DropRetainedAway DEF SameRoots
    <2> QED BY <2>3, <2>4, <2>5, Settled
  <1>27. ASSUME NEW p \in Proc, Swap(p) PROVE RestInv'
    <2>1. /\ rows' = rows /\ incarnation' = incarnation /\ st[p].pc = "swap"
          /\ UNCHANGED <<wtx, rootNow>>
          /\ index' = [pin |-> FreshHead, marker |-> st[p].inc, root |-> st[p].root]
          /\ hist' = [hist EXCEPT !.hs = @ \cup {st[p].inc}]
      BY <1>27 DEF Swap
    <2>2. index'.root = st[p].root /\ AtLeast(index'.pin, index.pin)
      BY <1>nat, <2>1 DEF FreshHead, AtLeast, Pins
    <2>3. hist'.pubs = hist.pubs /\ hist'.hs = hist.hs \cup {st[p].inc}
      BY <1>nat, <2>1
    <2>4. QueueInv'
      BY <1>inv, <2>1, <2>2, <2>3, QueueHeadAdvanced
    <2>5. Grows /\ lock = p
      BY <1>inv, <1>nat, <2>1, <2>3, InSession DEF Grows, NoSession
    <2>6. /\ st'[p].pc = "attestH" /\ st'[p].inc = st[p].inc /\ st'[p].slot = st[p].slot
          /\ st'[p].root = st[p].root /\ OnlyProc(p)
      BY <1>st, <1>27 DEF Swap, OnlyProc, Process
    <2>7. ~HasOwnSlot(st[p])
      BY <1>inv, <2>1, NoOwnSlot
    <2>8. Serving(p) /\ SameRoots(p)
      BY <2>1, <2>2, <2>3, <2>6, <2>7 DEF Serving, Rooted, Reconciled, Working, SameRoots
    <2> QED BY <2>4, <2>5, <2>8, Settled
  <1>28. ASSUME MoveRoot PROVE RestInv'
    <2>1. Quiet /\ st' = st /\ wtx' = wtx /\ rootNow' \in 1..MaxRoots
      BY <1>28 DEF MoveRoot, Quiet
    <2>2. QueueInv' /\ Kept
      BY <1>inv, <2>1, QuietKept, QueueKept DEF Quiet
    <2>3. ProcsInv'
      BY <1>inv, <2>1, <2>2, KeptProc DEF ProcsInv, SameWork
    <2>4. RootsInv'
      BY <1>inv, <2>1 DEF RootsInv
    <2> QED BY <2>2, <2>3, <2>4 DEF RestInv
  <1>29. ASSUME NEW p \in Proc, PhaseRefresh(p) PROVE RestInv'
    <2>1. Quiet /\ st' = st /\ wtx' = wtx /\ rootNow' = rootNow
      BY <1>29 DEF PhaseRefresh, Quiet
    <2>2. QueueInv' /\ Kept
      BY <1>inv, <2>1, QuietKept, QueueKept DEF Quiet
    <2>3. ProcsInv'
      BY <1>inv, <2>1, <2>2, KeptProc DEF ProcsInv, SameWork
    <2>4. RootsInv'
      BY <1>inv, <2>1 DEF RootsInv
    <2> QED BY <2>2, <2>3, <2>4 DEF RestInv
  <1>30. ASSUME UNCHANGED vars PROVE RestInv'
    <2>1. Quiet /\ st' = st /\ wtx' = wtx /\ rootNow' = rootNow
      BY <1>30 DEF vars, Quiet
    <2>2. QueueInv' /\ Kept
      BY <1>inv, <2>1, QuietKept, QueueKept DEF Quiet
    <2>3. ProcsInv'
      BY <1>inv, <2>1, <2>2, KeptProc DEF ProcsInv, SameWork
    <2>4. RootsInv'
      BY <1>inv, <2>1 DEF RootsInv
    <2> QED BY <2>2, <2>3, <2>4 DEF RestInv
  <1>31. ASSUME NEW p \in Proc, EnqueueBegin(p) PROVE RestInv'
    <2>1. Quiet /\ rootNow' = rootNow
      BY <1>31 DEF EnqueueBegin, Quiet
    <2>2. QueueInv' /\ Kept
      BY <1>inv, <2>1, QuietKept, QueueKept DEF Quiet
    <2>3. CASE p \in Daemons /\ st[p].pc # "off" /\ st' = st /\ wtx'.root = st[p].root
      <3>1. ProcsInv'
        BY <1>inv, <2>2, <2>3, KeptProc DEF ProcsInv, SameWork
      <3>2. RootsInv'
        BY <1>inv, <2>1, <2>3 DEF RootsInv
      <3> QED BY <2>2, <3>1, <3>2 DEF RestInv
    <2>4. CASE /\ st[p].pc = "off" /\ wtx'.root = rootNow
               /\ st' = [st EXCEPT ![p] = [Off EXCEPT !.pc = "enq", !.root = rootNow]]
      <3>1. OnlyProc(p) /\ Away(p) /\ st'[p].root = rootNow
        BY <1>st, <2>4 DEF OnlyProc, Away, NoSession, Off
      <3>2. JobInv(p)' /\ SlotInv(p)'
        BY <1>inv, <2>2, <3>1, AwayProc, KeptGrows
      <3>3. ProcsInv'
        BY <1>inv, <2>2, <3>1, <3>2, KeptProcs
      <3>4. RootsInv'
        BY <1>inv, <2>1, <2>4, <3>1 DEF RootsInv, OnlyProc
      <3> QED BY <2>2, <3>3, <3>4 DEF RestInv
    <2> QED BY <1>31, <2>3, <2>4 DEF EnqueueBegin
  <1>32. ASSUME NEW p \in Proc, EnqueueEnd(p) PROVE RestInv'
    <2>1. /\ rows' = Append(rows, NewRow(wtx)) /\ wtx' = NoTx /\ rootNow' = rootNow /\ OnlyRows
          /\ wtx.by = p
      BY <1>32 DEF EnqueueEnd, EnqueueCommit, EnqueueLost, OnlyRows
    <2> DEFINE r == NewRow(wtx)
    <2>2. r \in Rows /\ r.state = "queued" /\ r.claim = 0 /\ r.err = "none"
      BY <1>inv, NoPinType DEF TypeOK, Txs, NewRow, Rows, RowStates, Errors
    <2> HIDE DEF r
    <2>3. QueueInv' /\ Kept
      BY <1>inv, <2>1, <2>2, QueueAppended DEF r
    <2>4. OnlyProc(p) /\ (SameWork(p) \/ (Away(p) /\ st[p].pc = "enq"))
      BY <1>st, <1>inv, <1>32
         DEF EnqueueEnd, EnqueueCommit, EnqueueLost, OnlyProc, SameWork, Away, NoSession,
             SessionInv, Process, Off
    <2>5. JobInv(p)' /\ SlotInv(p)'
      BY <1>inv, <2>3, <2>4, KeptProc, AwayProc, KeptGrows
    <2>6. ProcsInv'
      BY <1>inv, <2>3, <2>4, <2>5, KeptProcs
    <2>7. st'[p].pc = "off" \/ (st[p].pc # "off" /\ st'[p].root = st[p].root)
      BY <1>st, <1>32 DEF EnqueueEnd, EnqueueCommit, EnqueueLost, Process, Off
    <2>8. RootsInv'
      BY <1>inv, <2>1, <2>4, <2>7, RootsKept DEF SameRoots
    <2> QED BY <2>3, <2>6, <2>8 DEF RestInv
  <1> QED
    BY <1>1, <1>2, <1>3, <1>4, <1>5, <1>6, <1>7, <1>8, <1>9, <1>10, <1>11, <1>12,
       <1>13, <1>14, <1>15, <1>16, <1>17, <1>18, <1>19, <1>20, <1>21, <1>22, <1>23,
       <1>24, <1>25, <1>26, <1>27, <1>28, <1>29, <1>30, <1>31, <1>32,
       DrainStartRest, ClaimRest, PrepareRest, PublishCommitRest, AttestJobRest,
       PublishFailedRest, PublishBusyRest, RequeueRest, FinishRest, FinishBusyRest
       DEF Next, Step, Faulty, Elect, Drain, RootChange

\* An empty queue and processes that are off satisfy the invariant.
LEMMA RestInit == Init => RestInv
  <1> SUFFICES ASSUME Init PROVE RestInv
    OBVIOUS
  <1>0. TypeOK
    BY InvInit
  <1>1. DOMAIN rows = {} /\ hist.pubs = {} /\ incarnation = 0 /\ wtx.by = None /\ rootNow = 1
    BY <1>0, LenProperties, EmptySeq DEF Init, NoTx
  <1>2. \A p \in Proc : st[p] = Off
    BY DEF Init
  <1>3. QueueInv
    BY <1>1 DEF QueueInv, PubsInv, FifoOrder, ClaimAfterH, OnePublication, DoneOwnPublication,
                AckedPinsGrow, ExpectedHonoured
  <1>4. ProcsInv
    BY <1>1, <1>2 DEF ProcsInv, JobInv, SlotInv, HasOwnSlot, Off, NoSlot, Rooted, Reconciled,
                      Working
  <1>5. RootsInv
    BY <1>1, <1>2, BoundAssumption, ProcAssumption DEF RootsInv, Off
  <1> QED BY <1>3, <1>4, <1>5 DEF RestInv

\* The invariant of every reachable state.
THEOREM QueueOrderInvariant == Spec => []OrderInv
  <1>1. Init => OrderInv
    BY InvInit, RestInit DEF OrderInv, RestInv
  <1>2. OrderInv /\ [Next]_vars => OrderInv'
    <2> SUFFICES ASSUME OrderInv, [Next]_vars PROVE OrderInv'
      OBVIOUS
    <2>1. TypeOK' /\ SessionInv'
      BY InvStep DEF OrderInv
    <2>2. RestInv'
      BY <2>1, RestStep
    <2> QED BY <2>1, <2>2 DEF OrderInv, RestInv
  <1> QED BY <1>1, <1>2, PTL DEF Spec

-----------------------------------------------------------------------------
(* What the invariant says about the queue *)

\* A row is claimed, acknowledged or failed by its own work only after every earlier
\* row is terminal, and only by an incarnation whose H is committed (claim_request).
THEOREM QueueClaimsInOrder == Spec => []ClaimsInOrder
  <1>1. OrderInv => ClaimsInOrder
    BY DEF OrderInv, QueueInv, ClaimsInOrder
  <1> QED BY <1>1, QueueOrderInvariant, PTL

\* Acknowledged revisions grow along the queue, and a compare-and-set request is
\* acknowledged only as its expected pin's successor (finish_request_outcome).
THEOREM QueuePinsHonoured == Spec => []PinsHonoured
  <1>1. OrderInv => PinsHonoured
    BY DEF OrderInv, QueueInv, PinsHonoured
  <1> QED BY <1>1, QueueOrderInvariant, PTL

\* A request's work is published once per incarnation and acknowledged as published,
\* and a cached success can always be written while its leader holds the lock
\* (retry_recorded_completion).
THEOREM QueuePublishedOnce == Spec => []PublishedOnce
  <1>1. ASSUME OrderInv PROVE CachedCompletionValid
    <2> SUFFICES ASSUME NEW p \in Proc, st[p].inc # 0, OwnSlot(p),
                        st[p].slot.row \in Unfinished
                 PROVE  /\ HeldByMe(p, st[p].slot.row)
                        /\ st[p].slot.out.err = "none" => index.pin = st[p].slot.out.pin
      BY DEF CachedCompletionValid
    <2>1. SlotInv(p) /\ HasOwnSlot(st[p])
      BY <1>1 DEF OrderInv, ProcsInv, OwnSlot, HasOwnSlot
    <2> QED BY <2>1 DEF SlotInv, Unfinished, HeldByMe
  <1>2. OrderInv => PublishedOnce
    BY <1>1 DEF OrderInv, QueueInv, PublishedOnce
  <1> QED BY <1>2, QueueOrderInvariant, PTL

-----------------------------------------------------------------------------
(* What a step does to rows, head and history *)

\* The handlers that write rows.
LEMMA RowWriters ==
    ASSUME [Next]_vars
    PROVE  \/ rows' = rows
           \/ \E p \in Proc :
                \/ EnqueueEnd(p) \/ ResolveRoots(p) \/ DrainStart(p) \/ Requeue(p)
                \/ Finish(p) \/ FinishBusy(p) \/ RootLoss(p) \/ RecreateFail(p)
                \/ \E i \in DOMAIN rows : Claim(p, i)
  <1>1. ASSUME NEW p \in Proc, Start(p) \/ Crash(p) \/ EnqueueBegin(p) \/ PhaseRefresh(p)
        PROVE  rows' = rows
    BY <1>1 DEF Start, Crash, EnqueueBegin, PhaseRefresh
  <1>2. ASSUME NEW p \in Proc, Elect(p) PROVE rows' = rows \/ ResolveRoots(p)
    BY <1>2 DEF Elect, TakeLock, Follow, FollowRefused, WriteIncarnation, Rebind, CommitH,
                AttestH
  <1>3. ASSUME NEW p \in Proc, Drain(p)
        PROVE  \/ rows' = rows \/ DrainStart(p) \/ Requeue(p) \/ Finish(p)
               \/ \E i \in DOMAIN rows : Claim(p, i)
    BY <1>3 DEF Drain, ClaimNone, ClaimForeign, Prepare, PublishCommit, AttestJob,
                WatchPublish, WatchIdle, CliRelease, CliExit
  <1>4. ASSUME NEW p \in Proc, RootChange(p)
        PROVE  rows' = rows \/ RootLoss(p) \/ RecreateFail(p)
    BY <1>4 DEF RootChange, RootError, FollowerRootLoss, Reopen, RecreateTake, RecreateDefer,
                Swap
  <1>5. ASSUME NEW p \in Proc, Faulty(p) PROVE rows' = rows \/ FinishBusy(p)
    BY <1>5 DEF Faulty, ElectionFault, AmbiguousH, PublishFailed, PublishBusy, DrainFault
  <1>6. ASSUME MoveRoot \/ UNCHANGED vars PROVE rows' = rows
    BY <1>6 DEF MoveRoot, vars
  <1> QED BY <1>1, <1>2, <1>3, <1>4, <1>5, <1>6 DEF Next, Step

\* The one handler that publishes for a row.
LEMMA PubWriters ==
    ASSUME TypeOK, [Next]_vars
    PROVE  hist'.pubs = hist.pubs \/ \E p \in Proc : PublishCommit(p)
  <1>0. hist \in [pubs : SUBSET [row : Nat, inc : Nat, pin : Pins], hs : SUBSET Nat]
    BY DEF TypeOK
  <1>h. ASSUME NEW k, hist' = [hist EXCEPT !.hs = @ \cup {k}] PROVE hist'.pubs = hist.pubs
    BY <1>0, <1>h
  <1>1. ASSUME NEW p \in Proc, Start(p) \/ Crash(p) \/ EnqueueBegin(p) \/ PhaseRefresh(p)
        PROVE  hist' = hist
    BY <1>1 DEF Start, Crash, EnqueueBegin, PhaseRefresh
  <1>2. ASSUME NEW p \in Proc, Elect(p) PROVE hist' = hist \/ CommitH(p)
    BY <1>2 DEF Elect, TakeLock, Follow, FollowRefused, WriteIncarnation, Rebind, ResolveRoots,
                AttestH
  <1>3. ASSUME NEW p \in Proc, Drain(p) PROVE hist' = hist \/ PublishCommit(p)
    BY <1>3 DEF Drain, DrainStart, Claim, ClaimNone, ClaimForeign, Prepare,
                AttestJob, Requeue, Finish, WatchPublish, WatchIdle, CliRelease, CliExit
  <1>4. ASSUME NEW p \in Proc, RootChange(p) PROVE hist' = hist \/ Swap(p)
    BY <1>4 DEF RootChange, RootLoss, RootError, FollowerRootLoss, Reopen, RecreateFail,
                RecreateTake, RecreateDefer
  <1>5. ASSUME NEW p \in Proc, Faulty(p) PROVE hist' = hist \/ AmbiguousH(p)
    BY <1>5 DEF Faulty, ElectionFault, PublishFailed, PublishBusy, FinishBusy, DrainFault
  <1>6. ASSUME MoveRoot \/ UNCHANGED vars PROVE hist' = hist
    BY <1>6 DEF MoveRoot, vars
  <1>7. ASSUME NEW p \in Proc, EnqueueEnd(p) PROVE hist' = hist
    BY <1>7 DEF EnqueueEnd, EnqueueCommit, EnqueueLost
  <1>8. ASSUME NEW p \in Proc, CommitH(p) \/ Swap(p) \/ AmbiguousH(p)
        PROVE  hist'.pubs = hist.pubs
    BY <1>h, <1>8 DEF CommitH, Swap, AmbiguousH
  <1> QED BY <1>1, <1>2, <1>3, <1>4, <1>5, <1>6, <1>7, <1>8 DEF Next, Step

\* Work is published for a row only into the index of the row's own root, while the
\* pathname still names that root (verify_request_root, the publication fence).
THEOREM QueuePublishedUnderOwnRoot == Spec => PublishedUnderOwnRoot
  <1>1. ASSUME OrderInv, [Next]_vars, NEW u \in hist'.pubs \ hist.pubs
        PROVE  rows[u.row].root = index.root /\ index.root = rootNow
    <2>0. TypeOK
          /\ hist \in [pubs : SUBSET [row : Nat, inc : Nat, pin : Pins], hs : SUBSET Nat]
      BY <1>1 DEF OrderInv, TypeOK
    <2>1. PICK p \in Proc : PublishCommit(p)
      BY <1>1, <2>0, PubWriters
    <2>2. st[p].pc = "prepared" /\ st[p].root = rootNow
      BY <2>1 DEF PublishCommit, Live
    <2>3. rows[st[p].job].root = st[p].root /\ index.root = st[p].root
      BY <1>1, <2>2, WorkingFacts DEF Working
    <2>4. u = [row |-> st[p].job, inc |-> st[p].inc, pin |-> Next1(index.pin)]
      BY <1>1, <2>0, <2>1 DEF PublishCommit
    <2> QED BY <2>2, <2>3, <2>4
  <1>2. ASSUME OrderInv, [Next]_vars
        PROVE  \A u \in hist'.pubs \ hist.pubs :
                    rows[u.row].root = index.root /\ index.root = rootNow
    BY <1>1, <1>2
  <1> QED BY <1>2, QueueOrderInvariant, PTL DEF Spec, PublishedUnderOwnRoot

-----------------------------------------------------------------------------
(* The promise to the clients *)

\* The things a step can do to the rows, as a client sees them.
Accepts(r) ==
    /\ r \in Rows /\ r.state = "queued" /\ r.root \in 1..MaxRoots
    /\ rows' = Append(rows, r)

\* All open rows of one root, or of all roots but one, fail; a row may change as long
\* as it stays open.
Abandons(p) ==
    /\ st[p].root \in 1..MaxRoots
    /\ DOMAIN rows' = DOMAIN rows
    /\ \A i \in DOMAIN rows :
        /\ rows'[i].root = rows[i].root
        /\ IF i \in Unfinished /\ (rows[i].root = st[p].root) = ~Live(p)
           THEN rows'[i].state = "failed"
           ELSE IF i \in Unfinished THEN rows'[i].state \in {"queued", "running"}
                                    ELSE rows'[i] = rows[i]

Answers(i) ==
    /\ i \in Unfinished /\ \A j \in Unfinished : i <= j
    /\ DOMAIN rows' = DOMAIN rows
    /\ rows'[i].root = rows[i].root /\ rows'[i].state \in {"done", "failed"}
    /\ \A j \in DOMAIN rows : j # i => rows'[j] = rows[j]

\* Claims leave what a client sees; everything else is one of the other three.
RowsMove ==
    \/ rows' = rows
    \/ \E i \in Unfinished :
        /\ DOMAIN rows' = DOMAIN rows
        /\ rows'[i].root = rows[i].root /\ rows'[i].state = "running"
        /\ \A j \in DOMAIN rows : j # i => rows'[j] = rows[j]
    \/ \E r \in Rows : Accepts(r)
    \/ \E p \in Proc : Abandons(p)
    \/ \E i \in DOMAIN rows : Answers(i)

\* Failing the rows of changed roots is the abstract queue's abandonment.
LEMMA ResolveAbandons ==
    ASSUME TypeOK, NEW p \in Proc, NEW k \in Nat, rows' = FailChangedRoot(p, k),
           st[p].root \in 1..MaxRoots
    PROVE  Abandons(p)
  <1>1. ASSUME NEW i \in DOMAIN rows
        PROVE  /\ rows'[i].root = rows[i].root
               /\ IF i \in Unfinished /\ (rows[i].root = st[p].root) = ~Live(p)
                  THEN rows'[i].state = "failed"
                  ELSE IF i \in Unfinished THEN rows'[i].state \in {"queued", "running"}
                                           ELSE rows'[i] = rows[i]
    <2>0. rows[i] \in Rows
      BY RowTypes
    <2> DEFINE r == [rows[i] EXCEPT !.state = "failed", !.claim = k, !.err = "root_changed"]
    <2>1. r.root = rows[i].root /\ r.state = "failed"
      BY <2>0 DEF Rows
    <2>2. rows'[i] = IF i \in Unfinished /\ (rows[i].root = st[p].root) = ~Live(p)
                     THEN r ELSE rows[i]
      BY DEF FailChangedRoot
    <2> HIDE DEF r
    <2> QED BY <2>1, <2>2 DEF Unfinished
  <1>2. DOMAIN rows' = DOMAIN rows
    BY DEF FailChangedRoot
  <1> QED BY <1>1, <1>2 DEF Abandons

\* A completion answers the earliest open row: it is the one this leader claimed.
LEMMA FinishAnswers ==
    ASSUME OrderInv, NEW p \in Proc, st[p].pc = "finish", OwnSlot(p), FinishRow(p)
    PROVE  \E i \in DOMAIN rows : Answers(i)
  <1> DEFINE i == st[p].slot.row
             r == Terminal(rows[i], st[p].slot.out)
  <1>0. TypeOK /\ QueueInv /\ SlotInv(p)
    BY DEF OrderInv, ProcsInv
  <1>1. i \in DOMAIN rows
    BY <1>0 DEF SlotInv, OwnSlot
  <1>2. rows[i] \in Rows
    BY <1>0, <1>1, RowTypes
  <1>3. rows[i].state = "running" /\ rows' = [rows EXCEPT ![i] = r]
    BY DEF FinishRow, HeldByMe
  <1>4. r.state \in {"done", "failed"} /\ r.root = rows[i].root
    BY <1>2 DEF Terminal, Rows
  <1> HIDE DEF r, i
  <1>5. /\ DOMAIN rows' = DOMAIN rows /\ rows'[i] = r
        /\ \A j \in DOMAIN rows : j # i => rows'[j] = rows[j]
    BY <1>1, <1>3
  <1>6. i \in Unfinished /\ \A j \in Unfinished : i <= j
    <2>1. DOMAIN rows = 1..Len(rows) /\ Len(rows) \in Nat
      BY <1>0, LenProperties DEF TypeOK
    <2>2. \A j \in 1..(i - 1) : IsTerminal(rows[j])
      BY <1>0, <1>1, <1>3 DEF QueueInv, FifoOrder
    <2>3. ASSUME NEW j \in Unfinished, ~(i <= j) PROVE FALSE
      <3>1. j \in DOMAIN rows /\ rows[j].state \in {"queued", "running"}
        BY <2>3 DEF Unfinished
      <3>2. j \in 1..(i - 1)
        BY <1>1, <2>1, <2>3, <3>1
      <3> QED BY <2>2, <3>1, <3>2 DEF IsTerminal
    <2> QED BY <1>1, <1>3, <2>3 DEF Unfinished
  <1>7. Answers(i)
    BY <1>4, <1>5, <1>6 DEF Answers
  <1> QED BY <1>1, <1>7

\* Every step does one of these things to the rows.
LEMMA RowsStep ==
    ASSUME OrderInv, [Next]_vars
    PROVE  RowsMove
  <1>0. /\ TypeOK /\ SessionInv /\ RootsInv /\ incarnation + 1 \in Nat
        /\ st \in [Proc -> Process] /\ \A p \in Proc : st[p] \in Process /\ st[p].inc \in Nat
    <2>1. TypeOK /\ SessionInv /\ RootsInv
      BY DEF OrderInv
    <2>2. incarnation + 1 \in Nat /\ st \in [Proc -> Process]
      BY <2>1 DEF TypeOK
    <2>3. \A s \in Process : s.inc \in Nat
      BY DEF Process
    <2> QED BY <2>1, <2>2, <2>3
  <1>1. ASSUME NEW p \in Proc, EnqueueEnd(p) PROVE \E r \in Rows : Accepts(r)
    <2> DEFINE r == NewRow(wtx)
    <2>1. rows' = Append(rows, r) /\ wtx.by = p
      BY <1>1 DEF EnqueueEnd, EnqueueCommit, EnqueueLost
    <2>2. r \in Rows /\ r.state = "queued" /\ r.root = wtx.root
      BY <1>0, NoPinType DEF TypeOK, Txs, NewRow, Rows, RowStates, Errors
    <2>3. wtx.root \in 1..MaxRoots
      BY <1>0, <2>1 DEF RootsInv
    <2> HIDE DEF r
    <2> QED BY <2>1, <2>2, <2>3 DEF Accepts
  <1>2. ASSUME NEW p \in Proc, ResolveRoots(p) \/ DrainStart(p) \/ RootLoss(p) PROVE Abandons(p)
    <2>1. rows' = FailChangedRoot(p, st[p].inc)
      BY <1>2 DEF ResolveRoots, DrainStart, RootLoss
    <2>2. st[p].pc # "off"
      BY <1>2 DEF ResolveRoots, DrainStart, RootLoss, Leased, Electing, Draining
    <2> QED BY <1>0, <2>1, <2>2, ResolveAbandons DEF RootsInv
  <1>3. ASSUME NEW p \in Proc, RecreateFail(p) PROVE Abandons(p)
    <2>1. rows' = FailChangedRoot(p, incarnation + 1) /\ st[p].pc # "off"
      BY <1>3 DEF RecreateFail
    <2> QED BY <1>0, <2>1, ResolveAbandons DEF RootsInv
  <1>4. ASSUME NEW p \in Proc, NEW i \in DOMAIN rows, Claim(p, i) PROVE RowsMove
    <2> DEFINE r == [rows[i] EXCEPT !.state = "running", !.claim = st[p].inc]
    <2>1. rows[i] \in Rows
      BY <1>0, RowTypes
    <2>2. r.state = "running" /\ r.root = rows[i].root
      BY <2>1 DEF Rows
    <2>3. /\ DOMAIN rows' = DOMAIN rows /\ i \in Unfinished
          /\ rows'[i] = r /\ \A j \in DOMAIN rows : j # i => rows'[j] = rows[j]
      BY <1>4 DEF Claim, IsFifoHead
    <2> HIDE DEF r
    <2> QED BY <2>2, <2>3 DEF RowsMove
  <1>5. ASSUME NEW p \in Proc, Requeue(p) PROVE Abandons(p)
    <2> DEFINE i == st[p].job
               f == FailChangedRoot(p, st[p].inc)
               r == [rows[i] EXCEPT !.state = "queued", !.claim = 0]
    <2>1. st[p].pc = "requeue" /\ Live(p)
      BY <1>5 DEF Requeue
    <2>2. /\ i \in DOMAIN rows /\ rows[i].root = st[p].root /\ rows[i].state = "running"
          /\ st[p].root \in 1..MaxRoots
      BY <1>0, <2>1, WorkingFacts DEF Working, RootsInv
    <2>3. CASE ~SameHead(p)
      <3>1. rows' = f
        BY <1>5, <2>3 DEF Requeue
      <3> QED BY <1>0, <2>2, <3>1, ResolveAbandons
    <2>4. CASE SameHead(p)
      <3>0. rows[i] \in Rows
        BY <1>0, <2>2, RowTypes
      <3>1. r.state = "queued" /\ r.root = rows[i].root
        BY <3>0 DEF Rows
      <3>2. f[i] = rows[i] /\ DOMAIN f = DOMAIN rows
        BY <1>0, <2>1, <2>2, ResolvedRows
      <3>3. rows' = [f EXCEPT ![i].state = "queued", ![i].claim = 0]
        BY <1>5, <2>4 DEF Requeue
      <3>4. /\ DOMAIN rows' = DOMAIN rows /\ rows'[i] = r
            /\ \A j \in DOMAIN rows : j # i => rows'[j] = f[j]
        BY <2>2, <3>2, <3>3
      <3>5. ASSUME NEW j \in DOMAIN rows
            PROVE  /\ rows'[j].root = rows[j].root
                   /\ IF j \in Unfinished /\ (rows[j].root = st[p].root) = ~Live(p)
                      THEN rows'[j].state = "failed"
                      ELSE IF j \in Unfinished THEN rows'[j].state \in {"queued", "running"}
                                               ELSE rows'[j] = rows[j]
        <4>1. CASE j = i
          <5>1. i \in Unfinished /\ ~((rows[i].root = st[p].root) = ~Live(p))
            BY <2>1, <2>2 DEF Unfinished
          <5> HIDE DEF r, f
          <5> QED BY <3>1, <3>4, <4>1, <5>1
        <4>2. CASE j # i
          <5> DEFINE e == [rows[j] EXCEPT !.state = "failed", !.claim = st[p].inc,
                                          !.err = "root_changed"]
          <5>0. rows[j] \in Rows
            BY <1>0, RowTypes
          <5>1. e.root = rows[j].root /\ e.state = "failed"
            BY <5>0 DEF Rows
          <5>2. f[j] = IF j \in Unfinished /\ (rows[j].root = st[p].root) = ~Live(p)
                       THEN e ELSE rows[j]
            BY DEF FailChangedRoot
          <5> HIDE DEF e, f
          <5> QED BY <3>4, <4>2, <5>1, <5>2 DEF Unfinished
        <4> QED BY <4>1, <4>2
      <3> QED BY <2>2, <3>4, <3>5 DEF Abandons
    <2> QED BY <2>3, <2>4
  <1>6. ASSUME NEW p \in Proc, Finish(p) \/ FinishBusy(p)
        PROVE  rows' = rows \/ \E i \in DOMAIN rows : Answers(i)
    <2>1. st[p].pc = "finish" /\ OwnSlot(p) /\ (FinishRow(p) \/ rows' = rows)
      BY <1>6 DEF Finish, FinishBusy
    <2> QED BY <2>1, FinishAnswers
  <1> QED BY <1>1, <1>2, <1>3, <1>4, <1>5, <1>6, RowWriters DEF RowsMove

\* Accepted rows are never removed and a terminal row never changes, across root
\* changes, requeues, reclaims and retried completions (requests.rs).
THEOREM QueueTerminalStable == Spec => TerminalStable
  <1>1. ASSUME OrderInv, [Next]_vars
        PROVE  /\ Len(rows') >= Len(rows)
               /\ \A i \in DOMAIN rows : IsTerminal(rows[i]) => rows'[i] = rows[i]
    <2>0. TypeOK /\ TypeOK' /\ RowsMove
      BY <1>1, InvStep, RowsStep DEF OrderInv
    <2>1. /\ DOMAIN rows = 1..Len(rows) /\ Len(rows) \in Nat
          /\ DOMAIN rows' = 1..Len(rows') /\ Len(rows') \in Nat
      BY <2>0, LenProperties DEF TypeOK
    <2>2. \A i \in Unfinished : ~IsTerminal(rows[i])
      BY DEF Unfinished, IsTerminal
    <2>3. ASSUME DOMAIN rows' = DOMAIN rows PROVE Len(rows') >= Len(rows)
      <3>1. CASE Len(rows) = 0
        BY <2>1, <3>1
      <3>2. CASE Len(rows) # 0
        <4>1. Len(rows) \in 1..Len(rows)
          BY <2>1, <3>2
        <4>2. Len(rows) \in 1..Len(rows')
          BY <2>1, <2>3, <4>1
        <4> QED BY <2>1, <4>2
      <3> QED BY <3>1, <3>2
    <2>4. CASE rows' = rows
      BY <2>1, <2>4
    <2>5. ASSUME NEW i \in Unfinished, DOMAIN rows' = DOMAIN rows,
                 \A j \in DOMAIN rows : j # i => rows'[j] = rows[j]
          PROVE  /\ Len(rows') >= Len(rows)
                 /\ \A j \in DOMAIN rows : IsTerminal(rows[j]) => rows'[j] = rows[j]
      BY <2>2, <2>3, <2>5
    <2>6. ASSUME NEW r \in Rows, Accepts(r)
          PROVE  /\ Len(rows') >= Len(rows)
                 /\ \A j \in DOMAIN rows : IsTerminal(rows[j]) => rows'[j] = rows[j]
      <3>1. /\ Len(rows') = Len(rows) + 1
            /\ \A j \in 1..Len(rows) : rows'[j] = rows[j]
        BY <2>0, <2>6, AppendProperties DEF Accepts, TypeOK
      <3> QED BY <2>1, <3>1
    <2>7. ASSUME NEW p \in Proc, Abandons(p)
          PROVE  /\ Len(rows') >= Len(rows)
                 /\ \A j \in DOMAIN rows : IsTerminal(rows[j]) => rows'[j] = rows[j]
      <3>1. Len(rows') >= Len(rows)
        BY <2>3, <2>7 DEF Abandons
      <3>2. ASSUME NEW j \in DOMAIN rows, IsTerminal(rows[j]) PROVE rows'[j] = rows[j]
        <4>1. j \notin Unfinished
          BY <2>2, <3>2
        <4> QED BY <2>7, <3>2, <4>1 DEF Abandons
      <3> QED BY <3>1, <3>2
    <2> QED BY <2>0, <2>4, <2>5, <2>6, <2>7 DEF RowsMove, Answers
  <1> QED BY <1>1, QueueOrderInvariant, PTL DEF Spec, TerminalStable

Requests == [root : Nat, answer : {"open", "done", "failed"}]

\* What a client sees of one row.
View(row) == [root |-> row.root,
              answer |-> IF row.state \in {"queued", "running"} THEN "open" ELSE row.state]

\* The view of a queue of well-formed rows is a queue of requests, row by row.
LEMMA ViewOf ==
    ASSUME NEW rs \in Seq(Rows), NEW q, q = [i \in DOMAIN rs |-> View(rs[i])]
    PROVE  /\ q \in Seq(Requests) /\ Len(q) = Len(rs)
           /\ DOMAIN q = DOMAIN rs
           /\ \A i \in DOMAIN rs : q[i] = View(rs[i]) /\ rs[i] \in Rows
  <1>1. DOMAIN rs = 1..Len(rs) /\ Len(rs) \in Nat /\ \A i \in DOMAIN rs : rs[i] \in Rows
    BY ElementOfSeq, LenProperties
  <1>2. \A r \in Rows : View(r) \in Requests
    BY DEF View, Rows, RowStates, Requests
  <1>3. q \in [1..Len(rs) -> Requests]
    BY <1>1, <1>2
  <1>4. q \in Seq(Requests)
    BY <1>1, <1>3, SeqDef
  <1>5. DOMAIN q = DOMAIN rs /\ \A i \in DOMAIN rs : q[i] = View(rs[i])
    BY <1>1
  <1>6. Len(q) = Len(rs)
    BY <1>1, <1>4, <1>5, LenProperties
  <1> QED BY <1>1, <1>4, <1>5, <1>6

\* The client's view of the queue, and the rows open in it.
LEMMA ViewFacts ==
    ASSUME TypeOK
    PROVE  /\ RequestView \in Seq(Requests) /\ Len(RequestView) = Len(rows)
           /\ DOMAIN RequestView = DOMAIN rows
           /\ \A i \in DOMAIN rows : RequestView[i] = View(rows[i]) /\ rows[i] \in Rows
           /\ RQ!Open = Unfinished
  <1>1. /\ rows \in Seq(Rows)
        /\ RequestView = [i \in DOMAIN rows |-> View(rows[i])]
    BY DEF TypeOK, RequestView, View
  <1> HIDE DEF RequestView
  <1>2. /\ RequestView \in Seq(Requests) /\ Len(RequestView) = Len(rows)
        /\ DOMAIN RequestView = DOMAIN rows
        /\ \A i \in DOMAIN rows : RequestView[i] = View(rows[i]) /\ rows[i] \in Rows
    BY <1>1, ViewOf
  <1>3. \A i \in DOMAIN rows : RequestView[i].answer = "open" <=> i \in Unfinished
    BY <1>2 DEF View, Unfinished, Rows, RowStates
  <1> QED BY <1>2, <1>3 DEF RQ!Open, Unfinished

\* The same of the queue after a step.
LEMMA ViewFactsNext ==
    ASSUME TypeOK'
    PROVE  /\ RequestView' \in Seq(Requests) /\ Len(RequestView') = Len(rows')
           /\ DOMAIN RequestView' = DOMAIN rows'
           /\ \A i \in DOMAIN rows' : RequestView'[i] = View(rows'[i]) /\ rows'[i] \in Rows
  <1>1. /\ rows' \in Seq(Rows)
        /\ RequestView' = [i \in DOMAIN rows' |-> View(rows'[i])]
    BY DEF TypeOK, RequestView, View
  <1> QED BY <1>1, ViewOf

\* Two views of queues of one length agree when their rows look alike.
LEMMA ViewEqual ==
    ASSUME TypeOK, TypeOK', DOMAIN rows' = DOMAIN rows,
           \A i \in DOMAIN rows : View(rows'[i]) = View(rows[i])
    PROVE  RequestView' = RequestView
  BY DEF RequestView, View

\* A committed enqueue is an acceptance.
LEMMA AcceptRefines ==
    ASSUME TypeOK, TypeOK', NEW r \in Rows, Accepts(r)
    PROVE  RQ!Accept
  <1> DEFINE v == [root |-> r.root, answer |-> "open"]
  <1>1. View(r) = v /\ v \in Requests /\ r.root \in 1..MaxRoots
    BY DEF Accepts, View, Requests, Rows
  <1>2. /\ RequestView \in Seq(Requests) /\ Len(RequestView) = Len(rows)
        /\ DOMAIN RequestView = DOMAIN rows
        /\ \A i \in DOMAIN rows : RequestView[i] = View(rows[i])
    BY ViewFacts
  <1>3. /\ RequestView' \in Seq(Requests) /\ Len(RequestView') = Len(rows')
        /\ \A i \in DOMAIN rows' : RequestView'[i] = View(rows'[i]) /\ rows'[i] \in Rows
    BY ViewFactsNext
  <1>4. /\ Len(rows') = Len(rows) + 1 /\ rows'[Len(rows) + 1] = r
        /\ \A i \in 1..Len(rows) : rows'[i] = rows[i]
    BY AppendProperties DEF Accepts, TypeOK
  <1>5. /\ DOMAIN rows = 1..Len(rows) /\ Len(rows) \in Nat
        /\ DOMAIN rows' = 1..Len(rows')
    BY LenProperties DEF TypeOK
  <1>6. /\ Append(RequestView, v) \in Seq(Requests)
        /\ Len(Append(RequestView, v)) = Len(rows) + 1
        /\ Append(RequestView, v)[Len(rows) + 1] = v
        /\ \A i \in 1..Len(rows) : Append(RequestView, v)[i] = RequestView[i]
    BY <1>1, <1>2, AppendProperties
  <1> HIDE DEF v
  <1>7. ASSUME NEW i \in 1..(Len(rows) + 1)
        PROVE  RequestView'[i] = Append(RequestView, v)[i]
    <2>1. i \in DOMAIN rows' /\ RequestView'[i] = View(rows'[i])
      BY <1>3, <1>4, <1>5
    <2>2. CASE i = Len(rows) + 1
      BY <1>1, <1>4, <1>6, <2>1, <2>2
    <2>3. CASE i # Len(rows) + 1
      <3>1. i \in 1..Len(rows)
        BY <1>5, <2>3
      <3> QED BY <1>2, <1>4, <1>5, <1>6, <2>1, <3>1
    <2> QED BY <2>2, <2>3
  <1>8. RequestView' = Append(RequestView, v)
    BY <1>3, <1>4, <1>6, <1>7, SeqEqual
  <1> QED BY <1>1, <1>8 DEF RQ!Accept, v

\* Rows failed for their roots are abandoned.
LEMMA AbandonRefines ==
    ASSUME TypeOK, TypeOK', NEW p \in Proc, Abandons(p)
    PROVE  RQ!Abandon
  <1> DEFINE lost == ~Live(p)
             g(i) == IF i \in RQ!Open /\ (RequestView[i].root = st[p].root) = lost
                     THEN [RequestView[i] EXCEPT !.answer = "failed"]
                     ELSE RequestView[i]
  <1>1. /\ DOMAIN RequestView = DOMAIN rows /\ RQ!Open = Unfinished
        /\ \A i \in DOMAIN rows : RequestView[i] = View(rows[i])
    BY ViewFacts
  <1>2. /\ DOMAIN rows' = DOMAIN rows /\ DOMAIN RequestView' = DOMAIN rows'
        /\ \A i \in DOMAIN rows' : RequestView'[i] = View(rows'[i]) /\ rows'[i] \in Rows
    BY ViewFactsNext DEF Abandons
  <1>3. ASSUME NEW i \in DOMAIN rows PROVE RequestView'[i] = g(i)
    <2>0. rows[i] \in Rows /\ rows'[i] \in Rows
      BY <1>2, RowTypes
    <2>1. /\ RequestView[i] = View(rows[i]) /\ RequestView'[i] = View(rows'[i])
          /\ RequestView[i].root = rows[i].root
      BY <1>1, <1>2 DEF View
    <2>2. /\ rows'[i].root = rows[i].root
          /\ IF i \in Unfinished /\ (rows[i].root = st[p].root) = ~Live(p)
             THEN rows'[i].state = "failed"
             ELSE IF i \in Unfinished THEN rows'[i].state \in {"queued", "running"}
                                      ELSE rows'[i] = rows[i]
      BY DEF Abandons
    <2>3. CASE i \in Unfinished /\ (rows[i].root = st[p].root) = ~Live(p)
      <3>1. View(rows'[i]) = [root |-> rows[i].root, answer |-> "failed"]
        BY <2>2, <2>3 DEF View
      <3>2. g(i) = [View(rows[i]) EXCEPT !.answer = "failed"]
        BY <1>1, <2>1, <2>3
      <3>3. [View(rows[i]) EXCEPT !.answer = "failed"]
                = [root |-> rows[i].root, answer |-> "failed"]
        BY DEF View
      <3> QED BY <2>1, <3>1, <3>2, <3>3
    <2>4. CASE ~(i \in Unfinished /\ (rows[i].root = st[p].root) = ~Live(p))
      <3>1. View(rows'[i]) = View(rows[i])
        BY <2>2, <2>4 DEF View, Unfinished
      <3>2. g(i) = View(rows[i])
        BY <1>1, <2>1, <2>4
      <3> QED BY <2>1, <3>1, <3>2
    <2> QED BY <2>3, <2>4
  <1>4. RequestView' = [i \in DOMAIN RequestView |-> g(i)]
    <2>1. RequestView' = [i \in DOMAIN rows' |-> RequestView'[i]]
      BY DEF RequestView
    <2> HIDE DEF g
    <2> QED BY <1>1, <1>2, <1>3, <2>1
  <1>5. lost \in BOOLEAN /\ st[p].root \in 1..MaxRoots
    BY DEF Live, Abandons
  <1> QED BY <1>4, <1>5 DEF RQ!Abandon

\* A terminal write is the answer of the earliest open request.
LEMMA AnswerRefines ==
    ASSUME TypeOK, TypeOK', NEW i \in DOMAIN rows, Answers(i)
    PROVE  RQ!Answer
  <1> DEFINE a == rows'[i].state
  <1>1. /\ DOMAIN RequestView = DOMAIN rows /\ RQ!Open = Unfinished
        /\ \A j \in DOMAIN rows : RequestView[j] = View(rows[j])
    BY ViewFacts
  <1>2. /\ DOMAIN rows' = DOMAIN rows /\ DOMAIN RequestView' = DOMAIN rows'
        /\ \A j \in DOMAIN rows' : RequestView'[j] = View(rows'[j])
    BY ViewFactsNext DEF Answers
  <1>3. a \in {"done", "failed"} /\ i \in RQ!Open /\ \A j \in RQ!Open : i <= j
    BY <1>1 DEF Answers
  <1>4. RequestView'[i] = [RequestView[i] EXCEPT !.answer = a]
    <2>1. RequestView[i] = View(rows[i]) /\ RequestView'[i] = View(rows'[i])
      BY <1>1, <1>2
    <2>2. View(rows'[i]) = [root |-> rows[i].root, answer |-> a]
      BY <1>3 DEF View, Answers
    <2>3. [View(rows[i]) EXCEPT !.answer = a] = [root |-> rows[i].root, answer |-> a]
      BY DEF View
    <2> QED BY <2>1, <2>2, <2>3
  <1>5. \A j \in DOMAIN rows : j # i => RequestView'[j] = RequestView[j]
    BY <1>1, <1>2 DEF Answers
  <1> HIDE DEF a
  <1>6. RequestView' = [RequestView EXCEPT ![i].answer = a]
    <2>1. RequestView' = [j \in DOMAIN rows' |-> RequestView'[j]]
      BY DEF RequestView
    <2>2. RequestView = [j \in DOMAIN rows |-> RequestView[j]]
      BY DEF RequestView
    <2> HIDE DEF RequestView
    <2> QED BY <1>1, <1>2, <1>4, <1>5, <2>1, <2>2
  <1> QED BY <1>3, <1>6 DEF RQ!Answer

\* The durable queue implements RequestQueue: an accepted request stays accepted,
\* requests are answered in the order of acceptance, and only a root change fails
\* them out of order. Claims, requeues, reclaims and retries are invisible.
THEOREM QueueRefines == Spec => RefinesRequestQueue
  <1>1. Init => RQ!Init
    BY DEF Init, RQ!Init, RequestView
  <1>2. ASSUME OrderInv, [Next]_vars PROVE [RQ!Next]_RequestView
    <2>0. TypeOK /\ TypeOK' /\ RowsMove
      BY <1>2, InvStep, RowsStep DEF OrderInv
    <2>1. CASE rows' = rows
      BY <2>1 DEF RequestView
    <2>2. ASSUME NEW i \in Unfinished, DOMAIN rows' = DOMAIN rows,
                 rows'[i].root = rows[i].root, rows'[i].state = "running",
                 \A j \in DOMAIN rows : j # i => rows'[j] = rows[j]
          PROVE  RequestView' = RequestView
      <3>1. \A j \in DOMAIN rows : View(rows'[j]) = View(rows[j])
        BY <2>2 DEF View, Unfinished
      <3> QED BY <2>0, <2>2, <3>1, ViewEqual
    <2> QED
      BY <2>0, <2>1, <2>2, AcceptRefines, AbandonRefines, AnswerRefines DEF RowsMove, RQ!Next
  <1> QED BY <1>1, <1>2, QueueOrderInvariant, PTL DEF Spec, RefinesRequestQueue, RQ!Spec

=============================================================================
