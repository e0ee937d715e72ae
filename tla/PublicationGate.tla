-------------------------- MODULE PublicationGate --------------------------
(***************************************************************************)
(* The in-process gate that every publication and every maintenance unit   *)
(* of one index passes (PublicationGate in src/store.rs). Publications     *)
(* wait, with a deadline; a maintenance unit never waits and starts only   *)
(* when nobody waits or holds the gate.                                    *)
(***************************************************************************)
EXTENDS Naturals, FiniteSets, FiniteSetTheorems, TLAPS

CONSTANTS Publishers, Maintainers

ASSUME GateAssumption ==
    /\ IsFiniteSet(Publishers)
    /\ Publishers \cap Maintainers = {}

VARIABLES
    gate,    \* GateState: active, maintenance, waiting
    pub,     \* each publisher: outside, waiting on the condition, or holding
    unit,    \* each maintainer: outside or holding
    reason   \* PublicationWaitReason of each publisher's current entry

vars == <<gate, pub, unit, reason>>

Reasons == {"None", "Maintenance", "Publisher"}

TypeOK ==
    /\ gate \in [active : BOOLEAN, maintenance : BOOLEAN, waiting : Nat]
    /\ pub \in [Publishers -> {"out", "wait", "in"}]
    /\ unit \in [Maintainers -> {"out", "in"}]
    /\ reason \in [Publishers -> Reasons]

Init ==
    /\ gate = [active |-> FALSE, maintenance |-> FALSE, waiting |-> 0]
    /\ pub = [p \in Publishers |-> "out"]
    /\ unit = [m \in Maintainers |-> "out"]
    /\ reason = [p \in Publishers |-> "None"]

\* The reason noted when an entry first finds the gate taken.
Blocker == IF gate.maintenance THEN "Maintenance" ELSE "Publisher"

\* Mutant: a free gate is taken without the entry having been counted.
BugTaken == [active |-> TRUE, maintenance |-> FALSE, waiting |-> gate.waiting - 1]

\* An entry that finds the gate free is counted and uncounted in the same pass.
Taken == [gate EXCEPT !.active = TRUE, !.maintenance = FALSE]

\* enter_publication, first pass under the mutex: the entry is counted, then it
\* either takes a free gate or notes why it waits.
Enter(p) ==
    /\ pub[p] = "out"
    /\ IF gate.active
       THEN /\ gate' = [gate EXCEPT !.waiting = @ + 1]
            /\ pub' = [pub EXCEPT ![p] = "wait"]
            /\ reason' = [reason EXCEPT ![p] = Blocker]
       ELSE /\ gate' = Taken
            /\ pub' = [pub EXCEPT ![p] = "in"]
            /\ reason' = [reason EXCEPT ![p] = "None"]
    /\ UNCHANGED unit

\* A woken waiter finds the gate free.
Admit(p) ==
    /\ pub[p] = "wait" /\ ~gate.active
    /\ gate' = [active |-> TRUE, maintenance |-> FALSE, waiting |-> gate.waiting - 1]
    /\ pub' = [pub EXCEPT ![p] = "in"]
    /\ UNCHANGED <<unit, reason>>

\* Mutant: the deadline's early return forgets the count.
BugGiveUp(p) ==
    /\ pub[p] = "wait"
    /\ pub' = [pub EXCEPT ![p] = "out"]
    /\ UNCHANGED <<gate, unit, reason>>

\* Cancelled, or past its deadline while the gate is still taken: uncounted.
GiveUp(p) ==
    /\ pub[p] = "wait"
    /\ gate' = [gate EXCEPT !.waiting = @ - 1]
    /\ pub' = [pub EXCEPT ![p] = "out"]
    /\ UNCHANGED <<unit, reason>>

\* Drop for PublishPermit.
DropPublish(p) ==
    /\ pub[p] = "in"
    /\ gate' = [gate EXCEPT !.active = FALSE, !.maintenance = FALSE]
    /\ pub' = [pub EXCEPT ![p] = "out"]
    /\ UNCHANGED <<unit, reason>>

\* Mutants: maintenance looks at the waiters only, or at the holder only.
BugQuietHolder == gate.waiting = 0
BugQuietWaiters == ~gate.active

Quiet == ~gate.active /\ gate.waiting = 0

\* maintenance_try_enter.
TryEnter(m) ==
    /\ unit[m] = "out" /\ Quiet
    /\ gate' = [gate EXCEPT !.active = TRUE, !.maintenance = TRUE]
    /\ unit' = [unit EXCEPT ![m] = "in"]
    /\ UNCHANGED <<pub, reason>>

\* Drop for MaintenancePermit, after progress, a deferral or an error.
DropMaintenance(m) ==
    /\ unit[m] = "in"
    /\ gate' = [gate EXCEPT !.active = FALSE, !.maintenance = FALSE]
    /\ unit' = [unit EXCEPT ![m] = "out"]
    /\ UNCHANGED <<pub, reason>>

Next ==
    \/ \E p \in Publishers : Enter(p) \/ Admit(p) \/ GiveUp(p) \/ DropPublish(p)
    \/ \E m \in Maintainers : TryEnter(m) \/ DropMaintenance(m)

Spec == Init /\ [][Next]_vars

\* Permits are dropped, a waiter is woken at the latest every 25 ms and leaves by
\* its deadline, and the maintenance lane keeps trying.
Leave(p) == Admit(p) \/ GiveUp(p)

Fairness ==
    /\ \A p \in Publishers : WF_vars(DropPublish(p)) /\ WF_vars(Leave(p))
    /\ \A m \in Maintainers : WF_vars(DropMaintenance(m)) /\ WF_vars(TryEnter(m))

FairSpec == Spec /\ Fairness

-----------------------------------------------------------------------------
Waiters == {p \in Publishers : pub[p] = "wait"}
Holders == {p \in Publishers : pub[p] = "in"}
Working == {m \in Maintainers : unit[m] = "in"}

\* The waiting count is the number of waiters: no timeout, cancellation or
\* admission leaks a count, which would shut maintenance out for good.
WaitingExact == gate.waiting = Cardinality(Waiters)

\* One permit at a time: two publications, two units, or a publication and a unit
\* never overlap; the gate is active exactly while a permit is out, and the
\* maintenance flag (the reported wait reason) names a unit's permit.
OnePermit ==
    /\ \A a, b \in Holders : a = b
    /\ \A a, b \in Working : a = b
    /\ Holders = {} \/ Working = {}
    /\ gate.active <=> (Holders # {} \/ Working # {})
    /\ gate.maintenance <=> Working # {}

\* The gate's state is exact: its count and its flags say who waits and who holds it.
GateExact == TypeOK /\ WaitingExact /\ OnePermit

\* While publications wait, no further maintenance unit starts: every unit that
\* holds the gate after a publication began to wait was there before.
NoBarging ==
    [][\A p \in Publishers, m \in Maintainers :
        pub[p] = "wait" /\ unit[m] = "out" => unit'[m] = "out"]_vars

\* Maintenance is shut out only by publications: units run again and again
\* unless publications keep entering for ever.
MaintenanceRuns ==
    []<>(Working # {}) \/ []<>(Holders \cup Waiters # {})

-----------------------------------------------------------------------------
(* Proofs.  For every finite set of publishers and every set of            *)
(* maintainers: the waiting count is exact, at most one permit is out, and *)
(* no maintenance unit starts while a publication waits.                   *)

\* The waiters are finitely many, and their count is a natural number.
LEMMA WaitersFinite ==
    IsFiniteSet(Waiters) /\ Cardinality(Waiters) \in Nat
  <1>1. Waiters \in SUBSET Publishers
    BY DEF Waiters
  <1>2. IsFiniteSet(Waiters)
    BY <1>1, FS_Subset, GateAssumption
  <1> QED
    BY <1>2, FS_CardinalityType

\* A publisher that starts to wait adds one waiter.
LEMMA WaitersAdd ==
    ASSUME TypeOK, NEW p \in Publishers, pub[p] # "wait",
           pub' = [pub EXCEPT ![p] = "wait"]
    PROVE  Cardinality(Waiters') = Cardinality(Waiters) + 1
  <1>1. Waiters' = Waiters \cup {p} /\ p \notin Waiters
    BY DEF Waiters, TypeOK
  <1> QED
    BY <1>1, WaitersFinite, FS_AddElement

\* A waiter that is admitted or gives up removes one.
LEMMA WaitersRemove ==
    ASSUME TypeOK, NEW p \in Publishers, pub[p] = "wait",
           NEW v \in {"out", "in"}, pub' = [pub EXCEPT ![p] = v]
    PROVE  Cardinality(Waiters') = Cardinality(Waiters) - 1 /\ Cardinality(Waiters) # 0
  <1>1. Waiters' = Waiters \ {p} /\ p \in Waiters
    BY DEF Waiters, TypeOK
  <1>2. Cardinality(Waiters) # 0
    BY <1>1, WaitersFinite, FS_EmptySet
  <1> QED
    BY <1>1, <1>2, WaitersFinite, FS_RemoveElement

\* Every other step leaves the waiters alone.
LEMMA WaitersSame ==
    ASSUME TypeOK, NEW p \in Publishers, pub[p] # "wait",
           NEW v \in {"out", "in"}, pub' = [pub EXCEPT ![p] = v]
    PROVE  Waiters' = Waiters
  BY DEF Waiters, TypeOK

\* The initial gate is free and nobody waits.
LEMMA GateInit == Init => GateExact
  <1> SUFFICES ASSUME Init PROVE GateExact
    OBVIOUS
  <1>1. Waiters = {} /\ Holders = {} /\ Working = {}
    BY DEF Init, Waiters, Holders, Working
  <1>2. WaitingExact
    BY <1>1, FS_EmptySet DEF Init, WaitingExact
  <1>3. TypeOK /\ OnePermit
    BY <1>1 DEF Init, TypeOK, OnePermit, Reasons
  <1> QED
    BY <1>2, <1>3 DEF GateExact

\* Every step of enter_publication, maintenance_try_enter and the two Drop
\* implementations keeps the invariant.
LEMMA GateStep == GateExact /\ [Next]_vars => GateExact'
  <1> SUFFICES ASSUME GateExact, [Next]_vars PROVE GateExact'
    OBVIOUS
  <1> USE DEF GateExact
  <1>1. ASSUME NEW p \in Publishers, Enter(p) PROVE GateExact'
    <2>1. CASE gate.active
      <3>1. TypeOK'
        BY <1>1, <2>1 DEF Enter, TypeOK, Blocker, Reasons
      <3>2. WaitingExact'
        BY <1>1, <2>1, WaitersAdd, WaitersFinite DEF Enter, TypeOK, WaitingExact
      <3>3. Holders' = Holders /\ Working' = Working
        BY <1>1, <2>1 DEF Enter, TypeOK, Holders, Working
      <3>4. OnePermit'
        BY <1>1, <2>1, <3>3 DEF Enter, TypeOK, OnePermit
      <3> QED BY <3>1, <3>2, <3>4
    <2>2. CASE ~gate.active
      <3>1. TypeOK'
        BY <1>1, <2>2 DEF Enter, TypeOK, Taken, Reasons
      <3>2. WaitingExact'
        BY <1>1, <2>2, WaitersSame DEF Enter, TypeOK, Taken, WaitingExact
      <3>3. Holders = {} /\ Working = {}
        BY <2>2 DEF OnePermit
      <3>4. Holders' = {p} /\ Working' = {}
        BY <1>1, <2>2, <3>3 DEF Enter, TypeOK, Holders, Working
      <3>5. OnePermit'
        BY <1>1, <2>2, <3>4 DEF Enter, Taken, TypeOK, OnePermit
      <3> QED BY <3>1, <3>2, <3>5
    <2> QED BY <2>1, <2>2
  <1>2. ASSUME NEW p \in Publishers, Admit(p) PROVE GateExact'
    <2>1. Cardinality(Waiters') = Cardinality(Waiters) - 1 /\ Cardinality(Waiters) # 0
      BY <1>2, WaitersRemove DEF Admit
    <2>2. TypeOK' /\ WaitingExact'
      BY <1>2, <2>1, WaitersFinite DEF Admit, TypeOK, WaitingExact
    <2>3. Holders = {} /\ Working = {}
      BY <1>2 DEF Admit, OnePermit
    <2>4. Holders' = {p} /\ Working' = {}
      BY <1>2, <2>3 DEF Admit, TypeOK, Holders, Working
    <2>5. OnePermit'
      BY <1>2, <2>4 DEF Admit, OnePermit
    <2> QED BY <2>2, <2>5
  <1>3. ASSUME NEW p \in Publishers, GiveUp(p) PROVE GateExact'
    <2>1. Cardinality(Waiters') = Cardinality(Waiters) - 1 /\ Cardinality(Waiters) # 0
      BY <1>3, WaitersRemove DEF GiveUp
    <2>2. TypeOK' /\ WaitingExact'
      BY <1>3, <2>1, WaitersFinite DEF GiveUp, TypeOK, WaitingExact
    <2>3. Holders' = Holders /\ Working' = Working
      BY <1>3 DEF GiveUp, TypeOK, Holders, Working
    <2>4. OnePermit'
      BY <1>3, <2>3 DEF GiveUp, TypeOK, OnePermit
    <2> QED BY <2>2, <2>4
  <1>4. ASSUME NEW p \in Publishers, DropPublish(p) PROVE GateExact'
    <2>1. Waiters' = Waiters
      BY <1>4, WaitersSame DEF DropPublish
    <2>2. TypeOK' /\ WaitingExact'
      BY <1>4, <2>1 DEF DropPublish, TypeOK, WaitingExact
    <2>3. Holders = {p} /\ Working = {}
      BY <1>4 DEF DropPublish, OnePermit, Holders
    <2>4. Holders' = {} /\ Working' = {}
      BY <1>4, <2>3 DEF DropPublish, TypeOK, Holders, Working
    <2>5. OnePermit'
      BY <1>4, <2>4 DEF DropPublish, TypeOK, OnePermit
    <2> QED BY <2>2, <2>5
  <1>5. ASSUME NEW m \in Maintainers, TryEnter(m) PROVE GateExact'
    <2>1. TypeOK' /\ WaitingExact'
      BY <1>5 DEF TryEnter, TypeOK, WaitingExact, Waiters
    <2>2. Holders = {} /\ Working = {}
      BY <1>5 DEF TryEnter, Quiet, OnePermit
    <2>3. Holders' = {} /\ Working' = {m}
      BY <1>5, <2>2 DEF TryEnter, TypeOK, Holders, Working
    <2>4. OnePermit'
      BY <1>5, <2>3 DEF TryEnter, TypeOK, OnePermit
    <2> QED BY <2>1, <2>4
  <1>6. ASSUME NEW m \in Maintainers, DropMaintenance(m) PROVE GateExact'
    <2>1. TypeOK' /\ WaitingExact'
      BY <1>6 DEF DropMaintenance, TypeOK, WaitingExact, Waiters
    <2>2. Working = {m} /\ Holders = {}
      BY <1>6 DEF DropMaintenance, OnePermit, Working
    <2>3. Working' = {} /\ Holders' = {}
      BY <1>6, <2>2 DEF DropMaintenance, TypeOK, Holders, Working
    <2>4. OnePermit'
      BY <1>6, <2>3 DEF DropMaintenance, TypeOK, OnePermit
    <2> QED BY <2>1, <2>4
  <1>7. CASE UNCHANGED vars
    BY <1>7 DEF vars, TypeOK, WaitingExact, OnePermit, Waiters, Holders, Working
  <1> QED
    BY <1>1, <1>2, <1>3, <1>4, <1>5, <1>6, <1>7 DEF Next

\* The gate's accounting is exact and its permits exclude each other in every
\* reachable state: count, flags and permits constrain each other, so their
\* conjunction is the inductive invariant.
THEOREM GateCorrect == Spec => []GateExact
  BY GateInit, GateStep, PTL DEF Spec

\* No maintenance unit starts while a publication waits.
THEOREM GateNoBarging == Spec => NoBarging
  <1> DEFINE Barge == \A p \in Publishers, m \in Maintainers :
                        pub[p] = "wait" /\ unit[m] = "out" => unit'[m] = "out"
  <1>1. ASSUME GateExact, [Next]_vars PROVE [Barge]_vars
    <2> SUFFICES ASSUME Next, NEW p \in Publishers, NEW m \in Maintainers,
                        pub[p] = "wait", unit[m] = "out"
                 PROVE  unit'[m] = "out"
      BY <1>1
    <2>1. gate.waiting # 0
      <3>1. p \in Waiters
        BY DEF Waiters
      <3> QED
        BY <1>1, <3>1, WaitersFinite, FS_EmptySet DEF GateExact, WaitingExact
    <2>2. ASSUME NEW q \in Publishers, Enter(q) \/ Admit(q) \/ GiveUp(q) \/ DropPublish(q)
          PROVE  unit'[m] = "out"
      BY <2>2 DEF Enter, Admit, GiveUp, DropPublish
    <2>3. ASSUME NEW n \in Maintainers, TryEnter(n) \/ DropMaintenance(n)
          PROVE  unit'[m] = "out"
      BY <1>1, <2>1, <2>3 DEF TryEnter, Quiet, DropMaintenance, GateExact, TypeOK
    <2> QED
      BY <2>2, <2>3 DEF Next
  <1> QED
    BY GateInit, GateStep, <1>1, PTL DEF Spec, NoBarging
=============================================================================
