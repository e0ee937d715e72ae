------------------------ MODULE StorageSuite_proofs ------------------------
(***************************************************************************)
(* For any processes, files, attempts and caps: what the storage run       *)
(* checks of each component.  The suite's parts share no variables, so a   *)
(* theorem about a property of the suite is about the part it speaks of:   *)
(* the component's inductive invariant holds while part names it.          *)
(***************************************************************************)
EXTENDS StorageSuite, Sequences, FiniteSetTheorems, WellFoundedInduction, TLAPS

----------------------------------------------------------------------------
(* The workspace marker (WorkspaceMarker, twice: many creators, and power  *)
(* losses).  Its own module proves the component for every constant.       *)

MarkerPartInv ==
    /\ part = "marker" => Marker!MarkerInv
    /\ part = "power" => Power!MarkerInv

\* In every suite behaviour about the marker, one checkout has one identity, and a
\* returned one is on disk (topology.rs, marker_at and durable_marker).
THEOREM MarkerPartSafe == Spec => []MarkerKept
  <1>0. Marker!Bounds /\ Power!Bounds
    BY MarkerConstants DEF Marker!Bounds, Power!Bounds
  <1>1. Init => MarkerPartInv
    <2>1. Init => /\ part = "marker" => Marker!Init
                  /\ part = "power" => Power!Init
      BY DEF Init
    <2> QED BY <1>0, <2>1, Marker!MarkerInit, Power!MarkerInit DEF MarkerPartInv
  <1>2. MarkerPartInv /\ [Next]_vars => MarkerPartInv'
    <2>1. [Next]_vars => /\ part' = part
                         /\ part = "marker" => [Marker!Next]_Marker!vars
                         /\ part = "power" => [Power!Next]_Power!vars
      BY DEF Next, vars, markerVars, Marker!vars, Power!vars, Marker!disk, Power!disk
    <2> QED BY <1>0, <2>1, Marker!MarkerStep, Power!MarkerStep DEF MarkerPartInv
  <1>3. MarkerPartInv => MarkerKept
    BY Marker!MarkerImplies, Power!MarkerImplies DEF MarkerPartInv, MarkerKept
  <1> QED BY <1>1, <1>2, <1>3, PTL DEF Spec

----------------------------------------------------------------------------
(* The descriptors that keep SQLite's locks (SqliteWitnesses).             *)

\* One connection at a time is inside a write transaction of a file.
OneWriter ==
    \A c, d \in Witnesses!Open :
        /\ witnessesConn[c].locked /\ witnessesConn[d].locked
        /\ witnessesConn[c].ino = witnessesConn[d].ino
        => c = d

WitnessInv ==
    /\ Witnesses!TypeOK /\ OneWriter
    /\ Witnesses!LocksSurvive /\ Witnesses!ConnectionsWitnessed /\ Witnesses!CountExact
    /\ \A p \in Witnesses!Paths : IsFiniteSet(witnessesHeld[p])

\* Cardinality is the same operator in every component.
LEMMA SameCardinality == \A S : Witnesses!Cardinality(S) = Cardinality(S)
  BY DEF Witnesses!Cardinality, Cardinality

\* The registered descriptors are those of the two paths.
LEMMA HeldByPath ==
    /\ Witnesses!Held = witnessesHeld["index"] \cup witnessesHeld["stage"]
    /\ Witnesses!Held' = witnessesHeld'["index"] \cup witnessesHeld'["stage"]
  BY DEF Witnesses!Held, Witnesses!Paths

\* Of a descriptor with one reference, or two of which a clone is one, the rest is known.
LEMMA CountIsOne ==
    ASSUME NEW A, NEW B, IsFiniteSet(A), IsFiniteSet(B), A # {},
           \/ Cardinality(A) + Cardinality(B) = 1
           \/ Cardinality(A) + Cardinality(B) = 2 /\ B # {}
    PROVE  \E x : A = {x}
  <1>1. /\ Cardinality(A) \in Nat /\ Cardinality(B) \in Nat /\ Cardinality(A) # 0
        /\ B # {} => Cardinality(B) # 0
    BY FS_CardinalityType, FS_EmptySet
  <1>2. Cardinality(A) = 1
    BY <1>1
  <1> QED BY <1>2, FS_Singleton

LEMMA CountIsNone ==
    ASSUME NEW A, NEW B, IsFiniteSet(A), IsFiniteSet(B), B # {},
           Cardinality(A) + Cardinality(B) = 1
    PROVE  A = {}
  <1>1. Cardinality(A) \in Nat /\ Cardinality(B) \in Nat /\ Cardinality(B) # 0
    BY FS_CardinalityType, FS_EmptySet
  <1>2. Cardinality(A) = 0
    BY <1>1
  <1> QED BY <1>2, FS_EmptySet

LEMMA FiniteReferences ==
    ASSUME NEW i
    PROVE  /\ IsFiniteSet({q \in Witnesses!Paths : i \in witnessesHeld[q]})
           /\ IsFiniteSet({h \in Borrowers : clone[h] = i})
  <1>1. IsFiniteSet({"index"} \cup {"stage"})
    BY FS_AddElement, FS_Singleton
  <1>2. Witnesses!Paths = {"index"} \cup {"stage"}
    BY DEF Witnesses!Paths
  <1>3. {q \in Witnesses!Paths : i \in witnessesHeld[q]} \in SUBSET Witnesses!Paths
        /\ {h \in Borrowers : clone[h] = i} \in SUBSET Borrowers
    OBVIOUS
  <1>4. IsFiniteSet(Borrowers) /\ IsFiniteSet(Witnesses!Paths)
    BY <1>1, <1>2, WitnessConstants
  <1> QED BY <1>3, <1>4, FS_Subset

\* A descriptor is registered under one path only, if that path's reference and
\* at most one clone are all there is.
LEMMA RegisteredOnce ==
    ASSUME NEW i, NEW p \in Witnesses!Paths, i \in witnessesHeld[p],
           \/ Witnesses!Strong(i) = 1
           \/ Witnesses!Strong(i) = 2 /\ \E h \in Borrowers : clone[h] = i
    PROVE  \A q \in Witnesses!Paths : i \in witnessesHeld[q] => q = p
  <1> DEFINE A == {q \in Witnesses!Paths : i \in witnessesHeld[q]}
             B == {h \in Borrowers : clone[h] = i}
  <1>1. IsFiniteSet(A) /\ IsFiniteSet(B)
    BY FiniteReferences
  <1>2. Witnesses!Strong(i) = Cardinality(A) + Cardinality(B)
    BY SameCardinality DEF Witnesses!Strong
  <1>3. p \in A /\ ((\E h \in Borrowers : clone[h] = i) => B # {})
    OBVIOUS
  <1>4. \E x : A = {x}
    <2> HIDE DEF A, B
    <2> QED BY <1>1, <1>2, <1>3, CountIsOne
  <1> QED BY <1>4

\* A clone that is the last reference is of a descriptor no path has registered.
LEMMA LastClone ==
    ASSUME NEW h \in Borrowers, Witnesses!Strong(clone[h]) = 1
    PROVE  clone[h] \notin Witnesses!Held
  <1> DEFINE A == {q \in Witnesses!Paths : clone[h] \in witnessesHeld[q]}
             B == {g \in Borrowers : clone[g] = clone[h]}
  <1>1. IsFiniteSet(A) /\ IsFiniteSet(B)
    BY FiniteReferences
  <1>2. Witnesses!Strong(clone[h]) = Cardinality(A) + Cardinality(B) /\ h \in B
    BY SameCardinality DEF Witnesses!Strong
  <1>3. A = {}
    <2> HIDE DEF A, B
    <2> QED BY <1>1, <1>2, CountIsNone
  <1> QED BY <1>3 DEF Witnesses!Held

LEMMA WitnessInit == Witnesses!Init => WitnessInv
  <1> SUFFICES ASSUME Witnesses!Init PROVE WitnessInv
    OBVIOUS
  <1>1. Witnesses!Open = {} /\ \A p \in Witnesses!Paths : witnessesHeld[p] = {}
    BY DEF Witnesses!Init, Witnesses!Open
  <1>2. Witnesses!Held = {} /\ Cardinality({}) = 0 /\ IsFiniteSet({})
    BY <1>1, FS_EmptySet DEF Witnesses!Held
  <1>3. Witnesses!TypeOK
    BY WitnessConstants DEF Witnesses!Init, Witnesses!TypeOK, Witnesses!Paths
  <1>4. Witnesses!CountExact
    BY <1>2, SameCardinality DEF Witnesses!CountExact, Witnesses!Init
  <1> QED BY <1>1, <1>2, <1>3, <1>4
          DEF WitnessInv, OneWriter, Witnesses!LocksSurvive, Witnesses!ConnectionsWitnessed

\* Registering a descriptor, and giving up one that only its path has.
LEMMA CountRegistered ==
    ASSUME WitnessInv, NEW i \in FileIds, NEW p \in Witnesses!Paths,
           witnessesHeld' = [witnessesHeld EXCEPT ![p] = @ \cup {i}],
           count' = IF i \in Witnesses!Held THEN count ELSE count + 1
    PROVE  Witnesses!CountExact' /\ \A q \in Witnesses!Paths : IsFiniteSet(witnessesHeld'[q])
  <1>1. Witnesses!Held' = Witnesses!Held \cup {i}
    BY HeldByPath DEF WitnessInv, Witnesses!TypeOK, Witnesses!Paths
  <1>2. IsFiniteSet(Witnesses!Held)
    BY HeldByPath, FS_Union DEF WitnessInv, Witnesses!Paths
  <1>3. Cardinality(Witnesses!Held') = IF i \in Witnesses!Held THEN Cardinality(Witnesses!Held)
                                       ELSE Cardinality(Witnesses!Held) + 1
    BY <1>1, <1>2, FS_AddElement
  <1>4. ASSUME NEW q \in Witnesses!Paths PROVE IsFiniteSet(witnessesHeld'[q])
    <2>1. IsFiniteSet(witnessesHeld[q] \cup {i}) /\ IsFiniteSet(witnessesHeld[q])
      BY FS_AddElement DEF WitnessInv
    <2>2. witnessesHeld'[q] \in {witnessesHeld[q] \cup {i}, witnessesHeld[q]}
      BY DEF WitnessInv, Witnesses!TypeOK
    <2> QED BY <2>1, <2>2
  <1> QED BY <1>3, <1>4, SameCardinality DEF WitnessInv, Witnesses!CountExact

LEMMA CountReleased ==
    ASSUME WitnessInv, NEW i \in Witnesses!Held,
           Witnesses!Held' = Witnesses!Held \ {i}, count' = count - 1
    PROVE  Witnesses!CountExact' /\ count' \in 0..Capacity
  <1>1. IsFiniteSet(Witnesses!Held)
    BY HeldByPath, FS_Union DEF WitnessInv, Witnesses!Paths
  <1>2. Cardinality(Witnesses!Held') = Cardinality(Witnesses!Held) - 1
        /\ Cardinality(Witnesses!Held) \in Nat /\ Cardinality(Witnesses!Held) # 0
    BY <1>1, FS_RemoveElement, FS_CardinalityType, FS_EmptySet
  <1> QED BY <1>2, WitnessConstants, SameCardinality
          DEF WitnessInv, Witnesses!CountExact, Witnesses!TypeOK

\* Connections keep their locks when no descriptor of theirs is given up.
LEMMA LocksStay ==
    ASSUME WitnessInv, UNCHANGED witnessesConn, Witnesses!ConnectionsWitnessed',
           NEW lost, lost \cap Witnesses!Held' = {}, locks' = locks \ lost
    PROVE  OneWriter' /\ Witnesses!LocksSurvive'
  <1>1. ASSUME NEW c \in Witnesses!Open' PROVE witnessesConn'[c].ino \in Witnesses!Held'
    BY <1>1, HeldByPath
    DEF Witnesses!ConnectionsWitnessed, Witnesses!Held, Witnesses!Open, WitnessInv,
        Witnesses!TypeOK
  <1> QED BY <1>1 DEF WitnessInv, OneWriter, Witnesses!LocksSurvive, Witnesses!Open

\* A step that gives up no descriptor.
LEMMA RegistryGrows ==
    ASSUME WitnessInv, UNCHANGED <<witnessesConn, locks>>,
           \A p \in Witnesses!Paths : witnessesHeld[p] \subseteq witnessesHeld'[p]
    PROVE  OneWriter' /\ Witnesses!LocksSurvive' /\ Witnesses!ConnectionsWitnessed'
  BY DEF WitnessInv, OneWriter, Witnesses!LocksSurvive, Witnesses!ConnectionsWitnessed,
         Witnesses!Open, Witnesses!TypeOK

\* clean_retired_sqlite_witness gives up what only the path and nobody's connection has.
LEMMA CleanedKeeps ==
    ASSUME WitnessInv, NEW p \in Witnesses!Paths, NEW ret \in SUBSET Witnesses!Paths,
           NEW without, Witnesses!Cleaned(p, ret, without)
    PROVE  /\ Witnesses!CountExact' /\ count' \in 0..Capacity
           /\ witnessesHeld' \in [Witnesses!Paths -> SUBSET FileIds]
           /\ retired' \subseteq Witnesses!Paths
           /\ \A q \in Witnesses!Paths : IsFiniteSet(witnessesHeld'[q])
           /\ \A c \in Witnesses!Open \ without :
                  witnessesConn[c].ino \in witnessesHeld'[witnessesConn[c].path]
  <1>0. retired' \subseteq Witnesses!Paths
    BY DEF Witnesses!Cleaned
  <1>1. CASE p \in ret /\ Witnesses!Idle(p, without)
    <2>1. /\ witnessesHeld' = [witnessesHeld EXCEPT ![p] = {}]
          /\ count' = count - Cardinality(witnessesHeld[p])
      BY <1>1, SameCardinality DEF Witnesses!Cleaned
    <2>2. /\ witnessesHeld' \in [Witnesses!Paths -> SUBSET FileIds]
          /\ \A q \in Witnesses!Paths : IsFiniteSet(witnessesHeld'[q])
      BY <2>1, FS_EmptySet DEF WitnessInv, Witnesses!TypeOK
    <2>3. ASSUME NEW i \in witnessesHeld[p], NEW q \in Witnesses!Paths, q # p
          PROVE  i \notin witnessesHeld[q]
      BY <1>1, <2>3, RegisteredOnce DEF Witnesses!Idle
    <2>4. Witnesses!Held' = Witnesses!Held \ witnessesHeld[p]
      BY <2>1, <2>3, HeldByPath DEF Witnesses!Paths, WitnessInv, Witnesses!TypeOK
    <2>5. IsFiniteSet(Witnesses!Held) /\ witnessesHeld[p] \in SUBSET Witnesses!Held
      BY HeldByPath, FS_Union DEF WitnessInv, Witnesses!Paths
    <2>6. witnessesHeld[p] = Witnesses!Held \cap witnessesHeld[p] /\ IsFiniteSet(Witnesses!Held')
      BY <2>4, <2>5, FS_Difference
    <2>7. /\ Cardinality(Witnesses!Held')
             = Cardinality(Witnesses!Held) - Cardinality(witnessesHeld[p])
          /\ Cardinality(Witnesses!Held') \in Nat
          /\ Cardinality(Witnesses!Held) \in Nat /\ Cardinality(witnessesHeld[p]) \in Nat
      <3>1. Cardinality(Witnesses!Held \ witnessesHeld[p])
            = Cardinality(Witnesses!Held) - Cardinality(Witnesses!Held \cap witnessesHeld[p])
        BY <2>5, FS_Difference
      <3>2. IsFiniteSet(witnessesHeld[p])
        BY DEF WitnessInv
      <3>3. Cardinality(Witnesses!Held') \in Nat /\ Cardinality(Witnesses!Held) \in Nat
            /\ Cardinality(witnessesHeld[p]) \in Nat
        BY <2>5, <2>6, <3>2, FS_CardinalityType
      <3> QED BY <2>4, <2>6, <3>1, <3>3
    <2>8. Witnesses!CountExact' /\ count' \in 0..Capacity
      BY <2>1, <2>7, SameCardinality, WitnessConstants
      DEF WitnessInv, Witnesses!CountExact, Witnesses!TypeOK
    <2>9. ASSUME NEW c \in Witnesses!Open \ without
          PROVE  witnessesConn[c].ino \in witnessesHeld'[witnessesConn[c].path]
      BY <1>1, <2>1
      DEF WitnessInv, Witnesses!ConnectionsWitnessed, Witnesses!Idle, Witnesses!On,
          Witnesses!TypeOK, Witnesses!Open
    <2> QED BY <1>0, <2>2, <2>8, <2>9
  <1>2. CASE ~(p \in ret /\ Witnesses!Idle(p, without))
    <2>1. UNCHANGED <<witnessesHeld, count>>
      BY <1>2 DEF Witnesses!Cleaned
    <2> QED BY <1>0, <2>1
            DEF WitnessInv, Witnesses!CountExact, Witnesses!ConnectionsWitnessed,
                Witnesses!TypeOK, Witnesses!Held, Witnesses!Paths
  <1> QED BY <1>1, <1>2

\* Every operation of the registry, of SQLite and of other processes keeps the invariant.
LEMMA WitnessStep == WitnessInv /\ [Witnesses!Next]_Witnesses!vars => WitnessInv'
  <1> SUFFICES ASSUME WitnessInv, [Witnesses!Next]_Witnesses!vars PROVE WitnessInv'
    OBVIOUS
  <1>1. ASSUME NEW h \in Borrowers, NEW p \in Witnesses!Paths, Witnesses!Borrow(h, p)
        PROVE  WitnessInv'
    <2>1. /\ named[p] \in FileIds
          /\ witnessesHeld' = [witnessesHeld EXCEPT ![p] = @ \cup {named[p]}]
          /\ count' = IF named[p] \in Witnesses!Held THEN count ELSE count + 1
          /\ UNCHANGED <<witnessesConn, locks>>
      BY <1>1 DEF Witnesses!Borrow, WitnessInv, Witnesses!TypeOK
    <2>2. Witnesses!TypeOK'
      BY <1>1, <2>1, WitnessConstants
      DEF Witnesses!Borrow, Witnesses!Room, WitnessInv, Witnesses!TypeOK
    <2>3. OneWriter' /\ Witnesses!LocksSurvive' /\ Witnesses!ConnectionsWitnessed'
      BY <2>1, RegistryGrows DEF WitnessInv, Witnesses!TypeOK
    <2> QED BY <2>1, <2>2, <2>3, CountRegistered DEF WitnessInv
  <1>2. ASSUME NEW h \in Borrowers, Witnesses!Return(h) PROVE WitnessInv'
    <2>1. UNCHANGED <<witnessesHeld, count, witnessesConn>>
      BY <1>2 DEF Witnesses!Return
    <2>2. /\ Witnesses!Held' = Witnesses!Held /\ Witnesses!ConnectionsWitnessed'
          /\ Witnesses!CountExact' /\ \A p \in Witnesses!Paths : IsFiniteSet(witnessesHeld'[p])
      BY <2>1 DEF WitnessInv, Witnesses!Held, Witnesses!ConnectionsWitnessed,
                  Witnesses!CountExact, Witnesses!Open, Witnesses!Paths
    <2>3. \E lost : lost \cap Witnesses!Held' = {} /\ locks' = locks \ lost
      <3>1. CASE Witnesses!Strong(clone[h]) = 1
        BY <1>2, <2>2, <3>1, LastClone DEF Witnesses!Return
      <3>2. CASE Witnesses!Strong(clone[h]) # 1
        BY <1>2, <3>2 DEF Witnesses!Return
      <3> QED BY <3>1, <3>2
    <2>4. OneWriter' /\ Witnesses!LocksSurvive'
      BY <2>1, <2>2, <2>3, LocksStay
    <2>5. Witnesses!TypeOK'
      BY <1>2 DEF Witnesses!Return, WitnessInv, Witnesses!TypeOK
    <2> QED BY <2>2, <2>4, <2>5 DEF WitnessInv
  <1>3. ASSUME NEW h \in Borrowers, Witnesses!CreateStage(h) PROVE WitnessInv'
    <2>1. PICK i \in FileIds :
            /\ i \notin Witnesses!Held
            /\ witnessesHeld' = [witnessesHeld EXCEPT !["stage"] = @ \cup {i}]
            /\ named' = [named EXCEPT !["stage"] = i] /\ clone' = [clone EXCEPT ![h] = i]
            /\ count' = count + 1 /\ UNCHANGED <<witnessesConn, locks, retired, discard>>
      BY <1>3 DEF Witnesses!CreateStage, Witnesses!Fresh, Witnesses!InUse
    <2>2. Witnesses!TypeOK'
      BY <1>3, <2>1, WitnessConstants
      DEF Witnesses!CreateStage, Witnesses!Room, WitnessInv, Witnesses!TypeOK, Witnesses!Paths
    <2>3. OneWriter' /\ Witnesses!LocksSurvive' /\ Witnesses!ConnectionsWitnessed'
      BY <2>1, RegistryGrows DEF WitnessInv, Witnesses!TypeOK
    <2>4. "stage" \in Witnesses!Paths
      BY DEF Witnesses!Paths
    <2> QED BY <2>1, <2>2, <2>3, <2>4, CountRegistered DEF WitnessInv
  <1>4. ASSUME NEW h \in Borrowers, Witnesses!Initialize(h) PROVE WitnessInv'
    <2>1. /\ UNCHANGED <<count, retired, witnessesConn, clone, locks, discard>>
          /\ witnessesHeld' = [p \in Witnesses!Paths |->
                 IF p = "index" THEN witnessesHeld["index"] \cup witnessesHeld["stage"] ELSE {}]
          /\ named' \in [Witnesses!Paths -> FileIds \cup {Nothing}]
          /\ Witnesses!Open = {}
      BY <1>4 DEF Witnesses!Initialize, Witnesses!Moved, Witnesses!Renamed, Witnesses!OnPath,
                  Witnesses!Paths, Witnesses!Open, WitnessInv, Witnesses!TypeOK
    <2>2. Witnesses!Held' = Witnesses!Held /\ Witnesses!Open' = {}
      BY <2>1, HeldByPath DEF Witnesses!Paths, Witnesses!Open
    <2>3. Witnesses!TypeOK' /\ Witnesses!CountExact'
      BY <2>1, <2>2
      DEF WitnessInv, Witnesses!TypeOK, Witnesses!CountExact, Witnesses!Paths
    <2>4. ASSUME NEW p \in Witnesses!Paths PROVE IsFiniteSet(witnessesHeld'[p])
      <3>1. IsFiniteSet(witnessesHeld["index"] \cup witnessesHeld["stage"]) /\ IsFiniteSet({})
        BY FS_Union, FS_EmptySet DEF WitnessInv, Witnesses!Paths
      <3> QED BY <2>1, <3>1
    <2> QED BY <2>2, <2>3, <2>4
            DEF WitnessInv, OneWriter, Witnesses!LocksSurvive, Witnesses!ConnectionsWitnessed
  <1>5. ASSUME NEW h \in Borrowers, Witnesses!Replace(h) PROVE WitnessInv'
    <2> DEFINE i == named["index"]
    <2>1. /\ i \in witnessesHeld["index"] /\ Witnesses!Strong(i) = 2 /\ clone[h] = i
          /\ witnessesHeld' = [p \in Witnesses!Paths |-> IF p = "index"
                  THEN (witnessesHeld["index"] \ {i}) \cup witnessesHeld["stage"] ELSE {}]
          /\ count' = count - 1 /\ UNCHANGED <<retired, witnessesConn, discard>>
          /\ named' \in [Witnesses!Paths -> FileIds \cup {Nothing}]
          /\ clone' \in [Borrowers -> FileIds \cup {Nothing}]
          /\ Witnesses!On("index", i) = {} /\ Witnesses!OnPath("stage") = {}
          /\ locks' = Witnesses!Surviving(locks)
      BY <1>5 DEF Witnesses!Replace, Witnesses!ObsoleteFree, Witnesses!Moved,
                  Witnesses!Renamed, Witnesses!Paths, WitnessInv, Witnesses!TypeOK
    <2>2. i \notin witnessesHeld["stage"]
      BY <2>1, RegisteredOnce DEF Witnesses!Paths
    <2>3. Witnesses!Held' = Witnesses!Held \ {i} /\ i \in Witnesses!Held
      BY <2>1, <2>2, HeldByPath DEF Witnesses!Paths
    <2>4. Witnesses!CountExact' /\ count' \in 0..Capacity
      BY <2>1, <2>3, CountReleased
    <2>5. Witnesses!ConnectionsWitnessed'
      BY <2>1 DEF WitnessInv, Witnesses!ConnectionsWitnessed, Witnesses!Open, Witnesses!On,
                  Witnesses!OnPath, Witnesses!TypeOK, Witnesses!Paths
    <2>6. \E lost : lost \cap Witnesses!Held' = {} /\ locks' = locks \ lost
      BY <2>1 DEF Witnesses!Surviving, Witnesses!Held
    <2>7. OneWriter' /\ Witnesses!LocksSurvive'
      BY <2>1, <2>5, <2>6, LocksStay
    <2>8. Witnesses!TypeOK'
      BY <2>1, <2>4, <2>6 DEF WitnessInv, Witnesses!TypeOK, Witnesses!Paths
    <2>9. ASSUME NEW p \in Witnesses!Paths PROVE IsFiniteSet(witnessesHeld'[p])
      <3>1. IsFiniteSet(witnessesHeld["index"] \ {i}) /\ IsFiniteSet(witnessesHeld["stage"])
        BY FS_RemoveElement DEF WitnessInv, Witnesses!Paths
      <3>2. IsFiniteSet((witnessesHeld["index"] \ {i}) \cup witnessesHeld["stage"])
            /\ IsFiniteSet({})
        BY <3>1, FS_Union, FS_EmptySet
      <3> QED BY <2>1, <3>2
    <2> QED BY <2>4, <2>5, <2>7, <2>8, <2>9 DEF WitnessInv
  <1>6. ASSUME NEW h \in Borrowers, Witnesses!DiscardStage(h) PROVE WitnessInv'
    BY <1>6 DEF Witnesses!DiscardStage, WitnessInv, OneWriter, Witnesses!TypeOK,
                Witnesses!LocksSurvive, Witnesses!ConnectionsWitnessed, Witnesses!CountExact,
                Witnesses!Held, Witnesses!Open, Witnesses!Paths
  <1>7. ASSUME NEW c \in Conns, NEW p \in Witnesses!Paths, Witnesses!OpenConn(c, p)
        PROVE  WitnessInv'
    <2>1. /\ named[p] \in witnessesHeld[p] /\ named[p] \in FileIds /\ witnessesConn[c] = Nothing
          /\ witnessesConn' = [witnessesConn EXCEPT
                                  ![c] = [path |-> p, ino |-> named[p], locked |-> FALSE]]
          /\ UNCHANGED <<named, witnessesHeld, count, retired, clone, locks, discard>>
      BY <1>7 DEF Witnesses!OpenConn, Witnesses!Witnessed, WitnessInv, Witnesses!TypeOK
    <2>2. Witnesses!TypeOK'
      BY <2>1 DEF WitnessInv, Witnesses!TypeOK
    <2> DEFINE new == [path |-> p, ino |-> named[p], locked |-> FALSE]
    <2>2a. new \in [path : {"index", "stage"}, ino : FileIds, locked : BOOLEAN]
      BY <2>1 DEF Witnesses!Paths
    <2>2b. new # Nothing
      BY <2>2a, WitnessConstants
    <2>3. /\ Witnesses!Open' = Witnesses!Open \cup {c} /\ c \notin Witnesses!Open
          /\ \A d \in Witnesses!Open : witnessesConn'[d] = witnessesConn[d]
          /\ witnessesConn'[c] = [path |-> p, ino |-> named[p], locked |-> FALSE]
      BY <2>1, <2>2b DEF Witnesses!Open, WitnessInv, Witnesses!TypeOK
    <2>4. OneWriter' /\ Witnesses!LocksSurvive' /\ Witnesses!ConnectionsWitnessed'
      BY <2>1, <2>3 DEF WitnessInv, OneWriter, Witnesses!LocksSurvive,
                        Witnesses!ConnectionsWitnessed
    <2> QED BY <2>1, <2>2, <2>4
            DEF WitnessInv, Witnesses!CountExact, Witnesses!Held, Witnesses!Paths
  <1>8. ASSUME NEW c \in Conns, Witnesses!Lock(c) \/ Witnesses!Unlock(c) PROVE WitnessInv'
    <2>1. PICK b \in BOOLEAN :
            /\ c \in Witnesses!Open
            /\ witnessesConn' = [witnessesConn EXCEPT ![c].locked = b]
            /\ b => /\ locks' = locks \cup {witnessesConn[c].ino}
                    /\ \A d \in Witnesses!Open : witnessesConn[d].ino = witnessesConn[c].ino
                                                 => ~witnessesConn[d].locked
            /\ ~b => locks' = locks \ {witnessesConn[c].ino} /\ witnessesConn[c].locked
            /\ UNCHANGED <<named, witnessesHeld, count, retired, clone, discard>>
      BY <1>8 DEF Witnesses!Lock, Witnesses!Unlock
    <2>2. witnessesConn[c] \in [path : Witnesses!Paths, ino : FileIds, locked : BOOLEAN]
      BY <2>1 DEF WitnessInv, Witnesses!TypeOK, Witnesses!Open
    <2>3. /\ witnessesConn'[c].ino = witnessesConn[c].ino /\ witnessesConn'[c].locked = b
          /\ witnessesConn'[c].path = witnessesConn[c].path
          /\ witnessesConn'[c] \in [path : Witnesses!Paths, ino : FileIds, locked : BOOLEAN]
          /\ \A d \in Conns \ {c} : witnessesConn'[d] = witnessesConn[d]
      BY <2>1, <2>2 DEF WitnessInv, Witnesses!TypeOK
    <2>4. Witnesses!Open' = Witnesses!Open
      BY <2>1, <2>3, WitnessConstants DEF Witnesses!Open, Witnesses!Paths
    <2>5. Witnesses!TypeOK'
      BY <2>1, <2>2, <2>3 DEF WitnessInv, Witnesses!TypeOK
    <2>6. Witnesses!ConnectionsWitnessed'
      BY <2>1, <2>3, <2>4 DEF WitnessInv, Witnesses!ConnectionsWitnessed, Witnesses!Open
    <2>7. OneWriter' /\ Witnesses!LocksSurvive'
      BY <2>1, <2>3, <2>4 DEF WitnessInv, OneWriter, Witnesses!LocksSurvive, Witnesses!Open
    <2> QED BY <2>1, <2>5, <2>6, <2>7
            DEF WitnessInv, Witnesses!CountExact, Witnesses!Held, Witnesses!Paths
  <1>9. ASSUME NEW c \in Conns, Witnesses!CloseConn(c) PROVE WitnessInv'
    <2> DEFINE p == witnessesConn[c].path
    <2>1. /\ c \in Witnesses!Open /\ p \in Witnesses!Paths
          /\ Witnesses!Cleaned(p, retired, {c}) /\ retired \in SUBSET Witnesses!Paths
          /\ witnessesConn' = [witnessesConn EXCEPT ![c] = Nothing]
          /\ UNCHANGED <<named, clone, discard>>
      BY <1>9 DEF Witnesses!CloseConn, Witnesses!Open, WitnessInv, Witnesses!TypeOK
    <2>2. Witnesses!Open' = Witnesses!Open \ {c}
          /\ \A d \in Witnesses!Open' : witnessesConn'[d] = witnessesConn[d]
      BY <2>1 DEF Witnesses!Open, WitnessInv, Witnesses!TypeOK
    <2>3. /\ Witnesses!CountExact' /\ count' \in 0..Capacity
          /\ witnessesHeld' \in [Witnesses!Paths -> SUBSET FileIds]
          /\ retired' \subseteq Witnesses!Paths
          /\ \A q \in Witnesses!Paths : IsFiniteSet(witnessesHeld'[q])
          /\ \A d \in Witnesses!Open \ {c} :
                 witnessesConn[d].ino \in witnessesHeld'[witnessesConn[d].path]
      BY <2>1, CleanedKeeps
    <2>4. Witnesses!ConnectionsWitnessed'
      BY <2>2, <2>3 DEF Witnesses!ConnectionsWitnessed
    <2>5. /\ locks' \subseteq locks
          /\ \A i \in locks \ locks' : \/ i \notin Witnesses!Held'
                                       \/ witnessesConn[c].locked /\ i = witnessesConn[c].ino
      BY <1>9 DEF Witnesses!CloseConn, Witnesses!Surviving, Witnesses!Held
    <2>6. ASSUME NEW d \in Witnesses!Open', witnessesConn'[d].locked
          PROVE  witnessesConn'[d].ino \in locks'
      <3>1. witnessesConn[d].ino \in locks /\ witnessesConn[d].locked /\ d # c
            /\ d \in Witnesses!Open
        BY <2>2, <2>6 DEF WitnessInv, Witnesses!LocksSurvive
      <3>2. witnessesConn[d].ino \in Witnesses!Held'
        BY <2>2, <2>3, <3>1 DEF Witnesses!Held, WitnessInv, Witnesses!TypeOK, Witnesses!Open
      <3> QED BY <2>1, <2>2, <2>5, <3>1, <3>2 DEF WitnessInv, OneWriter
    <2>7. OneWriter' /\ Witnesses!LocksSurvive'
      BY <2>2, <2>6 DEF WitnessInv, OneWriter, Witnesses!LocksSurvive
    <2>8. Witnesses!TypeOK'
      BY <2>1, <2>3, <2>5 DEF WitnessInv, Witnesses!TypeOK
    <2> QED BY <2>3, <2>4, <2>7, <2>8 DEF WitnessInv
  <1>10. ASSUME NEW p \in Witnesses!Paths, Witnesses!Retire(p) PROVE WitnessInv'
    <2>1. /\ Witnesses!Cleaned(p, retired \cup {p}, {})
          /\ retired \cup {p} \in SUBSET Witnesses!Paths
          /\ UNCHANGED <<named, witnessesConn, clone, discard>>
          /\ locks' = Witnesses!Surviving(locks)
      BY <1>10 DEF Witnesses!Retire, WitnessInv, Witnesses!TypeOK
    <2>2. /\ Witnesses!CountExact' /\ count' \in 0..Capacity
          /\ witnessesHeld' \in [Witnesses!Paths -> SUBSET FileIds]
          /\ retired' \subseteq Witnesses!Paths
          /\ \A q \in Witnesses!Paths : IsFiniteSet(witnessesHeld'[q])
          /\ \A d \in Witnesses!Open \ {} :
                 witnessesConn[d].ino \in witnessesHeld'[witnessesConn[d].path]
      BY <2>1, CleanedKeeps
    <2>3. Witnesses!ConnectionsWitnessed'
      BY <2>1, <2>2 DEF Witnesses!ConnectionsWitnessed, Witnesses!Open
    <2>4. \E lost : lost \cap Witnesses!Held' = {} /\ locks' = locks \ lost
      BY <2>1 DEF Witnesses!Surviving, Witnesses!Held
    <2>5. OneWriter' /\ Witnesses!LocksSurvive'
      BY <2>1, <2>3, <2>4, LocksStay
    <2>6. Witnesses!TypeOK'
      BY <2>1, <2>2, <2>4 DEF WitnessInv, Witnesses!TypeOK
    <2> QED BY <2>2, <2>3, <2>5, <2>6 DEF WitnessInv
  <1>11. ASSUME NEW p \in Witnesses!Paths, NEW i \in witnessesHeld[p],
               Witnesses!Strong(i) = 1, Witnesses!On(p, i) = {},
               witnessesHeld' = [witnessesHeld EXCEPT ![p] = @ \ {i}], count' = count - 1,
               locks' = Witnesses!Surviving(locks),
               named' \in [Witnesses!Paths -> FileIds \cup {Nothing}],
               discard' \in FileIds \cup {Nothing}, UNCHANGED <<retired, witnessesConn, clone>>
        PROVE  WitnessInv'
    <2>1. Witnesses!Held' = Witnesses!Held \ {i} /\ i \in Witnesses!Held
      BY <1>11, RegisteredOnce, HeldByPath DEF Witnesses!Paths, WitnessInv, Witnesses!TypeOK
    <2>2. Witnesses!CountExact' /\ count' \in 0..Capacity
      BY <1>11, <2>1, CountReleased
    <2>3. Witnesses!ConnectionsWitnessed'
      BY <1>11 DEF WitnessInv, Witnesses!ConnectionsWitnessed, Witnesses!Open, Witnesses!On,
                   Witnesses!TypeOK
    <2>4. \E lost : lost \cap Witnesses!Held' = {} /\ locks' = locks \ lost
      BY <1>11 DEF Witnesses!Surviving, Witnesses!Held
    <2>5. OneWriter' /\ Witnesses!LocksSurvive'
      BY <1>11, <2>3, <2>4, LocksStay
    <2>6. Witnesses!TypeOK'
      BY <1>11, <2>2, <2>4 DEF WitnessInv, Witnesses!TypeOK
    <2>7. ASSUME NEW q \in Witnesses!Paths PROVE IsFiniteSet(witnessesHeld'[q])
      <3>1. IsFiniteSet(witnessesHeld[q] \ {i}) /\ IsFiniteSet(witnessesHeld[q])
        BY FS_RemoveElement DEF WitnessInv
      <3>2. witnessesHeld'[q] \in {witnessesHeld[q] \ {i}, witnessesHeld[q]}
        BY <1>11 DEF WitnessInv, Witnesses!TypeOK
      <3> QED BY <3>1, <3>2
    <2> QED BY <2>2, <2>3, <2>5, <2>6, <2>7 DEF WitnessInv
  <1>12. CASE Witnesses!GcUnlink
    <2> DEFINE i == named["index"]
    <2>1. /\ i \in witnessesHeld["index"] /\ Witnesses!Strong(i) = 1
          /\ Witnesses!On("index", i) = {} /\ count' = count - 1
          /\ witnessesHeld' = [witnessesHeld EXCEPT !["index"] = @ \ {i}]
          /\ locks' = Witnesses!Surviving(locks)
          /\ named' \in [Witnesses!Paths -> FileIds \cup {Nothing}]
          /\ discard' \in FileIds \cup {Nothing} /\ UNCHANGED <<retired, witnessesConn, clone>>
      BY <1>12 DEF Witnesses!GcUnlink, Witnesses!OnPath, Witnesses!On, WitnessInv,
                   Witnesses!TypeOK, Witnesses!Paths
    <2>2. "index" \in Witnesses!Paths
      BY DEF Witnesses!Paths
    <2> QED BY <1>11, <2>1, <2>2
  <1>13. CASE Witnesses!ReleaseStage
    <2>1. CASE /\ named["stage"] = Nothing /\ discard \in witnessesHeld["stage"]
               /\ Witnesses!On("stage", discard) = {} /\ Witnesses!Strong(discard) = 1
      <3>1. /\ witnessesHeld' = [witnessesHeld EXCEPT !["stage"] = @ \ {discard}]
            /\ count' = count - 1 /\ locks' = Witnesses!Surviving(locks)
            /\ named' \in [Witnesses!Paths -> FileIds \cup {Nothing}]
            /\ discard' \in FileIds \cup {Nothing} /\ UNCHANGED <<retired, witnessesConn, clone>>
        BY <1>13, <2>1 DEF Witnesses!ReleaseStage, WitnessInv, Witnesses!TypeOK
      <3>2. "stage" \in Witnesses!Paths
        BY DEF Witnesses!Paths
      <3> QED BY <1>11, <2>1, <3>1, <3>2
    <2>2. CASE ~(/\ named["stage"] = Nothing /\ discard \in witnessesHeld["stage"]
                 /\ Witnesses!On("stage", discard) = {} /\ Witnesses!Strong(discard) = 1)
      <3>1. /\ UNCHANGED <<named, witnessesHeld, count, retired, witnessesConn, clone, locks>>
            /\ discard' = Nothing
        BY <1>13, <2>2 DEF Witnesses!ReleaseStage
      <3> QED BY <3>1 DEF WitnessInv, OneWriter, Witnesses!TypeOK, Witnesses!LocksSurvive,
                Witnesses!ConnectionsWitnessed, Witnesses!CountExact, Witnesses!Held,
                Witnesses!Open, Witnesses!Paths
    <2> QED BY <2>1, <2>2
  <1>14. CASE Witnesses!Foreign \/ UNCHANGED Witnesses!vars
    <2>1. /\ named' \in [Witnesses!Paths -> FileIds \cup {Nothing}]
          /\ UNCHANGED <<witnessesHeld, count, retired, witnessesConn, clone, locks, discard>>
      BY <1>14 DEF Witnesses!Foreign, Witnesses!vars, Witnesses!Fresh, Witnesses!Renamed,
                   WitnessInv, Witnesses!TypeOK, Witnesses!Paths
    <2> QED BY <2>1 DEF WitnessInv, OneWriter, Witnesses!TypeOK, Witnesses!LocksSurvive,
                Witnesses!ConnectionsWitnessed, Witnesses!CountExact, Witnesses!Held,
                Witnesses!Open, Witnesses!Paths
  <1> QED BY <1>1, <1>2, <1>3, <1>4, <1>5, <1>6, <1>7, <1>8, <1>9, <1>10, <1>12, <1>13, <1>14
          DEF Witnesses!Next

\* For any files, connections, borrowing threads and capacity: whatever sequence of
\* checks, opens, replacements and collections of indexes led here, a connection in a
\* write transaction has its locks (store.rs, RetainedSqliteWitnesses).
THEOREM LocksSafe == Spec => []LocksKept
  <1> DEFINE Inv == part = "witnesses" => WitnessInv
  <1>1. Init => Inv
    BY WitnessInit DEF Init
  <1>2. Inv /\ [Next]_vars => Inv'
    <2>1. [Next]_vars /\ part' = "witnesses"
          => part = "witnesses" /\ [Witnesses!Next]_Witnesses!vars
      BY DEF Next, vars, witnessesVars, Witnesses!vars
    <2> QED BY <2>1, WitnessStep
  <1>3. Inv => LocksKept
    BY DEF LocksKept, WitnessInv
  <1> QED BY <1>1, <1>2, <1>3, PTL DEF Spec

----------------------------------------------------------------------------
(* The ledger of paid calls (JevBudget).  PrivateLedger proves what the     *)
(* ledger answers for; here every call that was sent, or is about to be, is *)
(* counted against it, and each request owns its row.                       *)

JevPending == {r \in Runs : jevAt[r] = "reserved"}
JevLeft == {r \in Runs : jevAt[r] \in {"idle", "reserving", "reserved"}}

JevTypes ==
    /\ jevAt \in [Runs -> {"idle", "reserving", "reserved", "sent", "heard", "finishing", "done"}]
    /\ jevProc \in [Runs -> Processes \cup {"none"}]
    /\ jevAlive \in [Runs -> BOOLEAN]
    /\ jevId \in [Runs -> Ids \cup {"none"}]
    /\ outcome \in [Runs -> {"none", "success", "failed"}]
    /\ jevResult \in [Runs -> {"none", "answer", "error"}]

JevRun(r) ==
    /\ jevAt[r] \in {"reserving", "reserved", "sent", "heard", "finishing"} =>
         jevProc[r] \in Processes /\ jevPc[jevProc[r]] = "open"
    /\ jevAt[r] \in {"reserved", "sent", "heard", "finishing"} => jevId[r] # "none"
    /\ jevAt[r] \in {"heard", "finishing"} => outcome[r] # "none"
    /\ jevResult[r] = "answer" => jevAt[r] = "done"

JevRows(r) ==
    /\ jevId[r] # "none" =>
         jevId[r] \in DOMAIN jevDb.rows /\ \A q \in Runs \ {r} : jevId[q] # jevId[r]
    /\ jevResult[r] = "answer" =>
         jevId[r] \in DOMAIN jevDb.rows /\ jevDb.rows[jevId[r]] = "success"

JevCounts ==
    /\ calls \in Nat
    /\ calls + Cardinality(JevLeft) <= Cardinality(Runs)
    /\ calls + Cardinality(JevPending) \in Jev!Spendable

JevInv ==
    /\ Jev!LedgerInv /\ JevTypes /\ JevCounts
    /\ \A r \in Runs : JevRun(r)
    /\ jevIntact => \A r \in Runs : JevRows(r)

LEMMA JevCardinality == \A S : Jev!Cardinality(S) = Cardinality(S)
  BY DEF Jev!Cardinality, Cardinality

LEMMA JevWorld == Jev!World
  BY LedgerConstants DEF Jev!World, Jev!None

\* Subsets of the requests are finite, and smaller ones have fewer members.
LEMMA RunsCounted ==
    ASSUME NEW S \in SUBSET Runs, NEW T \in SUBSET S
    PROVE  /\ IsFiniteSet(S) /\ Cardinality(S) \in Nat /\ Cardinality(T) \in Nat
           /\ Cardinality(T) <= Cardinality(S) /\ Cardinality(S) <= Cardinality(Runs)
           /\ Cardinality(Runs) \in Nat
           /\ \A r \in S : Cardinality(S \ {r}) = Cardinality(S) - 1
           /\ \A r \in Runs \ S : Cardinality(S \cup {r}) = Cardinality(S) + 1
  <1>1. IsFiniteSet(Runs) /\ IsFiniteSet(S) /\ IsFiniteSet(T)
    BY LedgerConstants, FS_Subset
  <1>2. Cardinality(T) <= Cardinality(S) /\ Cardinality(S) <= Cardinality(Runs)
    BY <1>1, FS_Subset
  <1>3. Cardinality(S) \in Nat /\ Cardinality(T) \in Nat /\ Cardinality(Runs) \in Nat
    BY <1>1, FS_CardinalityType
  <1>4. \A r \in S : Cardinality(S \ {r}) = Cardinality(S) - 1
    BY <1>1, FS_RemoveElement
  <1>5. \A r \in Runs \ S : Cardinality(S \cup {r}) = Cardinality(S) + 1
    BY <1>1, FS_AddElement
  <1> QED BY <1>1, <1>2, <1>3, <1>4, <1>5

\* No call was sent: requests only leave the sets that count.
LEMMA JevCountsKept ==
    ASSUME JevCounts, Jev!LedgerInv, Jev!Spendable \subseteq Jev!Spendable', calls' = calls,
           JevLeft' \subseteq JevLeft, JevPending' \subseteq JevPending
    PROVE  JevCounts'
  <1>1. JevLeft \in SUBSET Runs /\ JevPending \in SUBSET Runs
    BY DEF JevLeft, JevPending
  <1>2. Cardinality(JevLeft') <= Cardinality(JevLeft) /\ Cardinality(JevLeft') \in Nat
        /\ Cardinality(JevLeft) \in Nat /\ Cardinality(Runs) \in Nat
    BY <1>1, RunsCounted
  <1>3. Cardinality(JevPending') <= Cardinality(JevPending) /\ Cardinality(JevPending') \in Nat
        /\ Cardinality(JevPending) \in Nat
    BY <1>1, RunsCounted
  <1>4. calls + Cardinality(JevPending) \in Jev!Spendable
    BY DEF JevCounts
  <1>5. calls + Cardinality(JevPending') \in Jev!Spendable'
    <2>1. calls + Cardinality(JevPending') \in Nat
          /\ calls + Cardinality(JevPending') <= calls + Cardinality(JevPending)
      BY <1>3 DEF JevCounts
    <2> QED BY <1>4, <2>1, JevWorld, Jev!SpendableDown
  <1> QED BY <1>2, <1>5 DEF JevCounts

LEMMA JevInitOK == Jev!Init => JevInv
  <1> SUFFICES ASSUME Jev!Init PROVE JevInv
    OBVIOUS
  <1>1. Jev!LedgerInv /\ 0 \in Jev!Spendable
    BY JevWorld, Jev!LedgerInitOK DEF Jev!Init
  <1>2. /\ jevAt = [r \in Runs |-> "idle"] /\ jevProc = [r \in Runs |-> "none"]
        /\ jevAlive = [r \in Runs |-> TRUE] /\ jevId = [r \in Runs |-> "none"]
        /\ outcome = [r \in Runs |-> "none"] /\ jevResult = [r \in Runs |-> "none"] /\ calls = 0
    BY DEF Jev!Init, Jev!None
  <1>3. JevLeft = Runs /\ JevPending = {}
    BY <1>2 DEF JevLeft, JevPending
  <1>4. JevCounts
    BY <1>1, <1>2, <1>3, LedgerConstants, FS_EmptySet, FS_CardinalityType DEF JevCounts
  <1> QED BY <1>1, <1>2, <1>4 DEF JevInv, JevTypes, JevRun, JevRows

\* A step that leaves the ledger alone.
LEMMA JevLedgerSame ==
    ASSUME Jev!LedgerInv, UNCHANGED Jev!ledgerVars
    PROVE  Jev!LedgerInv' /\ Jev!Spendable \subseteq Jev!Spendable'
  BY DEF Jev!ledgerVars, Jev!LedgerInv, Jev!LedgerTypeOK, Jev!OpenerInv, Jev!Spendable

\* A step that leaves the ledger and the attempts alone, sends nothing and answers nobody.
LEMMA JevQuiet ==
    ASSUME JevInv, UNCHANGED Jev!ledgerVars, UNCHANGED <<jevId, calls>>, JevTypes',
           JevLeft' \subseteq JevLeft, JevPending' \subseteq JevPending,
           \A q \in Runs : JevRun(q)',
           \A q \in Runs : jevResult'[q] = "answer" => jevResult[q] = "answer"
    PROVE  JevInv'
  <1>1. Jev!LedgerInv' /\ Jev!Spendable \subseteq Jev!Spendable'
    BY JevLedgerSame DEF JevInv
  <1>2. JevCounts'
    BY <1>1, JevCountsKept DEF JevInv
  <1>3. ASSUME jevIntact', NEW q \in Runs PROVE JevRows(q)'
    BY <1>3 DEF JevInv, JevRows, Jev!ledgerVars
  <1> QED BY <1>1, <1>2, <1>3 DEF JevInv

\* The ledger's own steps, and the faults that leave it intact.
LEMMA JevLedgerMoves ==
    ASSUME JevInv, Jev!LedgerInv', Jev!Spendable \subseteq Jev!Spendable', jevIntact' = jevIntact,
           DOMAIN jevDb'.rows = DOMAIN jevDb.rows,
           \A k \in DOMAIN jevDb.rows : jevDb'.rows[k] = jevDb.rows[k],
           UNCHANGED <<jevProc, jevAlive, jevId, outcome, jevResult, calls>>, JevTypes',
           JevLeft' \subseteq JevLeft, JevPending' \subseteq JevPending,
           \A q \in Runs : JevRun(q)'
    PROVE  JevInv'
  <1>1. JevCounts'
    BY JevCountsKept DEF JevInv
  <1>2. ASSUME jevIntact', NEW q \in Runs PROVE JevRows(q)'
    BY <1>2 DEF JevInv, JevRows
  <1> QED BY <1>1, <1>2 DEF JevInv

LEMMA JevOpen == ASSUME JevInv, NEW p \in Processes, Jev!Open(p) PROVE JevInv'
  <1>1. /\ Jev!LedgerInv' /\ Jev!Spendable \subseteq Jev!Spendable'
        /\ jevIntact' = jevIntact /\ DOMAIN jevDb'.rows = DOMAIN jevDb.rows
        /\ \A k \in DOMAIN jevDb.rows : jevDb'.rows[k] = jevDb.rows[k]
        /\ jevPc[p] # "open" /\ \A q \in Processes \ {p} : jevPc'[q] = jevPc[q]
    BY JevWorld, Jev!OpenStepKeeps DEF Jev!Open, JevInv
  <1>2. UNCHANGED <<jevAt, jevProc, jevAlive, jevId, outcome, jevResult, calls>>
    BY DEF Jev!Open, Jev!runVars
  <1>3. JevTypes' /\ JevLeft' = JevLeft /\ JevPending' = JevPending
    BY <1>2 DEF JevInv, JevTypes, JevLeft, JevPending
  <1>4. ASSUME NEW q \in Runs PROVE JevRun(q)'
    BY <1>1, <1>2 DEF JevInv, JevRun
  <1> QED BY <1>1, <1>2, <1>3, <1>4, JevLedgerMoves

LEMMA JevCrash ==
    ASSUME JevInv, Jev!PowerLoss \/ \E p \in Processes : Jev!Crash(p)
    PROVE  JevInv'
  <1>1. PICK S \in SUBSET Processes :
             /\ Jev!Abandon(S) /\ \A q \in Processes \ S : jevPc'[q] = jevPc[q]
    <2>1. CASE Jev!PowerLoss
      BY <2>1 DEF Jev!PowerLoss
    <2>2. ASSUME NEW p \in Processes, Jev!Crash(p)
          PROVE  Jev!Abandon({p}) /\ \A q \in Processes \ {p} : jevPc'[q] = jevPc[q]
      BY <2>2 DEF Jev!Crash, Jev!Die, Jev!Goto, JevInv, Jev!LedgerInv, Jev!LedgerTypeOK
    <2> QED BY <2>1, <2>2
  <1>2. /\ Jev!LedgerInv' /\ Jev!Spendable \subseteq Jev!Spendable'
        /\ jevIntact' = jevIntact /\ DOMAIN jevDb'.rows = DOMAIN jevDb.rows
        /\ \A k \in DOMAIN jevDb.rows : jevDb'.rows[k] = jevDb.rows[k]
    BY JevWorld, Jev!CrashKeeps DEF Jev!PowerLoss, Jev!Crash, JevInv
  <1>3. /\ jevAt' = [r \in Runs |-> IF jevProc[r] \in S THEN "done" ELSE jevAt[r]]
        /\ UNCHANGED <<jevProc, jevAlive, jevId, outcome, jevResult, calls>>
    BY <1>1 DEF Jev!Abandon
  <1>4. JevTypes' /\ JevLeft' \subseteq JevLeft /\ JevPending' \subseteq JevPending
    BY <1>3 DEF JevInv, JevTypes, JevLeft, JevPending
  <1>5. ASSUME NEW q \in Runs PROVE JevRun(q)'
    BY <1>1, <1>3 DEF JevInv, JevTypes, JevRun
  <1> QED BY <1>2, <1>3, <1>4, <1>5, JevLedgerMoves

LEMMA JevDbLost == ASSUME JevInv, Jev!DbLost PROVE JevInv'
  <1>1. /\ Jev!LedgerInv' /\ Jev!Spendable \subseteq Jev!Spendable' /\ jevPc' = jevPc
        /\ ~jevIntact'
    BY JevWorld, Jev!LoseDbKeeps DEF Jev!DbLost, JevInv
  <1>2. UNCHANGED <<jevAt, jevProc, jevAlive, jevId, outcome, jevResult, calls>>
    BY DEF Jev!DbLost, Jev!runVars
  <1>3. JevTypes' /\ JevLeft' = JevLeft /\ JevPending' = JevPending
    BY <1>2 DEF JevInv, JevTypes, JevLeft, JevPending
  <1>4. ASSUME NEW q \in Runs PROVE JevRun(q)'
    BY <1>1, <1>2 DEF JevInv, JevRun
  <1>5. JevCounts'
    BY <1>1, <1>2, <1>3, JevCountsKept DEF JevInv
  <1> QED BY <1>1, <1>3, <1>4, <1>5 DEF JevInv

\* The steps of a request outside the ledger.
LEMMA JevQuietSteps ==
    ASSUME JevInv, NEW r \in Runs,
           \/ \E p \in Processes : Jev!Start(r, p)
           \/ Jev!ReserveFails(r)
           \/ Jev!Hear(r)
           \/ Jev!Audit(r)
           \/ Jev!Cancel(r)
    PROVE  JevInv'
  <1> USE DEF JevTypes
  <1>1. UNCHANGED Jev!ledgerVars /\ UNCHANGED <<jevId, calls>>
    BY DEF Jev!Start, Jev!ReserveFails, Jev!Hear, Jev!Audit, Jev!Cancel
  <1>2. jevPc' = jevPc
    BY <1>1 DEF Jev!ledgerVars
  <1>3. CASE \E p \in Processes : Jev!Start(r, p)
    <2>1. PICK p \in Processes :
            /\ jevAt[r] = "idle" /\ jevPc[p] = "open" /\ jevProc' = [jevProc EXCEPT ![r] = p]
            /\ jevAt' = [jevAt EXCEPT ![r] = "reserving"]
            /\ UNCHANGED <<jevAlive, outcome, jevResult>>
      BY <1>3 DEF Jev!Start, Jev!Step
    <2>2. JevTypes' /\ JevLeft' \subseteq JevLeft /\ JevPending' \subseteq JevPending
      BY <1>1, <2>1 DEF JevInv, JevLeft, JevPending
    <2>3. ASSUME NEW q \in Runs PROVE JevRun(q)'
      BY <1>1, <1>2, <2>1 DEF JevInv, JevRun
    <2> QED BY <1>1, <2>1, <2>2, <2>3, JevQuiet
  <1>4. CASE Jev!ReserveFails(r)
    <2>1. /\ jevAt[r] = "reserving" /\ jevAt' = [jevAt EXCEPT ![r] = "done"]
          /\ jevResult' \in {[jevResult EXCEPT ![r] = "error"], jevResult}
          /\ UNCHANGED <<jevProc, jevAlive, outcome>>
      BY <1>4 DEF Jev!ReserveFails, Jev!Return, Jev!Step
    <2>2. JevTypes' /\ JevLeft' \subseteq JevLeft /\ JevPending' \subseteq JevPending
      BY <1>1, <2>1 DEF JevInv, JevLeft, JevPending
    <2>3. ASSUME NEW q \in Runs PROVE JevRun(q)'
      BY <1>1, <1>2, <2>1 DEF JevInv, JevRun
    <2>4. \A q \in Runs : jevResult'[q] = "answer" => jevResult[q] = "answer"
      BY <2>1 DEF JevInv
    <2> QED BY <1>1, <2>2, <2>3, <2>4, JevQuiet
  <1>5. CASE Jev!Hear(r)
    <2>1. PICK o \in {"success", "failed"} :
            /\ jevAt[r] = "sent" /\ outcome' = [outcome EXCEPT ![r] = o]
            /\ jevAt' = [jevAt EXCEPT ![r] = "heard"]
            /\ UNCHANGED <<jevProc, jevAlive, jevResult>>
      BY <1>5 DEF Jev!Hear, Jev!Step
    <2>2. JevTypes' /\ JevLeft' \subseteq JevLeft /\ JevPending' \subseteq JevPending
      BY <1>1, <2>1 DEF JevInv, JevLeft, JevPending
    <2>3. ASSUME NEW q \in Runs PROVE JevRun(q)'
      BY <1>1, <1>2, <2>1 DEF JevInv, JevRun
    <2> QED BY <1>1, <2>1, <2>2, <2>3, JevQuiet
  <1>6. CASE Jev!Audit(r) \/ Jev!Cancel(r)
    <2>1. /\ \/ jevAt[r] = "heard" /\ jevAt' = [jevAt EXCEPT ![r] = "finishing"]
             \/ jevAt' = [jevAt EXCEPT ![r] = "done"]
             \/ jevAt' = jevAt
          /\ jevAlive' \in {[jevAlive EXCEPT ![r] = FALSE], jevAlive}
          /\ UNCHANGED <<jevProc, outcome, jevResult>>
      BY <1>6 DEF Jev!Audit, Jev!Cancel, Jev!Step
    <2>2. JevTypes' /\ JevLeft' \subseteq JevLeft /\ JevPending' \subseteq JevPending
      BY <1>1, <2>1 DEF JevInv, JevLeft, JevPending
    <2>3. ASSUME NEW q \in Runs PROVE JevRun(q)'
      BY <1>1, <1>2, <2>1 DEF JevInv, JevRun
    <2> QED BY <1>1, <2>1, <2>2, <2>3, JevQuiet
  <1> QED BY <1>3, <1>4, <1>5, <1>6

LEMMA JevReserve == ASSUME JevInv, NEW r \in Runs, Jev!Reserve(r) PROVE JevInv'
  <1> USE DEF JevTypes
  <1>1. PICK i \in Ids : Jev!InsertRow(jevProc[r], i) /\ jevId' = [jevId EXCEPT ![r] = i]
    BY DEF Jev!Reserve
  <1>2. /\ jevAt[r] = "reserving" /\ UNCHANGED <<jevProc, jevAlive, outcome, calls>>
        /\ \/ jevAt' = [jevAt EXCEPT ![r] = "reserved"] /\ jevResult' = jevResult
           \/ /\ jevAt' = [jevAt EXCEPT ![r] = "done"]
              /\ jevResult' \in {[jevResult EXCEPT ![r] = "error"], jevResult}
    BY DEF Jev!Reserve, Jev!Return, Jev!Step
  <1>3. jevProc[r] \in Processes /\ jevPc[jevProc[r]] = "open" /\ jevResult[r] # "answer"
    BY <1>2 DEF JevInv, JevRun
  <1>4. /\ Jev!LedgerInv' /\ \A n \in Jev!Spendable : n \in Jev!Spendable' /\ n + 1 \in Jev!Spendable'
        /\ jevIntact' = jevIntact /\ i \notin DOMAIN jevDb.rows
        /\ DOMAIN jevDb'.rows = DOMAIN jevDb.rows \cup {i}
        /\ \A k \in DOMAIN jevDb.rows : jevDb'.rows[k] = jevDb.rows[k]
    BY <1>1, <1>3, JevWorld, Jev!InsertKeeps DEF JevInv
  <1>5. jevPc' = jevPc /\ i # "none"
    BY <1>1, LedgerConstants DEF Jev!InsertRow
  <1>6. /\ JevTypes' /\ jevId'[r] = i /\ jevResult'[r] # "answer"
        /\ \A q \in Runs \ {r} : jevId'[q] = jevId[q] /\ jevResult'[q] = jevResult[q]
    BY <1>1, <1>2, <1>3 DEF JevInv
  <1>7. ASSUME NEW q \in Runs PROVE JevRun(q)'
    BY <1>1, <1>2, <1>3, <1>5, <1>6 DEF JevInv, JevRun
  <1>8. ASSUME jevIntact', NEW q \in Runs PROVE JevRows(q)'
    <2>1. \A k \in Runs : JevRows(k)
      BY <1>4, <1>8 DEF JevInv
    <2>2. CASE q = r
      <3>1. ASSUME NEW k \in Runs \ {r} PROVE jevId'[k] # i
        BY <1>4, <1>5, <1>6, <2>1 DEF JevRows
      <3> QED BY <1>4, <1>6, <2>2, <3>1 DEF JevRows
    <2>3. CASE q # r
      BY <1>4, <1>6, <2>1, <2>3 DEF JevRows, JevInv
    <2> QED BY <2>2, <2>3
  <1>9. JevCounts'
    <2>1. /\ JevLeft' \in SUBSET JevLeft /\ JevPending' \in {JevPending, JevPending \cup {r}}
          /\ r \notin JevPending /\ JevLeft \in SUBSET Runs /\ JevPending \in SUBSET Runs
      BY <1>2 DEF JevInv, JevLeft, JevPending
    <2>2. Cardinality(JevLeft') <= Cardinality(JevLeft) /\ Cardinality(JevLeft') \in Nat
          /\ Cardinality(JevLeft) \in Nat /\ Cardinality(Runs) \in Nat
      BY <2>1, RunsCounted
    <2>3. Cardinality(JevPending') \in {Cardinality(JevPending), Cardinality(JevPending) + 1}
          /\ Cardinality(JevPending) \in Nat
      BY <2>1, RunsCounted
    <2>4. calls + Cardinality(JevPending) \in Jev!Spendable /\ calls \in Nat
      BY DEF JevInv, JevCounts
    <2>5. calls + Cardinality(JevPending') \in Jev!Spendable'
      BY <1>4, <2>3, <2>4
    <2> QED BY <1>2, <2>2, <2>3, <2>4, <2>5 DEF JevInv, JevCounts
  <1> QED BY <1>4, <1>6, <1>7, <1>8, <1>9 DEF JevInv

LEMMA JevSend == ASSUME JevInv, NEW r \in Runs, Jev!Send(r) PROVE JevInv'
  <1> USE DEF JevTypes
  <1>1. /\ jevAt[r] = "reserved" /\ jevAt' = [jevAt EXCEPT ![r] = "sent"] /\ calls' = calls + 1
        /\ UNCHANGED Jev!ledgerVars
        /\ UNCHANGED <<jevProc, jevAlive, jevId, outcome, jevResult>>
    BY DEF Jev!Send, Jev!Step
  <1>2. UNCHANGED <<jevPc, jevDb, jevIntact>>
    BY <1>1 DEF Jev!ledgerVars
  <1>3. Jev!LedgerInv' /\ Jev!Spendable \subseteq Jev!Spendable'
    BY <1>1, JevLedgerSame DEF JevInv
  <1>4. JevTypes'
    BY <1>1 DEF JevInv
  <1>5. ASSUME NEW q \in Runs PROVE JevRun(q)'
    BY <1>1, <1>2 DEF JevInv, JevRun
  <1>6. ASSUME jevIntact', NEW q \in Runs PROVE JevRows(q)'
    BY <1>1, <1>2, <1>6 DEF JevInv, JevRows
  <1>7. JevCounts'
    <2>1. /\ JevLeft' = JevLeft \ {r} /\ JevPending' = JevPending \ {r}
          /\ r \in JevLeft /\ r \in JevPending
          /\ JevLeft \in SUBSET Runs /\ JevPending \in SUBSET Runs
      BY <1>1 DEF JevInv, JevLeft, JevPending
    <2>2. Cardinality(JevLeft') = Cardinality(JevLeft) - 1 /\ Cardinality(JevLeft) \in Nat
          /\ Cardinality(Runs) \in Nat
      BY <2>1, RunsCounted
    <2>3. Cardinality(JevPending') = Cardinality(JevPending) - 1 /\ Cardinality(JevPending) \in Nat
      BY <2>1, RunsCounted
    <2>4. calls' \in Nat /\ calls' + Cardinality(JevPending') = calls + Cardinality(JevPending)
          /\ calls' + Cardinality(JevLeft') = calls + Cardinality(JevLeft)
      BY <1>1, <2>2, <2>3 DEF JevInv, JevCounts
    <2> QED BY <1>3, <2>4 DEF JevInv, JevCounts
  <1> QED BY <1>3, <1>4, <1>5, <1>6, <1>7 DEF JevInv

LEMMA JevFinish == ASSUME JevInv, NEW r \in Runs, Jev!Finish(r) PROVE JevInv'
  <1> USE DEF JevTypes
  <1>1. /\ jevAt[r] = "finishing" /\ jevAt' = [jevAt EXCEPT ![r] = "done"]
        /\ UNCHANGED <<jevProc, jevAlive, jevId, outcome, calls>>
    BY DEF Jev!Finish, Jev!Return, Jev!Step
  <1>2. JevLeft' \subseteq JevLeft /\ JevPending' \subseteq JevPending
    BY <1>1 DEF JevInv, JevLeft, JevPending
  <1>3. CASE /\ UNCHANGED Jev!ledgerVars
             /\ jevResult' \in {[jevResult EXCEPT ![r] = "error"], jevResult}
    <2>1. JevTypes' /\ jevPc' = jevPc
      BY <1>1, <1>3 DEF JevInv, Jev!ledgerVars
    <2>2. ASSUME NEW q \in Runs PROVE JevRun(q)'
      BY <1>1, <1>3, <2>1 DEF JevInv, JevRun
    <2>3. \A q \in Runs : jevResult'[q] = "answer" => jevResult[q] = "answer"
      BY <1>3 DEF JevInv
    <2> QED BY <1>1, <1>2, <1>3, <2>1, <2>2, <2>3, JevQuiet
  <1>4. CASE /\ Jev!UpdateRow(jevProc[r], jevId[r], outcome[r])
             /\ \/ jevResult' \in {[jevResult EXCEPT ![r] = "error"], jevResult}
                \/ /\ outcome[r] = "success" /\ jevResult' = [jevResult EXCEPT ![r] = "answer"]
    <2>1. outcome[r] \in Jev!Statuses
      BY <1>1 DEF JevInv, JevRun, Jev!Statuses
    <2>2. /\ Jev!LedgerInv' /\ Jev!Spendable \subseteq Jev!Spendable'
          /\ UNCHANGED <<jevPc, jevIntact>> /\ jevId[r] \in DOMAIN jevDb.rows
          /\ DOMAIN jevDb'.rows = DOMAIN jevDb.rows /\ jevDb'.rows[jevId[r]] = outcome[r]
          /\ \A k \in DOMAIN jevDb.rows \ {jevId[r]} : jevDb'.rows[k] = jevDb.rows[k]
      BY <1>4, <2>1, JevWorld, Jev!UpdateKeeps DEF JevInv
    <2>3. /\ JevTypes' /\ \A q \in Runs \ {r} : jevResult'[q] = jevResult[q]
      BY <1>1, <1>4 DEF JevInv
    <2>4. ASSUME NEW q \in Runs PROVE JevRun(q)'
      BY <1>1, <2>2, <2>3 DEF JevInv, JevRun
    <2>5. JevCounts'
      BY <1>1, <1>2, <2>2, JevCountsKept DEF JevInv
    <2>6. ASSUME jevIntact', NEW q \in Runs PROVE JevRows(q)'
      <3>1. \A k \in Runs : JevRows(k)
        BY <2>2, <2>6 DEF JevInv
      <3>2. jevId[r] # "none" /\ jevResult[r] # "answer"
        BY <1>1 DEF JevInv, JevRun
      <3>3. CASE q = r
        BY <1>1, <1>4, <2>2, <3>1, <3>2, <3>3 DEF JevRows, JevInv
      <3>4. CASE q # r
        BY <1>1, <2>2, <2>3, <3>1, <3>2, <3>4 DEF JevRows
      <3> QED BY <3>3, <3>4
    <2> QED BY <2>2, <2>3, <2>4, <2>5, <2>6 DEF JevInv
  <1> QED BY <1>3, <1>4 DEF Jev!Finish, Jev!Return

LEMMA JevStep == JevInv /\ [Jev!Next]_Jev!vars => JevInv'
  <1> SUFFICES ASSUME JevInv, [Jev!Next]_Jev!vars PROVE JevInv'
    OBVIOUS
  <1>1. CASE UNCHANGED Jev!vars
    <2>1. UNCHANGED Jev!ledgerVars
          /\ UNCHANGED <<jevAt, jevProc, jevAlive, jevId, outcome, jevResult, calls>>
      BY <1>1 DEF Jev!vars, Jev!runVars
    <2>2. JevTypes' /\ JevLeft' = JevLeft /\ JevPending' = JevPending
      BY <2>1 DEF JevInv, JevTypes, JevLeft, JevPending
    <2>3. ASSUME NEW q \in Runs PROVE JevRun(q)'
      BY <2>1 DEF JevInv, JevRun, Jev!ledgerVars
    <2> QED BY <2>1, <2>2, <2>3, JevQuiet
  <1>2. CASE Jev!Next
    BY <1>2, JevOpen, JevCrash, JevDbLost, JevQuietSteps, JevReserve, JevSend, JevFinish
       DEF Jev!Next
  <1> QED BY <1>1, <1>2

LEMMA JevImplies == JevInv => Jev!TypeOK /\ Jev!CallsWithinCap /\ Jev!AnswersAudited
  <1> SUFFICES ASSUME JevInv PROVE Jev!TypeOK /\ Jev!CallsWithinCap /\ Jev!AnswersAudited
    OBVIOUS
  <1>1. /\ JevLeft \in SUBSET Runs /\ JevPending \in SUBSET Runs
    BY DEF JevLeft, JevPending
  <1>2. Cardinality(JevLeft) \in Nat /\ Cardinality(JevPending) \in Nat
        /\ Cardinality(Runs) \in Nat
    BY <1>1, RunsCounted
  <1>3. calls \in 0..Jev!Cardinality(Runs)
    BY <1>2, JevCardinality DEF JevInv, JevCounts
  <1>4. Jev!TypeOK
    BY <1>3 DEF JevInv, JevTypes, Jev!TypeOK, Jev!LedgerInv, Jev!None
  <1>5. calls \in Jev!Spendable
    <2>1. calls \in Nat /\ calls <= calls + Cardinality(JevPending)
      BY <1>2 DEF JevInv, JevCounts
    <2> QED BY <2>1, JevWorld, Jev!SpendableDown DEF JevInv, JevCounts
  <1>6. Jev!CallsWithinCap
    BY <1>5 DEF Jev!CallsWithinCap, Jev!Spendable
  <1>7. Jev!AnswersAudited
    BY DEF Jev!AnswersAudited, JevInv, JevRun, JevRows
  <1> QED BY <1>4, <1>6, <1>7

----------------------------------------------------------------------------
(* The ledger of spawned runners (AcpAttempts).  The same argument, with    *)
(* the in-flight mutex: whoever may have a runner holds it.                 *)

AcpPending == {r \in Runs : acpAt[r] = "reserved"}
AcpLeft == {r \in Runs : acpAt[r] \in {"idle", "reserving", "reserved"}}

AcpTypes ==
    /\ acpAt \in [Runs -> {"idle", "reserving", "reserved", "running", "heard", "recorded",
                           "done", "lost"}]
    /\ acpProc \in [Runs -> Processes \cup {"none"}]
    /\ acpAlive \in [Runs -> BOOLEAN]
    /\ acpId \in [Runs -> Ids \cup {"none"}]
    /\ received \in [Runs -> {"none", "ok", "error"}]
    /\ acpResult \in [Runs -> {"none", "answer", "error"}]
    /\ runner \in [Runs -> BOOLEAN]
    /\ flight \in [Processes -> Runs \cup {"none"}]
    /\ shutdown \in [Processes -> BOOLEAN]

AcpRun(r) ==
    /\ acpAt[r] \in {"reserving", "reserved", "running", "heard", "recorded"} =>
         acpProc[r] \in Processes /\ acpPc[acpProc[r]] = "open"
    /\ acpAt[r] \in {"reserved", "running", "heard", "recorded"} => acpId[r] # "none"
    /\ acpAt[r] \in {"reserved", "running"} => acpAlive[r]
    /\ acpAlive[r] /\ acpAt[r] \in {"reserving", "reserved", "running"} => flight[acpProc[r]] = r
    /\ runner[r] => acpAt[r] \in {"running", "lost"}
    /\ acpResult[r] = "answer" => acpAt[r] = "done"

AcpRows(r) ==
    /\ acpId[r] # "none" =>
         acpId[r] \in DOMAIN acpDb.rows /\ \A q \in Runs \ {r} : acpId[q] # acpId[r]
    /\ acpResult[r] = "answer" =>
         acpId[r] \in DOMAIN acpDb.rows /\ acpDb.rows[acpId[r]] = "success"

AcpCounts ==
    /\ spawns \in Nat
    /\ spawns + Cardinality(AcpLeft) <= Cardinality(Runs)
    /\ spawns + Cardinality(AcpPending) \in Acp!Spendable

AcpInv ==
    /\ Acp!LedgerInv /\ AcpTypes /\ AcpCounts
    /\ \A r \in Runs : AcpRun(r)
    /\ acpIntact => \A r \in Runs : AcpRows(r)

LEMMA AcpCardinality == \A S : Acp!Cardinality(S) = Cardinality(S)
  BY DEF Acp!Cardinality, Cardinality

LEMMA AcpWorld == Acp!World
  BY LedgerConstants DEF Acp!World, Acp!None

\* No call was sent: requests only leave the sets that count.
LEMMA AcpCountsKept ==
    ASSUME AcpCounts, Acp!LedgerInv, Acp!Spendable \subseteq Acp!Spendable', spawns' = spawns,
           AcpLeft' \subseteq AcpLeft, AcpPending' \subseteq AcpPending
    PROVE  AcpCounts'
  <1>1. AcpLeft \in SUBSET Runs /\ AcpPending \in SUBSET Runs
    BY DEF AcpLeft, AcpPending
  <1>2. Cardinality(AcpLeft') <= Cardinality(AcpLeft) /\ Cardinality(AcpLeft') \in Nat
        /\ Cardinality(AcpLeft) \in Nat /\ Cardinality(Runs) \in Nat
    BY <1>1, RunsCounted
  <1>3. Cardinality(AcpPending') <= Cardinality(AcpPending) /\ Cardinality(AcpPending') \in Nat
        /\ Cardinality(AcpPending) \in Nat
    BY <1>1, RunsCounted
  <1>4. spawns + Cardinality(AcpPending) \in Acp!Spendable
    BY DEF AcpCounts
  <1>5. spawns + Cardinality(AcpPending') \in Acp!Spendable'
    <2>1. spawns + Cardinality(AcpPending') \in Nat
          /\ spawns + Cardinality(AcpPending') <= spawns + Cardinality(AcpPending)
      BY <1>3 DEF AcpCounts
    <2> QED BY <1>4, <2>1, AcpWorld, Acp!SpendableDown
  <1> QED BY <1>2, <1>5 DEF AcpCounts

LEMMA AcpInitOK == Acp!Init => AcpInv
  <1> SUFFICES ASSUME Acp!Init PROVE AcpInv
    OBVIOUS
  <1>1. Acp!LedgerInv /\ 0 \in Acp!Spendable
    BY AcpWorld, Acp!LedgerInitOK DEF Acp!Init
  <1>2. /\ acpAt = [r \in Runs |-> "idle"] /\ acpProc = [r \in Runs |-> "none"]
        /\ acpAlive = [r \in Runs |-> TRUE] /\ acpId = [r \in Runs |-> "none"]
        /\ received = [r \in Runs |-> "none"] /\ acpResult = [r \in Runs |-> "none"]
        /\ runner = [r \in Runs |-> FALSE] /\ spawns = 0
        /\ flight = [p \in Processes |-> "none"] /\ shutdown = [p \in Processes |-> FALSE]
    BY DEF Acp!Init, Acp!None
  <1>3. AcpLeft = Runs /\ AcpPending = {}
    BY <1>2 DEF AcpLeft, AcpPending
  <1>4. AcpCounts
    BY <1>1, <1>2, <1>3, LedgerConstants, FS_EmptySet, FS_CardinalityType DEF AcpCounts
  <1> QED BY <1>1, <1>2, <1>4 DEF AcpInv, AcpTypes, AcpRun, AcpRows

\* A step that leaves the ledger alone.
LEMMA AcpLedgerSame ==
    ASSUME Acp!LedgerInv, UNCHANGED Acp!ledgerVars
    PROVE  Acp!LedgerInv' /\ Acp!Spendable \subseteq Acp!Spendable'
  BY DEF Acp!ledgerVars, Acp!LedgerInv, Acp!LedgerTypeOK, Acp!OpenerInv, Acp!Spendable

\* A step that leaves the ledger and the attempts alone, sends nothing and answers nobody.
LEMMA AcpQuiet ==
    ASSUME AcpInv, UNCHANGED Acp!ledgerVars, UNCHANGED <<acpId, spawns>>, AcpTypes',
           AcpLeft' \subseteq AcpLeft, AcpPending' \subseteq AcpPending,
           \A q \in Runs : AcpRun(q)',
           \A q \in Runs : acpResult'[q] = "answer" => acpResult[q] = "answer"
    PROVE  AcpInv'
  <1>1. Acp!LedgerInv' /\ Acp!Spendable \subseteq Acp!Spendable'
    BY AcpLedgerSame DEF AcpInv
  <1>2. AcpCounts'
    BY <1>1, AcpCountsKept DEF AcpInv
  <1>3. ASSUME acpIntact', NEW q \in Runs PROVE AcpRows(q)'
    BY <1>3 DEF AcpInv, AcpRows, Acp!ledgerVars
  <1> QED BY <1>1, <1>2, <1>3 DEF AcpInv

\* The ledger's own steps, and the faults that leave it intact.
LEMMA AcpLedgerMoves ==
    ASSUME AcpInv, Acp!LedgerInv', Acp!Spendable \subseteq Acp!Spendable', acpIntact' = acpIntact,
           DOMAIN acpDb'.rows = DOMAIN acpDb.rows,
           \A k \in DOMAIN acpDb.rows : acpDb'.rows[k] = acpDb.rows[k],
           UNCHANGED <<acpId, acpResult, spawns>>, AcpTypes',
           AcpLeft' \subseteq AcpLeft, AcpPending' \subseteq AcpPending,
           \A q \in Runs : AcpRun(q)'
    PROVE  AcpInv'
  <1>1. AcpCounts'
    BY AcpCountsKept DEF AcpInv
  <1>2. ASSUME acpIntact', NEW q \in Runs PROVE AcpRows(q)'
    BY <1>2 DEF AcpInv, AcpRows
  <1> QED BY <1>1, <1>2 DEF AcpInv

LEMMA AcpOpen == ASSUME AcpInv, NEW p \in Processes, Acp!Open(p) PROVE AcpInv'
  <1>1. /\ Acp!LedgerInv' /\ Acp!Spendable \subseteq Acp!Spendable'
        /\ acpIntact' = acpIntact /\ DOMAIN acpDb'.rows = DOMAIN acpDb.rows
        /\ \A k \in DOMAIN acpDb.rows : acpDb'.rows[k] = acpDb.rows[k]
        /\ acpPc[p] # "open" /\ \A q \in Processes \ {p} : acpPc'[q] = acpPc[q]
    BY AcpWorld, Acp!OpenStepKeeps DEF Acp!Open, AcpInv
  <1>2. /\ UNCHANGED <<acpAt, acpProc, acpAlive, acpId, received, acpResult, runner, spawns>>
        /\ flight' = [flight EXCEPT ![p] = "none"] /\ shutdown' = [shutdown EXCEPT ![p] = FALSE]
    BY DEF Acp!Open, Acp!runVars, Acp!None
  <1>3. AcpTypes' /\ AcpLeft' = AcpLeft /\ AcpPending' = AcpPending
    BY <1>2 DEF AcpInv, AcpTypes, AcpLeft, AcpPending
  <1>4. ASSUME NEW q \in Runs PROVE AcpRun(q)'
    BY <1>1, <1>2 DEF AcpInv, AcpTypes, AcpRun
  <1> QED BY <1>1, <1>2, <1>3, <1>4, AcpLedgerMoves

LEMMA AcpCrash ==
    ASSUME AcpInv, Acp!PowerLoss \/ \E p \in Processes : Acp!Crash(p)
    PROVE  AcpInv'
  <1>1. PICK S \in SUBSET Processes :
             /\ Acp!Abandon(S) /\ \A q \in Processes \ S : acpPc'[q] = acpPc[q]
    <2>1. CASE Acp!PowerLoss
      BY <2>1 DEF Acp!PowerLoss
    <2>2. ASSUME NEW p \in Processes, Acp!Crash(p)
          PROVE  Acp!Abandon({p}) /\ \A q \in Processes \ {p} : acpPc'[q] = acpPc[q]
      BY <2>2 DEF Acp!Crash, Acp!Die, Acp!Goto, AcpInv, Acp!LedgerInv, Acp!LedgerTypeOK
    <2> QED BY <2>1, <2>2
  <1>2. /\ Acp!LedgerInv' /\ Acp!Spendable \subseteq Acp!Spendable'
        /\ acpIntact' = acpIntact /\ DOMAIN acpDb'.rows = DOMAIN acpDb.rows
        /\ \A k \in DOMAIN acpDb.rows : acpDb'.rows[k] = acpDb.rows[k]
    BY AcpWorld, Acp!CrashKeeps DEF Acp!PowerLoss, Acp!Crash, AcpInv
  <1>3. /\ acpAt' = [r \in Runs |-> IF acpProc[r] \in S /\ acpAt[r] # "done" THEN "lost"
                                                                     ELSE acpAt[r]]
        /\ UNCHANGED <<acpProc, acpAlive, acpId, received, acpResult, spawns, flight, shutdown>>
        /\ runner' \in {runner, [r \in Runs |-> FALSE]}
    BY <1>1 DEF Acp!Abandon, Acp!PowerLoss, Acp!Crash
  <1>4. AcpTypes' /\ AcpLeft' \subseteq AcpLeft /\ AcpPending' \subseteq AcpPending
    <2>1. runner' \in [Runs -> BOOLEAN]
      <3>1. CASE runner' = runner
        BY <3>1 DEF AcpInv, AcpTypes
      <3>2. CASE runner' = [r \in Runs |-> FALSE]
        BY <3>2
      <3> QED BY <1>3, <3>1, <3>2
    <2>2. AcpTypes'
      BY <1>3, <2>1 DEF AcpInv, AcpTypes
    <2>3. AcpLeft' \subseteq AcpLeft /\ AcpPending' \subseteq AcpPending
      BY <1>3 DEF AcpInv, AcpTypes, AcpLeft, AcpPending
    <2> QED BY <2>2, <2>3
  <1>5. ASSUME NEW q \in Runs PROVE AcpRun(q)'
    BY <1>1, <1>3 DEF AcpInv, AcpTypes, AcpRun
  <1> QED BY <1>2, <1>3, <1>4, <1>5, AcpLedgerMoves

LEMMA AcpDbLost == ASSUME AcpInv, Acp!DbLost PROVE AcpInv'
  <1>1. /\ Acp!LedgerInv' /\ Acp!Spendable \subseteq Acp!Spendable' /\ acpPc' = acpPc
        /\ ~acpIntact'
    BY AcpWorld, Acp!LoseDbKeeps DEF Acp!DbLost, AcpInv
  <1>2. UNCHANGED <<acpAt, acpProc, acpAlive, acpId, received, acpResult, runner, spawns, flight,
                    shutdown>>
    BY DEF Acp!DbLost, Acp!runVars
  <1>3. AcpTypes' /\ AcpLeft' = AcpLeft /\ AcpPending' = AcpPending
    BY <1>2 DEF AcpInv, AcpTypes, AcpLeft, AcpPending
  <1>4. ASSUME NEW q \in Runs PROVE AcpRun(q)'
    BY <1>1, <1>2 DEF AcpInv, AcpRun
  <1>5. AcpCounts'
    BY <1>1, <1>2, <1>3, AcpCountsKept DEF AcpInv
  <1> QED BY <1>1, <1>3, <1>4, <1>5 DEF AcpInv

\* A request ends without a word to the ledger, whatever it was doing.
LEMMA AcpEnds ==
    ASSUME AcpInv, NEW r \in Runs, UNCHANGED Acp!ledgerVars, UNCHANGED <<acpId, spawns>>,
           acpAt[r] \in {"reserving", "heard", "recorded"}, Acp!Return(r, "error"),
           UNCHANGED <<acpProc, acpAlive, received, runner, shutdown>>
    PROVE  AcpInv'
  <1> USE DEF AcpTypes
  <1>1. /\ acpAt' = [acpAt EXCEPT ![r] = "done"] /\ acpPc' = acpPc
        /\ flight' = [p \in Processes |-> IF flight[p] = r THEN "none" ELSE flight[p]]
        /\ acpResult' \in {[acpResult EXCEPT ![r] = "error"], acpResult}
    BY DEF Acp!Return, Acp!Step, Acp!Unflight, Acp!None, Acp!ledgerVars
  <1>2. AcpTypes' /\ AcpLeft' \subseteq AcpLeft /\ AcpPending' \subseteq AcpPending
    BY <1>1 DEF AcpInv, AcpLeft, AcpPending
  <1>3. ASSUME NEW q \in Runs PROVE AcpRun(q)'
    BY <1>1 DEF AcpInv, AcpRun
  <1>4. \A q \in Runs : acpResult'[q] = "answer" => acpResult[q] = "answer"
    BY <1>1 DEF AcpInv
  <1> QED BY <1>2, <1>3, <1>4, AcpQuiet

LEMMA AcpStart == ASSUME AcpInv, NEW r \in Runs, NEW p \in Processes, Acp!Start(r, p) PROVE AcpInv'
  <1> USE DEF AcpTypes
  <1>1. /\ acpAt[r] = "idle" /\ acpPc[p] = "open" /\ acpProc' = [acpProc EXCEPT ![r] = p]
        /\ UNCHANGED Acp!ledgerVars /\ acpPc' = acpPc
        /\ UNCHANGED <<acpAlive, acpId, received, runner, spawns, shutdown>>
    BY DEF Acp!Start, Acp!ledgerVars
  <1>2. CASE Acp!Busy(p)
    <2>1. /\ acpAt' = [acpAt EXCEPT ![r] = "done"]
          /\ flight' = [k \in Processes |-> IF flight[k] = r THEN "none" ELSE flight[k]]
          /\ acpResult' \in {[acpResult EXCEPT ![r] = "error"], acpResult}
      BY <1>2 DEF Acp!Start, Acp!Return, Acp!Step, Acp!Unflight, Acp!None
    <2>2. AcpTypes' /\ AcpLeft' \subseteq AcpLeft /\ AcpPending' \subseteq AcpPending
      BY <1>1, <2>1 DEF AcpInv, AcpLeft, AcpPending
    <2>3. ASSUME NEW q \in Runs PROVE AcpRun(q)'
      BY <1>1, <2>1 DEF AcpInv, AcpRun
    <2>4. \A q \in Runs : acpResult'[q] = "answer" => acpResult[q] = "answer"
      BY <2>1 DEF AcpInv
    <2> QED BY <1>1, <2>2, <2>3, <2>4, AcpQuiet
  <1>3. CASE ~Acp!Busy(p)
    <2>1. /\ acpAt' = [acpAt EXCEPT ![r] = "reserving"] /\ acpResult' = acpResult
          /\ flight' = [flight EXCEPT ![p] = r] /\ flight[p] = "none"
      BY <1>3 DEF Acp!Start, Acp!Step, Acp!Busy, Acp!None
    <2>2. AcpTypes' /\ AcpLeft' \subseteq AcpLeft /\ AcpPending' \subseteq AcpPending
      BY <1>1, <2>1 DEF AcpInv, AcpLeft, AcpPending
    <2>3. ASSUME NEW q \in Runs PROVE AcpRun(q)'
      BY <1>1, <2>1, LedgerConstants DEF AcpInv, AcpRun
    <2> QED BY <1>1, <2>1, <2>2, <2>3, AcpQuiet
  <1> QED BY <1>2, <1>3

\* The steps of a request and of its object outside the ledger.
LEMMA AcpQuietSteps ==
    ASSUME AcpInv, NEW r \in Runs,
           \/ Acp!Hear(r)
           \/ Acp!HearShutdown(r)
           \/ Acp!Cancel(r)
           \/ Acp!Spawn(r) /\ spawns' = spawns
    PROVE  AcpInv'
  <1> USE DEF AcpTypes
  <1>1. /\ UNCHANGED Acp!ledgerVars /\ acpPc' = acpPc
        /\ UNCHANGED <<acpId, spawns, acpProc, acpResult, shutdown>>
    BY DEF Acp!Hear, Acp!HearShutdown, Acp!Cancel, Acp!Spawn, Acp!ledgerVars
  <1>2. CASE Acp!Hear(r) \/ Acp!HearShutdown(r) \/ Acp!Spawn(r)
    <2>1. /\ acpAt[r] \in {"reserved", "running"} /\ acpAt' = [acpAt EXCEPT ![r] = "heard"]
          /\ \E o \in {"ok", "error"} : received' = [received EXCEPT ![r] = o]
          /\ \/ runner' = [runner EXCEPT ![r] = FALSE]
             \/ runner' = runner /\ acpAt[r] = "reserved"
          /\ UNCHANGED <<acpAlive, flight>>
      <3>1. CASE Acp!Hear(r) \/ Acp!HearShutdown(r)
        BY <3>1 DEF Acp!Hear, Acp!HearShutdown, Acp!Step
      <3>2. CASE Acp!Spawn(r)
        BY <1>1, <3>2 DEF Acp!Spawn, Acp!Step, AcpInv, AcpCounts
      <3> QED BY <1>2, <3>1, <3>2
    <2>2. AcpTypes' /\ AcpLeft' \subseteq AcpLeft /\ AcpPending' \subseteq AcpPending
      <3>0. /\ runner \in [Runs -> BOOLEAN] /\ received \in [Runs -> {"none", "ok", "error"}]
            /\ runner' \in {[runner EXCEPT ![r] = FALSE], runner}
            /\ \E o \in {"ok", "error"} : received' = [received EXCEPT ![r] = o]
        BY <2>1 DEF AcpInv
      <3>1. runner' \in [Runs -> BOOLEAN] /\ received' \in [Runs -> {"none", "ok", "error"}]
        BY <3>0
      <3>2. AcpTypes'
        BY <1>1, <2>1, <3>1 DEF AcpInv
      <3>3. AcpLeft' \subseteq AcpLeft /\ AcpPending' \subseteq AcpPending
        BY <2>1 DEF AcpInv, AcpLeft, AcpPending
      <3> QED BY <3>2, <3>3
    <2>3. ASSUME NEW q \in Runs PROVE AcpRun(q)'
      BY <1>1, <2>1 DEF AcpInv, AcpRun
    <2> QED BY <1>1, <2>2, <2>3, AcpQuiet
  <1>3. CASE Acp!Cancel(r)
    <2>1. /\ acpAt[r] \notin {"idle", "lost"} /\ acpAlive' = [acpAlive EXCEPT ![r] = FALSE]
          /\ runner' = [runner EXCEPT ![r] = FALSE] /\ received' = received
          /\ flight' = [k \in Processes |-> IF flight[k] = r THEN "none" ELSE flight[k]]
          /\ \/ acpAt' = [acpAt EXCEPT ![r] = "done"]
             \/ acpAt' = acpAt /\ acpAt[r] \in {"reserving", "heard", "recorded"}
      BY <1>3 DEF Acp!Cancel, Acp!Step, Acp!Unflight, Acp!None
    <2>2. AcpTypes' /\ AcpLeft' \subseteq AcpLeft /\ AcpPending' \subseteq AcpPending
      BY <1>1, <2>1 DEF AcpInv, AcpLeft, AcpPending
    <2>3. ASSUME NEW q \in Runs PROVE AcpRun(q)'
      BY <1>1, <2>1 DEF AcpInv, AcpRun
    <2> QED BY <1>1, <2>2, <2>3, AcpQuiet
  <1> QED BY <1>2, <1>3

LEMMA AcpReserve == ASSUME AcpInv, NEW r \in Runs, Acp!Reserve(r) PROVE AcpInv'
  <1> USE DEF AcpTypes
  <1>1. PICK i \in Ids : Acp!InsertRow(acpProc[r], i) /\ acpId' = [acpId EXCEPT ![r] = i]
    BY DEF Acp!Reserve
  <1>2. /\ acpAt[r] = "reserving" /\ acpAlive' = acpAlive
        /\ UNCHANGED <<acpProc, received, runner, spawns, shutdown>>
        /\ \/ /\ acpAt' = [acpAt EXCEPT ![r] = "reserved"] /\ acpResult' = acpResult
              /\ acpAlive[r] /\ flight' = flight
           \/ /\ acpAt' = [acpAt EXCEPT ![r] = "done"]
              /\ flight' = [k \in Processes |-> IF flight[k] = r THEN "none" ELSE flight[k]]
              /\ acpResult' \in {[acpResult EXCEPT ![r] = "error"], acpResult}
    BY DEF Acp!Reserve, Acp!Return, Acp!Step, Acp!Unflight, Acp!None
  <1>3. acpProc[r] \in Processes /\ acpPc[acpProc[r]] = "open" /\ acpResult[r] # "answer"
    BY <1>2 DEF AcpInv, AcpRun
  <1>4. /\ Acp!LedgerInv' /\ \A n \in Acp!Spendable : n \in Acp!Spendable' /\ n + 1 \in Acp!Spendable'
        /\ acpIntact' = acpIntact /\ i \notin DOMAIN acpDb.rows
        /\ DOMAIN acpDb'.rows = DOMAIN acpDb.rows \cup {i}
        /\ \A k \in DOMAIN acpDb.rows : acpDb'.rows[k] = acpDb.rows[k]
    BY <1>1, <1>3, AcpWorld, Acp!InsertKeeps DEF AcpInv
  <1>5. acpPc' = acpPc /\ i # "none"
    BY <1>1, LedgerConstants DEF Acp!InsertRow
  <1>6. /\ AcpTypes' /\ acpId'[r] = i /\ acpResult'[r] # "answer"
        /\ \A q \in Runs \ {r} : acpId'[q] = acpId[q] /\ acpResult'[q] = acpResult[q]
    BY <1>1, <1>2, <1>3 DEF AcpInv
  <1>7. ASSUME NEW q \in Runs PROVE AcpRun(q)'
    BY <1>1, <1>2, <1>3, <1>5, <1>6 DEF AcpInv, AcpRun
  <1>8. ASSUME acpIntact', NEW q \in Runs PROVE AcpRows(q)'
    <2>1. \A k \in Runs : AcpRows(k)
      BY <1>4, <1>8 DEF AcpInv
    <2>2. CASE q = r
      <3>1. ASSUME NEW k \in Runs \ {r} PROVE acpId'[k] # i
        BY <1>4, <1>5, <1>6, <2>1 DEF AcpRows
      <3> QED BY <1>4, <1>6, <2>2, <3>1 DEF AcpRows
    <2>3. CASE q # r
      BY <1>4, <1>6, <2>1, <2>3 DEF AcpRows, AcpInv
    <2> QED BY <2>2, <2>3
  <1>9. AcpCounts'
    <2>1. /\ AcpLeft' \in SUBSET AcpLeft /\ AcpPending' \in {AcpPending, AcpPending \cup {r}}
          /\ r \notin AcpPending /\ AcpLeft \in SUBSET Runs /\ AcpPending \in SUBSET Runs
      BY <1>2 DEF AcpInv, AcpLeft, AcpPending
    <2>2. Cardinality(AcpLeft') <= Cardinality(AcpLeft) /\ Cardinality(AcpLeft') \in Nat
          /\ Cardinality(AcpLeft) \in Nat /\ Cardinality(Runs) \in Nat
      BY <2>1, RunsCounted
    <2>3. Cardinality(AcpPending') \in {Cardinality(AcpPending), Cardinality(AcpPending) + 1}
          /\ Cardinality(AcpPending) \in Nat
      BY <2>1, RunsCounted
    <2>4. spawns + Cardinality(AcpPending) \in Acp!Spendable /\ spawns \in Nat
      BY DEF AcpInv, AcpCounts
    <2>5. spawns + Cardinality(AcpPending') \in Acp!Spendable'
      BY <1>4, <2>3, <2>4
    <2> QED BY <1>2, <2>2, <2>3, <2>4, <2>5 DEF AcpInv, AcpCounts
  <1> QED BY <1>4, <1>6, <1>7, <1>8, <1>9 DEF AcpInv

LEMMA AcpSpawn ==
    ASSUME AcpInv, NEW r \in Runs, Acp!Spawn(r), spawns' # spawns
    PROVE  AcpInv'
  <1> USE DEF AcpTypes
  <1>1. /\ acpAt[r] = "reserved" /\ acpAt' = [acpAt EXCEPT ![r] = "running"] /\ spawns' = spawns + 1
        /\ UNCHANGED Acp!ledgerVars
        /\ UNCHANGED <<acpProc, acpAlive, acpId, received, acpResult, flight, shutdown>>
        /\ runner' = [runner EXCEPT ![r] = TRUE]
    BY DEF Acp!Spawn, Acp!Step
  <1>2. UNCHANGED <<acpPc, acpDb, acpIntact>>
    BY <1>1 DEF Acp!ledgerVars
  <1>3. Acp!LedgerInv' /\ Acp!Spendable \subseteq Acp!Spendable'
    BY <1>1, AcpLedgerSame DEF AcpInv
  <1>4. AcpTypes'
    BY <1>1 DEF AcpInv
  <1>5. ASSUME NEW q \in Runs PROVE AcpRun(q)'
    BY <1>1, <1>2 DEF AcpInv, AcpRun
  <1>6. ASSUME acpIntact', NEW q \in Runs PROVE AcpRows(q)'
    BY <1>1, <1>2, <1>6 DEF AcpInv, AcpRows
  <1>7. AcpCounts'
    <2>1. /\ AcpLeft' = AcpLeft \ {r} /\ AcpPending' = AcpPending \ {r}
          /\ r \in AcpLeft /\ r \in AcpPending
          /\ AcpLeft \in SUBSET Runs /\ AcpPending \in SUBSET Runs
      BY <1>1 DEF AcpInv, AcpLeft, AcpPending
    <2>2. Cardinality(AcpLeft') = Cardinality(AcpLeft) - 1 /\ Cardinality(AcpLeft) \in Nat
          /\ Cardinality(Runs) \in Nat
      BY <2>1, RunsCounted
    <2>3. Cardinality(AcpPending') = Cardinality(AcpPending) - 1 /\ Cardinality(AcpPending) \in Nat
      BY <2>1, RunsCounted
    <2>4. spawns' \in Nat /\ spawns' + Cardinality(AcpPending') = spawns + Cardinality(AcpPending)
          /\ spawns' + Cardinality(AcpLeft') = spawns + Cardinality(AcpLeft)
      BY <1>1, <2>2, <2>3 DEF AcpInv, AcpCounts
    <2> QED BY <1>3, <2>4 DEF AcpInv, AcpCounts
  <1> QED BY <1>3, <1>4, <1>5, <1>6, <1>7 DEF AcpInv

\* A row is updated, by a request that then goes on or ends.
LEMMA AcpRecord ==
    ASSUME AcpInv, NEW r \in Runs, NEW status \in Acp!Statuses,
           acpAt[r] \in {"heard", "recorded"},
           Acp!UpdateRow(acpProc[r], acpId[r], status),
           \/ /\ acpAt' = [acpAt EXCEPT ![r] = "recorded"] /\ UNCHANGED <<acpResult, flight>>
           \/ Acp!Return(r, "error")
           \/ status = "success" /\ Acp!Return(r, "answer"),
           UNCHANGED <<acpProc, acpAlive, acpId, received, runner, spawns, shutdown>>
    PROVE  AcpInv'
  <1> USE DEF AcpTypes
  <1>1. /\ \/ acpAt' = [acpAt EXCEPT ![r] = "recorded"] /\ UNCHANGED <<acpResult, flight>>
           \/ /\ acpAt' = [acpAt EXCEPT ![r] = "done"]
              /\ flight' = [k \in Processes |-> IF flight[k] = r THEN "none" ELSE flight[k]]
              /\ \/ acpResult' \in {[acpResult EXCEPT ![r] = "error"], acpResult}
                 \/ status = "success" /\ acpResult' = [acpResult EXCEPT ![r] = "answer"]
    BY DEF Acp!Return, Acp!Step, Acp!Unflight, Acp!None
  <1>2. /\ Acp!LedgerInv' /\ Acp!Spendable \subseteq Acp!Spendable'
        /\ UNCHANGED <<acpPc, acpIntact>> /\ acpId[r] \in DOMAIN acpDb.rows
        /\ DOMAIN acpDb'.rows = DOMAIN acpDb.rows /\ acpDb'.rows[acpId[r]] = status
        /\ \A k \in DOMAIN acpDb.rows \ {acpId[r]} : acpDb'.rows[k] = acpDb.rows[k]
    BY AcpWorld, Acp!UpdateKeeps DEF AcpInv
  <1>3. AcpTypes'
    <2>1. acpAt' \in [Runs -> {"idle", "reserving", "reserved", "running", "heard", "recorded",
                              "done", "lost"}]
      BY <1>1 DEF AcpInv
    <2>2. acpResult' \in [Runs -> {"none", "answer", "error"}]
      BY <1>1 DEF AcpInv
    <2>3. flight' \in [Processes -> Runs \cup {"none"}]
      BY <1>1 DEF AcpInv
    <2> QED BY <2>1, <2>2, <2>3 DEF AcpInv
  <1>4. AcpLeft' \subseteq AcpLeft /\ AcpPending' \subseteq AcpPending
    BY <1>1 DEF AcpInv, AcpLeft, AcpPending
  <1>5. \A q \in Runs \ {r} : acpResult'[q] = acpResult[q] /\ acpAt'[q] = acpAt[q]
    BY <1>1 DEF AcpInv
  <1>6. ASSUME NEW q \in Runs PROVE AcpRun(q)'
    <2>1. AcpRun(q) /\ AcpRun(r)
      BY DEF AcpInv
    <2>2. CASE q = r
      BY <1>1, <1>2, <2>1, <2>2 DEF AcpInv, AcpRun
    <2>3. CASE q # r
      BY <1>1, <1>2, <1>5, <2>1, <2>3 DEF AcpInv, AcpRun
    <2> QED BY <2>2, <2>3
  <1>7. AcpCounts'
    BY <1>2, <1>4, AcpCountsKept DEF AcpInv
  <1>8. ASSUME acpIntact', NEW q \in Runs PROVE AcpRows(q)'
    <2>1. \A k \in Runs : AcpRows(k)
      BY <1>2, <1>8 DEF AcpInv
    <2>2. acpId[r] # "none" /\ acpResult[r] # "answer"
      BY DEF AcpInv, AcpRun
    <2>3. CASE q = r
      BY <1>1, <1>2, <2>1, <2>2, <2>3 DEF AcpRows, AcpInv
    <2>4. CASE q # r
      BY <1>2, <1>5, <2>1, <2>2, <2>4 DEF AcpRows
    <2> QED BY <2>3, <2>4
  <1> QED BY <1>2, <1>3, <1>6, <1>7, <1>8 DEF AcpInv

LEMMA AcpRecordSteps ==
    ASSUME AcpInv, NEW r \in Runs, Acp!RecordRaw(r) \/ Acp!RecordResult(r)
    PROVE  AcpInv'
  <1>1. UNCHANGED <<acpProc, acpAlive, acpId, received, runner, spawns, shutdown>>
    BY DEF Acp!RecordRaw, Acp!RecordResult
  <1>2. acpAt[r] \in {"heard", "recorded"}
    BY DEF Acp!RecordRaw, Acp!RecordResult
  <1>3. CASE UNCHANGED Acp!ledgerVars /\ Acp!Return(r, "error")
    BY <1>1, <1>2, <1>3, AcpEnds
  <1>4. CASE Acp!RecordRaw(r) /\ ~(UNCHANGED Acp!ledgerVars /\ Acp!Return(r, "error"))
    <2>1. PICK status \in {"received_unvalidated", "transport_failed"} :
             /\ Acp!UpdateRow(acpProc[r], acpId[r], status)
             /\ \/ /\ acpAt' = [acpAt EXCEPT ![r] = "recorded"] /\ UNCHANGED <<acpResult, flight>>
                \/ Acp!Return(r, "error")
      BY <1>4 DEF Acp!RecordRaw, Acp!Step
    <2>2. status \in Acp!Statuses
      BY DEF Acp!Statuses
    <2> QED BY <1>1, <1>2, <2>1, <2>2, AcpRecord
  <1>5. CASE Acp!RecordResult(r) /\ ~(UNCHANGED Acp!ledgerVars /\ Acp!Return(r, "error"))
    <2>1. PICK status \in {"success", "failed"} :
             /\ Acp!UpdateRow(acpProc[r], acpId[r], status)
             /\ \/ Acp!Return(r, "error")
                \/ status = "success" /\ Acp!Return(r, "answer")
      BY <1>5 DEF Acp!RecordResult
    <2>2. status \in Acp!Statuses
      BY DEF Acp!Statuses
    <2> QED BY <1>1, <1>2, <2>1, <2>2, AcpRecord
  <1> QED BY <1>3, <1>4, <1>5

LEMMA AcpStep == AcpInv /\ [Acp!Next]_Acp!vars => AcpInv'
  <1> SUFFICES ASSUME AcpInv, [Acp!Next]_Acp!vars PROVE AcpInv'
    OBVIOUS
  <1>1. CASE UNCHANGED Acp!vars \/ \E p \in Processes : Acp!cancel_all(p)
    <2>1. /\ UNCHANGED Acp!ledgerVars
          /\ UNCHANGED <<acpAt, acpProc, acpAlive, acpId, received, acpResult, runner, spawns,
                         flight>>
          /\ shutdown' \in [Processes -> BOOLEAN]
      <3>1. shutdown \in [Processes -> BOOLEAN]
        BY DEF AcpInv, AcpTypes
      <3>2. CASE UNCHANGED Acp!vars
        BY <3>1, <3>2 DEF Acp!vars, Acp!runVars
      <3>3. ASSUME NEW p \in Processes, Acp!cancel_all(p)
            PROVE  /\ UNCHANGED <<Acp!ledgerVars, acpAt, acpProc, acpAlive, acpId, received,
                                  acpResult, runner, spawns, flight>>
                   /\ shutdown' = [shutdown EXCEPT ![p] = TRUE]
        BY <3>3 DEF Acp!cancel_all, Acp!runVars
      <3>4. ASSUME NEW p \in Processes, shutdown' = [shutdown EXCEPT ![p] = TRUE]
            PROVE  shutdown' \in [Processes -> BOOLEAN]
        BY <3>1, <3>4
      <3> QED BY <1>1, <3>2, <3>3, <3>4
    <2>2. AcpTypes' /\ AcpLeft' = AcpLeft /\ AcpPending' = AcpPending
      BY <2>1 DEF AcpInv, AcpTypes, AcpLeft, AcpPending
    <2>3. ASSUME NEW q \in Runs PROVE AcpRun(q)'
      BY <2>1 DEF AcpInv, AcpRun, Acp!ledgerVars
    <2> QED BY <2>1, <2>2, <2>3, AcpQuiet
  <1>2. ASSUME NEW r \in Runs, Acp!ReserveFails(r) PROVE AcpInv'
    BY <1>2, AcpEnds DEF Acp!ReserveFails
  <1>3. CASE Acp!Next
    BY <1>1, <1>2, <1>3, AcpOpen, AcpCrash, AcpDbLost, AcpStart, AcpQuietSteps, AcpReserve,
       AcpSpawn, AcpRecordSteps DEF Acp!Next, Acp!RunStep
  <1> QED BY <1>1, <1>3

LEMMA AcpImplies == 
    AcpInv => /\ Acp!TypeOK /\ Acp!SpawnsWithinCap
              /\ Acp!RunnerContained /\ Acp!AnswersAudited
  <1> SUFFICES ASSUME AcpInv 
                  PROVE  /\ Acp!TypeOK /\ Acp!SpawnsWithinCap
                         /\ Acp!RunnerContained /\ Acp!AnswersAudited
    OBVIOUS
  <1>1. /\ AcpLeft \in SUBSET Runs /\ AcpPending \in SUBSET Runs
    BY DEF AcpLeft, AcpPending
  <1>2. Cardinality(AcpLeft) \in Nat /\ Cardinality(AcpPending) \in Nat
        /\ Cardinality(Runs) \in Nat
    BY <1>1, RunsCounted
  <1>3. spawns \in 0..Acp!Cardinality(Runs)
    BY <1>2, AcpCardinality DEF AcpInv, AcpCounts
  <1>4. Acp!TypeOK
    BY <1>3 DEF AcpInv, AcpTypes, Acp!TypeOK, Acp!LedgerInv, Acp!None
  <1>5. spawns \in Acp!Spendable
    <2>1. spawns \in Nat /\ spawns <= spawns + Cardinality(AcpPending)
      BY <1>2 DEF AcpInv, AcpCounts
    <2> QED BY <2>1, AcpWorld, Acp!SpendableDown DEF AcpInv, AcpCounts
  <1>6. Acp!SpawnsWithinCap
    BY <1>5 DEF Acp!SpawnsWithinCap, Acp!Spendable
  <1>7. Acp!AnswersAudited
    BY DEF Acp!AnswersAudited, AcpInv, AcpRun, AcpRows
  <1>8. Acp!RunnerContained
    <2>1. ASSUME NEW r \in Runs, NEW q \in Runs, acpAt[r] = "running", acpAt[q] = "running",
                 acpProc[q] = acpProc[r]
          PROVE  q = r
      BY <2>1 DEF AcpInv, AcpRun
    <2> QED BY <2>1 DEF AcpInv, AcpRun, Acp!RunnerContained
  <1> QED BY <1>4, <1>6, <1>7, <1>8

\* For any processes, requests, caps and costs of an attempt: over crashes, power losses,
\* lost databases, cancelled requests and ambiguous commits, what was sent or spawned
\* stays within the cap of whoever has the ledger open, no runner outlives its attempt,
\* and an answer has its row (live_jev.rs, LiveJev::run; acp.rs, Acp::run).
THEOREM SpendingSafe == Spec => []SpendingBounded
  <1> DEFINE Inv == (part = "jev" => JevInv) /\ (part = "acp" => AcpInv)
  <1>1. Init => Inv
    <2>1. Init => (part = "jev" => Jev!Init) /\ (part = "acp" => Acp!Init)
      BY DEF Init
    <2> QED BY <2>1, JevInitOK, AcpInitOK
  <1>2. Inv /\ [Next]_vars => Inv'
    <2>1. [Next]_vars => /\ part' = part
                         /\ part = "jev" => [Jev!Next]_Jev!vars
                         /\ part = "acp" => [Acp!Next]_Acp!vars
      BY DEF Next, vars, jevVars, acpVars, Jev!vars, Acp!vars, Jev!ledgerVars, Acp!ledgerVars,
             Jev!runVars, Acp!runVars
    <2> QED BY <2>1, JevStep, AcpStep
  <1>3. Inv => SpendingBounded
    BY JevImplies, AcpImplies DEF SpendingBounded
  <1> QED BY <1>1, <1>2, <1>3, PTL DEF Spec

----------------------------------------------------------------------------
(* The durable record (RecordStore).  A process that works holds the lock   *)
(* of the inode the pathname names, so an exclusive holder is alone with    *)
(* the database the record's path names, and what its user was shown is     *)
(* what is there.                                                           *)

RecordsTypes ==
    /\ recordsPc \in [Processes -> Records!Steps]
    /\ job \in [Processes -> Records!Jobs \cup {Records!NoJob}]
    /\ recordsFd \in [Processes -> 0..lockMade]
    /\ mode \in [Processes -> {"none", "sh", "ex"}]
    /\ recordsTries \in [Processes -> 0..(Attempts - 1)] /\ making \in [Processes -> BOOLEAN]
    /\ recordsConn \in [Processes -> 0..dbMade]
    /\ shown \in [Processes -> SUBSET Items]

RecordsFiles ==
    /\ lockMade \in 0..MaxLocks /\ lockName \in 0..lockMade
    /\ recordsDir \in BOOLEAN /\ hot \in BOOLEAN
    /\ dbMade \in 0..MaxDbs /\ dbName \in 0..dbMade /\ ready \subseteq 1..dbMade
    /\ rows \in [1..MaxDbs -> [Items -> Records!Row]]
    /\ acked \in [Items -> Records!Row]

RecordsExcluded ==
    \A p, q \in Processes :
        p # q /\ recordsFd[p] = recordsFd[q] /\ mode[p] # "none" /\ mode[q] # "none"
        => mode[p] = "sh" /\ mode[q] = "sh"

RecordsRun(p) ==
    /\ recordsPc[p] \in {"idle", "open", "flock"} => mode[p] = "none"
    /\ recordsPc[p] \notin {"idle", "open", "flock"} => mode[p] = Records!Wants(p)
    /\ recordsPc[p] \notin {"idle", "open"} => recordsFd[p] # 0
    /\ Records!Working(p) => lockName = recordsFd[p]
    /\ recordsPc[p] # "idle" => job[p] \in Records!Jobs
    /\ making[p] => job[p].op = "save"
    /\ recordsPc[p] = "mkdb" => making[p]
    /\ recordsPc[p] = "commit" => job[p].op \in {"save", "delete"}
    /\ recordsPc[p] = "sync" => job[p].op = "save"
    /\ recordsPc[p] \in {"commit", "sync"} => recordsConn[p] = dbName /\ dbName # 0
    /\ recordsPc[p] \in {"confirm", "unlinkDb", "rmdir", "unlinkLock"} => job[p].op = "forget"
    /\ recordsPc[p] \in {"confirm", "unlinkDb"} =>
         dbName # 0 /\ shown[p] = {i \in Items : rows[dbName][i] # Records!Absent}

RecordsInv ==
    /\ RecordsTypes /\ RecordsFiles /\ RecordsExcluded
    /\ \A p \in Processes : RecordsRun(p)
    /\ Records!AckedKept

\* A process that works under the exclusive lock works alone.
LEMMA RecordsAlone ==
    ASSUME RecordsInv, NEW p \in Processes, Records!Working(p), mode[p] = "ex"
    PROVE  \A q \in Processes \ {p} : ~Records!Working(q)
  BY DEF RecordsInv, RecordsRun, RecordsExcluded, RecordsTypes, Records!Working, Records!Wants

\* What a job is about.
LEMMA RecordsJobs ==
    /\ \A j \in Records!Jobs : j.op \in {"save", "delete", "list", "report", "forget"}
    /\ \A j \in Records!Jobs : j.op \in {"save", "delete"} => j.item \in Items
    /\ \A j \in Records!Jobs : j.op = "save" => j.target \in Targets /\ j.anchor \in Anchors
  BY DEF Records!Jobs

LEMMA RecordsInitOK == Records!Init => RecordsInv
  <1> SUFFICES ASSUME Records!Init PROVE RecordsInv
    OBVIOUS
  <1>0. 0 \in 0..(Attempts - 1) /\ 0 \in 0..MaxLocks /\ 0 \in 0..MaxDbs /\ 0 \in 0..0
        /\ Records!Absent \in Records!Row
    BY RecordConstants, MarkerConstants DEF Records!Row
  <1>1. RecordsTypes /\ RecordsFiles
    BY <1>0 DEF Records!Init, RecordsTypes, RecordsFiles, Records!None, Records!Steps
  <1>2. RecordsExcluded /\ Records!AckedKept
    BY DEF Records!Init, RecordsExcluded, Records!AckedKept
  <1>3. ASSUME NEW p \in Processes PROVE RecordsRun(p)
    BY DEF Records!Init, RecordsRun, Records!Working
  <1> QED BY <1>1, <1>2, <1>3 DEF RecordsInv

\* A call ends: its lock and its database are closed.  The lock file may go with it when
\* nobody else works under it.
LEMMA RecordsLeave ==
    ASSUME RecordsInv, NEW p \in Processes, Records!Leave(p),
           UNCHANGED <<lockMade, recordsDir, dbName, dbMade, ready, rows, acked>>, hot' \in BOOLEAN,
           \/ lockName' = lockName
           \/ lockName' = 0 /\ \A q \in Processes \ {p} : ~Records!Working(q)
    PROVE  RecordsInv'
  <1>1. /\ recordsPc' = [recordsPc EXCEPT ![p] = "idle"]
        /\ job' = [job EXCEPT ![p] = Records!NoJob]
        /\ recordsFd' = [recordsFd EXCEPT ![p] = 0] /\ mode' = [mode EXCEPT ![p] = "none"]
        /\ recordsTries' = [recordsTries EXCEPT ![p] = 0]
        /\ making' = [making EXCEPT ![p] = FALSE]
        /\ recordsConn' = [recordsConn EXCEPT ![p] = 0] /\ shown' = [shown EXCEPT ![p] = {}]
    BY DEF Records!Leave, Records!Goto, Records!None
  <1>2. RecordsTypes'
    <2>1. 0 \in 0..lockMade /\ 0 \in 0..(Attempts - 1) /\ 0 \in 0..dbMade
      BY MarkerConstants DEF RecordsInv, RecordsFiles
    <2> QED BY <1>1, <2>1 DEF RecordsInv, RecordsTypes, Records!Steps
  <1>3. RecordsFiles'
    BY DEF RecordsInv, RecordsFiles
  <1>4. RecordsExcluded'
    BY <1>1 DEF RecordsInv, RecordsTypes, RecordsExcluded
  <1>5. ASSUME NEW q \in Processes PROVE RecordsRun(q)'
    <2>1. CASE q = p
      BY <1>1, <2>1 DEF RecordsInv, RecordsTypes, RecordsRun, Records!Working
    <2>2. CASE q # p
      BY <1>1, <2>2 DEF RecordsInv, RecordsTypes, RecordsRun, Records!Working, Records!Wants
    <2> QED BY <2>1, <2>2
  <1>6. Records!AckedKept'
    BY DEF RecordsInv, Records!AckedKept
  <1> QED BY <1>2, <1>3, <1>4, <1>5, <1>6 DEF RecordsInv

LEMMA RecordsRefuse ==
    ASSUME RecordsInv, NEW p \in Processes, Records!Refuse(p)
    PROVE  RecordsInv'
  <1>1. Records!Leave(p) /\ UNCHANGED <<lockName, lockMade, recordsDir, dbName, dbMade, ready, hot,
                                         rows, acked>>
    BY DEF Records!Refuse, Records!files
  <1>2. hot' \in BOOLEAN
    BY <1>1 DEF RecordsInv, RecordsFiles
  <1> QED BY <1>1, <1>2, RecordsLeave

\* A process moves on and the files stay as they are.
LEMMA RecordsMoves ==
    ASSUME RecordsInv, NEW p \in Processes, recordsDir' \in BOOLEAN,
           UNCHANGED <<lockName, lockMade, dbName, dbMade, ready, hot, rows, acked>>,
           RecordsTypes', RecordsRun(p)',
           recordsPc' = [recordsPc EXCEPT ![p] = recordsPc'[p]],
           \A q \in Processes \ {p} :
              /\ recordsFd'[q] = recordsFd[q] /\ mode'[q] = mode[q] /\ job'[q] = job[q]
              /\ making'[q] = making[q] /\ recordsConn'[q] = recordsConn[q]
              /\ shown'[q] = shown[q],
           \/ mode'[p] = "none"
           \/ mode'[p] = mode[p] /\ recordsFd'[p] = recordsFd[p]
    PROVE  RecordsInv'
  <1>1. RecordsFiles' /\ Records!AckedKept'
    BY DEF RecordsInv, RecordsFiles, Records!AckedKept
  <1>2. RecordsExcluded'
    BY DEF RecordsInv, RecordsTypes, RecordsExcluded
  <1>3. ASSUME NEW q \in Processes \ {p} PROVE RecordsRun(q)'
    BY DEF RecordsInv, RecordsTypes, RecordsRun, Records!Working, Records!Wants
  <1> QED BY <1>1, <1>2, <1>3 DEF RecordsInv

\* A process that works alone changes the database: nobody else has a step to lose.
LEMMA RecordsAloneMoves ==
    ASSUME RecordsInv, NEW p \in Processes, Records!Working(p), mode[p] = "ex",
           UNCHANGED <<lockName, lockMade, job, recordsFd, mode, making>>,
           recordsPc' = [recordsPc EXCEPT ![p] = recordsPc'[p]],
           RecordsTypes', RecordsFiles', Records!AckedKept', RecordsRun(p)'
    PROVE  RecordsInv'
  <1>1. \A q \in Processes \ {p} : ~Records!Working(q)
    BY RecordsAlone
  <1>2. RecordsExcluded'
    BY DEF RecordsInv, RecordsExcluded
  <1>3. ASSUME NEW q \in Processes \ {p} PROVE RecordsRun(q)'
    <2>1. recordsPc'[q] = recordsPc[q] /\ recordsPc[q] \in Records!Steps
      BY DEF RecordsInv, RecordsTypes
    <2>2. recordsPc[q] \in {"idle", "open", "flock", "recheck", "return"}
      BY <1>1, <2>1 DEF Records!Working, Records!Steps
    <2> QED BY <2>1, <2>2 DEF RecordsInv, RecordsRun, Records!Working, Records!Wants
  <1> QED BY <1>2, <1>3 DEF RecordsInv

\* Calls begin, and look for their lock.
LEMMA RecordsBegin ==
    ASSUME RecordsInv, NEW p \in Processes, NEW j \in Records!Jobs, Records!Begin(p, j)
    PROVE  RecordsInv'
  <1>1. /\ recordsPc[p] = "idle" /\ recordsPc' = [recordsPc EXCEPT ![p] = "open"]
        /\ recordsDir \/ j.op = "save"
        /\ job' = [job EXCEPT ![p] = j] /\ making' = [making EXCEPT ![p] = ~recordsDir]
        /\ UNCHANGED <<lockName, lockMade, recordsDir, dbName, dbMade, ready, hot, rows, recordsFd,
                       mode, recordsTries, recordsConn, acked, shown>>
    BY DEF Records!Begin, Records!Goto, Records!files, Records!ghost
  <1>2. RecordsTypes'
    BY <1>1 DEF RecordsInv, RecordsTypes, Records!Steps
  <1>3. RecordsRun(p)'
    BY <1>1 DEF RecordsInv, RecordsTypes, RecordsFiles, RecordsRun, Records!Working
  <1> QED BY <1>1, <1>2, <1>3, RecordsMoves DEF RecordsInv, RecordsTypes, RecordsFiles

LEMMA RecordsOpenLock ==
    ASSUME RecordsInv, NEW p \in Processes, Records!OpenLock(p)
    PROVE  RecordsInv'
  <1>1. /\ recordsPc[p] = "open" /\ recordsPc' = [recordsPc EXCEPT ![p] = "flock"]
        /\ \/ /\ lockName # 0 /\ recordsFd' = [recordsFd EXCEPT ![p] = lockName]
              /\ UNCHANGED <<lockName, lockMade>>
           \/ /\ lockName = 0 /\ lockMade < MaxLocks
              /\ lockMade' = lockMade + 1 /\ lockName' = lockMade'
              /\ recordsFd' = [recordsFd EXCEPT ![p] = lockMade']
        /\ UNCHANGED <<recordsDir, dbName, dbMade, ready, hot, rows, job, mode, recordsTries, making,
                       recordsConn, acked, shown>>
    BY DEF Records!OpenLock, Records!Goto, Records!ghost, Records!None
  <1>2. /\ lockMade' \in 0..MaxLocks /\ lockName' \in 0..lockMade' /\ lockName' # 0
        /\ 0..lockMade \subseteq 0..lockMade' /\ recordsFd' = [recordsFd EXCEPT ![p] = lockName']
    BY <1>1, RecordConstants DEF RecordsInv, RecordsFiles
  <1>3. RecordsTypes'
    BY <1>1, <1>2 DEF RecordsInv, RecordsTypes, Records!Steps
  <1>4. RecordsFiles' /\ Records!AckedKept'
    BY <1>1, <1>2 DEF RecordsInv, RecordsFiles, Records!AckedKept
  <1>5. mode[p] = "none"
    BY <1>1 DEF RecordsInv, RecordsRun
  <1>6. RecordsExcluded'
    BY <1>1, <1>2, <1>5 DEF RecordsInv, RecordsTypes, RecordsExcluded
  <1>7. ASSUME NEW q \in Processes PROVE RecordsRun(q)'
    <2>1. CASE q = p
      BY <1>1, <1>2, <1>5, <2>1 DEF RecordsInv, RecordsTypes, RecordsRun, Records!Working
    <2>2. CASE q # p
      <3>1. Records!Working(q) => recordsFd[q] # 0
        BY DEF RecordsInv, RecordsRun, Records!Working
      <3>2. Records!Working(q) => lockName' = lockName
        BY <1>1, <3>1 DEF RecordsInv, RecordsRun
      <3> QED BY <1>1, <1>2, <2>2, <3>2
              DEF RecordsInv, RecordsTypes, RecordsRun, Records!Working, Records!Wants
    <2> QED BY <2>1, <2>2
  <1> QED BY <1>3, <1>4, <1>6, <1>7 DEF RecordsInv

LEMMA RecordsFlock ==
    ASSUME RecordsInv, NEW p \in Processes, Records!Flock(p)
    PROVE  RecordsInv'
  <1>1. /\ recordsPc[p] = "flock" /\ recordsPc' = [recordsPc EXCEPT ![p] = "recheck"]
        /\ ~Records!Blocked(p) /\ mode' = [mode EXCEPT ![p] = Records!Wants(p)]
        /\ UNCHANGED <<lockName, lockMade, recordsDir, dbName, dbMade, ready, hot, rows, job,
                       recordsFd, recordsTries, making, recordsConn, acked, shown>>
    BY DEF Records!Flock, Records!Goto, Records!files, Records!ghost
  <1>2. Records!Wants(p) \in {"sh", "ex"}
    BY DEF Records!Wants
  <1>3. RecordsTypes'
    BY <1>1, <1>2 DEF RecordsInv, RecordsTypes, Records!Steps
  <1>4. RecordsFiles' /\ Records!AckedKept'
    BY <1>1 DEF RecordsInv, RecordsFiles, Records!AckedKept
  <1>5. RecordsExcluded'
    <2>1. ASSUME NEW q \in Processes \ {p}, recordsFd[q] = recordsFd[p], mode[q] # "none"
          PROVE  mode[q] = "sh" /\ Records!Wants(p) = "sh"
      BY <1>1, <1>2, <2>1 DEF Records!Blocked, RecordsInv, RecordsTypes
    <2> QED BY <1>1, <2>1 DEF RecordsInv, RecordsTypes, RecordsExcluded
  <1>6. ASSUME NEW q \in Processes PROVE RecordsRun(q)'
    <2>1. CASE q = p
      BY <1>1, <2>1 DEF RecordsInv, RecordsTypes, RecordsRun, Records!Working, Records!Wants
    <2>2. CASE q # p
      BY <1>1, <2>2 DEF RecordsInv, RecordsTypes, RecordsRun, Records!Working, Records!Wants
    <2> QED BY <2>1, <2>2
  <1> QED BY <1>3, <1>4, <1>5, <1>6 DEF RecordsInv

\* The pathname names another inode by now, or a record that somebody else has made.
LEMMA RecordsRetry ==
    ASSUME RecordsInv, NEW p \in Processes, recordsPc[p] \in {"recheck", "locked"},
           recordsPc' = [recordsPc EXCEPT ![p] = "open"],
           recordsFd' = [recordsFd EXCEPT ![p] = 0], mode' = [mode EXCEPT ![p] = "none"],
           recordsTries' \in [Processes -> 0..(Attempts - 1)],
           making' \in {making, [making EXCEPT ![p] = FALSE]},
           UNCHANGED Records!files, UNCHANGED <<job, recordsConn, acked, shown>>
    PROVE  RecordsInv'
  <1>0. UNCHANGED <<lockName, lockMade, recordsDir, dbName, dbMade, ready, hot, rows>>
    BY DEF Records!files
  <1>1. /\ making' \in [Processes -> BOOLEAN] /\ (making'[p] => making[p])
        /\ \A q \in Processes \ {p} : making'[q] = making[q]
    <2>0. making \in [Processes -> BOOLEAN]
      BY DEF RecordsInv, RecordsTypes
    <2>1. CASE making' = making
      BY <2>0, <2>1
    <2>2. CASE making' = [making EXCEPT ![p] = FALSE]
      BY <2>0, <2>2
    <2> QED BY <2>1, <2>2
  <1>2. RecordsTypes'
    <2>1. 0 \in 0..lockMade
      BY DEF RecordsInv, RecordsFiles
    <2> QED BY <1>0, <1>1, <2>1 DEF RecordsInv, RecordsTypes, Records!Steps
  <1>3. RecordsRun(p)'
    BY <1>0, <1>1 DEF RecordsInv, RecordsTypes, RecordsRun, Records!Working
  <1> QED BY <1>0, <1>1, <1>2, <1>3, RecordsMoves DEF RecordsInv, RecordsTypes, RecordsFiles

LEMMA RecordsRecheck ==
    ASSUME RecordsInv, NEW p \in Processes, Records!Recheck(p) \/ Records!Overtaken(p)
    PROVE  RecordsInv'
  <1>1. CASE Records!Overtaken(p)
    <2>1. 0 \in 0..(Attempts - 1)
      BY MarkerConstants
    <2>2. recordsTries' \in [Processes -> 0..(Attempts - 1)]
      BY <1>1, <2>1 DEF Records!Overtaken, RecordsInv, RecordsTypes
    <2> QED BY <1>1, <2>2, RecordsRetry
            DEF Records!Overtaken, Records!Goto, Records!None, Records!ghost
  <1>2. CASE /\ recordsPc[p] = "recheck" /\ recordsTries[p] + 1 < Attempts
             /\ recordsPc' = [recordsPc EXCEPT ![p] = "open"]
             /\ recordsTries' = [recordsTries EXCEPT ![p] = @ + 1]
             /\ recordsFd' = [recordsFd EXCEPT ![p] = 0] /\ mode' = [mode EXCEPT ![p] = "none"]
             /\ UNCHANGED Records!files /\ UNCHANGED <<job, making, recordsConn, acked, shown>>
    <2>1. recordsTries' \in [Processes -> 0..(Attempts - 1)]
      BY <1>2, MarkerConstants DEF RecordsInv, RecordsTypes
    <2> QED BY <1>2, <2>1, RecordsRetry
  <1>3. CASE Records!Refuse(p)
    BY <1>3, RecordsRefuse
  <1>4. CASE /\ recordsPc[p] = "recheck" /\ lockName = recordsFd[p] /\ Records!Keep(p, "locked")
             /\ UNCHANGED Records!files /\ UNCHANGED Records!ghost
    <2>1. /\ recordsPc' = [recordsPc EXCEPT ![p] = "locked"]
          /\ UNCHANGED <<lockName, lockMade, recordsDir, dbName, dbMade, ready, hot, rows, job,
                         recordsFd, mode, recordsTries, making, recordsConn, acked, shown>>
      BY <1>4 DEF Records!Keep, Records!Goto, Records!files, Records!ghost
    <2>2. RecordsTypes'
      BY <2>1 DEF RecordsInv, RecordsTypes, Records!Steps
    <2>3. RecordsRun(p)'
      BY <1>4, <2>1 DEF RecordsInv, RecordsTypes, RecordsRun, Records!Working, Records!Wants
    <2> QED BY <2>1, <2>2, <2>3, RecordsMoves DEF RecordsInv, RecordsTypes, RecordsFiles
  <1> QED BY <1>1, <1>2, <1>3, <1>4 DEF Records!Recheck, Records!Goto, Records!None, Records!ghost

\* What a step may do that keeps its lock and its job.
LEMMA RecordsSimple ==
    ASSUME RecordsInv, NEW p \in Processes,
           Records!MakeDir(p) \/ Records!Read(p) \/ Records!Confirm(p) \/ Records!RemoveDir(p)
    PROVE  RecordsInv'
  <1>1. PICK step \in {"mkdb", "return", "unlinkDb", "unlinkLock"} :
          /\ recordsPc' = [recordsPc EXCEPT ![p] = step]
          /\ step = "mkdb" => recordsPc[p] = "locked" /\ making[p]
          /\ step = "return" => recordsPc[p] = "read"
          /\ step = "unlinkDb" => recordsPc[p] = "confirm"
          /\ step = "unlinkLock" => recordsPc[p] = "rmdir"
    BY DEF Records!MakeDir, Records!Read, Records!Confirm, Records!RemoveDir, Records!Keep,
           Records!Goto
  <1>2. /\ recordsDir' \in {recordsDir, TRUE, FALSE}
        /\ UNCHANGED <<lockName, lockMade, dbName, dbMade, ready, hot, rows, job, recordsFd, mode,
                       recordsTries, making, recordsConn, acked, shown>>
    BY DEF Records!MakeDir, Records!Read, Records!Confirm, Records!RemoveDir, Records!Keep,
           Records!files, Records!ghost
  <1>3. recordsDir' \in BOOLEAN
    BY <1>2 DEF RecordsInv, RecordsFiles
  <1>4. RecordsTypes'
    BY <1>1, <1>2 DEF RecordsInv, RecordsTypes, Records!Steps
  <1>5. RecordsRun(p)'
    BY <1>1, <1>2 DEF RecordsInv, RecordsTypes, RecordsRun, Records!Working, Records!Wants
  <1> QED BY <1>1, <1>2, <1>3, <1>4, <1>5, RecordsMoves DEF RecordsInv, RecordsTypes

LEMMA RecordsOpenDb ==
    ASSUME RecordsInv, NEW p \in Processes, Records!OpenDb(p)
    PROVE  RecordsInv'
  <1>1. CASE Records!Refuse(p)
    BY <1>1, RecordsRefuse
  <1>2. CASE ~Records!Refuse(p)
    <2>0. job[p] \in Records!Jobs /\ recordsPc[p] = "locked" /\ ~making[p]
      BY DEF Records!OpenDb, RecordsInv, RecordsRun
    <2>1. PICK step \in {"commit", "read", "confirm"} :
            /\ recordsPc' = [recordsPc EXCEPT ![p] = step]
            /\ step = "commit" => job[p].op \in {"save", "delete"}
            /\ step = "confirm" => job[p].op = "forget"
      <3>1. job[p].op \in {"save", "delete", "list", "report", "forget"}
        BY <2>0, RecordsJobs
      <3> QED BY <1>2, <3>1 DEF Records!OpenDb, Records!Goto
    <2>2. /\ dbName # 0 /\ recordsConn' = [recordsConn EXCEPT ![p] = dbName]
          /\ shown' = [shown EXCEPT ![p] = {i \in Items : rows[dbName][i] # Records!Absent}]
          /\ UNCHANGED <<lockName, lockMade, recordsDir, dbName, dbMade, ready, hot, rows, job,
                         recordsFd, mode, recordsTries, making, acked>>
      BY <1>2 DEF Records!OpenDb, Records!Usable, Records!None, Records!files
    <2> DEFINE there == {i \in Items : rows[dbName][i] # Records!Absent}
    <2>3. there \in SUBSET Items
      OBVIOUS
    <2> HIDE DEF there
    <2>4. RecordsTypes'
      <3>1. dbName \in 0..dbMade /\ shown' = [shown EXCEPT ![p] = there]
        BY <2>2 DEF RecordsInv, RecordsFiles, there
      <3> QED BY <2>1, <2>2, <2>3, <3>1 DEF RecordsInv, RecordsTypes, Records!Steps
    <2>5. RecordsRun(p)'
      <3>1. recordsPc'[p] = step /\ recordsConn'[p] = dbName
            /\ shown'[p] = {i \in Items : rows[dbName][i] # Records!Absent}
        BY <2>1, <2>2 DEF RecordsInv, RecordsTypes
      <3> QED BY <2>0, <2>1, <2>2, <3>1
              DEF RecordsInv, RecordsRun, Records!Working, Records!Wants
    <2> QED BY <2>1, <2>2, <2>4, <2>5, RecordsMoves DEF RecordsInv, RecordsTypes, RecordsFiles
  <1> QED BY <1>1, <1>2

\* The steps of an exclusive holder that change the database.
LEMMA RecordsMakeDb ==
    ASSUME RecordsInv, NEW p \in Processes, Records!MakeDb(p)
    PROVE  RecordsInv'
  <1>1. /\ recordsPc[p] = "mkdb" /\ dbName = 0 /\ dbMade < MaxDbs
        /\ dbMade' = dbMade + 1 /\ dbName' = dbMade'
        /\ recordsConn' = [recordsConn EXCEPT ![p] = dbMade']
        /\ recordsPc' = [recordsPc EXCEPT ![p] = "commit"]
        /\ UNCHANGED <<lockName, lockMade, recordsDir, ready, hot, rows, job, recordsFd, mode,
                       recordsTries, making, acked, shown>>
    BY DEF Records!MakeDb, Records!None, Records!Goto, Records!ghost
  <1>2. Records!Working(p) /\ mode[p] = "ex" /\ job[p].op = "save"
    BY <1>1 DEF RecordsInv, RecordsRun, Records!Working, Records!Wants
  <1>3. dbMade' \in 0..MaxDbs /\ dbName' \in 0..dbMade' /\ dbName' # 0
        /\ 0..dbMade \subseteq 0..dbMade' /\ 1..dbMade \subseteq 1..dbMade'
    BY <1>1, RecordConstants DEF RecordsInv, RecordsFiles
  <1>4. RecordsTypes'
    BY <1>1, <1>3 DEF RecordsInv, RecordsTypes, Records!Steps
  <1>5. RecordsFiles'
    BY <1>1, <1>3 DEF RecordsInv, RecordsFiles
  <1>6. Records!AckedKept'
    BY <1>1 DEF RecordsInv, Records!AckedKept, Records!None
  <1>7. RecordsRun(p)'
    BY <1>1, <1>2, <1>3 DEF RecordsInv, RecordsTypes, RecordsRun, Records!Working, Records!Wants
  <1> QED BY <1>1, <1>2, <1>4, <1>5, <1>6, <1>7, RecordsAloneMoves DEF RecordsInv, RecordsTypes

\* A row of the database is written by its only holder.
LEMMA RecordsWrite ==
    ASSUME RecordsInv, NEW p \in Processes, recordsPc[p] = "commit",
           NEW row \in Records!Row, NEW step \in {"sync", "return"},
           step = "sync" => job[p].op = "save",
           rows' = [rows EXCEPT ![recordsConn[p]][job[p].item] = row],
           \/ acked' = acked /\ (acked[job[p].item] # Records!Absent => row = acked[job[p].item])
           \/ acked' = [acked EXCEPT ![job[p].item] = Records!Absent],
           ready' \in {ready, ready \cup {recordsConn[p]}},
           recordsPc' = [recordsPc EXCEPT ![p] = step],
           UNCHANGED <<lockName, lockMade, recordsDir, dbName, dbMade, hot, job, recordsFd, mode,
                       recordsTries, making, recordsConn, shown>>
    PROVE  RecordsInv'
  <1>1. /\ Records!Working(p) /\ mode[p] = "ex" /\ job[p].op \in {"save", "delete"}
        /\ recordsConn[p] = dbName /\ dbName # 0 /\ dbName \in 1..dbMade /\ dbName \in 1..MaxDbs
    BY RecordConstants DEF RecordsInv, RecordsFiles, RecordsRun, Records!Working, Records!Wants
  <1>2. job[p].item \in Items
    BY <1>1, RecordsJobs DEF RecordsInv, RecordsRun
  <1>3. /\ rows' \in [1..MaxDbs -> [Items -> Records!Row]]
        /\ rows'[dbName][job[p].item] = row
        /\ \A i \in Items \ {job[p].item} : rows'[dbName][i] = rows[dbName][i]
    BY <1>1, <1>2 DEF RecordsInv, RecordsFiles
  <1>4. /\ acked' \in [Items -> Records!Row]
        /\ \A i \in Items \ {job[p].item} : acked'[i] = acked[i]
        /\ acked'[job[p].item] # Records!Absent => acked'[job[p].item] = row
    <2>1. Records!Absent \in Records!Row
      BY DEF Records!Row
    <2> QED BY <1>2, <2>1 DEF RecordsInv, RecordsFiles
  <1>5. RecordsTypes'
    BY DEF RecordsInv, RecordsTypes, Records!Steps
  <1>6. RecordsFiles'
    <2>1. ready' \subseteq 1..dbMade
      BY <1>1 DEF RecordsInv, RecordsFiles
    <2> QED BY <1>3, <1>4, <2>1 DEF RecordsInv, RecordsFiles
  <1>7. Records!AckedKept'
    BY <1>1, <1>2, <1>3, <1>4 DEF RecordsInv, Records!AckedKept, Records!None
  <1>8. RecordsRun(p)'
    BY <1>1 DEF RecordsInv, RecordsTypes, RecordsRun, Records!Working, Records!Wants
  <1> QED BY <1>1, <1>5, <1>6, <1>7, <1>8, RecordsAloneMoves DEF RecordsInv, RecordsTypes

LEMMA RecordsCommit ==
    ASSUME RecordsInv, NEW p \in Processes, Records!CommitSave(p) \/ Records!CommitDelete(p)
    PROVE  RecordsInv'
  <1>1. CASE Records!CommitDelete(p)
    <2>1. Records!Absent \in Records!Row
      BY DEF Records!Row
    <2> QED BY <1>1, <2>1, RecordsWrite DEF Records!CommitDelete, Records!Goto
  <1>2. CASE Records!CommitSave(p)
    <2> DEFINE old == rows[recordsConn[p]][job[p].item]
    <2>1. /\ recordsPc[p] = "commit" /\ job[p].op = "save"
          /\ old \in {Records!Absent} \cup [target : {job[p].target}, anchor : Anchors]
          /\ rows' = [rows EXCEPT ![recordsConn[p]][job[p].item] = Records!Merged(p)]
          /\ ready' = ready \cup {recordsConn[p]}
          /\ recordsPc' = [recordsPc EXCEPT ![p] = "sync"]
          /\ UNCHANGED <<lockName, lockMade, recordsDir, dbName, dbMade, hot, job, recordsFd, mode,
                         recordsTries, making, recordsConn, acked, shown>>
      BY <1>2 DEF Records!CommitSave, Records!Keep, Records!Goto, Records!ghost
    <2>2. /\ job[p].item \in Items /\ job[p].target \in Targets /\ job[p].anchor \in Anchors
      BY <2>1, RecordsJobs DEF RecordsInv, RecordsRun
    <2>3. Records!Merged(p) = [target |-> job[p].target,
                               anchor |-> IF old = Records!Absent THEN job[p].anchor
                                                                  ELSE old.anchor]
      BY DEF Records!Merged
    <2>4. Records!Merged(p) \in Records!Row
      BY <2>1, <2>2, <2>3 DEF Records!Row
    <2>5. old # Records!Absent => Records!Merged(p) = old
      BY <2>1, <2>3
    <2>6. acked[job[p].item] # Records!Absent => Records!Merged(p) = acked[job[p].item]
      <3>1. recordsConn[p] = dbName
        BY <2>1 DEF RecordsInv, RecordsRun
      <3> QED BY <2>2, <2>5, <3>1 DEF RecordsInv, Records!AckedKept
    <2> QED BY <2>1, <2>4, <2>6, RecordsWrite
  <1> QED BY <1>1, <1>2

LEMMA RecordsSync ==
    ASSUME RecordsInv, NEW p \in Processes, Records!Sync(p)
    PROVE  RecordsInv'
  <1>1. /\ recordsPc[p] = "sync" /\ recordsPc' = [recordsPc EXCEPT ![p] = "return"]
        /\ acked' = [acked EXCEPT ![job[p].item] =
                         IF @ = Records!Absent THEN rows[recordsConn[p]][job[p].item] ELSE @]
        /\ UNCHANGED <<lockName, lockMade, recordsDir, dbName, dbMade, ready, hot, rows, job,
                       recordsFd, mode, recordsTries, making, recordsConn, shown>>
    BY DEF Records!Sync, Records!Keep, Records!Goto, Records!files
  <1>2. /\ Records!Working(p) /\ mode[p] = "ex" /\ recordsConn[p] = dbName /\ dbName # 0
        /\ dbName \in 1..MaxDbs /\ job[p].op = "save" /\ job[p] \in Records!Jobs
    BY <1>1, RecordConstants
       DEF RecordsInv, RecordsFiles, RecordsRun, Records!Working, Records!Wants
  <1>3. job[p].item \in Items
    BY <1>2, RecordsJobs
  <1>4. RecordsTypes'
    BY <1>1 DEF RecordsInv, RecordsTypes, Records!Steps
  <1>5. RecordsFiles'
    <2>1. acked' \in [Items -> Records!Row]
      BY <1>1, <1>2, <1>3 DEF RecordsInv, RecordsFiles
    <2> QED BY <1>1, <2>1 DEF RecordsInv, RecordsFiles
  <1>6. Records!AckedKept'
    BY <1>1, <1>2, <1>3 DEF RecordsInv, RecordsFiles, Records!AckedKept, Records!None
  <1>7. RecordsRun(p)'
    BY <1>1 DEF RecordsInv, RecordsTypes, RecordsRun, Records!Working, Records!Wants
  <1> QED BY <1>1, <1>2, <1>4, <1>5, <1>6, <1>7, RecordsAloneMoves DEF RecordsInv, RecordsTypes

\* Whatever is forgotten was shown: nothing is changed between the inventory and the removal.
LEMMA RecordsUnlinkDb ==
    ASSUME RecordsInv, NEW p \in Processes, Records!UnlinkDb(p)
    PROVE  RecordsInv'
  <1>1. /\ recordsPc[p] = "unlinkDb" /\ recordsPc' = [recordsPc EXCEPT ![p] = "rmdir"]
        /\ dbName' = 0
        /\ acked' = [i \in Items |-> IF i \in shown[p] THEN Records!Absent ELSE acked[i]]
        /\ UNCHANGED <<lockName, lockMade, recordsDir, dbMade, ready, hot, rows, job,
                       recordsFd, mode, recordsTries, making, recordsConn, shown>>
    BY DEF Records!UnlinkDb, Records!Keep, Records!Goto, Records!None
  <1>2. Records!Working(p) /\ mode[p] = "ex"
    BY <1>1 DEF RecordsInv, RecordsRun, Records!Working, Records!Wants
  <1>3. RecordsTypes'
    BY <1>1 DEF RecordsInv, RecordsTypes, Records!Steps
  <1>4. \A i \in Items : acked'[i] = Records!Absent
    BY <1>1 DEF RecordsInv, RecordsRun, Records!AckedKept
  <1>5. RecordsFiles'
    <2>1. acked' \in [Items -> Records!Row]
      BY <1>1, <1>4 DEF Records!Row
    <2>2. dbName' \in 0..dbMade'
      BY <1>1 DEF RecordsInv, RecordsFiles
    <2> QED BY <1>1, <2>1, <2>2 DEF RecordsInv, RecordsFiles
  <1>6. Records!AckedKept'
    BY <1>4 DEF Records!AckedKept
  <1>7. RecordsRun(p)'
    BY <1>1 DEF RecordsInv, RecordsTypes, RecordsRun, Records!Working, Records!Wants
  <1> QED BY <1>1, <1>2, <1>3, <1>5, <1>6, <1>7, RecordsAloneMoves DEF RecordsInv, RecordsTypes

LEMMA RecordsGone ==
    ASSUME RecordsInv, NEW p \in Processes, Records!UnlinkLock(p) \/ Records!Crash(p)
    PROVE  RecordsInv'
  <1>1. CASE Records!Crash(p)
    <2>1. hot' \in BOOLEAN
      BY <1>1 DEF Records!Crash, RecordsInv, RecordsFiles
    <2> QED BY <1>1, <2>1, RecordsLeave DEF Records!Crash
  <1>2. CASE Records!UnlinkLock(p)
    <2>1. Records!Working(p) /\ mode[p] = "ex"
      BY <1>2 DEF Records!UnlinkLock, RecordsInv, RecordsRun, Records!Working, Records!Wants
    <2>2. \A q \in Processes \ {p} : ~Records!Working(q)
      BY <2>1, RecordsAlone
    <2>3. hot' \in BOOLEAN
      BY <1>2 DEF Records!UnlinkLock, RecordsInv, RecordsFiles
    <2> QED BY <1>2, <2>2, <2>3, RecordsLeave DEF Records!UnlinkLock, Records!None
  <1> QED BY <1>1, <1>2

LEMMA RecordsStep == RecordsInv /\ [Records!Next]_Records!vars => RecordsInv'
  <1> SUFFICES ASSUME RecordsInv, [Records!Next]_Records!vars PROVE RecordsInv'
    OBVIOUS
  <1>1. CASE UNCHANGED Records!vars
    BY <1>1 DEF Records!vars, RecordsInv, RecordsTypes, RecordsFiles, RecordsExcluded, RecordsRun,
                Records!AckedKept, Records!Working, Records!Wants
  <1>2. ASSUME NEW p \in Processes, Records!Step(p) PROVE RecordsInv'
    <2>1. \/ Records!Refuse(p)
          \/ Records!OpenLock(p)
          \/ Records!Flock(p)
          \/ Records!Recheck(p)
          \/ Records!Overtaken(p)
          \/ Records!MakeDir(p)
          \/ Records!Read(p)
          \/ Records!Confirm(p)
          \/ Records!RemoveDir(p)
          \/ Records!MakeDb(p)
          \/ Records!OpenDb(p)
          \/ Records!CommitSave(p)
          \/ Records!CommitDelete(p)
          \/ Records!Sync(p)
          \/ Records!UnlinkDb(p)
          \/ Records!UnlinkLock(p)
      BY <1>2 DEF Records!Step, Records!NoLock, Records!Busy, Records!MergeRefused, Records!Return,
                  Records!Decline
    <2> QED BY <2>1, RecordsRefuse, RecordsOpenLock, RecordsFlock, RecordsRecheck, RecordsSimple,
               RecordsMakeDb, RecordsOpenDb, RecordsCommit, RecordsSync, RecordsUnlinkDb, RecordsGone
  <1> QED BY <1>1, <1>2, RecordsGone, RecordsBegin DEF Records!Next

\* For any processes, items and bounds: an acknowledged save is in the record until its
\* user deletes or forgets it, and an exclusive holder is alone with the record although
\* its lock file is unlinked and made again (topology.rs, UseGuard, save and forget).
THEOREM RecordsSafe == Spec => []RecordsKept
  <1> DEFINE Inv == part = "records" => RecordsInv
  <1>1. Init => Inv
    BY RecordsInitOK DEF Init
  <1>2. Inv /\ [Next]_vars => Inv'
    <2>1. [Next]_vars => part' = part /\ (part = "records" => [Records!Next]_Records!vars)
      BY DEF Next, vars, recordsVars, Records!vars
    <2> QED BY <2>1, RecordsStep
  <1>3. Inv => RecordsKept
    <2> SUFFICES ASSUME RecordsInv PROVE Records!TypeOK /\ Records!AckedKept /\ Records!ExclusiveUse
      BY DEF RecordsKept
    <2>1. Records!TypeOK
      BY DEF RecordsInv, RecordsTypes, RecordsFiles, Records!TypeOK
    <2>2. ASSUME NEW p \in Processes, NEW q \in Processes, p # q,
                 Records!Working(p), Records!Working(q)
          PROVE  {mode[p], mode[q]} = {"sh"}
      <3>1. recordsFd[p] = recordsFd[q]
        BY <2>2 DEF RecordsInv, RecordsRun
      <3>2. mode[p] # "none" /\ mode[q] # "none"
        BY <2>2 DEF RecordsInv, RecordsRun, Records!Working, Records!Wants
      <3> QED BY <2>2, <3>1, <3>2 DEF RecordsInv, RecordsExcluded
    <2> QED BY <2>1, <2>2 DEF RecordsInv, Records!ExclusiveUse
  <1> QED BY <1>1, <1>2, <1>3, PTL DEF Spec

----------------------------------------------------------------------------
(* The replacement of a corrupt index (IndexRecreate).  Until the staged    *)
(* file is renamed no change of the name index.db is pending; from then on  *)
(* none of the journal's is, and the new file's contents are on disk.       *)

\* A nonempty finite set of numbers has a greatest member.
LEMMA Greatest ==
    ASSUME NEW S \in SUBSET Nat, IsFiniteSet(S), S # {}
    PROVE  \E k \in S : \A j \in S : j <= k
  <1> DEFINE Above(k) == {j \in S : k <= j}
             T == {Above(k) : k \in S}
             R == StrictSubsetOrdering(S)
  <1>1. IsWellFoundedOn(R, FiniteSubsetsOf(S))
    BY FS_StrictSubsetOrderingWellFounded
  <1>2. FiniteSubsetsOf(S) = SUBSET S
    BY FS_FiniteSubsetsOfFinite
  <1>3. T \subseteq SUBSET S /\ T # {}
    OBVIOUS
  <1>4. PICK x \in T : \A y \in T : ~(<<y, x>> \in R)
    <2>1. IsWellFoundedOn(R, SUBSET S)
      BY <1>1, <1>2
    <2> HIDE DEF T, R
    <2>2. \E x \in T : \A y \in T : ~(<<y, x>> \in R)
      BY <2>1, <1>3, WFMin
    <2> QED BY <2>2
  <1>5. PICK k \in S : x = Above(k)
    OBVIOUS
  <1>6. ASSUME NEW j \in S, k < j PROVE FALSE
    <2>1. Above(j) \subseteq Above(k) /\ k \in Above(k) /\ k \notin Above(j)
      <3>1. j \in Nat /\ k \in Nat /\ \A i \in S : i \in Nat
        OBVIOUS
      <3>2. \A i \in S : j <= i => k <= i
        BY <1>6, <3>1
      <3>3. k <= k /\ ~(j <= k)
        BY <1>6, <3>1
      <3> QED BY <3>2, <3>3
    <2>2. <<Above(j), Above(k)>> \in R
      <3> HIDE DEF Above
      <3>1. Above(j) \in SUBSET S /\ Above(k) \in SUBSET S
        BY DEF Above
      <3> QED BY <2>1, <3>1 DEF StrictSubsetOrdering
    <2>3. Above(j) \in T
      OBVIOUS
    <2> QED BY <1>4, <1>5, <2>2, <2>3
  <1> HIDE DEF Above, T, R
  <1>7. ASSUME NEW j \in S PROVE j <= k
    <2>1. j \in Nat /\ k \in Nat
      OBVIOUS
    <2>2. ~(k < j)
      BY <1>6
    <2> QED BY <2>1, <2>2
  <1> QED BY <1>7

RecreateValues == {"none", "bad", "moved", "fixed", "new", "hot"}
RecreateFits(n, v) ==
    /\ n = "db" => v \in {"bad", "moved", "fixed", "new"}
    /\ n = "stage" => v \in {"none", "new"}
    /\ n \in {"journal", "backup"} => v \in {"none", "hot"}
RecreateDirs == {d \in [Recreate!Names -> RecreateValues] :
                    \A n \in Recreate!Names : RecreateFits(n, d[n])}
RecreateOps == {op \in UNION {[D -> RecreateValues] : D \in SUBSET Recreate!Names} :
                    \A n \in DOMAIN op : RecreateFits(n, op[n])}

Untouched(n) == \A k \in 1..Len(pend) : n \notin DOMAIN pend[k]

RecreateTypes ==
    /\ recreateDir \in RecreateDirs /\ disk \in RecreateDirs /\ pend \in Seq(RecreateOps)
    /\ recreateSynced \in BOOLEAN /\ mine \in BOOLEAN
    /\ disp \in {"Unopened", "RecreatePending", "RootReplaced", "Ready"}
    /\ recreatePc \in {"idle", "admitted", "staged", "built", "valid", "checked", "moved", "clear",
                       "renamed", "durable", "tidy", "live"}
    /\ recreateTries \in 0..MaxTries

RecreateOld == {"admitted", "staged", "built", "valid", "checked", "moved", "clear"}
RecreateNew == {"renamed", "durable", "tidy", "live"}

RecreatePhase ==
    /\ recreatePc \in RecreateOld => recreateDir["db"] \in {"bad", "moved"}
    /\ recreatePc \in RecreateNew => recreateDir["db"] = "new"
    /\ recreatePc \in {"durable", "tidy", "live"} => disk["db"] = "new" /\ Untouched("db")
    /\ recreatePc \in RecreateOld \ {"admitted"} => recreateDir["stage"] = "new"
    /\ recreatePc \in {"checked", "moved", "clear"} => recreateSynced
    /\ recreatePc \in {"built", "valid", "checked", "clear"} => pend = <<>> /\ disk = recreateDir
    /\ recreatePc \in {"admitted", "staged", "built", "valid", "checked"} =>
         (mine <=> recreateDir["journal"] = "hot")
    /\ recreatePc \in {"moved", "clear"} =>
         recreateDir["journal"] = "none" /\ (mine => recreateDir["backup"] = "hot")

RecreateInv ==
    /\ RecreateTypes /\ RecreatePhase
    /\ recreateDir["db"] # "new" => disk["db"] # "new" /\ Untouched("db")
    /\ recreateDir["db"] = "new" =>
         /\ recreateSynced /\ Untouched("journal")
         /\ recreateDir["journal"] = "none" /\ disk["journal"] = "none"

\* A power loss leaves a directory of the kind there was, and a name that no pending
\* change is about as it was synced.
LEMMA OutcomesFit ==
    ASSUME RecreateTypes, NEW d \in Recreate!Outcomes
    PROVE  d \in RecreateDirs /\ \A n \in Recreate!Names : Untouched(n) => d[n] = disk[n]
  <1> DEFINE Of(kept, n) == {k \in kept : n \in DOMAIN pend[k]}
  <1>1. PICK kept \in SUBSET (1..Len(pend)) :
           d = [n \in Recreate!Names |->
                  IF Of(kept, n) = {} THEN disk[n] ELSE pend[Recreate!LastOf(Of(kept, n))][n]]
    BY DEF Recreate!Outcomes
  <1>2. ASSUME NEW n \in Recreate!Names, Of(kept, n) # {}
        PROVE  Recreate!LastOf(Of(kept, n)) \in Of(kept, n)
    <2>0. Len(pend) \in Nat
      BY DEF RecreateTypes
    <2>1. IsFiniteSet(1..Len(pend)) /\ 1..Len(pend) \subseteq Nat
      BY <2>0, FS_Interval
    <2>2. Of(kept, n) \in SUBSET (1..Len(pend))
      OBVIOUS
    <2> HIDE DEF Of
    <2>3. IsFiniteSet(Of(kept, n)) /\ Of(kept, n) \in SUBSET Nat
      BY <2>1, <2>2, FS_Subset
    <2>4. \E k \in Of(kept, n) : \A j \in Of(kept, n) : j <= k
      BY <1>2, <2>3, Greatest
    <2> QED BY <2>4 DEF Recreate!LastOf
  <1>3. ASSUME NEW n \in Recreate!Names
        PROVE  /\ d[n] \in RecreateValues /\ RecreateFits(n, d[n])
               /\ Untouched(n) => d[n] = disk[n]
    <2>1. CASE Of(kept, n) = {}
      BY <1>1, <2>1 DEF RecreateTypes, RecreateDirs
    <2>2. CASE Of(kept, n) # {}
      <3>1. PICK k \in 1..Len(pend) : n \in DOMAIN pend[k] /\ d[n] = pend[k][n]
        BY <1>1, <1>2, <2>2
      <3>2. pend[k] \in RecreateOps
        BY DEF RecreateTypes
      <3> QED BY <3>1, <3>2 DEF RecreateOps, Untouched
    <2> QED BY <2>1, <2>2
  <1>4. d \in [Recreate!Names -> RecreateValues]
    <2> HIDE DEF Of
    <2>1. d = [n \in Recreate!Names |-> d[n]]
      BY <1>1
    <2> QED BY <1>3, <2>1
  <1> QED BY <1>3, <1>4 DEF RecreateDirs

\* A change of the directory.
LEMMA RecreateChanged ==
    ASSUME RecreateTypes, NEW op \in RecreateOps, pend' = Append(pend, op)
    PROVE  /\ pend' \in Seq(RecreateOps)
           /\ \A n : Untouched(n) /\ n \notin DOMAIN op => Untouched(n)'
  <1>1. pend \in Seq(RecreateOps)
    BY DEF RecreateTypes
  <1>2. pend' \in Seq(RecreateOps) /\ Len(pend') = Len(pend) + 1 /\ Len(pend) \in Nat
        /\ pend'[Len(pend) + 1] = op
    BY <1>1
  <1>3. \A k \in 1..Len(pend) : pend'[k] = pend[k]
    BY <1>1
  <1>4. \A k \in 1..Len(pend') : k \in 1..Len(pend) \/ k = Len(pend) + 1
    BY <1>2
  <1> QED BY <1>2, <1>3, <1>4 DEF Untouched

LEMMA RecreatePut ==
    ASSUME NEW d \in RecreateDirs, NEW op \in RecreateOps
    PROVE  /\ Recreate!Put(d, op) \in RecreateDirs
           /\ \A n \in Recreate!Names :
                Recreate!Put(d, op)[n] = IF n \in DOMAIN op THEN op[n] ELSE d[n]
  BY DEF Recreate!Put, RecreateDirs, RecreateOps

\* The changes that are made.
LEMMA RecreateChanges ==
    ASSUME RecreateTypes
    PROVE  /\ [n \in {"stage"} |-> "new"] \in RecreateOps
           /\ Recreate!Unlink("stage") \in RecreateOps /\ Recreate!Unlink("backup") \in RecreateOps
           /\ Recreate!Rename("journal", "backup") \in RecreateOps
           /\ Recreate!Rename("backup", "journal") \in RecreateOps
           /\ recreateDir["stage"] = "new" => Recreate!Rename("stage", "db") \in RecreateOps
  <1> USE DEF RecreateOps, RecreateValues, RecreateFits, Recreate!Names
  <1>1. [n \in {"stage"} |-> "new"] \in RecreateOps
    <2>1. [n \in {"stage"} |-> "new"] \in [{"stage"} -> RecreateValues]
      OBVIOUS
    <2> QED BY <2>1
  <1>2. ASSUME NEW x \in {"stage", "backup"} PROVE Recreate!Unlink(x) \in RecreateOps
    <2>1. Recreate!Unlink(x) \in [{x} -> RecreateValues] /\ \A n \in {x} : Recreate!Unlink(x)[n] = "none"
      BY DEF Recreate!Unlink, Recreate!None
    <2> QED BY <2>1
  <1>3. ASSUME NEW x \in Recreate!Names, NEW y \in Recreate!Names, x # "db",
               RecreateFits(y, recreateDir[x])
        PROVE  Recreate!Rename(x, y) \in RecreateOps
    <2>0. recreateDir[x] \in RecreateValues
      BY DEF RecreateTypes, RecreateDirs
    <2>1. Recreate!Rename(x, y) \in [{x, y} -> RecreateValues]
          /\ \A n \in {x, y} : Recreate!Rename(x, y)[n] = IF n = y THEN recreateDir[x] ELSE "none"
      BY <2>0 DEF Recreate!Rename, Recreate!None
    <2> QED BY <1>3, <2>1
  <1>4. /\ RecreateFits("backup", recreateDir["journal"])
        /\ RecreateFits("journal", recreateDir["backup"])
        /\ recreateDir["stage"] = "new" => RecreateFits("db", recreateDir["stage"])
    BY DEF RecreateTypes, RecreateDirs
  <1> HIDE DEF RecreateOps, RecreateFits
  <1> QED BY <1>1, <1>2, <1>3, <1>4

LEMMA RecreateInitOK == Recreate!Init => RecreateInv
  <1> SUFFICES ASSUME Recreate!Init PROVE RecreateInv
    OBVIOUS
  <1>1. PICK old \in {"bad", "moved"}, journal \in {"none", "hot"} :
          recreateDir = [n \in Recreate!Names |-> CASE n = "db" -> old [] n = "journal" -> journal
                                                    [] OTHER -> "none"]
    BY DEF Recreate!Init, Recreate!None
  <1>2. recreateDir \in RecreateDirs /\ recreateDir["db"] = old
    BY <1>1 DEF RecreateDirs, RecreateValues, RecreateFits, Recreate!Names
  <1>3. /\ disk = recreateDir /\ pend = <<>> /\ recreateSynced = FALSE /\ mine = FALSE
        /\ recreatePc = "idle" /\ disp = "Unopened" /\ recreateTries = 0
    BY DEF Recreate!Init
  <1>4. RecreateTypes /\ RecreatePhase
    <2>1. pend \in Seq(RecreateOps) /\ recreateTries \in 0..MaxTries
      BY <1>3, RecreateConstants
    <2>2. RecreateTypes
      BY <1>2, <1>3, <2>1 DEF RecreateTypes
    <2> QED BY <1>3, <2>2 DEF RecreatePhase, RecreateOld, RecreateNew
  <1> QED BY <1>2, <1>3, <1>4 DEF RecreateInv, Untouched

\* The directory is left alone.
LEMMA RecreateStay ==
    ASSUME RecreateInv, UNCHANGED <<recreateDir, disk, pend>>, RecreateTypes', RecreatePhase',
           recreateSynced => recreateSynced'
    PROVE  RecreateInv'
  BY DEF RecreateInv, Untouched

\* The directory is synced, whatever was pending.
LEMMA RecreateSynced ==
    ASSUME RecreateInv, recreateDir' \in RecreateDirs, disk' = recreateDir', pend' = <<>>,
           RecreatePhase',
           recreateDir'["db"] = "new" => recreateSynced' /\ recreateDir'["journal"] = "none",
           recreateSynced' \in BOOLEAN /\ mine' \in BOOLEAN,
           disp' \in {"Unopened", "RecreatePending", "RootReplaced", "Ready"},
           recreatePc' \in {"idle", "built", "clear", "durable", "live"},
           recreateTries' \in 0..MaxTries
    PROVE  RecreateInv'
  <1>1. pend' \in Seq(RecreateOps) /\ Len(pend') = 0
    OBVIOUS
  <1>2. \A n : Untouched(n)'
    BY <1>1 DEF Untouched
  <1>3. RecreateTypes'
    BY <1>1 DEF RecreateTypes
  <1> QED BY <1>2, <1>3 DEF RecreateInv

\* Steps that leave the directory alone.
LEMMA RecreateQuiet ==
    ASSUME RecreateInv,
           \/ Recreate!OpenStore
           \/ Recreate!Admit
           \/ Recreate!Validate
           \/ Recreate!Check
           \/ Recreate!Finish
           \/ Recreate!FailAfter
           \/ Recreate!Crash
           \/ UNCHANGED Recreate!vars
    PROVE  RecreateInv'
  <1>1. UNCHANGED <<recreateDir, disk, pend>>
    BY DEF Recreate!OpenStore, Recreate!Admit, Recreate!Validate, Recreate!Check, Recreate!Finish,
           Recreate!FailAfter, Recreate!Crash, Recreate!vars
  <1>2. recreateSynced' \in {recreateSynced, TRUE}
    BY DEF Recreate!OpenStore, Recreate!Admit, Recreate!Validate, Recreate!Check, Recreate!Finish,
           Recreate!FailAfter, Recreate!Crash, Recreate!vars, Recreate!SyncStage
  <1>3. Recreate!Authority => recreateDir["db"] \in {"bad", "moved"}
    BY DEF Recreate!Authority
  <1>4. RecreateTypes'
    <2>1. CASE Recreate!Admit
      <3>1. /\ recreateTries < MaxTries /\ recreateTries' = recreateTries + 1
            /\ recreatePc' \in {"admitted", recreatePc} /\ mine' \in BOOLEAN
            /\ UNCHANGED <<recreateSynced, disp>>
        BY <2>1 DEF Recreate!Admit, RecreateInv, RecreateTypes
      <3>2. recreateTries' \in 0..MaxTries
        BY <3>1, RecreateConstants DEF RecreateInv, RecreateTypes
      <3> QED BY <1>1, <3>1, <3>2 DEF RecreateInv, RecreateTypes
    <2>2. CASE ~Recreate!Admit
      BY <1>1, <1>2, <2>2
         DEF Recreate!OpenStore, Recreate!Validate, Recreate!Check, Recreate!Finish,
             Recreate!FailAfter, Recreate!Crash, Recreate!vars, RecreateInv, RecreateTypes
    <2> QED BY <2>1, <2>2
  <1>5. RecreatePhase'
    <2> USE DEF RecreateInv, RecreatePhase, RecreateOld, RecreateNew, Untouched
    <2>1. CASE Recreate!Admit
      BY <1>1, <1>3, <2>1 DEF Recreate!Admit
    <2>2. CASE Recreate!Validate \/ Recreate!Check
      BY <1>1, <2>2 DEF Recreate!Validate, Recreate!Check, Recreate!SyncStage
    <2>3. CASE Recreate!OpenStore \/ Recreate!Finish \/ Recreate!FailAfter \/ Recreate!Crash
      BY <2>3 DEF Recreate!OpenStore, Recreate!Finish, Recreate!FailAfter, Recreate!Crash
    <2>4. CASE UNCHANGED Recreate!vars
      BY <2>4 DEF Recreate!vars
    <2> QED BY <2>1, <2>2, <2>3, <2>4
  <1>6. recreateSynced => recreateSynced'
    BY <1>2
  <1> QED BY <1>1, <1>4, <1>5, <1>6, RecreateStay

\* Steps that end with a synced directory.
LEMMA RecreateSyncSteps ==
    ASSUME RecreateInv,
           \/ Recreate!Repair
           \/ Recreate!Build
           \/ Recreate!SyncBackup
           \/ Recreate!SyncDir
           \/ Recreate!SyncTidy
           \/ Recreate!PowerLoss
    PROVE  RecreateInv'
  <1>1. CASE Recreate!Repair
    <2>1. /\ recreatePc = "idle" /\ recreatePc' = "idle"
          /\ recreateDir' = [recreateDir EXCEPT !["db"] = "fixed", !["journal"] = "none"]
          /\ disk' = recreateDir' /\ pend' = <<>>
          /\ UNCHANGED <<recreateSynced, mine, disp, recreateTries>>
      BY <1>1 DEF Recreate!Repair, Recreate!None
    <2>2. recreateDir' \in RecreateDirs /\ recreateDir'["db"] = "fixed"
      BY <2>1 DEF RecreateInv, RecreateTypes, RecreateDirs, RecreateValues, RecreateFits,
                  Recreate!Names
    <2>3. RecreatePhase'
      BY <2>1 DEF RecreatePhase, RecreateOld, RecreateNew
    <2> QED BY <2>1, <2>2, <2>3, RecreateSynced DEF RecreateInv, RecreateTypes
  <1>2. CASE Recreate!PowerLoss
    <2>1. /\ recreateDir' \in Recreate!Outcomes /\ disk' = recreateDir' /\ pend' = <<>>
          /\ recreatePc' = "idle" /\ disp' = "Unopened"
          /\ UNCHANGED <<recreateSynced, mine, recreateTries>>
      BY <1>2 DEF Recreate!PowerLoss
    <2>2. /\ recreateDir' \in RecreateDirs
          /\ Untouched("db") => recreateDir'["db"] = disk["db"]
          /\ Untouched("journal") => recreateDir'["journal"] = disk["journal"]
      BY <2>1, OutcomesFit DEF RecreateInv, Recreate!Names
    <2>3. RecreatePhase'
      BY <2>1 DEF RecreatePhase, RecreateOld, RecreateNew
    <2> QED BY <2>1, <2>2, <2>3, RecreateSynced DEF RecreateInv, RecreateTypes
  <1>3. CASE ~Recreate!Repair /\ ~Recreate!PowerLoss
    <2>1. /\ recreateDir' = recreateDir /\ disk' = recreateDir /\ pend' = <<>>
          /\ UNCHANGED <<recreateSynced, mine, disp, recreateTries>>
          /\ \/ recreatePc = "staged" /\ recreatePc' = "built"
             \/ recreatePc = "moved" /\ recreatePc' = "clear"
             \/ recreatePc = "renamed" /\ recreatePc' = "durable"
             \/ recreatePc = "tidy" /\ recreatePc' = "live"
      BY <1>3 DEF Recreate!Build, Recreate!SyncBackup, Recreate!SyncDir, Recreate!SyncTidy,
                  Recreate!Sync, Recreate!JournalDurable, Recreate!ActivationDurable
    <2>2. Len(pend') = 0
      BY <2>1
    <2>3. RecreatePhase'
      BY <2>1, <2>2 DEF RecreateInv, RecreatePhase, RecreateOld, RecreateNew, Untouched
    <2> QED BY <2>1, <2>3, RecreateSynced DEF RecreateInv, RecreateTypes
  <1> QED BY <1>1, <1>2, <1>3

\* Steps that change the directory.
LEMMA RecreateCreateStage == ASSUME RecreateInv, Recreate!CreateStage PROVE RecreateInv'
  <1> DEFINE op == [n \in {"stage"} |-> "new"]
  <1>1. /\ recreatePc = "admitted" /\ recreatePc' = "staged"
        /\ recreateDir' = Recreate!Put(recreateDir, op) /\ pend' = Append(pend, op)
        /\ disk' = disk /\ recreateSynced' = FALSE /\ UNCHANGED <<mine, disp, recreateTries>>
    BY DEF Recreate!CreateStage, Recreate!Change
  <1>2. op \in RecreateOps /\ DOMAIN op = {"stage"} /\ op["stage"] = "new"
    BY RecreateChanges DEF RecreateInv
  <1> HIDE DEF op
  <1>3. /\ recreateDir' \in RecreateDirs /\ recreateDir'["stage"] = "new"
        /\ recreateDir'["db"] = recreateDir["db"]
        /\ recreateDir'["journal"] = recreateDir["journal"]
    BY <1>1, <1>2, RecreatePut DEF RecreateInv, RecreateTypes, Recreate!Names
  <1>4. pend' \in Seq(RecreateOps) /\ (Untouched("db") => Untouched("db")')
    BY <1>1, <1>2, RecreateChanged DEF RecreateInv
  <1>5. recreateDir["db"] # "new"
    BY <1>1 DEF RecreateInv, RecreatePhase, RecreateOld
  <1>6. RecreateTypes'
    BY <1>1, <1>3, <1>4 DEF RecreateInv, RecreateTypes
  <1>7. RecreatePhase'
    BY <1>1, <1>3 DEF RecreateInv, RecreatePhase, RecreateOld, RecreateNew
  <1> QED BY <1>1, <1>3, <1>4, <1>5, <1>6, <1>7 DEF RecreateInv

LEMMA RecreateMoveJournal == ASSUME RecreateInv, Recreate!MoveJournal PROVE RecreateInv'
  <1>1. recreatePc = "checked" /\ UNCHANGED <<recreateSynced, mine, disp, recreateTries>>
    BY DEF Recreate!MoveJournal
  <1>2. recreateDir["db"] # "new" /\ mine \in BOOLEAN
    BY <1>1 DEF RecreateInv, RecreatePhase, RecreateOld, RecreateTypes
  <1>3. CASE mine
    <2> DEFINE op == Recreate!Rename("journal", "backup")
    <2>1. /\ recreatePc' = "moved" /\ recreateDir' = Recreate!Put(recreateDir, op)
          /\ pend' = Append(pend, op) /\ disk' = disk
      BY <1>3 DEF Recreate!MoveJournal, Recreate!Change
    <2>2. /\ op \in RecreateOps /\ DOMAIN op = {"journal", "backup"}
          /\ op["journal"] = "none" /\ op["backup"] = recreateDir["journal"]
      BY RecreateChanges DEF RecreateInv, Recreate!Rename, Recreate!None
    <2> HIDE DEF op
    <2>3. /\ recreateDir' \in RecreateDirs /\ recreateDir'["stage"] = recreateDir["stage"]
          /\ recreateDir'["db"] = recreateDir["db"]
          /\ recreateDir'["journal"] = "none" /\ recreateDir'["backup"] = recreateDir["journal"]
      BY <2>1, <2>2, RecreatePut DEF RecreateInv, RecreateTypes, Recreate!Names
    <2>4. pend' \in Seq(RecreateOps) /\ (Untouched("db") => Untouched("db")')
      BY <2>1, <2>2, RecreateChanged DEF RecreateInv
    <2>5. RecreateTypes'
      BY <1>1, <2>1, <2>3, <2>4 DEF RecreateInv, RecreateTypes
    <2>6. RecreatePhase'
      BY <1>1, <1>3, <2>1, <2>3 DEF RecreateInv, RecreatePhase, RecreateOld, RecreateNew
    <2> QED BY <1>2, <2>1, <2>3, <2>4, <2>5, <2>6 DEF RecreateInv
  <1>4. CASE ~mine
    <2>1. UNCHANGED <<recreateDir, disk, pend>> /\ recreatePc' = "clear"
      BY <1>4 DEF Recreate!MoveJournal
    <2>2. recreateDir["journal"] = "none"
      <3>1. recreateDir["journal"] \in {"none", "hot"}
        BY DEF RecreateInv, RecreateTypes, RecreateDirs, RecreateFits, Recreate!Names
      <3> QED BY <1>1, <1>4, <3>1 DEF RecreateInv, RecreatePhase
    <2>3. RecreateTypes'
      BY <1>1, <2>1 DEF RecreateInv, RecreateTypes
    <2>4. RecreatePhase'
      BY <1>1, <1>4, <2>1, <2>2 DEF RecreateInv, RecreatePhase, RecreateOld, RecreateNew
    <2> QED BY <1>1, <2>1, <2>3, <2>4, RecreateStay
  <1> QED BY <1>2, <1>3, <1>4

LEMMA RecreateActivate == ASSUME RecreateInv, Recreate!Activate PROVE RecreateInv'
  <1> DEFINE op == Recreate!Rename("stage", "db")
  <1>1. /\ recreatePc = "clear" /\ recreatePc' = "renamed"
        /\ recreateDir' = Recreate!Put(recreateDir, op) /\ pend' = Append(pend, op)
        /\ disk' = disk /\ UNCHANGED <<recreateSynced, mine, disp, recreateTries>>
    BY DEF Recreate!Activate, Recreate!Change
  <1>2. /\ recreateDir["stage"] = "new" /\ recreateSynced /\ pend = <<>> /\ disk = recreateDir
        /\ recreateDir["journal"] = "none"
    BY <1>1 DEF RecreateInv, RecreatePhase, RecreateOld
  <1>3. op \in RecreateOps /\ DOMAIN op = {"stage", "db"} /\ op["db"] = "new"
    BY <1>2, RecreateChanges DEF RecreateInv, Recreate!Rename
  <1> HIDE DEF op
  <1>4. /\ recreateDir' \in RecreateDirs /\ recreateDir'["db"] = "new"
        /\ recreateDir'["journal"] = "none"
    BY <1>1, <1>2, <1>3, RecreatePut DEF RecreateInv, RecreateTypes, Recreate!Names
  <1>5. Untouched("journal")
    <2>1. Len(pend) = 0
      BY <1>2
    <2> QED BY <2>1 DEF Untouched
  <1>6. pend' \in Seq(RecreateOps) /\ Untouched("journal")'
    BY <1>1, <1>3, <1>5, RecreateChanged DEF RecreateInv
  <1>7. RecreateTypes'
    BY <1>1, <1>4, <1>6 DEF RecreateInv, RecreateTypes
  <1>8. RecreatePhase'
    BY <1>1, <1>4 DEF RecreateInv, RecreatePhase, RecreateOld, RecreateNew
  <1> QED BY <1>1, <1>2, <1>4, <1>6, <1>7, <1>8 DEF RecreateInv

LEMMA RecreateDropBackup == ASSUME RecreateInv, Recreate!DropBackup PROVE RecreateInv'
  <1>1. /\ recreatePc = "durable" /\ recreatePc' \in {"tidy", "live"}
        /\ UNCHANGED <<recreateSynced, mine, disp, recreateTries>>
    BY DEF Recreate!DropBackup
  <1>2. CASE UNCHANGED <<recreateDir, disk, pend>>
    <2>1. RecreateTypes'
      BY <1>1, <1>2 DEF RecreateInv, RecreateTypes
    <2>2. RecreatePhase'
      BY <1>1, <1>2 DEF RecreateInv, RecreatePhase, RecreateOld, RecreateNew, Untouched
    <2> QED BY <1>1, <1>2, <2>1, <2>2, RecreateStay
  <1>3. CASE Recreate!Change(Recreate!Unlink("backup"))
    <2> DEFINE op == Recreate!Unlink("backup")
    <2>1. recreateDir' = Recreate!Put(recreateDir, op) /\ pend' = Append(pend, op) /\ disk' = disk
      BY <1>3 DEF Recreate!Change
    <2>2. op \in RecreateOps /\ DOMAIN op = {"backup"}
      BY RecreateChanges DEF RecreateInv, Recreate!Unlink
    <2> HIDE DEF op
    <2>3. /\ recreateDir' \in RecreateDirs
          /\ recreateDir'["db"] = recreateDir["db"]
          /\ recreateDir'["journal"] = recreateDir["journal"]
      BY <2>1, <2>2, RecreatePut DEF RecreateInv, RecreateTypes, Recreate!Names
    <2>4. /\ pend' \in Seq(RecreateOps) /\ (Untouched("db") => Untouched("db")')
          /\ Untouched("journal") => Untouched("journal")'
      BY <2>1, <2>2, RecreateChanged DEF RecreateInv
    <2>5. RecreateTypes'
      BY <1>1, <2>1, <2>3, <2>4 DEF RecreateInv, RecreateTypes
    <2>6. RecreatePhase'
      BY <1>1, <2>1, <2>3, <2>4 DEF RecreateInv, RecreatePhase, RecreateOld, RecreateNew
    <2> QED BY <1>1, <2>1, <2>3, <2>4, <2>5, <2>6 DEF RecreateInv
  <1> QED BY <1>2, <1>3 DEF Recreate!DropBackup

LEMMA RecreateFailBefore == ASSUME RecreateInv, Recreate!FailBefore PROVE RecreateInv'
  <1> DEFINE gone == Recreate!Unlink("stage")
             rest == Recreate!Restored
  <1>1. /\ recreatePc \in RecreateOld /\ recreatePc' = "idle"
        /\ recreateDir' = Recreate!Put(rest, gone)
        /\ \/ disk' = rest /\ pend' = <<gone>>
           \/ disk' = disk /\ pend' \in {pend, Append(pend, gone)}
        /\ UNCHANGED <<recreateSynced, mine, disp, recreateTries>>
    BY DEF Recreate!FailBefore, RecreateOld
  <1>2. gone \in RecreateOps /\ DOMAIN gone = {"stage"}
    BY RecreateChanges DEF RecreateInv, Recreate!Unlink
  <1>3. rest \in RecreateDirs /\ rest["db"] = recreateDir["db"]
    <2> DEFINE op == Recreate!Rename("backup", "journal")
    <2>1. op \in RecreateOps /\ DOMAIN op = {"backup", "journal"}
      BY RecreateChanges DEF RecreateInv, Recreate!Rename
    <2>2. rest \in {recreateDir, Recreate!Put(recreateDir, op)}
      BY DEF Recreate!Restored
    <2> HIDE DEF op, rest
    <2> QED BY <2>1, <2>2, RecreatePut DEF RecreateInv, RecreateTypes, Recreate!Names
  <1> HIDE DEF gone, rest
  <1>4. recreateDir["db"] # "new" /\ disk["db"] # "new" /\ Untouched("db")
    BY <1>1 DEF RecreateInv, RecreatePhase
  <1>5. recreateDir' \in RecreateDirs /\ recreateDir'["db"] # "new"
    BY <1>1, <1>2, <1>3, <1>4, RecreatePut DEF Recreate!Names
  <1>6. pend' \in Seq(RecreateOps) /\ Untouched("db")'
    <2>1. CASE pend' = <<gone>>
      <3>1. pend' \in Seq(RecreateOps) /\ Len(pend') = 1 /\ pend'[1] = gone
        BY <1>2, <2>1
      <3> QED BY <1>2, <3>1 DEF Untouched
    <2>2. CASE pend' = pend
      BY <1>4, <2>2 DEF RecreateInv, RecreateTypes, Untouched
    <2>3. CASE pend' = Append(pend, gone)
      BY <1>2, <1>4, <2>3, RecreateChanged DEF RecreateInv
    <2> QED BY <1>1, <2>1, <2>2, <2>3
  <1>7. disk' \in RecreateDirs /\ disk'["db"] # "new"
    BY <1>1, <1>3, <1>4 DEF RecreateInv, RecreateTypes
  <1>8. RecreateTypes' /\ RecreatePhase'
    BY <1>1, <1>5, <1>6, <1>7
       DEF RecreateInv, RecreateTypes, RecreatePhase, RecreateOld, RecreateNew
  <1> QED BY <1>5, <1>6, <1>7, <1>8 DEF RecreateInv

LEMMA RecreateStep == RecreateInv /\ [Recreate!Next]_Recreate!vars => RecreateInv'
  BY RecreateQuiet, RecreateSyncSteps, RecreateCreateStage, RecreateMoveJournal,
     RecreateActivate, RecreateDropBackup, RecreateFailBefore DEF Recreate!Next

\* What holds in each state, and of each step.
LEMMA RecreateImplies ==
    ASSUME RecreateInv
    PROVE  /\ Recreate!TypeOK /\ Recreate!NoForeignJournal
           /\ Recreate!NoTornIndex /\ Recreate!RepairKept
  <1>1. Recreate!TypeOK
    BY DEF RecreateInv, RecreateTypes, RecreateDirs, RecreateFits, Recreate!TypeOK, Recreate!Names,
           Recreate!None
  <1>2. ASSUME NEW d \in Recreate!Outcomes, d["db"] = "new"
        PROVE  recreateSynced /\ d["journal"] = "none"
    <2>1. /\ Untouched("db") => d["db"] = disk["db"]
          /\ Untouched("journal") => d["journal"] = disk["journal"]
      BY OutcomesFit DEF RecreateInv, Recreate!Names
    <2> QED BY <1>2, <2>1 DEF RecreateInv
  <1>3. Recreate!NoForeignJournal
    BY <1>2 DEF Recreate!NoForeignJournal, RecreateInv
  <1>4. Recreate!NoTornIndex
    BY <1>2 DEF Recreate!NoTornIndex
  <1>5. Recreate!RepairKept
    BY DEF Recreate!RepairKept, RecreateInv, RecreateTypes, RecreatePhase, RecreateOld, RecreateNew
  <1> QED BY <1>1, <1>3, <1>4, <1>5

LEMMA RecreateMoves ==
    ASSUME RecreateInv, [Recreate!Next]_Recreate!vars
    PROVE  Recreate!ReadyIsDurable /\ Recreate!JournalBack
  <1>1. ASSUME recreatePc = "live", NEW d \in Recreate!Outcomes PROVE d["db"] = "new"
    <2>1. Untouched("db") => d["db"] = disk["db"]
      BY OutcomesFit DEF RecreateInv, Recreate!Names
    <2> QED BY <1>1, <2>1 DEF RecreateInv, RecreatePhase
  <1>2. ASSUME recreatePc # "idle", recreatePc' = "idle", disp' # "Unopened",
               recreateDir'["db"] = "bad", mine
        PROVE  recreateDir'["journal"] = "hot"
    <2>1. Recreate!FailBefore \/ Recreate!FailAfter \/ Recreate!Finish
      BY <1>2 DEF Recreate!Next, Recreate!vars, Recreate!OpenStore, Recreate!Repair, Recreate!Admit,
         Recreate!CreateStage, Recreate!Build, Recreate!Validate, Recreate!Check,
         Recreate!MoveJournal, Recreate!SyncBackup, Recreate!Activate, Recreate!SyncDir,
         Recreate!DropBackup, Recreate!SyncTidy, Recreate!Crash, Recreate!PowerLoss
    <2>2. CASE Recreate!FailAfter \/ Recreate!Finish
      BY <1>2, <2>2 DEF Recreate!FailAfter, Recreate!Finish, RecreateInv, RecreatePhase, RecreateNew
    <2>3. CASE Recreate!FailBefore
      <3> DEFINE gone == Recreate!Unlink("stage")
                 op == Recreate!Rename("backup", "journal")
      <3>1. /\ recreatePc \in RecreateOld
            /\ recreateDir' = Recreate!Put(Recreate!Restored, gone)
        BY <2>3 DEF Recreate!FailBefore, RecreateOld
      <3>2. gone \in RecreateOps /\ DOMAIN gone = {"stage"}
        BY RecreateChanges DEF RecreateInv, Recreate!Unlink
      <3>3. /\ op \in RecreateOps /\ DOMAIN op = {"backup", "journal"}
            /\ op["journal"] = recreateDir["backup"]
        BY RecreateChanges DEF RecreateInv, Recreate!Rename
      <3>4. Recreate!Restored = IF recreatePc \in {"moved", "clear"}
                                THEN Recreate!Put(recreateDir, op) ELSE recreateDir
        BY <1>2 DEF Recreate!Restored
      <3> HIDE DEF gone, op
      <3>5. Recreate!Restored \in RecreateDirs /\ Recreate!Restored["journal"] = "hot"
        BY <1>2, <3>1, <3>3, <3>4, RecreatePut
           DEF RecreateInv, RecreateTypes, RecreatePhase, RecreateOld, Recreate!Names
      <3> QED BY <3>1, <3>2, <3>5, RecreatePut DEF Recreate!Names
    <2> QED BY <2>1, <2>2, <2>3
  <1> QED BY <1>1, <1>2 DEF Recreate!ReadyIsDurable, Recreate!JournalBack

\* For any number of attempts: whatever changes of the directory a crash or a power loss
\* keeps, the old index's journal is never beside the new index, the new index is never
\* torn, and a repaired index is not replaced (store.rs, recreate_index_exclusive).
THEOREM RecreationIsSafe == Spec => []RecreationSafe
  <1> DEFINE Inv == part = "recreate" => RecreateInv
  <1>1. Init => Inv
    BY RecreateInitOK DEF Init
  <1>2. Inv /\ [Next]_vars => Inv'
    <2>1. [Next]_vars => part' = part /\ (part = "recreate" => [Recreate!Next]_Recreate!vars)
      BY DEF Next, vars, recreateVars, Recreate!vars
    <2> QED BY <2>1, RecreateStep
  <1>3. Inv => RecreationSafe
    BY RecreateImplies DEF RecreationSafe
  <1> QED BY <1>1, <1>2, <1>3, PTL DEF Spec

----------------------------------------------------------------------------
(* Garbage collection of indexes (IndexGc).                                *)

\* Nobody holds anything at the start.
LEMMA GcInit == Gc!World /\ Gc!Init => Gc!GcInv
  BY DEF Gc!World, Gc!Init, Gc!GcInv, Gc!TypeOK, Gc!CollectorInv, Gc!OpenerInv, Gc!Holding,
     Gc!Removing, Gc!Procs, Gc!Names, Gc!None

\* An opener only adds names and its own shared lock, which it gets beside no
\* exclusive holder.
LEMMA OpenerKeeps ==
    ASSUME Gc!World, Gc!GcInv, NEW o \in Openers,
           Gc!Opening(o) \/ Gc!Close(o) \/ \E k \in Keys : Gc!Want(o, k)
    PROVE  Gc!GcInv' /\ (\A k \in Keys : files[k] \subseteq files'[k]) /\ stamp' = stamp
  <1>0. o \notin Collectors /\ o \in Gc!Procs /\ \A g \in Collectors : g \in Gc!Procs
    BY DEF Gc!World, Gc!Procs
  <1>1. UNCHANGED Gc!gvars /\ UNCHANGED <<now, stamp, away>>
    BY DEF Gc!Opening, Gc!Prepare, Gc!Lock, Gc!Use, Gc!TryAgain, Gc!Release, Gc!Close, Gc!Want,
       Gc!world
  <1>2. ASSUME NEW k \in Keys, NEW g \in Collectors, gpc[g] \in Gc!Holding, gkey[g] = k
        PROVE  ~(okey[o] = k /\ opc[o] \in {"use", "open"})
               /\ ~(okey[o] = k /\ Gc!Lock(o))
    BY <1>0, <1>2 DEF Gc!GcInv, Gc!TypeOK, Gc!CollectorInv, Gc!OpenerInv, Gc!Lock, Gc!Exclusive,
       Gc!Procs, Gc!None
  <1>3. CASE \E k \in Keys : Gc!Want(o, k)
    <2>1. PICK k \in Keys : Gc!Want(o, k)
      BY <1>3
    <2>2. Gc!TypeOK'
      BY <2>1, <1>1 DEF Gc!Want, Gc!world, Gc!gvars, Gc!GcInv, Gc!TypeOK
    <2>3. ASSUME NEW g \in Collectors PROVE Gc!CollectorInv(g)'
      BY <2>1 DEF Gc!Want, Gc!world, Gc!gvars, Gc!GcInv, Gc!CollectorInv
    <2>4. ASSUME NEW q \in Openers PROVE Gc!OpenerInv(q)'
      BY <2>1 DEF Gc!Want, Gc!world, Gc!GcInv, Gc!TypeOK, Gc!OpenerInv
    <2> QED BY <2>1, <2>2, <2>3, <2>4 DEF Gc!Want, Gc!world, Gc!gvars, Gc!GcInv
  <1>4. CASE Gc!Prepare(o)
    <2>0. okey[o] \in Keys
      BY <1>4 DEF Gc!GcInv, Gc!OpenerInv, Gc!Prepare
    <2>1. Gc!TypeOK'
      BY <1>4, <1>1, <2>0 DEF Gc!Prepare, Gc!gvars, Gc!GcInv, Gc!TypeOK, Gc!Names
    <2>2. ASSUME NEW g \in Collectors PROVE Gc!CollectorInv(g)'
      BY <1>4, <2>0 DEF Gc!Prepare, Gc!gvars, Gc!GcInv, Gc!TypeOK, Gc!CollectorInv, Gc!Holding,
         Gc!Removing
    <2>3. ASSUME NEW q \in Openers PROVE Gc!OpenerInv(q)'
      BY <1>4 DEF Gc!Prepare, Gc!GcInv, Gc!TypeOK, Gc!OpenerInv
    <2> QED BY <1>4, <2>1, <2>2, <2>3, <2>0 DEF Gc!Prepare, Gc!gvars, Gc!GcInv, Gc!TypeOK
  <1>5. CASE Gc!Lock(o)
    <2>0. okey[o] \in Keys /\ okey' = okey
      BY <1>5 DEF Gc!GcInv, Gc!OpenerInv, Gc!Lock
    <2>1. Gc!TypeOK'
      BY <1>5, <1>1, <1>0, <2>0 DEF Gc!Lock, Gc!GcInv, Gc!TypeOK, Gc!Names, Gc!gvars
    <2>2. ASSUME NEW g \in Collectors PROVE Gc!CollectorInv(g)'
      <3>1. CASE gpc[g] \in Gc!Holding
        <4>1. okey[o] # gkey[g]
          BY <1>2, <1>5, <3>1 DEF Gc!GcInv, Gc!CollectorInv
        <4> QED BY <1>1, <1>5, <2>0, <3>1, <4>1 DEF Gc!Lock, Gc!gvars, Gc!GcInv, Gc!TypeOK,
               Gc!CollectorInv
      <3>2. CASE gpc[g] \notin Gc!Holding
        BY <1>1, <1>5, <3>2 DEF Gc!Lock, Gc!gvars, Gc!GcInv, Gc!CollectorInv, Gc!Holding,
           Gc!Removing
      <3> QED BY <3>1, <3>2
    <2>3. ASSUME NEW q \in Openers PROVE Gc!OpenerInv(q)'
      BY <1>0, <1>5, <2>0 DEF Gc!Lock, Gc!GcInv, Gc!TypeOK, Gc!OpenerInv, Gc!Procs
    <2> QED BY <1>1, <1>5, <2>1, <2>2, <2>3 DEF Gc!Lock, Gc!GcInv, Gc!TypeOK, Gc!gvars
  <1>6. CASE Gc!Use(o)
    <2>0. okey[o] \in Keys /\ okey' = okey
      BY <1>6 DEF Gc!GcInv, Gc!OpenerInv, Gc!Use
    <2>1. Gc!TypeOK'
      BY <1>6, <1>1, <2>0 DEF Gc!Use, Gc!GcInv, Gc!TypeOK, Gc!Names, Gc!gvars, Gc!World
    <2>2. ASSUME NEW g \in Collectors PROVE Gc!CollectorInv(g)'
      <3>1. CASE gpc[g] \in Gc!Holding
        <4>1. okey[o] # gkey[g]
          BY <1>2, <1>6, <3>1 DEF Gc!GcInv, Gc!CollectorInv, Gc!Use
        <4> QED BY <1>1, <1>6, <2>0, <3>1, <4>1 DEF Gc!Use, Gc!gvars, Gc!GcInv, Gc!TypeOK,
               Gc!CollectorInv
      <3>2. CASE gpc[g] \notin Gc!Holding
        BY <1>1, <1>6, <3>2 DEF Gc!Use, Gc!gvars, Gc!GcInv, Gc!CollectorInv, Gc!Holding, Gc!Removing
      <3> QED BY <3>1, <3>2
    <2>3. ASSUME NEW q \in Openers PROVE Gc!OpenerInv(q)'
      BY <1>6, <2>0 DEF Gc!Use, Gc!GcInv, Gc!TypeOK, Gc!OpenerInv
    <2> QED BY <1>1, <1>6, <2>1, <2>2, <2>3 DEF Gc!Use, Gc!GcInv, Gc!TypeOK, Gc!gvars
  <1>7. ASSUME NEW step \in {"prepare", "idle"}, Gc!Release(o, step), opc[o] # "idle",
               okey' = okey \/ (step = "idle" /\ okey' = [okey EXCEPT ![o] = Gc!None])
        PROVE  Gc!GcInv' /\ (\A k \in Keys : files[k] \subseteq files'[k]) /\ stamp' = stamp
    <2>0. okey[o] \in Keys
      BY <1>7 DEF Gc!GcInv, Gc!OpenerInv
    <2>1. Gc!TypeOK'
      BY <1>7, <1>0, <1>1, <2>0 DEF Gc!Release, Gc!GcInv, Gc!TypeOK, Gc!gvars
    <2>2. ASSUME NEW g \in Collectors PROVE Gc!CollectorInv(g)'
      <3>1. gcHeld'[gkey[g]][g] = gcHeld[gkey[g]][g] \/ gkey[g] \notin Keys
        BY <1>0, <1>7, <2>0 DEF Gc!Release, Gc!GcInv, Gc!TypeOK
      <3>2. \A q \in Gc!Procs : gkey[g] \in Keys => gcHeld'[gkey[g]][q] \in {gcHeld[gkey[g]][q], Gc!None}
        BY <1>7, <2>0 DEF Gc!Release, Gc!GcInv, Gc!TypeOK
      <3> QED BY <1>7, <3>1, <3>2 DEF Gc!Release, Gc!gvars, Gc!GcInv, Gc!CollectorInv
    <2>3. ASSUME NEW q \in Openers PROVE Gc!OpenerInv(q)'
      BY <1>0, <1>7, <2>0 DEF Gc!Release, Gc!GcInv, Gc!TypeOK, Gc!OpenerInv, Gc!Procs
    <2> QED BY <1>1, <1>7, <2>1, <2>2, <2>3 DEF Gc!Release, Gc!GcInv, Gc!TypeOK, Gc!gvars
  <1>8. CASE Gc!TryAgain(o)
    BY <1>7, <1>8 DEF Gc!TryAgain
  <1>9. CASE Gc!Close(o)
    BY <1>7, <1>9 DEF Gc!Close
  <1> QED BY <1>3, <1>4, <1>5, <1>6, <1>8, <1>9 DEF Gc!Opening

\* Only one collector is at work, so a step of it is about its own state and locks.
LEMMA CollectorMoves ==
    ASSUME Gc!World, Gc!GcInv, NEW g \in Collectors, Gc!TypeOK', Gc!CollectorInv(g)', UNCHANGED Gc!ovars,
           \A h \in Collectors \ {g} : gpc[h] = "idle" /\ gpc'[h] = gpc[h],
           \A k \in Keys, o \in Openers : gcHeld'[k][o] = gcHeld[k][o]
    PROVE  Gc!GcInv'
  <1>1. ASSUME NEW h \in Collectors, h # g PROVE Gc!CollectorInv(h)'
    BY <1>1 DEF Gc!CollectorInv, Gc!Holding, Gc!Removing
  <1>2. ASSUME NEW o \in Openers PROVE Gc!OpenerInv(o)'
    BY DEF Gc!GcInv, Gc!OpenerInv, Gc!TypeOK, Gc!ovars
  <1>3. \A h, i \in Collectors : gpc'[h] # "idle" /\ gpc'[i] # "idle" => h = i
    OBVIOUS
  <1> QED BY <1>1, <1>2, <1>3 DEF Gc!GcInv


\* A step that removes no name and writes no stamp is allowed.
LEMMA NothingRemoved ==
    ASSUME \A k \in Keys : files[k] \subseteq files'[k], stamp' = stamp
    PROVE  Gc!GcAllows
  BY DEF Gc!GcAllows, Gc!RemovedAlone, Gc!LiveIndexKept, Gc!DailyAttempts

\* The end of an attempt, whatever ended it.
LEMMA StopKeeps ==
    ASSUME Gc!World, Gc!GcInv, NEW g \in Collectors, gpc[g] # "idle", Gc!Stop(g),
           UNCHANGED <<now, stamp, files, root, away, opened, Gc!ovars>>
    PROVE  Gc!GcInv' /\ Gc!GcAllows
  <1>0. gcHeld' \in [Keys -> [Gc!Procs -> {Gc!None, "sh", "ex"}]]
    BY DEF Gc!Stop, Gc!GcInv, Gc!TypeOK
  <1>1. Gc!TypeOK'
    BY <1>0 DEF Gc!Stop, Gc!GoG, Gc!GcInv, Gc!TypeOK, Gc!World, Gc!ovars
  <1>2. Gc!CollectorInv(g)' /\ \A h \in Collectors \ {g} : gpc[h] = "idle" /\ gpc'[h] = gpc[h]
    BY DEF Gc!Stop, Gc!GoG, Gc!GcInv, Gc!TypeOK, Gc!CollectorInv, Gc!Holding, Gc!Removing
  <1>3. \A k \in Keys, o \in Openers : gcHeld'[k][o] = gcHeld[k][o]
    BY DEF Gc!Stop, Gc!GcInv, Gc!TypeOK, Gc!World, Gc!Procs
  <1>4. Gc!GcInv'
    BY <1>1, <1>2, <1>3, CollectorMoves
  <1> QED BY <1>4, NothingRemoved

\* One name of the candidate is removed; the database only as the admission allowed.
LEMMA UnlinkKeeps ==
    ASSUME Gc!World, Gc!GcInv, NEW g \in Collectors, NEW from \in Gc!Removing \ {"unlinkLock"},
           NEW gone \in Gc!Names, NEW to \in Gc!Removing, Gc!Unlink(g, from, gone, to),
           <<from, gone, to>> \in {<<"unlinkIndex", "index", "unlinkRequests">>,
                                  <<"unlinkRequests", "requests", "unlinkLeader">>,
                                  <<"unlinkLeader", "leader", "rmdir">>,
                                  <<"rmdir", "dir", "unlinkLock">>}
    PROVE  Gc!GcInv' /\ Gc!GcAllows
  <1> DEFINE k == gkey[g]
  <1>1. /\ gpc[g] = from /\ gpc[g] \in Gc!Holding /\ Gc!CollectorInv(g) /\ k \in Keys
        /\ gpc' = [gpc EXCEPT ![g] = to] /\ files' = [files EXCEPT ![k] = @ \ {gone}]
        /\ UNCHANGED <<now, stamp, root, away, opened, gcHeld, gtime, gtodo, gkey, Gc!ovars>>
    BY DEF Gc!Unlink, Gc!GoG, Gc!GcInv, Gc!CollectorInv, Gc!Holding
  <1>2. /\ \A j \in Keys : files'[j] = IF j = k THEN files[k] \ {gone} ELSE files[j]
        /\ gpc'[g] = to /\ \A h \in Collectors \ {g} : gpc[h] = "idle" /\ gpc'[h] = gpc[h]
    BY <1>1 DEF Gc!GcInv, Gc!TypeOK, Gc!Removing
  <1>3. Gc!TypeOK'
    BY <1>1, <1>2 DEF Gc!GcInv, Gc!TypeOK, Gc!CollectorInv, Gc!Removing, Gc!ovars
  <1>4. Gc!CollectorInv(g)'
    BY <1>1, <1>2 DEF Gc!CollectorInv, Gc!Holding, Gc!Removing
  <1>5. Gc!GcInv'
    BY <1>1, <1>2, <1>3, <1>4, CollectorMoves
  <1>6. Gc!Holders(k) = {g}
    BY <1>1 DEF Gc!CollectorInv, Gc!Holders, Gc!Procs, Gc!None
  <1>7. Gc!RemovedAlone
    BY <1>2, <1>6 DEF Gc!RemovedAlone
  <1>8. Gc!LiveIndexKept
    BY <1>1, <1>2 DEF Gc!LiveIndexKept, Gc!CollectorInv
  <1> QED BY <1>1, <1>5, <1>7, <1>8 DEF Gc!GcAllows, Gc!DailyAttempts

\* A collector's step: the schedule and the stamp are its own, the candidate is free
\* when it is taken, and what the admission found holds until the unlink.
LEMMA CollectorKeeps ==
    ASSUME Gc!World, Gc!GcInv, NEW g \in Collectors, Gc!Collect(g) \/ Gc!Yield(g) \/ Gc!CrashG(g)
    PROVE  Gc!GcInv' /\ Gc!GcAllows
  <1>1. CASE Gc!Begin(g)
    <2>1. /\ gpc' = [gpc EXCEPT ![g] = "stage"] /\ gtime' = [gtime EXCEPT ![g] = now]
          /\ UNCHANGED <<Gc!world, gtodo, gkey, Gc!ovars>> /\ Gc!Due
          /\ \A h \in Collectors \ {g} : gpc[h] = "idle" /\ gpc'[h] = gpc[h]
      BY <1>1 DEF Gc!Begin, Gc!GoG, Gc!Scheduled, Gc!GcInv, Gc!TypeOK
    <2>2. Gc!TypeOK'
      BY <2>1 DEF Gc!world, Gc!ovars, Gc!GcInv, Gc!TypeOK
    <2>3. Gc!CollectorInv(g)'
      BY <2>1 DEF Gc!world, Gc!Due, Gc!World, Gc!GcInv, Gc!TypeOK, Gc!CollectorInv, Gc!Holding,
         Gc!Removing
    <2> QED BY <2>1, <2>2, <2>3, CollectorMoves, NothingRemoved DEF Gc!world
  <1> SUFFICES ASSUME gpc[g] # "idle" PROVE Gc!GcInv' /\ Gc!GcAllows
    BY <1>1 DEF Gc!Collect, Gc!Stamp, Gc!Finish, Gc!Admit, Gc!UnlinkIndex, Gc!UnlinkRequests,
       Gc!UnlinkLeader, Gc!RemoveDir,
                Gc!UnlinkLock, Gc!Unlink, Gc!Take, Gc!Yield, Gc!CrashG
  <1>0. \A h \in Collectors \ {g} : gpc[h] = "idle"
    BY DEF Gc!GcInv
  <1>2. CASE Gc!Stamp(g)
    <2>1. /\ gpc' = [gpc EXCEPT ![g] = "scan"] /\ stamp' = gtime[g] /\ gpc[g] = "stage"
          /\ gtodo' = [gtodo EXCEPT ![g] = {k \in Keys : "dir" \in files[k]}]
          /\ UNCHANGED <<now, files, root, away, opened, gcHeld, gtime, gkey, Gc!ovars>>
          /\ \A h \in Collectors \ {g} : gpc'[h] = gpc[h]
      BY <1>2 DEF Gc!Stamp, Gc!GoG, Gc!GcInv, Gc!TypeOK
    <2>2. Gc!TypeOK'
      BY <2>1 DEF Gc!ovars, Gc!GcInv, Gc!TypeOK
    <2>3. Gc!CollectorInv(g)'
      BY <2>1 DEF Gc!GcInv, Gc!TypeOK, Gc!CollectorInv, Gc!Holding, Gc!Removing
    <2>4. Gc!GcInv'
      BY <1>0, <2>1, <2>2, <2>3, CollectorMoves
    <2>5. Gc!DailyAttempts
      BY <2>1 DEF Gc!DailyAttempts, Gc!GcInv, Gc!CollectorInv
    <2> QED BY <2>1, <2>4, <2>5 DEF Gc!GcAllows, Gc!RemovedAlone, Gc!LiveIndexKept
  <1>3. ASSUME NEW k \in Keys, Gc!Take(g, k) PROVE Gc!GcInv' /\ Gc!GcAllows
    <2>0. /\ gpc[g] = "scan" /\ gtodo' = [gtodo EXCEPT ![g] = @ \ {k}]
          /\ UNCHANGED <<now, stamp, files, root, opened, gtime, Gc!ovars>>
      BY <1>3 DEF Gc!Take
    <2>1. CASE Gc!Free(k) /\ gpc' # gpc
      <3>1. /\ gcHeld' = [gcHeld EXCEPT ![k][g] = "ex"] /\ gkey' = [gkey EXCEPT ![g] = k]
            /\ gpc' = [gpc EXCEPT ![g] = "admit"]
            /\ away' = IF root[k] = "same" THEN away \ {k} ELSE away \cup {k}
        BY <1>3, <2>1 DEF Gc!Take, Gc!GoG
      <3>2. Gc!TypeOK' /\ g \in Gc!Procs
        BY <2>0, <3>1 DEF Gc!ovars, Gc!GcInv, Gc!TypeOK, Gc!Procs
      <3>3. /\ gcHeld'[k][g] = "ex" /\ \A q \in Gc!Procs : q # g => gcHeld'[k][q] = Gc!None
            /\ \A j \in Keys, o \in Openers : gcHeld'[j][o] = gcHeld[j][o]
            /\ gpc'[g] = "admit" /\ gkey'[g] = k
            /\ \A h \in Collectors \ {g} : gpc'[h] = gpc[h]
        BY <2>1, <3>1, <3>2 DEF Gc!Free, Gc!Holders, Gc!GcInv, Gc!TypeOK, Gc!World, Gc!Procs
      <3>4. Gc!CollectorInv(g)'
        BY <2>0, <3>1, <3>3 DEF Gc!CollectorInv, Gc!Holding, Gc!Removing
      <3> QED BY <1>0, <2>0, <3>2, <3>3, <3>4, CollectorMoves, NothingRemoved
    <2>2. CASE ~(Gc!Free(k) /\ gpc' # gpc)
      <3>1. UNCHANGED <<away, gcHeld, gkey, gpc>>
        BY <1>3, <2>0, <2>2 DEF Gc!Take, Gc!GoG, Gc!GcInv, Gc!TypeOK
      <3>2. Gc!TypeOK'
        BY <2>0, <3>1 DEF Gc!ovars, Gc!GcInv, Gc!TypeOK
      <3>3. Gc!CollectorInv(g)'
        BY <2>0, <3>1 DEF Gc!CollectorInv, Gc!GcInv
      <3> QED BY <1>0, <2>0, <3>1, <3>2, <3>3, CollectorMoves, NothingRemoved
    <2> QED BY <2>1, <2>2
  <1>4. CASE Gc!Finish(g) \/ Gc!Yield(g) \/ Gc!CrashG(g)
    BY <1>4, StopKeeps DEF Gc!Finish, Gc!Yield, Gc!CrashG
  <1>5. CASE Gc!Admit(g)
    <2>0. /\ gpc[g] = "admit" /\ gkey[g] \in Keys /\ Gc!CollectorInv(g)
          /\ UNCHANGED <<now, stamp, files, root, away, opened, gtime, gtodo, Gc!ovars>>
      BY <1>5 DEF Gc!Admit, Gc!GcInv, Gc!CollectorInv, Gc!Holding
    <2>1. CASE Gc!Eligible(g, gkey[g])
      <3>1. gpc' = [gpc EXCEPT ![g] = "unlinkIndex"] /\ UNCHANGED <<gcHeld, gkey>>
        BY <1>5, <2>1 DEF Gc!Admit, Gc!GoG
      <3>2. Gc!TypeOK' /\ gpc'[g] = "unlinkIndex"
            /\ \A h \in Collectors \ {g} : gpc'[h] = gpc[h]
        BY <2>0, <3>1 DEF Gc!ovars, Gc!GcInv, Gc!TypeOK
      <3>3. gkey[g] \notin away => opened[gkey[g]] + Age <= gtime[g]
        BY <2>0, <2>1 DEF Gc!Eligible, Gc!Old, Gc!CollectorInv, Gc!Holding, Gc!GcInv, Gc!TypeOK,
           Gc!World
      <3>4. Gc!CollectorInv(g)'
        BY <2>0, <3>1, <3>2, <3>3 DEF Gc!CollectorInv, Gc!Holding, Gc!Removing
      <3> QED BY <1>0, <2>0, <3>1, <3>2, <3>4, CollectorMoves, NothingRemoved
    <2>2. CASE ~Gc!Eligible(g, gkey[g])
      <3>1. /\ gpc' = [gpc EXCEPT ![g] = "scan"] /\ gkey' = [gkey EXCEPT ![g] = Gc!None]
            /\ gcHeld' = [gcHeld EXCEPT ![gkey[g]][g] = Gc!None]
        BY <1>5, <2>2 DEF Gc!Admit, Gc!GoG
      <3>2. Gc!TypeOK' /\ \A h \in Collectors \ {g} : gpc'[h] = gpc[h]
        BY <2>0, <3>1 DEF Gc!ovars, Gc!GcInv, Gc!TypeOK
      <3>3. Gc!CollectorInv(g)' /\ \A j \in Keys, o \in Openers : gcHeld'[j][o] = gcHeld[j][o]
        BY <2>0, <3>1 DEF Gc!CollectorInv, Gc!Holding, Gc!Removing, Gc!GcInv, Gc!TypeOK, Gc!World,
           Gc!Procs
      <3> QED BY <1>0, <2>0, <3>2, <3>3, CollectorMoves, NothingRemoved
    <2> QED BY <2>1, <2>2
  <1>6. CASE Gc!UnlinkIndex(g) \/ Gc!UnlinkRequests(g) \/ Gc!UnlinkLeader(g) \/ Gc!RemoveDir(g)
    BY <1>6, UnlinkKeeps DEF Gc!UnlinkIndex, Gc!UnlinkRequests, Gc!UnlinkLeader, Gc!RemoveDir,
       Gc!Removing, Gc!Names
  <1>7. CASE Gc!UnlinkLock(g)
    <2> DEFINE k == gkey[g]
    <2>1. /\ gpc[g] = "unlinkLock" /\ k \in Keys /\ Gc!CollectorInv(g)
          /\ files' = [files EXCEPT ![k] = @ \ {"lock"}]
          /\ gcHeld' = [gcHeld EXCEPT ![k][g] = Gc!None]
          /\ gpc' = [gpc EXCEPT ![g] = "scan"] /\ gkey' = [gkey EXCEPT ![g] = Gc!None]
          /\ UNCHANGED <<now, stamp, root, away, opened, gtime, gtodo, Gc!ovars>>
      BY <1>7 DEF Gc!UnlinkLock, Gc!GoG, Gc!GcInv, Gc!CollectorInv, Gc!Holding, Gc!Removing
    <2>2. Gc!TypeOK' /\ \A h \in Collectors \ {g} : gpc'[h] = gpc[h]
      BY <2>1 DEF Gc!ovars, Gc!GcInv, Gc!TypeOK
    <2>3. Gc!CollectorInv(g)' /\ \A j \in Keys, o \in Openers : gcHeld'[j][o] = gcHeld[j][o]
      BY <2>1 DEF Gc!CollectorInv, Gc!Holding, Gc!Removing, Gc!GcInv, Gc!TypeOK, Gc!World, Gc!Procs
    <2>4. Gc!GcInv'
      BY <1>0, <2>1, <2>2, <2>3, CollectorMoves
    <2>5. Gc!Holders(k) = {g}
      BY <2>1 DEF Gc!CollectorInv, Gc!Holders, Gc!Holding, Gc!Removing, Gc!Procs, Gc!None
    <2>6. \A j \in Keys : files'[j] = IF j = k THEN files[k] \ {"lock"} ELSE files[j]
      BY <2>1 DEF Gc!GcInv, Gc!TypeOK
    <2>7. Gc!RemovedAlone /\ Gc!LiveIndexKept
      BY <2>5, <2>6 DEF Gc!RemovedAlone, Gc!LiveIndexKept
    <2> QED BY <2>1, <2>4, <2>7 DEF Gc!GcAllows, Gc!DailyAttempts
  <1> QED BY <1>2, <1>3, <1>4, <1>5, <1>6, <1>7, <1>1 DEF Gc!Collect

\* The clock is set and roots come and go.
LEMMA WorldKeeps ==
    ASSUME Gc!World, Gc!GcInv, Gc!Clock \/ \E k \in Keys : Gc!Root(k)
    PROVE  Gc!GcInv' /\ Gc!GcAllows
  <1>1. CASE Gc!Clock
    <2>1. now' \in 1..MaxNow /\ UNCHANGED <<stamp, files, root, away, opened, gcHeld, Gc!gvars, Gc!ovars>>
      BY <1>1 DEF Gc!Clock
    <2>2. Gc!TypeOK'
      BY <2>1 DEF Gc!GcInv, Gc!TypeOK, Gc!gvars, Gc!ovars
    <2>3. Gc!GcInv'
      BY <2>1, <2>2 DEF Gc!GcInv, Gc!CollectorInv, Gc!OpenerInv, Gc!gvars, Gc!ovars
    <2> QED BY <2>1, <2>3, NothingRemoved
  <1>2. ASSUME NEW k \in Keys, Gc!Root(k) PROVE Gc!GcInv' /\ Gc!GcAllows
    <2>1. /\ UNCHANGED <<now, stamp, files, opened, gcHeld, Gc!gvars, Gc!ovars>>
          /\ root' \in [Keys -> {"same", "missing", "replaced"}]
          /\ away \subseteq away' /\ away' \subseteq Keys
          /\ \A j \in Keys : root'[j] # root[j] => root'[j] = "same" \/ j \in away'
      <3>1. PICK r \in {"same", "missing", "replaced"} : root' = [root EXCEPT ![k] = r]
        BY <1>2 DEF Gc!Root
      <3>2. /\ UNCHANGED <<now, stamp, files, opened, gcHeld, Gc!gvars, Gc!ovars>>
            /\ away' = IF root'[k] = "same" THEN away ELSE away \cup {k}
        BY <1>2 DEF Gc!Root
      <3>3. root \in [Keys -> {"same", "missing", "replaced"}] /\ away \subseteq Keys
        BY DEF Gc!GcInv, Gc!TypeOK
      <3>4. root' \in [Keys -> {"same", "missing", "replaced"}]
        BY <3>1, <3>3
      <3>5. \A j \in Keys : root'[j] # root[j] => j = k
        BY <3>1, <3>3
      <3> QED BY <3>2, <3>3, <3>4, <3>5
    <2>2. Gc!TypeOK'
      BY <2>1 DEF Gc!GcInv, Gc!TypeOK, Gc!gvars, Gc!ovars
    <2>3. ASSUME NEW g \in Collectors PROVE Gc!CollectorInv(g)'
      BY <2>1 DEF Gc!GcInv, Gc!CollectorInv, Gc!gvars
    <2>4. ASSUME NEW o \in Openers PROVE Gc!OpenerInv(o)'
      BY <2>1 DEF Gc!GcInv, Gc!OpenerInv, Gc!ovars
    <2>5. Gc!GcInv'
      BY <2>1, <2>2, <2>3, <2>4 DEF Gc!GcInv, Gc!gvars
    <2> QED BY <2>1, <2>5, NothingRemoved
  <1> QED BY <1>1, <1>2

\* Every step keeps the invariant and removes and stamps only what is allowed.
LEMMA GcStep == Gc!World /\ Gc!GcInv /\ [Gc!Next]_Gc!vars => Gc!GcInv' /\ [Gc!GcAllows]_Gc!vars
  <1> SUFFICES ASSUME Gc!World, Gc!GcInv, [Gc!Next]_Gc!vars PROVE Gc!GcInv' /\ [Gc!GcAllows]_Gc!vars
    OBVIOUS
  <1>1. CASE UNCHANGED Gc!vars
    <2>1. Gc!GcInv'
      BY <1>1 DEF Gc!vars, Gc!GcInv, Gc!TypeOK, Gc!CollectorInv, Gc!OpenerInv
    <2> QED BY <1>1, <2>1
  <1>2. CASE Gc!Next
    <2>1. ASSUME NEW o \in Openers, Gc!Opening(o) \/ Gc!Close(o) \/ \E k \in Keys : Gc!Want(o, k)
          PROVE  Gc!GcInv' /\ Gc!GcAllows
      BY <2>1, OpenerKeeps, NothingRemoved
    <2> QED BY <1>2, <2>1, CollectorKeeps, WorldKeeps DEF Gc!Next
  <1> QED BY <1>1, <1>2

\* A step of the suite that collects removes and stamps only what the collector may,
\* and one that recreates an index reports it ready only when it is on disk and puts
\* the journal back when it fails (topology.rs, gc; store.rs, recreate_index_exclusive).
THEOREM IndexFilesSafe == Spec => IndexFilesKept
  <1> DEFINE Inv == (part = "gc" => Gc!GcInv) /\ (part = "recreate" => RecreateInv)
             Moves == /\ part = "gc" =>
                            Gc!RemovedAlone /\ Gc!LiveIndexKept /\ Gc!DailyAttempts
                      /\ part = "recreate" => Recreate!ReadyIsDurable /\ Recreate!JournalBack
  <1>1. Gc!World
    BY GcConstants DEF Gc!World, Gc!None
  <1>2. Init => Inv
    BY <1>1, RecreateInitOK, GcInit DEF Init
  <1>3. Inv /\ [Next]_vars => Inv' /\ [Moves]_vars
    <2> SUFFICES ASSUME Inv, [Next]_vars PROVE Inv' /\ [Moves]_vars
      OBVIOUS
    <2>1. /\ part' = part
          /\ part = "recreate" => [Recreate!Next]_Recreate!vars
          /\ part = "gc" => [Gc!Next]_Gc!vars
      BY DEF Next, vars, recreateVars, Recreate!vars, gcVars, Gc!vars
    <2>2. CASE part = "gc"
      <3>1. Gc!GcInv' /\ [Gc!GcAllows]_Gc!vars
        BY <1>1, <2>1, <2>2, GcStep
      <3>2. Gc!vars' = Gc!vars => Gc!GcAllows
        BY NothingRemoved DEF Gc!vars
      <3> QED BY <2>1, <2>2, <3>1, <3>2 DEF Gc!GcAllows
    <2>3. CASE part = "recreate"
      BY <2>1, <2>3, RecreateStep, RecreateMoves
    <2>4. CASE part \notin {"gc", "recreate"}
      BY <2>1, <2>4
    <2> QED BY <2>2, <2>3, <2>4
  <1> QED BY <1>2, <1>3, PTL DEF Spec, IndexFilesKept
============================================================================
