---------------------------- MODULE QuestionView ----------------------------
(***************************************************************************)
(* planning.rs: the offline preview of a question, the validation of a     *)
(* selection against its packet, and the focused view that assemble makes  *)
(* of it.  Pure functions, compared with what they promise over every      *)
(* packet, selection and display policy up to a bound.                     *)
(***************************************************************************)
EXTENDS Integers, Sequences, FiniteSets, SequencesExt, FiniteSetsExt, TLC

CONSTANTS N,         \* candidate calls of a packet
          Regions,   \* control regions of a packet, positive numbers
          Scores,    \* display scores; a missing one counts as 0
          Budgets    \* maxVisible

Ids == 1..N
NoParent == 0
Relevances == {"essential", "supporting", "incidental", "uncertain"}

VARIABLE input

(* The calls' order in the source (path, range, id) is a total order: place. *)
Orders == {p \in [Ids -> Ids] : \A i, j \in Ids : p[i] = p[j] => i = j}

(* A packet with a decision per call, the decisions of any selection, the    *)
(* regions around calls, and the calls whose text matches the question.      *)
Displays == [kind : {"display"}, direct : SUBSET Ids, place : Orders,
             rel : [Ids -> Relevances], score : [Ids -> Scores],
             budget : Budgets, deeper : BOOLEAN]
Selections == [kind : {"selection"}, samePacket : BOOLEAN,
               decisions : UNION {[1..k -> 0..N] : k \in 0..(N + 1)}]
Nests == [kind : {"nest"}, parent : [Regions -> Regions \cup {NoParent}],
          inner : [Ids -> Regions]]
Previews == [kind : {"preview"}, direct : SUBSET Ids, match : SUBSET Ids,
             deeper : BOOLEAN, budget : Budgets]

Init == input \in Displays \cup Selections \cup Nests \cup Previews
Next == UNCHANGED input
Spec == Init /\ [][Next]_input

------------------------------------------------------------------------------
(* SelectionEnvelope::validate: the loop over decisions keeps `seen'.        *)

Seen(ds) ==
  FoldLeft(LAMBDA s, d : [ok |-> s.ok /\ d \in Ids /\ d \notin s.seen,
                          seen |-> s.seen \cup {d}],
           [ok |-> TRUE, seen |-> {}], ds)

Validate(same, ds) == same /\ Seen(ds).ok /\ Seen(ds).seen = Ids

------------------------------------------------------------------------------
(* assemble *)

(* Direct calls of the seed first, then the score, then the source order.    *)
RanksBefore(x, i, j) ==
  \/ i \in x.direct /\ j \notin x.direct
  \/ /\ i \in x.direct <=> j \in x.direct
     /\ \/ x.score[i] > x.score[j]
        \/ x.score[i] = x.score[j] /\ x.place[i] < x.place[j]

Essential(x) == {i \in Ids : x.rel[i] = "essential"}

(* The essential calls that the policy allows, ranked and cut. *)
Eligible(x) ==
  LET allowed == {i \in Essential(x) : x.deeper \/ i \in x.direct}
      ranked == SetToSortSeq(allowed, LAMBDA i, j : RanksBefore(x, i, j))
  IN SubSeq(ranked, 1, Min({x.budget, Len(ranked)}))

(* Ranking chooses membership, not an order: back to the source order. *)
Visible(x) == SortSeq(Eligible(x), LAMBDA i, j : x.place[i] < x.place[j])

CountOf(x, r) == Cardinality({i \in Ids : x.rel[i] = r})

(* FocusedView has no count of its own for incidental calls. *)
View(x) == [calls |-> Visible(x),
            omitted |-> N - Len(Visible(x)),
            supporting |-> CountOf(x, "supporting"),
            uncertain |-> CountOf(x, "uncertain"),
            hidden |-> Cardinality(Essential(x)) - Len(Visible(x))]

(* One climb from region r: up the parents until one is already there. *)
Climb(parent, ids, r) ==
  FoldLeft(LAMBDA s, k : IF s.at = NoParent \/ s.at \in s.ids
                         THEN [s EXCEPT !.at = NoParent]
                         ELSE [ids |-> s.ids \cup {s.at}, at |-> parent[s.at]],
           [ids |-> ids, at |-> r], [k \in 1..(Cardinality(Regions) + 1) |-> k]).ids

ShownRegions(x) ==
  FoldLeft(LAMBDA ids, i : Climb(x.parent, ids, x.inner[i]), {}, [i \in Ids |-> i])

------------------------------------------------------------------------------
(* preview: literal matching only *)

PreviewOrder(x) ==
  SetToSortSeq(x.direct, <) \o SetToSortSeq(Ids \ x.direct, <)

Preview(x) ==
  [i \in Ids |-> IF i \notin x.match THEN "uncertain"
                 ELSE IF i \in x.direct \/ x.deeper THEN "essential" ELSE "supporting"]

------------------------------------------------------------------------------
(* Properties. *)

(* A selection is accepted exactly when it has one decision for every call   *)
(* of this packet: an unknown, a repeated or a missing candidate refuses it. *)
OneDecisionEach ==
  input.kind = "selection" =>
    (Validate(input.samePacket, input.decisions) <=>
       /\ input.samePacket
       /\ Len(input.decisions) = N
       /\ \A i \in Ids : \E k \in DOMAIN input.decisions : input.decisions[k] = i)

(* What is shown is the best of what may be shown: no essential and allowed  *)
(* call is left out for one that ranks behind it or while there is room, and *)
(* no call that is not essential, or that the policy hides, gets in.         *)
ShowsTheBest ==
  input.kind = "display" =>
    LET shown == ToSet(Visible(input))
        worth(i) == (IF i \in input.direct THEN 10000 ELSE 0)
                    + 100 * input.score[i] - input.place[i]
        may == {i \in Essential(input) : input.deeper \/ i \in input.direct}
    IN /\ shown \subseteq may
       /\ Cardinality(shown) = Min({input.budget, Cardinality(may)})
       /\ \A i \in shown, j \in may \ shown : worth(i) > worth(j)

(* The view lists calls in source order.  Every candidate is shown or in     *)
(* omitted_count, once; of those omitted all but the incidental ones are in  *)
(* one of the three other counts.                                            *)
ViewAddsUp ==
  input.kind = "display" =>
    LET v == View(input)
    IN /\ \A k \in 1..(Len(v.calls) - 1) :
            input.place[v.calls[k]] < input.place[v.calls[k + 1]]
       /\ Len(v.calls) + v.omitted = N
       /\ v.omitted - (v.hidden + v.supporting + v.uncertain)
            = Cardinality({i \in Ids : input.rel[i] = "incidental"})

(* The regions shown are the smallest set around the calls that is closed    *)
(* under parents, also when parents form a cycle.                            *)
RegionsClosed ==
  input.kind = "nest" =>
    LET closed(S) == \A r \in S : input.parent[r] \in S \cup {NoParent}
        around == {input.inner[i] : i \in Ids}
        all == {S \in SUBSET Regions : around \subseteq S /\ closed(S)}
    IN /\ ShownRegions(input) \in all
       /\ \A S \in all : ShownRegions(input) \subseteq S

(* A preview is a valid selection of its packet, and assembling it hides     *)
(* nothing by the direct-only policy: only the budget can.                   *)
PreviewIsShowable ==
  input.kind = "preview" =>
    LET x == [kind |-> "display", direct |-> input.direct, place |-> [i \in Ids |-> i],
              rel |-> Preview(input), score |-> [i \in Ids |-> 0],
              budget |-> input.budget, deeper |-> input.deeper]
    IN /\ Validate(TRUE, PreviewOrder(input))
       /\ View(x).hidden > 0 => Len(View(x).calls) = input.budget

==============================================================================
