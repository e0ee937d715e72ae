----------------------------- MODULE Navigation -----------------------------
(***************************************************************************)
(* Line and member navigation (src/navigation.rs): a reader collects       *)
(* targets from recorded evidence under four budgets, row by row. The      *)
(* state machine follows the reader; the reference definition below it     *)
(* says what an unlimited reader would have found.                         *)
(***************************************************************************)
EXTENDS Naturals, Sequences, FiniteSets, SequencesExt, FiniteSetsExt

CONSTANTS
    N,           \* symbols of the document, numbered in the order of their ids
    Lines,       \* lines of the document
    QUERY_ROWS, TOTAL_ROWS, INPUT_BYTES, TARGETS, OUTPUT_BYTES

VARIABLES
    sym,   \* the recorded symbols: kind, lines, first column after the end, oversized
    req,   \* what is asked: a line, or a member of a class
    r      \* the reader

vars == <<sym, req, r>>

\* A "bare" class is a graph node without a row of its own among the classes.
Symbols ==
    {s \in [kind : {"class", "bare", "callable"}, from : 1..Lines, to : 1..Lines, col : 1..2, big : BOOLEAN] : s.from <= s.to}

\* A member of the chosen class: whether name and range match the selector, and
\* what its recorded symbol id leads to.
Members == [match : BOOLEAN, big : BOOLEAN, to : {"none", "missing", "own", "foreign"}]

Requests ==
    [kind : {"source"}, line : 1..Lines + 1, members : {<<>>}]
    \cup [kind : {"member"}, line : {0}, members : BoundedSeq(Members, 2)]

TypeOK ==
    /\ r.pc \in {"declaration", "class", "callable", "add", "member", "symbol", "done", "invalid"}
    /\ r.rows \in 0..TOTAL_ROWS + 3 /\ r.count \in 0..QUERY_ROWS + 1
    /\ Len(r.targets) <= TARGETS /\ r.output <= OUTPUT_BYTES /\ r.input <= INPUT_BYTES

Init ==
    /\ req \in Requests
    /\ sym \in IF req.kind = "source" THEN [1..N -> Symbols] ELSE {<<>>}
    /\ \E known, whole \in BOOLEAN :
         r = [pc |-> IF req.kind = "source" THEN "declaration" ELSE "member", next |-> "declaration", todo |-> <<>>, fetched |-> FALSE,
              found |-> <<>>, reason |-> "declaration", count |-> 0, rows |-> 0, input |-> 0, output |-> 0,
              targets |-> <<>>, truncated |-> known /\ ~whole, require |-> ~known,
              warnings |-> {w \in {"unindexed", "incomplete"} : IF w = "unindexed" THEN ~known ELSE known /\ ~whole}]

\* The SQL of a query, in its order.
Covers(s, line) == s.from <= line /\ (s.to > line \/ (s.to = line /\ s.col > 1))
Width(s) == 2 * (s.to - s.from) + s.col
Declared == SelectSeq([i \in 1..N |-> i], LAMBDA i : sym[i].from = req.line)

\* One row more than is used, to know of it.
DeclarationRows == SubSeq(Declared, 1, Min({QUERY_ROWS + 1, Len(Declared)}))

Around(kinds) == {i \in 1..N : sym[i].kind \in kinds /\ Covers(sym[i], req.line)}
Inner(S) == {i \in S : \A j \in S : Width(sym[i]) < Width(sym[j]) \/ (Width(sym[i]) = Width(sym[j]) /\ i <= j)}

Innermost(S) == SetToSeq(Inner(S))

Clipped(x) == [x EXCEPT !.truncated = TRUE, !.warnings = @ \cup {"limits"}]

Query(q) ==
    CASE q = "declaration" -> DeclarationRows
      [] q = "class" -> Innermost(Around({"class", "bare"}))
      [] q = "callable" -> Innermost(Around({"callable"}))

\* source(): a line the document does not have is refused; otherwise three queries.
Start(q) ==
    /\ r.pc = q /\ ~r.fetched
    /\ IF req.line > Lines THEN r' = [r EXCEPT !.pc = "invalid"]
       ELSE r' = [r EXCEPT !.fetched = TRUE, !.todo = Query(q), !.count = 0, !.found = <<>>,
                           !.reason = IF q = "declaration" THEN "declaration" ELSE "enclosing",
                           !.next = CASE q = "declaration" -> "class" [] q = "class" -> "callable" [] q = "callable" -> "done"]
    /\ UNCHANGED <<sym, req>>

Oversized(x) == Clipped([x EXCEPT !.todo = Tail(@)])

Spent(x) == x.input + 1 > INPUT_BYTES

\* records(): one row under the row and byte budgets; a limit ends the query.
Row(q) ==
    /\ r.pc = q /\ r.fetched
    /\ IF r.todo = <<>> THEN r' = [r EXCEPT !.pc = "add", !.fetched = FALSE]
       ELSE \E x \in {[r EXCEPT !.count = @ + 1, !.rows = @ + 1]} :
              r' = CASE x.count > QUERY_ROWS \/ x.rows > TOTAL_ROWS -> Clipped([x EXCEPT !.todo = <<>>])
                     [] x.count <= QUERY_ROWS /\ x.rows <= TOTAL_ROWS /\ sym[Head(x.todo)].big -> Oversized(x)
                     [] x.count <= QUERY_ROWS /\ x.rows <= TOTAL_ROWS /\ ~sym[Head(x.todo)].big ->
                          IF Spent(x) THEN Clipped([x EXCEPT !.todo = <<>>])
                          ELSE [x EXCEPT !.todo = Tail(@), !.input = @ + 1, !.found = Append(@, Head(x.todo))]
    /\ UNCHANGED <<sym, req>>

Bytes(i) == IF sym[i].kind = "class" THEN 2 ELSE 1

Shown(i, reason) == reason = "enclosing" /\ <<i, "declaration">> \in ToSet(r.targets)

\* add(): classes without a row and declarations already shown are passed over.
Add ==
    /\ r.pc = "add"
    /\ IF r.found = <<>> THEN r' = [r EXCEPT !.pc = r.next]
       ELSE \E i \in {Head(r.found)} : \E x \in {[r EXCEPT !.found = Tail(@)]} :
              r' = IF sym[i].kind = "bare" \/ Shown(i, r.reason) THEN x
                   ELSE IF Len(r.targets) >= TARGETS \/ r.output + Bytes(i) > OUTPUT_BYTES THEN Clipped(x)
                   ELSE [x EXCEPT !.targets = Append(@, <<i, r.reason>>), !.output = @ + Bytes(i)]
    /\ UNCHANGED <<sym, req>>

Matching == {k \in DOMAIN req.members : req.members[k].match}

OneMember == Cardinality(Matching) = 1

\* member(): exactly one recorded member, whose symbol must be its own declaration.
Member ==
    /\ r.pc = "member"
    /\ \/ r.require /\ r' = [r EXCEPT !.pc = "done"]
       \/ ~r.require /\ ~OneMember /\ r' = [r EXCEPT !.pc = "invalid"]
       \/ /\ ~r.require /\ OneMember
          /\ \E k \in {Min(Matching)} : \E mem \in {req.members[k]} :
               r' = IF mem.big THEN [Clipped(r) EXCEPT !.pc = "done", !.warnings = @ \cup {"member"}, !.rows = 1]
                    ELSE [r EXCEPT !.rows = IF mem.to = "none" THEN 1 ELSE 2, !.pc = "done",
                                   !.targets = IF mem.to = "own" THEN <<<<k, "declaration">>>> ELSE <<>>]
    /\ UNCHANGED <<sym, req>>

Next == Member \/ Add \/ \E q \in {"declaration", "class", "callable"} : Start(q) \/ Row(q)

Spec == Init /\ [][Next]_vars

(***************************************************************************)
(* The reference: what there is to find.                                   *)
(***************************************************************************)
DeclaredHere == {<<i, "declaration">> : i \in {j \in 1..N : sym[j].from = req.line /\ sym[j].kind # "bare"}}
AroundHere ==
    {<<i, "enclosing">> : i \in {j \in Inner(Around({"class", "bare"})) \cup Inner(Around({"callable"})) :
                                   sym[j].kind # "bare"}}
Shadowed == {t \in AroundHere : <<t[1], "declaration">> \in DeclaredHere}

Found == ToSet(r.targets)

\* Whatever a budget left out, the answer says so: one that does not call itself
\* truncated is the whole answer. And a budget never turns into a wrong target: an
\* enclosing target is the innermost declaration of its kind, never a wider one
\* that was easier to read.
OmissionTold ==
    (r.pc = "done" /\ req.kind = "source") =>
       /\ Found \subseteq DeclaredHere \cup AroundHere
       /\ ~r.truncated => Found = DeclaredHere \cup (AroundHere \ Shadowed)

\* No declaration is offered twice.
OfferedOnce == \A a, b \in DOMAIN r.targets : r.targets[a][1] = r.targets[b][1] => a = b

\* A member leads to its own declaration and to nothing else, and a selector that
\* fits two overloads leads nowhere.
MemberExact ==
    (r.pc = "done" /\ req.kind = "member" /\ r.targets # <<>>) =>
       Matching = {r.targets[1][1]} /\ req.members[r.targets[1][1]].to = "own"
====
