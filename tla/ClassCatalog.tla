---------------------------- MODULE ClassCatalog ----------------------------
(***************************************************************************)
(* The class catalogue of a revision (src/classes.rs, Catalog::compose):   *)
(* the extractions of the files, whatever order they were made or cached   *)
(* in, are put together under five limits. Declarations and their details  *)
(* have budgets of their own, so that a full detail budget does not stop   *)
(* the discovery of classes. The reference definition says what the        *)
(* catalogue holds without following the loop.                             *)
(***************************************************************************)
EXTENDS Naturals, Sequences, FiniteSets, SequencesExt, FiniteSetsExt

CONSTANTS
    Files,         \* number of extractions
    total_bytes, registry_text, classes, records, output_text   \* Limits

VARIABLES
    input,   \* the extractions in the order they come, each with its path
    todo,    \* the extractions in the order they are composed
    acc      \* the catalogue so far and what it used

vars == <<input, todo, acc>>

\* A detail of a class (field, method or relation): records and bytes of text.
Items == [records : {1}, text : 1..2] \cup [records : {0}, text : {1}]

\* Up to two details of one class, or one of each of two.
ClassLists ==
    {<<>>} \cup {<<is>> : is \in BoundedSeq(Items, 2)}
    \cup {<<a, b>> : a, b \in {<<>>} \cup {<<[records |-> 1, text |-> t]>> : t \in 1..2}}

\* FileExtraction: a file may itself have met a limit of its own, or bad syntax.
Extractions(p) ==
    {e \in [path : {p}, source : 1..2, registry : 0..1, incomplete : BOOLEAN, classes : ClassLists] :
        e.incomplete => e.registry = 0}

Empty == [at |-> 0, source |-> 0, registry |-> 0, records |-> 0, detail |-> 0, open |-> TRUE, complete |-> TRUE,
          classes |-> <<>>, truncated |-> FALSE, stopped |-> FALSE, done |-> FALSE]

Init ==
    /\ \E ext \in {f \in [1..Files -> UNION {Extractions(p) : p \in 1..Files}] : \A p \in 1..Files : f[p].path = p} :
         \E perm \in {q \in [1..Files -> 1..Files] : \A i, j \in 1..Files : q[i] = q[j] => i = j} :
            input = [i \in 1..Files |-> ext[perm[i]]]
    /\ todo = <<>> /\ acc = Empty

Ordered(s) == SortSeq(s, LAMBDA a, b : a.path < b.path)

Sort ==
    /\ acc.at = 0
    /\ todo' = Ordered(input) /\ acc' = [acc EXCEPT !.at = 1]
    /\ UNCHANGED input

\* limit_warning and the end of the loop: what follows is not looked at.
Stop(a) == [a EXCEPT !.truncated = TRUE, !.complete = FALSE, !.stopped = TRUE]

Marked(c) == [c EXCEPT !.truncated = TRUE]

\* The first detail that does not fit closes the details of all that follow.
Closed(a, it) == ~a.open \/ a.records + it.records > records \/ a.detail + it.text > output_text

\* One detail of the class that is last in a.
Detail(a, it) ==
    LET k == Len(a.classes) IN
    IF Closed(a, it) THEN [a EXCEPT !.open = FALSE, !.truncated = TRUE, !.classes[k] = Marked(@)]
    ELSE [a EXCEPT !.records = @ + it.records, !.detail = @ + it.text, !.classes[k].items = Append(@, it)]

Full(a) == Len(a.classes) = classes

\* One declaration, with its details.
Class(a, f, k) ==
    IF a.stopped THEN a
    ELSE IF Full(a) THEN Stop(a)
    ELSE FoldLeft(Detail, [a EXCEPT !.classes = Append(@, [path |-> f.path, index |-> k, items |-> <<>>, truncated |-> FALSE])],
                  f.classes[k])

\* One file: its sizes first, then its declarations.
File ==
    /\ acc.at \in 1..Files /\ ~acc.stopped
    /\ \E f \in {todo[acc.at]} :
         acc' = IF acc.source + f.source > total_bytes \/ acc.registry + f.registry > registry_text THEN Stop(acc)
                ELSE FoldLeft(LAMBDA a, k : Class(a, f, k),
                              [acc EXCEPT !.at = @ + 1, !.source = @ + f.source, !.registry = @ + f.registry,
                                          !.truncated = @ \/ f.incomplete, !.complete = @ /\ ~f.incomplete],
                              [k \in DOMAIN f.classes |-> k])
    /\ UNCHANGED <<input, todo>>

Finish ==
    /\ acc.stopped \/ acc.at > Files
    /\ ~acc.done /\ acc' = [acc EXCEPT !.done = TRUE]
    /\ UNCHANGED <<input, todo>>

Next == Sort \/ File \/ Finish
Spec == Init /\ [][Next]_vars

TypeOK ==
    /\ acc.at \in 0..Files + 1 /\ Len(acc.classes) <= classes
    /\ acc.source <= total_bytes /\ acc.registry <= registry_text /\ acc.records <= records /\ acc.detail <= output_text
    /\ acc.stopped => ~acc.complete

(***************************************************************************)
(* The reference: prefixes of the files in the order of their paths.       *)
(***************************************************************************)
Of(p) == CHOOSE f \in ToSet(input) : f.path = p
SumOver(S, F(_)) == FoldSet(LAMBDA x, y : F(x) + y, 0, S)
Fits(p) ==
    /\ SumOver(1..p, LAMBDA q : Of(q).source) <= total_bytes
    /\ SumOver(1..p, LAMBDA q : Of(q).registry) <= registry_text

\* All declarations and all details in order, as <<path, class>> and <<path, class, item>>.
AllClasses == FlattenSeq([p \in 1..Files |-> [k \in DOMAIN Of(p).classes |-> <<p, k>>]])
AllItems ==
    FlattenSeq([n \in DOMAIN AllClasses |->
       LET c == AllClasses[n] IN [j \in DOMAIN Of(c[1]).classes[c[2]] |-> <<c[1], c[2], j>>]])
ItemAt(x) == Of(x[1]).classes[x[2]][x[3]]

Kept(all, n) == n <= classes /\ \A p \in 1..all[n][1] : Fits(p)
KeptItem(all, m) ==
    /\ SumOver(1..m, LAMBDA i : ItemAt(all[i]).records) <= records
    /\ SumOver(1..m, LAMBDA i : ItemAt(all[i]).text) <= output_text

\* The catalogue is the one the reference describes, whatever order the extractions
\* came in: the declarations of the files that fit, and the longest run of details
\* that fits.
ComposedAsStated ==
    acc.done =>
       LET cs == AllClasses
           is == AllItems
           fit == {m \in DOMAIN is : KeptItem(is, m)}
           count(c) == Cardinality({m \in fit : is[m][1] = c.path /\ is[m][2] = c.index})
       IN  /\ [n \in DOMAIN acc.classes |-> <<acc.classes[n].path, acc.classes[n].index>>] =
                 SelectSeq(cs, LAMBDA c : \E n \in DOMAIN cs : cs[n] = c /\ Kept(cs, n))
           /\ \A n \in DOMAIN acc.classes :
                 LET c == acc.classes[n] IN c.items = SubSeq(Of(c.path).classes[c.index], 1, count(c))

\* Nothing is missing without a mark: a class that is not marked has all its
\* details, and a catalogue that is neither truncated nor incomplete has them all.
GapsMarked ==
    acc.done =>
       /\ \A n \in DOMAIN acc.classes :
             LET c == acc.classes[n] IN c.truncated \/ c.items = Of(c.path).classes[c.index]
       /\ acc.complete => Len(acc.classes) = Len(AllClasses)
       /\ ~acc.truncated => acc.complete /\ \A n \in DOMAIN acc.classes : ~acc.classes[n].truncated
====
