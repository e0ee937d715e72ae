-------------------------- MODULE NativeExtraction --------------------------
(***************************************************************************)
(* Measuring one document (extract_known in src/native_evidence.rs) and    *)
(* projecting it to the graph (project_native_selected in src/indexer.rs): *)
(* a walk over the syntax tree collects declarations, control regions and  *)
(* calls, gives them identities by owner and position, and a validator     *)
(* accepts or refuses the result as a whole. The parser is external: every *)
(* small tree is an input. The facts are compared with what the tree says. *)
(***************************************************************************)
EXTENDS Integers, Sequences, FiniteSets

CONSTANTS
    N,           \* nodes of the tree beside its root
    MaxDepth,    \* depth budget (128)
    MaxVisits    \* visit budget (1000000)

VARIABLES
    tree,    \* nodes in preorder; node 0 is the root
    at,      \* "walk", "finish", "project", "done" or "failed"
    todo,    \* calls of walk that are still to be made
    visits,
    out      \* the artifact: declarations, regions, calls; skipped token trees; coverage

vars == <<tree, at, todo, visits, out>>

\* Declarations that own calls (functions, types, namespaces) and other ones, all of one name;
\* control regions, calls, anything else, and token trees of Rust macros.
Kinds == {"fn", "var", "region", "call", "plain", "opaque"}

Nodes == 0..N

\* Every shape in preorder: a node's parent is the node before it or one above that.
Above(parent) == LET up[i \in Nodes] == IF i = 0 THEN {} ELSE {parent[i]} \cup up[parent[i]] IN up

Shapes == {p \in [1..N -> 0..(N - 1)] :
             \A i \in 1..N : p[i] < i /\ (p[i] = i - 1 \/ p[i] \in Above(p)[i - 1])}

Inner(p) == {p[i] : i \in 1..N} \ {0}

\* Ranges count tokens. A leaf is a token; an inner node may add one before (opens) or after
\* (closes) its children, so that nested nodes may begin or end at the same place.
Tree(p, k, opens, closes) ==
    LET up == [i \in Nodes |-> Above(p)[i]]
        token == opens \cup (Nodes \ (Inner(p) \cup {0}))
        last(i) == CHOOSE l \in i..N : \A m \in i..N : (m = i \/ i \in up[m]) <=> m <= l
        count(i, l) == Cardinality({j \in 0..l : j \in token})
                       + Cardinality({j \in 0..l : j \in closes /\ j \notin up[i]})
    IN  [parent |-> p, kind |-> k, up |-> up,
         start |-> [i \in Nodes |-> count(i, i - 1)],
         end |-> [i \in Nodes |-> count(i, last(i))]]

Ancestors(i) == tree.up[i]
Kind(i) == IF i = 0 THEN "plain" ELSE tree.kind[i]
Start(i) == tree.start[i]
End(i) == tree.end[i]
Inside(i, j) == Start(j) <= Start(i) /\ End(i) <= End(j)
SameRange(i, j) == Start(i) = Start(j) /\ End(i) = End(j)

\* The order of source positions, (start, end).
Before(i, j) == Start(i) < Start(j) \/ (Start(i) = Start(j) /\ End(i) < End(j))

Children(i) == LET c == {j \in 1..N : tree.parent[j] = i}
               IN  [k \in 1..Cardinality(c) |-> CHOOSE j \in c : Cardinality({l \in c : l < j}) = k - 1]

----------------------------------------------------------------------------
Module == <<<<>>, <<"module", 0>>>>

Init ==
    /\ \E p \in Shapes, k \in [1..N -> Kinds] : \E o, c \in SUBSET Inner(p) : tree = Tree(p, k, o, c)
    /\ at = "walk" /\ visits = 0
    /\ todo = <<[node |-> 0, owner |-> Module, ancestors |-> <<>>, regions |-> <<>>, depth |-> 0]>>
    /\ out = [declarations |-> <<[id |-> Module, node |-> 0, ancestors |-> <<>>, key |-> <<"module", 0>>]>>,
              regions |-> <<>>, calls |-> <<>>, opaque |-> FALSE, coverage |-> "none", parents |-> <<>>]

Fail == at' = "failed" /\ UNCHANGED <<tree, todo, visits, out>>

WithinBudget(f) == f.depth < MaxDepth /\ visits < MaxVisits

\* key.ordinal: the declarations so far with the same ancestors, kind, name and signature.
DeclarationKey(f, kind) ==
    <<kind, Cardinality({i \in DOMAIN out.declarations :
                           out.declarations[i].ancestors = f.ancestors /\ out.declarations[i].key[1] = kind})>>

\* Only executable containers own calls; the initializer of a variable runs in the enclosing one.
Executable(kind) == kind = "fn"

\* The scope of the node's facts and of its children.
Entered(f) ==
    LET k == Kind(f.node)
        key == DeclarationKey(f, k)
    IN  IF k \notin {"fn", "var"} THEN f
        ELSE [f EXCEPT !.ancestors = Append(f.ancestors, key),
                       !.owner = IF Executable(k) THEN <<f.ancestors, key>> ELSE f.owner,
                       !.regions = IF Executable(k) THEN <<>> ELSE f.regions]

\* `seen`: two facts of one kind and owner with the same range end the extraction.
Duplicate(f, facts) == \E i \in DOMAIN facts : facts[i].owner = f.owner /\ SameRange(facts[i].node, f.node)

pending(f) == <<f.owner, Start(f.node), End(f.node)>>

Skip == out' = [out EXCEPT !.opaque = TRUE]

Pushed(f) == [i \in DOMAIN Children(f.node) |-> [f EXCEPT !.node = Children(f.node)[i], !.depth = f.depth + 1]]

\* One call of walk.
Visit ==
    /\ at = "walk" /\ todo # <<>>
    /\ LET f == Head(todo)
           k == Kind(f.node)
           e == Entered(f)
           in == IF k = "region" THEN [e EXCEPT !.regions = Append(e.regions, pending(e))] ELSE e
       IN  \/ ~WithinBudget(f) /\ Fail
           \/ /\ WithinBudget(f) /\ k = "opaque"
              /\ Skip
              /\ visits' = visits + 1 /\ todo' = Tail(todo) /\ UNCHANGED <<tree, at>>
           \/ /\ WithinBudget(f)
              /\ (k = "region" /\ Duplicate(e, out.regions)) \/ (k = "call" /\ Duplicate(e, out.calls))
              /\ Fail
           \/ /\ WithinBudget(f) /\ k # "opaque"
              /\ ~(k = "region" /\ Duplicate(e, out.regions)) /\ ~(k = "call" /\ Duplicate(e, out.calls))
              /\ out' = CASE k \in {"fn", "var"} ->
                               [out EXCEPT !.declarations = Append(@,
                                  [id |-> <<f.ancestors, DeclarationKey(f, k)>>, node |-> f.node,
                                   ancestors |-> f.ancestors, key |-> DeclarationKey(f, k)])]
                          [] k = "region" ->
                               [out EXCEPT !.regions = Append(@,
                                  [id |-> pending(e), node |-> f.node, owner |-> e.owner, ordinal |-> Len(@),
                                   parent |-> IF e.regions = <<>> THEN <<>> ELSE <<e.regions[Len(e.regions)]>>])]
                          [] k = "call" ->
                               [out EXCEPT !.calls = Append(@,
                                  [id |-> <<>>, node |-> f.node, owner |-> e.owner, ordinal |-> Len(@),
                                   regions |-> e.regions])]
                          [] OTHER -> out
              /\ visits' = visits + 1
              /\ todo' = Pushed(in) \o Tail(todo)
              /\ UNCHANGED <<tree, at>>

WalkEnds ==
    /\ at = "walk" /\ todo = <<>>
    /\ at' = "finish"
    /\ UNCHANGED <<tree, todo, visits, out>>

\* Mutant: facts are numbered in the order of the walk.
BugOrdinal(facts, i) == Cardinality({j \in 1..(i - 1) : facts[j].owner = facts[i].owner})

\* Within an owner facts are numbered in the order of their ranges, not of the walk.
Ordinal(facts, i) == Cardinality({j \in DOMAIN facts : /\ facts[j].owner = facts[i].owner
                                                       /\ Before(facts[j].node, facts[i].node)})

occurrence(kind, facts, i) == <<kind, facts[i].owner, Ordinal(facts, i)>>

\* finish_occurrences: final identities, and the same replacement in every reference to a region.
FinishOccurrences ==
    LET rs == out.regions
        cs == out.calls
        replaced(ids) == [k \in DOMAIN ids |->
                            occurrence("control", rs, CHOOSE i \in DOMAIN rs : rs[i].id = ids[k])]
    IN  /\ at = "finish"
        /\ at' = "project"
        /\ \E has_error \in BOOLEAN :
             out' = [out EXCEPT
                !.regions = [i \in DOMAIN rs |-> [rs[i] EXCEPT !.id = occurrence("control", rs, i),
                                !.ordinal = Ordinal(rs, i), !.parent = replaced(rs[i].parent)]],
                !.calls = [i \in DOMAIN cs |-> [cs[i] EXCEPT !.id = occurrence("call", cs, i),
                                !.ordinal = Ordinal(cs, i), !.regions = replaced(cs[i].regions)]],
                !.coverage = IF has_error \/ out.opaque THEN "partial" ELSE "complete"]
        /\ UNCHANGED <<tree, todo, visits>>

\* The parent of a graph node is the declaration its ancestor chain names, declared before it.
ParentId(d) == <<SubSeq(d.ancestors, 1, Len(d.ancestors) - 1), d.ancestors[Len(d.ancestors)]>>
ParentMissing(i) ==
    LET d == out.declarations[i]
    IN  d.ancestors # <<>> /\ \A j \in 1..(i - 1) : out.declarations[j].id # ParentId(d)

\* A missing parent would be an error; ExtractionValid says that there is none.
Project ==
    /\ at = "project"
    /\ \A i \in DOMAIN out.declarations : ~ParentMissing(i)
    /\ at' = "done"
    /\ out' = [out EXCEPT !.parents = [i \in DOMAIN out.declarations |->
                 IF out.declarations[i].ancestors = <<>> THEN <<>> ELSE <<ParentId(out.declarations[i])>>]]
    /\ UNCHANGED <<tree, todo, visits>>

Next == Visit \/ WalkEnds \/ FinishOccurrences \/ Project

Spec == Init /\ [][Next]_vars

----------------------------------------------------------------------------
\* validate_structure, as far as one document goes.
Numbered(facts) ==
    \A o \in {facts[i].owner : i \in DOMAIN facts} :
        LET group == {i \in DOMAIN facts : facts[i].owner = o}
        IN  /\ {facts[i].ordinal : i \in group} = 0..(Cardinality(group) - 1)
            /\ \A i, j \in group : Before(facts[i].node, facts[j].node) => facts[i].ordinal < facts[j].ordinal
            /\ \A i, j \in group : i # j => ~SameRange(facts[i].node, facts[j].node)

Distinct(facts) == \A i, j \in DOMAIN facts : facts[i].id = facts[j].id => i = j
Known(facts, id) == \E i \in DOMAIN facts : facts[i].id = id

SiblingsNumbered ==
    LET ds == out.declarations
        siblings(i) == {j \in DOMAIN ds : ds[j].ancestors = ds[i].ancestors /\ ds[j].key[1] = ds[i].key[1]}
    IN  \A i \in DOMAIN ds :
            /\ ds[i].key[2] = Cardinality({j \in siblings(i) : Before(ds[j].node, ds[i].node)})
            /\ \A j \in siblings(i) \ {i} : ~SameRange(ds[i].node, ds[j].node)

validate_structure ==
    /\ Distinct(out.declarations) /\ SiblingsNumbered
    /\ Distinct(out.regions) /\ Numbered(out.regions)
    /\ Distinct(out.calls) /\ Numbered(out.calls)
    /\ \A i \in DOMAIN out.calls : Known(out.declarations, out.calls[i].owner)
    /\ \A i \in DOMAIN out.regions :
         LET r == out.regions[i]
         IN  /\ Known(out.declarations, r.owner)
             /\ \A k \in DOMAIN r.parent : \E j \in DOMAIN out.regions :
                  /\ out.regions[j].id = r.parent[k] /\ out.regions[j].owner = r.owner /\ j # i
                  /\ Inside(r.node, out.regions[j].node)
    /\ \A i \in DOMAIN out.calls, k \in 1..N : k \in DOMAIN out.calls[i].regions =>
         \E j \in DOMAIN out.regions :
            /\ out.regions[j].id = out.calls[i].regions[k] /\ out.regions[j].owner = out.calls[i].owner
            /\ Inside(out.calls[i].node, out.regions[j].node)

----------------------------------------------------------------------------
\* Every value has its type, and the walk stays within its budgets.
TypeOK ==
    /\ at \in {"walk", "finish", "project", "done", "failed"}
    /\ visits \in 0..MaxVisits
    /\ \A i \in DOMAIN todo : todo[i].node \in Nodes /\ todo[i].depth \in 0..MaxDepth
    /\ out.opaque \in BOOLEAN /\ out.coverage \in {"none", "partial", "complete"}

\* What the extractor produces, its own validator accepts: nested calls and regions that begin
\* or end at the same place included, no document is refused after it was measured, and no graph
\* node misses its parent (finish_occurrences, validate_structure, project_native_selected).
ExtractionValid ==
    at \in {"project", "done"} =>
        validate_structure /\ \A i \in DOMAIN out.declarations : ~ParentMissing(i)

Measured(i) == Kind(i) # "opaque" /\ \A j \in Ancestors(i) : Kind(j) # "opaque"
Nearest(i, kinds) == LET up == {j \in Ancestors(i) : Kind(j) \in kinds}
                     IN  IF up = {} THEN 0 ELSE CHOOSE j \in up : \A k \in up : k <= j
Enclosing(i) == {j \in Ancestors(i) : Kind(j) = "region" /\ Nearest(j, {"fn"}) = Nearest(i, {"fn"})
                                      /\ Nearest(i, {"fn"}) < j}
NodeOf(facts, id) == facts[CHOOSE i \in DOMAIN facts : facts[i].id = id].node

\* The facts are those of the tree: every call outside skipped token trees, owned by the nearest
\* function around it and under exactly the regions between the two, outermost first; every region
\* under the next one of its function; every graph node under the nearest declaration
\* (walk, project_native_selected).
FactsOfTree ==
    at = "done" =>
        /\ {out.calls[i].node : i \in DOMAIN out.calls} = {i \in Nodes : Kind(i) = "call" /\ Measured(i)}
        /\ {out.regions[i].node : i \in DOMAIN out.regions} = {i \in Nodes : Kind(i) = "region" /\ Measured(i)}
        /\ \A i \in DOMAIN out.calls :
             LET c == out.calls[i]
                 nodes == [k \in DOMAIN c.regions |-> NodeOf(out.regions, c.regions[k])]
             IN  /\ NodeOf(out.declarations, c.owner) = Nearest(c.node, {"fn"})
                 /\ {nodes[k] : k \in DOMAIN nodes} = Enclosing(c.node)
                 /\ \A k \in 1..(Len(nodes) - 1) : nodes[k] < nodes[k + 1]
        /\ \A i \in DOMAIN out.regions :
             LET r == out.regions[i]
             IN  IF r.parent = <<>> THEN Enclosing(r.node) = {}
                 ELSE NodeOf(out.regions, r.parent[1]) = CHOOSE m \in Enclosing(r.node) :
                                                            \A o \in Enclosing(r.node) : o <= m
        /\ \A i \in DOMAIN out.declarations :
             LET near == Nearest(out.declarations[i].node, {"fn", "var"})
             IN  IF out.parents[i] = <<>> THEN near = 0 ELSE NodeOf(out.declarations, out.parents[i][1]) = near

\* A document that is called complete hides nothing: every declaration, region and call of its
\* tree was measured (Coverage.state in extract_known).
CoverageHonest ==
    at = "done" /\ out.coverage = "complete" =>
        \A i \in Nodes : Kind(i) \in {"fn", "var", "region", "call"} =>
            \/ \E k \in DOMAIN out.declarations : out.declarations[k].node = i
            \/ \E k \in DOMAIN out.regions : out.regions[k].node = i
            \/ \E k \in DOMAIN out.calls : out.calls[k].node = i
=============================================================================
