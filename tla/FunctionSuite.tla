--------------------------- MODULE FunctionSuite ---------------------------
(***************************************************************************)
(* Algorithms that turn one input into one output, each checked against a  *)
(* reference for every input within its bounds: extraction of a document's *)
(* facts, navigation targets, the file tree's pages, the class catalog,    *)
(* the question view, and the wire form of packets and provider replies.   *)
(*                                                                         *)
(* They call each other nowhere.  A behaviour is one of the algorithm      *)
(* named by part; the variables of the others are Off in it.               *)
(***************************************************************************)
EXTENDS Naturals, Sequences, FiniteSets

(* Probabilities, in thousandths, around every tolerance of the checks. *)
SomeProbs ==
    {0, 1, 10, 20, 34, 170, 190, 281, 330, 333, 340, 687, 790, 990, 998, 1000, 1010}

Off == "off"

VARIABLES
    part,       \* the component this behaviour is about
    tree, at, extractTodo, visits, out,      \* NativeExtraction
    sym, req, r,      \* Navigation
    dir, changes, root, list, client, size, rd,      \* FileTree
    classesInput, classesTodo, acc,      \* ClassCatalog
    viewInput,      \* QuestionView
    wireInput      \* ProviderWire

extractVars == <<tree, at, extractTodo, visits, out>>
navigateVars == <<sym, req, r>>
filesVars == <<dir, changes, root, list, client, size, rd>>
classesVars == <<classesInput, classesTodo, acc>>
viewVars == <<viewInput>>
wireVars == <<wireInput>>
vars == <<part, extractVars, navigateVars, filesVars, classesVars, viewVars, wireVars>>

Extract == INSTANCE NativeExtraction WITH
    N <- 4, MaxDepth <- 3, MaxVisits <- 5, todo <- extractTodo
Navigate == INSTANCE Navigation WITH
    N <- 2, Lines <- 2, QUERY_ROWS <- 1, TOTAL_ROWS <- 2, INPUT_BYTES <- 2, TARGETS <- 2,
    OUTPUT_BYTES <- 4
Crowded == INSTANCE Navigation WITH
    N <- 3, Lines <- 1, QUERY_ROWS <- 2, TOTAL_ROWS <- 3, INPUT_BYTES <- 2, TARGETS <- 3,
    OUTPUT_BYTES <- 4
Directory == INSTANCE FileTree WITH
    Names <- {1, 2, 3, 4}, Unusable <- {4}, Indexed <- {2}, SCAN_LIMIT <- 3, MAX_BYTES <- 1,
    MaxChanges <- 1, MaxSize <- 3
Classes == INSTANCE ClassCatalog WITH
    Files <- 2, total_bytes <- 3, registry_text <- 1, classes <- 3, records <- 2, output_text <- 3,
    input <- classesInput, todo <- classesTodo
View == INSTANCE QuestionView WITH
    N <- 3, Regions <- {1, 2, 3}, Scores <- {0, 1}, Budgets <- {1, 2}, input <- viewInput
Wire == INSTANCE ProviderWire WITH
    Names <- {"a", "b", "c"}, Columns <- {"id", "parent", "name"},
    IdentityColumns <- {"id", "parent"}, MaxRows <- 2, Probs <- SomeProbs, MaxText <- 6,
    input <- wireInput

ExtractOff ==
    /\ tree = Off /\ at = Off /\ extractTodo = Off /\ visits = Off /\ out = Off
NavigateOff ==
    /\ sym = Off /\ req = Off /\ r = Off
FilesOff ==
    /\ dir = Off /\ changes = Off /\ root = Off /\ list = Off /\ client = Off /\ size = Off
    /\ rd = Off
ClassesOff ==
    /\ classesInput = Off /\ classesTodo = Off /\ acc = Off
ViewOff ==
    /\ viewInput = Off
WireOff ==
    /\ wireInput = Off

Parts == {"extract", "navigate", "crowded", "files", "classes", "view", "wire"}

Init ==
    /\ part \in Parts
    /\ IF part = "extract" THEN TRUE ELSE ExtractOff
    /\ IF part \in {"navigate", "crowded"} THEN TRUE ELSE NavigateOff
    /\ IF part = "files" THEN TRUE ELSE FilesOff
    /\ IF part = "classes" THEN TRUE ELSE ClassesOff
    /\ IF part = "view" THEN TRUE ELSE ViewOff
    /\ IF part = "wire" THEN TRUE ELSE WireOff
    /\ CASE part = "extract" -> Extract!Init
         [] part = "navigate" -> Navigate!Init
         [] part = "crowded" -> Crowded!Init
         [] part = "files" -> Directory!Init
         [] part = "classes" -> Classes!Init
         [] part = "view" -> View!Init
         [] part = "wire" -> Wire!Init

Next ==
    /\ UNCHANGED part
    /\ IF part = "extract" THEN TRUE ELSE UNCHANGED extractVars
    /\ IF part \in {"navigate", "crowded"} THEN TRUE ELSE UNCHANGED navigateVars
    /\ IF part = "files" THEN TRUE ELSE UNCHANGED filesVars
    /\ IF part = "classes" THEN TRUE ELSE UNCHANGED classesVars
    /\ IF part = "view" THEN TRUE ELSE UNCHANGED viewVars
    /\ IF part = "wire" THEN TRUE ELSE UNCHANGED wireVars
    /\ CASE part = "extract" -> Extract!Next
         [] part = "navigate" -> Navigate!Next
         [] part = "crowded" -> Crowded!Next
         [] part = "files" -> Directory!Next
         [] part = "classes" -> Classes!Next
         [] part = "view" -> View!Next
         [] part = "wire" -> Wire!Next

Spec == Init /\ [][Next]_vars

-----------------------------------------------------------------------------
(* Properties.                                                             *)

(* Whatever tree the parser delivers, the extraction passes its own        *)
(* validator, its facts are those of the tree, and it is called complete   *)
(* only if nothing was skipped or opaque (native_evidence.rs, indexer.rs). *)
ExtractedAsParsed ==
    part = "extract" => /\ Extract!TypeOK /\ Extract!ExtractionValid
                        /\ Extract!FactsOfTree /\ Extract!CoverageHonest

(* What a limit cuts off is told: navigation offers every target once or   *)
(* says it left some out, pages of an unchanged directory add up to it or  *)
(* are marked, and the class catalog is the longest that fits with every   *)
(* gap marked (navigation.rs, file_tree.rs, classes.rs).                   *)
OmissionsTold ==
    /\ part = "navigate" => /\ Navigate!TypeOK /\ Navigate!OmissionTold
                            /\ Navigate!OfferedOnce /\ Navigate!MemberExact
    /\ part = "crowded" => /\ Crowded!TypeOK /\ Crowded!OmissionTold
                           /\ Crowded!OfferedOnce /\ Crowded!MemberExact
    /\ part = "files" => Directory!TypeOK /\ Directory!ScanHonest /\ Directory!PagesWhole /\ Directory!ReadWhole
    /\ part = "classes" => Classes!TypeOK /\ Classes!GapsMarked /\ Classes!ComposedAsStated

(* A selection decides on each candidate once, the view shows the best and *)
(* accounts for the rest, regions are closed and a preview is showable;    *)
(* the provider's table decodes to what was encoded, odds add up, a reply  *)
(* is accepted only if it decides everything, and the lines a prompt cites *)
(* are those the validator reads (answer.rs, planning.rs, jev.rs).         *)
AnswersExact ==
    /\ part = "view" => /\ View!OneDecisionEach /\ View!ShowsTheBest /\ View!ViewAddsUp
                        /\ View!RegionsClosed /\ View!PreviewIsShowable
    /\ part = "wire" => /\ Wire!WireIsLossless /\ Wire!OddsAddUp
                        /\ Wire!ReplyDecidesAll /\ Wire!PromptMatchesValidator
=============================================================================
