---------------------------- MODULE ProviderWire ----------------------------
(***************************************************************************)
(* What goes to and comes from the answering providers: the evidence       *)
(* tables with interned identities and the response of Jev (jev.rs), the   *)
(* numbered source lines and the cited answer of ACP (answer.rs).  Pure    *)
(* functions, compared with what they promise over every input up to a     *)
(* bound.  Probabilities are told in thousandths and added as f64 adds     *)
(* them; texts are sequences over a letter, a blank, CR and LF.            *)
(***************************************************************************)
EXTENDS Integers, Sequences, FiniteSets, SequencesExt, FiniteSetsExt

CONSTANTS Names,      \* identities and other strings of a packet
          Columns,    \* columns of a table; those in IdentityColumns hold identities
          IdentityColumns,
          MaxRows,    \* bound on the objects of a table
          Probs,      \* probabilities of the check, in thousandths
          MaxText     \* bound on the length of a source text

Null == "null"
CR == "CR"
LF == "LF"
Chars == {"x", " ", CR, LF}

VARIABLE input

Seqs(S, n) == UNION {[1..k -> S] : k \in 0..n}

Cells == Names \cup {Null}
Objects == UNION {[cs -> Cells] : cs \in SUBSET Columns}
Tables == [kind : {"table"}, seed : Names, objects : Seqs(Objects, MaxRows)]
Odds == [kind : {"odds"}, p : [1..4 -> Probs]]
Replies == [kind : {"reply"}, calls : Seqs(Names, 2), packet : {1, 2},
            answers : SUBSET ((0..2) \X {1, 2})]
Cites == [kind : {"cite"}, text : Seqs(Chars, MaxText), first : 0..3, last : 0..3]

Init == input \in Tables \cup Odds \cup Replies \cup Cites
Next == UNCHANGED input
Spec == Init /\ [][Next]_input

------------------------------------------------------------------------------
(* wire_packet *)

IndexOf(dict, v) == CHOOSE k \in DOMAIN dict : dict[k] = v

(* intern_identity: null stays, a name gets the index of its first use. *)
Intern(dict, v) == IF v = Null \/ v \in Range(dict) THEN dict ELSE Append(dict, v)

(* An index into the dictionary; 0 stands for null. *)
Interned(dict, v) == IF v = Null THEN 0 ELSE IndexOf(dict, v)

(* Columns are those of the first object; a different object is refused. *)
ColumnsOf(objects) == IF objects = <<>> THEN {} ELSE DOMAIN objects[1]
Regular(objects) == \A k \in DOMAIN objects : DOMAIN objects[k] = ColumnsOf(objects)

(* The dictionary: the seed first, then the tables' identity cells. *)
Dictionary(x) ==
  LET row(o) == [k \in DOMAIN SetToSeq(IdentityColumns \cap DOMAIN o) |->
                   o[SetToSeq(IdentityColumns \cap DOMAIN o)[k]]]
      cells == FoldLeft(LAMBDA acc, o : acc \o row(o), <<x.seed>>, x.objects)
  IN FoldLeft(Intern, <<>>, cells)

Row(dict, o) == [c \in DOMAIN o |-> IF c \in IdentityColumns
                                    THEN Interned(dict, o[c]) ELSE o[c]]

(* The reader's side, as the instructions in the request describe it. *)
Zipped(dict, row) ==
  [c \in DOMAIN row |-> IF c \notin IdentityColumns THEN row[c]
                        ELSE IF row[c] = 0 THEN Null ELSE dict[row[c]]]

------------------------------------------------------------------------------
(* parse_response of Jev *)

(* Binary arithmetic below 2, exactly: n thousandths and e units of          *)
(* 2^-62 / 1000, the finest spacing (above a thousandth) of f64.             *)
Number(n, e) == [n |-> n, e |-> e]

(* f64 numbers of [2^-k, 2^(1-k)) are 2^j * 1000 units apart, j = 10 - k.    *)
Exponent(x) ==
  10 - Min({k \in 0..10 : x.n * 2^k > 1000 \/ (x.n * 2^k = 1000 /\ x.e >= 0)})

(* x in units modulo 2^(j+1) * 1000, where 2^50 % 1000 = 624.                *)
Residue(x, j) ==
  (2^(j + 1) * ((x.n * ((624 * 2^(11 - j)) % 1000)) % 1000) + x.e) % (2^(j + 1) * 1000)

(* To the nearest number, from half way to the even one.                     *)
Rounded(x) ==
  IF x.n = 0 THEN Number(0, 0)
  ELSE LET j == Exponent(x)
           gap == 2^j * 1000
           over == Residue(x, j) % gap
           up == 2 * over > gap \/ (2 * over = gap /\ Residue(x, j) > gap)
       IN Number(x.n, x.e - over + (IF up THEN gap ELSE 0))

Float(n) == Rounded(Number(n, 0))
Plus(x, y) == Rounded(Number(x.n + y.n, x.e + y.e))
EPSILON == 2^10 * 1000

(* iter().sum(): the labels in the map's order. *)
Sum(p) == Plus(Plus(Plus(Float(p[1]), Float(p[2])), Float(p[3])), Float(p[4]))

(* (sum - 1.0).abs(), which is exact this near to 1. *)
Off(x) == IF x.n > 1000 \/ (x.n = 1000 /\ x.e >= 0)
          THEN Number(x.n - 1000, x.e) ELSE Number(1000 - x.n, -x.e)

(* x <= n thousandths + slack. *)
AtMost(x, n, slack) == x.n < n \/ (x.n = n /\ x.e <= Float(n).e + slack)

WithinSumTolerance(p) == AtMost(Off(Sum(p)), 2, EPSILON)

(* On the grid within 1e-9: for whole thousandths, f64's error is far below. *)
Hundredths(p) == \A k \in 1..4 : p[k] % 10 = 0

(* Mutant: no 1e-12 above the hundredth. *)
BugHundredthRounding(p) ==
  ~WithinSumTolerance(p) /\ AtMost(Off(Sum(p)), 10, 0) /\ Hundredths(p)

(* 1e-12 is over 4000 EPSILON; 1000 of them exceed any error of a sum.       *)
HundredthRounding(p) ==
  ~WithinSumTolerance(p) /\ AtMost(Off(Sum(p)), 10, 1000 * EPSILON) /\ Hundredths(p)

UnitNumbers(p) == \A k \in 1..4 : p[k] \in 0..1000

(* Further off than two hundredths, no rounding decides. *)
NearOne(p) == p[1] + p[2] + p[3] + p[4] \in 980..1020

AcceptsOdds(p) ==
  UnitNumbers(p) /\ NearOne(p) /\ (WithinSumTolerance(p) \/ HundredthRounding(p))

(* response_warnings, asked of accepted responses. *)
Warned(p) == HundredthRounding(p)

(* Aliases name a call by its index and the packet. *)
Expected(x) == {<<k - 1, x.packet>> : k \in DOMAIN x.calls}
CandidatesOk(x) == \A i, j \in DOMAIN x.calls : x.calls[i] = x.calls[j] => i = j

Covers(x) == x.answers = Expected(x)

(* The decisions, or <<>> with ok FALSE when the response is refused. *)
ParseReply(x) == [ok |-> CandidatesOk(x) /\ Covers(x),
                  decisions |-> IF CandidatesOk(x) /\ Covers(x) THEN x.calls ELSE <<>>]

------------------------------------------------------------------------------
(* parse_response of an answer: citations *)

(* split_inclusive on LF: every line keeps its end, no line after the last. *)
RawLines(t) ==
  LET s == FoldLeft(LAMBDA a, c : IF c = LF
                                  THEN [done |-> Append(a.done, Append(a.cur, c)), cur |-> <<>>]
                                  ELSE [a EXCEPT !.cur = Append(@, c)],
                    [done |-> <<>>, cur |-> <<>>], t)
  IN IF s.cur = <<>> THEN s.done ELSE Append(s.done, s.cur)

StripEnd(l, c) == IF l # <<>> /\ Last(l) = c THEN Front(l) ELSE l

SourceLine(l) == IF l # <<>> /\ Last(l) = LF THEN StripEnd(Front(l), CR) ELSE l

SourceLines(t) == [k \in DOMAIN RawLines(t) |-> SourceLine(RawLines(t)[k])]

Join(ls) == IF ls = <<>> THEN <<>>
            ELSE FoldLeft(LAMBDA a, l : a \o <<LF>> \o l, Head(ls), Tail(ls))

Blank(q) == \A k \in DOMAIN q : q[k] \in {" ", CR, LF}

(* A citation of lines first..last with quote q (the 12-line limit is        *)
(* beyond the texts of the check).                                           *)
Anchored(t, first, last, q) ==
  /\ ~Blank(q)
  /\ first >= 1 /\ last >= first
  /\ last <= Len(SourceLines(t))
  /\ q = Join(SubSeq(SourceLines(t), first, last))

------------------------------------------------------------------------------
(* Properties. *)

(* The evidence tables lose nothing: zipping a row with the columns and      *)
(* looking identities up gives the object back, null and equal names in      *)
(* other columns included, and the dictionary holds every name once.         *)
WireIsLossless ==
  input.kind = "table" /\ Regular(input.objects) =>
    LET dict == Dictionary(input)
    IN /\ \A k \in DOMAIN input.objects :
            Zipped(dict, Row(dict, input.objects[k])) = input.objects[k]
       /\ dict[1] = input.seed
       /\ \A i, j \in DOMAIN dict : dict[i] = dict[j] => i = j

(* What f64 makes of decimals decides nothing but sums of exactly 0.998 and  *)
(* 1.002: nearer ones pass without a warning; further ones pass exactly when *)
(* they are whole hundredths and add up to 0.99 or 1.01, and warn then       *)
(* (jev.rs, within_sum_tolerance, hundredth_rounding_exception).             *)
OddsAddUp ==
  input.kind = "odds" /\ UnitNumbers(input.p) =>
    LET p == input.p
        total == p[1] + p[2] + p[3] + p[4]
        off == IF total < 1000 THEN 1000 - total ELSE total - 1000
    IN /\ off < 2 => AcceptsOdds(p)
       /\ off > 2 => (AcceptsOdds(p) <=> off = 10 /\ Hundredths(p))
       /\ AcceptsOdds(p) => (Warned(p) <=> off > 2)

(* An accepted response decides every candidate of this packet once: it is   *)
(* a valid selection, and no answer for another packet or call slips in.     *)
ReplyDecidesAll ==
  input.kind = "reply" /\ ParseReply(input).ok =>
    /\ input.answers = {<<k - 1, input.packet>> : k \in DOMAIN input.calls}
    /\ Cardinality(Range(ParseReply(input).decisions)) = Len(input.calls)

(* A quote made the way the prompt tells the model (number the raw lines,    *)
(* drop each LF and a CR before it, join with LF) is what the validator      *)
(* accepts for those line numbers, unless it is blank.                       *)
PromptMatchesValidator ==
  input.kind = "cite" =>
    LET raw == RawLines(input.text)
        told(l) == IF Last(l) = LF
                   THEN SubSeq(l, 1, Len(l) - (IF Len(l) > 1 /\ l[Len(l) - 1] = CR THEN 2 ELSE 1))
                   ELSE l
    IN input.first \in 1..input.last /\ input.last <= Len(raw) =>
         LET q == Join([k \in 1..(input.last - input.first + 1) |->
                          told(raw[input.first + k - 1])])
         IN Anchored(input.text, input.first, input.last, q) <=> ~Blank(q)

==============================================================================
