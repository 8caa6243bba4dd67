----------------------- MODULE MCRuntimeImplementsElixir -----------------------
(* Instances of RuntimeImplementsElixir for TLC. *)
EXTENDS RuntimeImplementsElixir

CONSTANT a, b
VARIABLE family (* which of the programs below, unchanged *)

MCChar == {a, b}
MCTexts == {<<a>>}

(***************************************************************************)
(* Constants of every kind, nested in tuples or under a case, where the    *)
(* translator sets the generic flag.                                       *)
(***************************************************************************)
ConstantMatches ==
  {Eq(PTuple(<<PVar, PInt(1)>>)), Eq(PAtom("nil")),
   Case(<<PText(<<a>>), PTuple(<<PAtom("nil"), PAny>>), PInt(2)>>)}

(* Lists, with tuples of one element in them. *)
ListMatches ==
  {Eq(PCons(PVar, PVar)), Eq(PList(<<PTuple(<<PVar>>)>>)),
   Case(<<PList(<<>>), PCons(PTuple(<<PAny>>), PVar)>>)}

MCMatches == ConstantMatches \cup ListMatches
MCPatterns == Closure(ClausesOf(MCMatches))

(* what the programs of a family use, and how many values they bind *)
Families ==
  [constants |-> [atoms |-> AtomConsts, texts |-> MCTexts, arity |-> 2,
                  cons |-> FALSE, matches |-> ConstantMatches, room |-> 3],
   lists |-> [atoms |-> {}, texts |-> {}, arity |-> 1,
              cons |-> TRUE, matches |-> ListMatches, room |-> 4]]

(***************************************************************************)
(* Whatever term of these the clauses meet, a match is over in MatchSteps. *)
(***************************************************************************)
Nested(S) ==
  S \cup {TTuple(<<x>>) : x \in S} \cup {TTuple(<<x, y>>) : x, y \in S}
    \cup {TCons(x, y) : x, y \in S}
SampleTerms == Nested(Nested({TInt(1), TAtom("nil"), TText(<<a>>), TNil}))

ASSUME StepsSuffice ==
  \A p \in ClausesOf(Matches), t \in SampleTerms : Elixir!MatchTerm(p, t).left = <<>>

BuildOf(f) ==
  \/ \E n \in Ints : IntValue(n)
  \/ \E atom \in f.atoms : AtomConst(atom)
  \/ \E t \in f.texts : StringConst(t)
  \/ \E t \in [1..f.arity -> Operand] : TupleLiteral(t)
  \/ EmptyList
  \/ f.cons /\ \E h, t \in Operand : ConsCell(h, t)
BeginMatchOf(f) == \E i \in Operand, m \in f.matches : StartMatch(m.op, i, m.clauses)

NextOf(f) ==
  \/ BeginMain \/ MatchStep \/ End
  \/ Len(env) < f.room /\ (BuildOf(f) \/ BeginMatchOf(f))

SpecOfFamilies ==
  /\ Init /\ family \in DOMAIN Families
  /\ [][NextOf(Families[family]) /\ UNCHANGED family]_<<vars, family>>
=============================================================================
