--------------------------- MODULE MCRuntimeMemory ---------------------------
(* Instances of RuntimeMemory for TLC. *)
EXTENDS RuntimeMemory, Terms

CONSTANT a, b

MCChar == {a, b}

(* Any program: tuples of one or two elements, patterns of every kind. *)
AnyMatches ==
  {Eq(PTuple(<<PVar, PInt(1)>>)), Eq(PCons(PVar, PAny)), Eq(PList(<<PInt(1)>>)),
   Eq(PText(<<a>>)),
   Case(<<PText(<<a>>), PAtom("nil"), PTuple(<<PText(<<a>>), PVar>>)>>)}
AnyPatterns == Closure(ClausesOf(AnyMatches))
(* with their NULs, two of these are exactly a pool of 12, one too much *)
LongText == {<<a, a, a, a, b>>}

MCInts == {1}
==============================================================================
