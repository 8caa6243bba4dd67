------------------------------- MODULE Terms ----------------------------------
(***************************************************************************)
(* Constructors for Elixir terms and for the patterns of `=` and `case`,   *)
(* all with the same fields so that sets of them can be compared.          *)
(***************************************************************************)
EXTENDS Integers, Sequences

MkPattern(kind, n, text, atom, subs) ==
  [kind |-> kind, n |-> n, text |-> text, atom |-> atom, subs |-> subs]

PAny == MkPattern("any", 0, <<>>, "nil", <<>>)
PVar == MkPattern("var", 0, <<>>, "nil", <<>>)
PInt(n) == MkPattern("int", n, <<>>, "nil", <<>>)
PText(t) == MkPattern("text", 0, t, "nil", <<>>)
PAtom(a) == MkPattern("atom", 0, <<>>, a, <<>>)
PTuple(subs) == MkPattern("tuple", 0, <<>>, "nil", subs)
PList(subs) == MkPattern("list", 0, <<>>, "nil", subs)
PCons(h, t) == MkPattern("cons", 0, <<>>, "nil", <<h, t>>)

TInt(n) == PInt(n)
TText(t) == PText(t)
TAtom(a) == PAtom(a)
TTuple(s) == PTuple(s)
TNil == PList(<<>>)
TCons(h, t) == PCons(h, t)
NotATerm == MkPattern("none", 0, <<>>, "nil", <<>>)

(* p with its sub-patterns, down to depth 3 *)
SubsOf(p) == {p.subs[i] : i \in DOMAIN p.subs}
CloseOnce(S) == S \cup UNION {SubsOf(p) : p \in S}
Closure(S) == CloseOnce(CloseOnce(CloseOnce(S)))
ClausesOf(M) == UNION {{m.clauses[i] : i \in DOMAIN m.clauses} : m \in M}

Eq(p) == [op |-> "=", clauses |-> <<p>>]
Case(ps) == [op |-> "case", clauses |-> ps]
=============================================================================
