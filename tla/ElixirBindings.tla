---------------------------- MODULE ElixirBindings ----------------------------
(***************************************************************************)
(* What an invocation of main/1 means in Elixir: variables are bound to    *)
(* immutable terms, constructors build terms out of bound ones, and `=`    *)
(* and `case` take terms apart by Elixir's matching rules.  There is no    *)
(* memory; a constructor may raise (that is all a full pool may do to a    *)
(* program), and a match raises exactly when no clause matches.            *)
(***************************************************************************)
EXTENDS Integers, Sequences, Terms

CONSTANTS
  Ints, AtomConsts, Texts, Arities, Matches, MaxBindings, (* as in RuntimeMemory *)
  MatchSteps (* bound: how many parts a pattern has *)

VARIABLES
  bindings, (* the terms bound so far                              *)
  status,   (* "idle", "run" or "raised"                           *)
  stmt,     (* the statement executed last, with its operands      *)
  ret       (* what the last finished invocation returned          *)

vars == <<bindings, status, stmt, ret>>

(***************************************************************************)
(* Matching, left to right: the parts of a pattern that are still to be    *)
(* compared, each with its term, and the terms that variables have taken.  *)
(***************************************************************************)
Pair(p, t) == [pat |-> p, term |-> t]
StartOf(p, t) == [ok |-> TRUE, left |-> <<Pair(p, t)>>, terms |-> <<>>]
Failed == [ok |-> FALSE, left |-> <<>>, terms |-> <<>>]

(* m with the pairs in place of its first one, and with what that one binds *)
Into(m, pairs, bound) ==
  [ok |-> TRUE, left |-> pairs \o Tail(m.left), terms |-> m.terms \o bound]

IsConstant(p, t) ==
  \/ p.kind = "int" /\ t = TInt(p.n)
  \/ p.kind = "text" /\ t = TText(p.text)
  \/ p.kind = "atom" /\ t = TAtom(p.atom)

Compare(m, p, t) ==
  CASE p.kind = "any" \/ IsConstant(p, t) -> Into(m, <<>>, <<>>)
    [] p.kind = "var" -> Into(m, <<>>, <<t>>)
    [] p.kind = "tuple" /\ t.kind = "tuple" /\ Len(p.subs) = Len(t.subs) ->
         Into(m, [i \in 1..Len(p.subs) |-> Pair(p.subs[i], t.subs[i])], <<>>)
    [] p.kind = "cons" /\ t.kind = "cons" ->
         Into(m, <<Pair(p.subs[1], t.subs[1]), Pair(p.subs[2], t.subs[2])>>, <<>>)
    [] p.kind = "list" /\ p.subs = <<>> /\ t = TNil -> Into(m, <<>>, <<>>)
    [] p.kind = "list" /\ p.subs # <<>> /\ t.kind = "cons" ->
         Into(m, <<Pair(p.subs[1], t.subs[1]), Pair(PList(Tail(p.subs)), t.subs[2])>>, <<>>)
    [] OTHER -> Failed

Advance(m) == IF m.left = <<>> THEN m ELSE Compare(m, m.left[1].pat, m.left[1].term)

(* the match of p with t, step by step *)
Run(p, t) ==
  LET run[k \in 0..MatchSteps] == IF k = 0 THEN StartOf(p, t) ELSE Advance(run[k - 1])
  IN run

(* what p's variables take in t, or Failed *)
MatchTerm(p, t) == Run(p, t)[MatchSteps]

(* the first clause that matches decides a case *)
FirstMatch(clauses, t) ==
  LET matching == {i \in DOMAIN clauses : MatchTerm(clauses[i], t).ok}
      first == CHOOSE i \in matching : \A j \in matching : i <= j
  IN IF matching = {} THEN Failed ELSE MatchTerm(clauses[first], t)

-----------------------------------------------------------------------------
Operand == 1..Len(bindings)
Stmt(op, args, pats) == [op |-> op, args |-> args, pats |-> pats]

Init ==
  /\ bindings = <<>> /\ status = "idle" /\ ret = 0
  /\ stmt = Stmt("none", <<>>, <<>>)

BeginMain ==
  /\ status = "idle" /\ status' = "run" /\ bindings' = <<>>
  /\ stmt' = Stmt("none", <<>>, <<>>) /\ UNCHANGED ret

Binds(s, t) ==
  /\ status = "run" /\ Len(bindings) < MaxBindings
  /\ stmt' = s
  /\ bindings' = Append(bindings, t)
  /\ UNCHANGED <<status, ret>>

Raises(s) ==
  /\ status = "run" /\ status' = "raised"
  /\ stmt' = s
  /\ UNCHANGED <<bindings, ret>>

Builds(s, t) == Binds(s, t) \/ Raises(s)

Build ==
  \/ \E n \in Ints : Binds(Stmt("int", <<n>>, <<>>), TInt(n))
  \/ \E a \in AtomConsts : Binds(Stmt("atom", <<a>>, <<>>), TAtom(a))
  \/ \E t \in Texts : Builds(Stmt("text", <<t>>, <<>>), TText(t))
  \/ Builds(Stmt("nil_list", <<>>, <<>>), TNil)
  \/ \E n \in Arities : \E args \in [1..n -> Operand] :
       Builds(Stmt("tuple", args, <<>>), TTuple([i \in 1..n |-> bindings[args[i]]]))
  \/ \E h, t \in Operand :
       Builds(Stmt("cons", <<h, t>>, <<>>), TCons(bindings[h], bindings[t]))

Match(i, m) ==
  LET found == FirstMatch(m.clauses, bindings[i])
      s == Stmt(m.op, <<i>>, m.clauses)
  IN /\ status = "run"
     /\ stmt' = s
     /\ IF found.ok
          THEN bindings' = bindings \o found.terms /\ UNCHANGED <<status, ret>>
          ELSE Raises(s)

Return(i) ==
  LET s == Stmt("return", <<i>>, <<>>)
  IN /\ status = "run"
     /\ stmt' = s
     /\ IF bindings[i].kind = "int"
          THEN ret' = bindings[i].n /\ status' = "idle" /\ bindings' = <<>>
          ELSE Raises(s)

(* An exception is printed and the program exits with status 0. *)
Exits ==
  /\ status = "raised" /\ status' = "idle"
  /\ ret' = 0 /\ bindings' = <<>> /\ stmt' = Stmt("none", <<>>, <<>>)

Next ==
  \/ BeginMain \/ Build
  \/ \E i \in Operand : (\E m \in Matches : Match(i, m)) \/ Return(i)
  \/ Raises(Stmt("raise", <<>>, <<>>)) \/ Exits

Spec == Init /\ [][Next]_vars
=============================================================================
