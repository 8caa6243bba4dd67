------------------------------ MODULE ElixirAst ------------------------------
(***************************************************************************)
(* The abstract syntax trees the compiler's passes work on, of the part of *)
(* Elixir that has integers, atoms, variables, `=`, arithmetic, ==, <,     *)
(* blocks, case, cond, printing, raise and calls of one recursive          *)
(* function, and what such a tree means in Elixir.                         *)
(*                                                                         *)
(* A node has its kind `k` and its children `cs`, and what its kind needs. *)
(* A variable's key is what Utils.Core's var_to_key makes of it: a name, a *)
(* version, which Elixir gives each binding of a function anew, and a      *)
(* context, <<>> for variables of the source.                              *)
(***************************************************************************)
EXTENDS Integers, Sequences, SequencesExt

Int32Value(n) == [t |-> "int", n |-> n]
AtomValue(a) == [t |-> "atom", a |-> a]
True == AtomValue("true")
False == AtomValue("false")
Nil == AtomValue("nil")

Node(k, cs) == [k |-> k, cs |-> cs]
Const(v) == [k |-> "const", v |-> v, cs |-> <<>>]
Number(n) == Const(Int32Value(n))
Var(name, version) == [k |-> "var", key |-> <<name, version, <<>>>>, cs |-> <<>>]
Wildcard == Node("any", <<>>)      (* the pattern _ *)
Field == Node("field", <<>>)       (* ctx.pid       *)
Raise == Node("raise", <<>>)
Matches(l, r) == Node("=", <<l, r>>)
Op(op, l, r) == [k |-> "op", op |-> op, cs |-> <<l, r>>]
Block(es) == Node("block", es)
CaseOf(subject, clauses) == Node("case", <<subject>> \o clauses)
CondOf(clauses) == Node("cond", clauses)  (* <<condition, block, ...>> *)
Printk(e) == Node("print", <<e>>)
(* `fuel` is the call's metadata: amounts, the latest first *)
Call(fuel, args) == [k |-> "call", fuel |-> fuel, cs |-> args]

IsConst(e) == e.k = "const"
ClauseCount(e) == Len(e.cs) \div 2

(* Walks the children from left to right, F(e, acc) giving [e, acc]. *)
WalkChildren(F(_, _), e, acc) ==
  LET step(w, c) == LET r == F(c, w.acc)
                    IN [cs |-> Append(w.cs, r.e), acc |-> r.acc]
      walked == FoldLeft(step, [cs |-> <<>>, acc |-> acc], e.cs)
  IN [e |-> [e EXCEPT !.cs = walked.cs], acc |-> walked.acc]

MapChildren(F(_), e) == [e EXCEPT !.cs = [i \in DOMAIN e.cs |-> F(e.cs[i])]]

RECURSIVE Nodes(_)
Nodes(e) == {e} \cup UNION {Nodes(e.cs[i]) : i \in DOMAIN e.cs}

-----------------------------------------------------------------------------
(* Values: integers, floats as fractions, atoms. *)
IsNumber(v) == v.t # "atom"
Denominator(v) == IF v.t = "float" THEN v.d ELSE 1

Gcd(a, b) ==
  LET m == IF a < 0 THEN -a ELSE a
  IN IF m = 0 THEN b ELSE Max({d \in 1..b : m % d = 0 /\ b % d = 0})
Float(n, d) ==
  LET g == Gcd(n, IF d < 0 THEN -d ELSE d) * (IF d < 0 THEN -1 ELSE 1)
  IN [t |-> "float", n |-> n \div g, d |-> d \div g]

Scaled(u, v) == u.n * Denominator(v)
Equal(u, v) == (* == *)
  IF IsNumber(u) /\ IsNumber(v) THEN Scaled(u, v) = Scaled(v, u) ELSE u = v
Truth(b) == IF b THEN True ELSE False
Truthy(v) == v \notin {Nil, False}

NoValue == AtomValue("ArithmeticError")
Arithmetic(op, u, v) ==
  LET x == Scaled(u, v)
      y == Scaled(v, u)
      d == Denominator(u) * Denominator(v)
      n == CASE op = "+" -> x + y [] op = "-" -> x - y [] op = "*" -> u.n * v.n
  IN IF ~IsNumber(u) \/ ~IsNumber(v) THEN NoValue
     ELSE IF op = "/" THEN IF v.n = 0 THEN NoValue ELSE Float(x, y)
     ELSE IF u.t = "int" /\ v.t = "int" THEN Int32Value(n) ELSE Float(n, d)

Compute(op, u, v) ==
  CASE op = "==" -> Truth(Equal(u, v))
    [] op = "<" -> IF IsNumber(u) /\ IsNumber(v) THEN Truth(Scaled(u, v) < Scaled(v, u))
                   ELSE Truth(IsNumber(u) /\ ~IsNumber(v)) (* numbers before atoms *)
    [] OTHER -> Arithmetic(op, u, v)

-----------------------------------------------------------------------------
(***************************************************************************)
(* Evaluation.  `run` has the function that is called, the value of Field  *)
(* and the fuel of the calls that say nothing of fuel, which are those in  *)
(* the function: one less than that of the call being made.  A call with   *)
(* no fuel left raises.  `typed` tells whether each node the type analysis *)
(* calls an integer is one, or a boolean, which is how a comparison of     *)
(* integers gets that type.                                                *)
(***************************************************************************)
Result(s, v) == [s EXCEPT !.v = v]
Raised(s) == [s EXCEPT !.ok = FALSE, !.v = Nil]
Bind(s, p, v) ==
  IF p.k = "var" THEN [s EXCEPT !.env = [key \in DOMAIN @ \cup {p.key} |->
                                           IF key = p.key THEN v ELSE @[key]]]
  ELSE s
Accepts(p, v) == p.k \in {"var", "any"} \/ (p.k = "const" /\ p.v = v)
Fits(e, v) ==
  "types" \in DOMAIN e /\ e.types = {"integer"} => v.t = "int" \/ v \in {True, False}

RECURSIVE Eval(_, _, _)
(* the nodes in order, as long as none raises; their values in vs *)
EvalAll(es, s, run) ==
  LET step(w, e) ==
        IF ~w.s.ok THEN w
        ELSE LET r == Eval(e, w.s, run) IN [s |-> r, vs |-> Append(w.vs, r.v)]
  IN FoldLeft(step, [s |-> s, vs |-> <<>>], es)

RECURSIVE EvalCond(_, _, _)
EvalCond(cs, s, run) ==
  IF cs = <<>> THEN Raised(s)
  ELSE LET c == Eval(cs[1], s, run)
       IN IF ~c.ok THEN c
          ELSE IF Truthy(c.v) THEN Eval(cs[2], c, run)
          ELSE EvalCond(SubSeq(cs, 3, Len(cs)), c, run)

EvalCase(e, s, run) ==
  LET c == Eval(e.cs[1], s, run)
      found == {i \in 1..ClauseCount(e) : Accepts(e.cs[2 * i], c.v)}
      i == Min(found)
  IN IF ~c.ok THEN c
     ELSE IF found = {} THEN Raised(c)
     ELSE Eval(e.cs[2 * i + 1], Bind(c, e.cs[2 * i], c.v), run)

EvalCall(e, s, run) ==
  LET fuel == IF e.fuel = <<>> THEN run.fuel ELSE Head(e.fuel)
      args == EvalAll(e.cs, s, run)
      bound == [key \in {f.key : f \in ToSet(run.formals)} |->
                  args.vs[CHOOSE i \in DOMAIN e.cs : run.formals[i].key = key]]
      r == Eval(run.body, [args.s EXCEPT !.env = bound], [run EXCEPT !.fuel = fuel - 1])
  IN IF fuel <= 0 THEN Raised(s)
     ELSE IF ~args.s.ok THEN args.s
     ELSE [r EXCEPT !.env = args.s.env]

EvalNode(e, s, run) ==
  LET all == EvalAll(e.cs, s, run)
  IN CASE e.k = "const" -> Result(s, e.v)
       [] e.k = "var" -> Result(s, s.env[e.key])
       [] e.k = "field" -> Result(s, Int32Value(run.input))
       [] e.k = "raise" -> Raised(s)
       [] e.k = "case" -> EvalCase(e, s, run)
       [] e.k = "cond" -> EvalCond(e.cs, s, run)
       [] e.k = "call" -> EvalCall(e, s, run)
       [] e.k = "=" ->
            LET r == Eval(e.cs[2], s, run)
            IN IF ~r.ok THEN r
               ELSE IF Accepts(e.cs[1], r.v) THEN Bind(r, e.cs[1], r.v) ELSE Raised(r)
       [] ~all.s.ok -> all.s
       [] e.k = "block" -> all.s
       [] e.k = "print" -> [Result(all.s, Int32Value(0)) EXCEPT !.out = Append(@, all.vs[1])]
       [] e.k = "op" ->
            LET v == Compute(e.op, all.vs[1], all.vs[2])
            IN IF v = NoValue THEN Raised(all.s) ELSE Result(all.s, v)

Eval(e, s, run) ==
  LET r == EvalNode(e, s, run)
  IN [r EXCEPT !.typed = @ /\ (r.ok => Fits(e, r.v))]

Evaluated(e, formals, body, input) ==
  Eval(e, [ok |-> TRUE, v |-> Nil, out |-> <<>>, env |-> <<>>, typed |-> TRUE],
       [formals |-> formals, body |-> body, input |-> input, fuel |-> 0])

(* what the program shows: what it prints, and its result or that it raised *)
Meaning(e, formals, body, input) ==
  LET r == Evaluated(e, formals, body, input)
  IN [out |-> r.out, ok |-> r.ok, v |-> r.v]
=============================================================================
