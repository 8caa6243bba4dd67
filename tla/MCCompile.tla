------------------------------ MODULE MCCompile ------------------------------
(* Instances of Compilation for TLC.  A source is a tuple that names its    *)
(* program: "fuel", function, argument and amount; "cond" or "case" and the *)
(* expressions in it; or "print", "zero"; "none" has no main, "call" calls  *)
(* a function without fuel and "undefined" one that is not there.           *)
EXTENDS Compilation

CONSTANTS m1, m2
VARIABLE family (* which of the behaviours below, unchanged *)

a == Var("a", 0)
b == Var("b", 1)
x == Var("x", 0)
z == Var("z", 2)
y == Var("y", 7)
Zero == Number(0)
One == Number(1)
Two == Number(2)
If(c, yes, no) == CaseOf(c, <<Const(False), no, Const(True), yes>>)
Recur(args) == Call(<<>>, args)
Less(n) == Op("-", a, Number(n))

-----------------------------------------------------------------------------
Factorial ==
  [formals |-> <<a>>, body |-> If(Op("==", a, One), One, Op("*", a, Recur(<<Less(1)>>)))]
Swap ==
  [formals |-> <<a, b>>, body |-> If(Op("==", a, Zero), b, Recur(<<b, Less(1)>>))]
Fibonacci ==
  [formals |-> <<a>>,
   body |-> If(Op("<", a, Two), a, Op("+", Recur(<<Less(1)>>), Recur(<<Less(2)>>)))]
Nested ==
  [formals |-> <<a>>,
   body |-> If(Op("<", a, One), a, Block(<<Printk(a), Recur(<<Recur(<<Less(1)>>)>>)>>))]
Effects ==
  [formals |-> <<a>>,
   body |-> CondOf(<<Op("<", a, One), Raise,
                     Const(True), Recur(<<Block(<<Printk(a), Less(1)>>)>>)>>)]
MCFunctions == <<Factorial, Fibonacci, Nested, Effects, Swap>>

FuelSources == {"fuel"} \X (DOMAIN MCFunctions) \X {1, 2} \X (0..3)
FuelMain(s) ==
  LET arg == <<Field, Two>>[s[3]]
      args == IF s[2] = 5 THEN <<arg, One>> ELSE <<arg>>
  IN Block(<<Matches(y, Call(<<s[4]>>, args)), Printk(y),
             Op("+", y, Call(<<s[4]>>, [i \in DOMAIN args |-> One]))>>)

-----------------------------------------------------------------------------
Bound ==
  <<Zero, One, Const(True), Field, Op("/", Number(4), Two), Op("+", Field, One),
    Op("/", Field, Two), Op("/", One, Zero)>>
Tests ==
  <<x, Const(True), Const(False), Const(Nil), Op("==", x, One), Op("<", x, One),
    Op("==", Op("*", One, Two), Two)>>
Lasts == <<Wildcard, Const(Nil), Var("w", 3)>>
Then(e) == Block(<<Printk(Number(7)), Matches(z, e), One, Block(<<Two, z>>)>>)

CondSources == {"cond"} \X (DOMAIN Bound) \X (DOMAIN Tests) \X (DOMAIN Tests)
CaseSources == {"case"} \X (DOMAIN Bound) \X (DOMAIN Tests) \X (DOMAIN Lasts)
BranchMain(s) ==
  LET test == Tests[s[3]]
      branch ==
        IF s[1] = "cond"
        THEN CondOf(<<test, Then(x), Tests[s[4]], Op("+", x, x), Const(True), Const(Nil)>>)
        ELSE CaseOf(test, <<Number(1), Then(One), Const(True), x, Lasts[s[4]], One>>)
  IN Block(<<Matches(x, Bound[s[2]]), Matches(y, branch), Op("<", x, y)>>)

-----------------------------------------------------------------------------
Passed == FuelSources \cup CondSources \cup CaseSources
Small == {<<"print">>, <<"zero">>}
Wrong == {<<"none">>, <<"call">>, <<"undefined">>}
MCSource == Passed \cup Small \cup Wrong

MCHasMain(s) == s[1] # "none"
MCMain(s) ==
  CASE s[1] = "fuel" -> FuelMain(s) [] s[1] \in {"cond", "case"} -> BranchMain(s)
    [] s[1] = "print" -> Printk(One) [] s[1] = "zero" -> Zero
    [] s[1] = "call" -> Call(<<>>, <<One>>) [] s[1] = "undefined" -> Call(<<1>>, <<One>>)
MCFunction(s) ==
  CASE s[1] = "fuel" -> MCFunctions[s[2]] [] s[1] = "undefined" -> Failure
    [] OTHER -> Factorial

(* Any one program; one module that is edited and interrupted; and two modules *)
(* compiled beside each other.                                                 *)
Alone(p) == (m1 :> p) @@ (m2 :> Absent)
InitMC ==
  /\ \/ family = "passes" /\ source \in {Alone(p) : p \in Passed}
     \/ family = "edited" /\ source \in {Alone(p) : p \in Small}
     \/ family = "pair" /\ source = (m1 :> <<"print">>) @@ (m2 :> <<"zero">>)
  /\ Init

Edited == \E s \in Small \cup Wrong : Edit(m1, s)
NextMC ==
  \/ MixCompile /\ UNCHANGED family
  \/ MixEnds /\ UNCHANGED family
  \/ \E m \in Module : Compile(m) /\ UNCHANGED family
  \/ Interrupt /\ family = "edited" /\ UNCHANGED family
  \/ Edited /\ family = "edited" /\ UNCHANGED family
SpecMC == InitMC /\ [][NextMC]_<<vars, family>> /\ Fairness
=============================================================================
