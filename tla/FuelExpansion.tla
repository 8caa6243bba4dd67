---------------------------- MODULE FuelExpansion ----------------------------
(***************************************************************************)
(* Fuel, which is how a program recurses: `fuel(n, f(...))` in main is     *)
(* replaced by the body of f, whose calls of f have one fuel less, until   *)
(* no fuel is left (recursion_expansion.ex).  burn_fuel makes one pass     *)
(* over the tree, from the leaves up, and then another, as long as a pass  *)
(* changes something.                                                      *)
(*                                                                         *)
(* The integer that makes a context unique is modelled by the place of the *)
(* call in the tree, which no two calls that are replaced share: what      *)
(* replaces a call has its own calls further down.                         *)
(*                                                                         *)
(* SameContext and HasFuelOrRaise are not used: each is a slip its         *)
(* neighbour could hold, kept to show which property notices.              *)
(***************************************************************************)
EXTENDS ElixirAst

(* some call has an amount of fuel; then burn_fuel makes a pass *)
HasFuelOrRaise(e) ==
  \E n \in Nodes(e) : (n.k = "call" /\ n.fuel # <<>>) \/ n.k = "raise"
HasFuel(e) == \E n \in Nodes(e) : n.k = "call" /\ n.fuel # <<>>

RECURSIVE ReplaceContext(_, _)
ReplaceContext(e, context) ==
  LET walked == MapChildren(LAMBDA c : ReplaceContext(c, context), e)
  IN IF e.k = "var" THEN [walked EXCEPT !.key[3] = context] ELSE walked

RECURSIVE AddFuel(_, _)
AddFuel(e, fuel) ==
  LET walked == MapChildren(LAMBDA c : AddFuel(c, fuel), e)
  IN IF e.k = "call" THEN [walked EXCEPT !.fuel = <<fuel>> \o @] ELSE walked

(* "Fuel<fuel>_<unique>" *)
SameContext(fuel, unique) == <<>>
FuelContext(fuel, unique) == <<fuel>> \o unique

(***************************************************************************)
(* get_def_for_reinjection: the parameters, in a context of their own, are *)
(* given the arguments, then comes the body in that context, and all calls *)
(* in both have one fuel less.                                             *)
(***************************************************************************)
Reinjected(call, formals, body, unique) ==
  LET fuel == Head(call.fuel)
      context == FuelContext(fuel, unique)
      parameters == [i \in DOMAIN formals |->
                       Matches(ReplaceContext(formals[i], context), call.cs[i])]
  IN AddFuel(Block(parameters \o <<ReplaceContext(body, context)>>), fuel - 1)

RECURSIVE BurnedFrom(_, _, _, _)
BurnedFrom(e, formals, body, place) ==
  LET child(i) == BurnedFrom(e.cs[i], formals, body, Append(place, i))
      walked == [e EXCEPT !.cs = [i \in DOMAIN e.cs |-> child(i)]]
  IN IF e.k # "call" THEN walked
     ELSE IF e.fuel = <<>> THEN walked
     ELSE IF Head(e.fuel) > 0 THEN Reinjected(walked, formals, body, place)
     ELSE Raise

(* one pass of burn_fuel *)
BurnPass(e, formals, body) == BurnedFrom(e, formals, body, <<>>)
=============================================================================
