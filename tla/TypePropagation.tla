--------------------------- MODULE TypePropagation ---------------------------
(***************************************************************************)
(* Type analysis (type_propagation.ex): a pass from the leaves up that     *)
(* gives each node the set of types its value may have, none standing for  *)
(* any.  The translator makes a C int of what has the one type integer.    *)
(*                                                                         *)
(* OfDivisionInteger is not used: it is a slip OfDivision could hold, kept *)
(* to show which property notices.                                         *)
(***************************************************************************)
EXTENDS ElixirAst

TypesOf(e) ==
  IF IsConst(e)
  THEN {CASE e.v.t = "int" -> "integer" [] e.v.t = "float" -> "float" [] OTHER -> "atom"}
  ELSE e.types

Numeric == {"integer", "float"}
OfNumbers(s, t) == (* + - * < > *)
  IF s = "integer" /\ t = "integer" THEN "integer"
  ELSE IF {s, t} \subseteq Numeric THEN "float" ELSE "invalid"

(* The code puts a set of types where a type belongs: it equals no type. *)
OfDivisionInteger(s, t) == IF s = "integer" /\ t = "integer" THEN "integer" ELSE "{float}"
OfDivision(s, t) == IF {s, t} \subseteq Numeric THEN "{float}" ELSE "{invalid}"

OfOperation(e) ==
  LET pairs == TypesOf(e.cs[1]) \X TypesOf(e.cs[2])
  IN CASE e.op = "==" -> {"boolean"}
       [] e.op = "/" -> {OfDivision(p[1], p[2]) : p \in pairs}
       [] OTHER -> {OfNumbers(p[1], p[2]) : p \in pairs}

Typed(e, types) == IF IsConst(e) THEN e ELSE [types |-> types] @@ e

(* `context` gives the types of the variables met so far (TPContext). *)
TypesIn(key, context) == IF key \in DOMAIN context THEN context[key] ELSE {}
WithTypes(context, key, types) ==
  [k \in DOMAIN context \cup {key} |-> IF k = key THEN types ELSE context[k]]

TypeNode(e, context) ==
  CASE e.k = "=" /\ e.cs[1].k = "var" ->
         LET types == TypesOf(e.cs[2])
             lhs == Typed(e.cs[1], types \cup e.cs[1].types)
         IN [e |-> Typed([e EXCEPT !.cs[1] = lhs], types),
             acc |-> WithTypes(context, lhs.key, types)]
    [] e.k = "var" ->
         LET types == TypesIn(e.key, context)
         IN [e |-> Typed(e, types), acc |-> WithTypes(context, e.key, types)]
    [] e.k = "op" -> [e |-> Typed(e, OfOperation(e)), acc |-> context]
    [] e.k \in {"field", "print"} -> [e |-> Typed(e, {"integer"}), acc |-> context]
    [] OTHER -> [e |-> Typed(e, {}), acc |-> context]

RECURSIVE TypedFrom(_, _)
TypedFrom(e, context) ==
  LET walked == WalkChildren(TypedFrom, e, context)
  IN TypeNode(walked.e, walked.acc)

TypesPropagated(e) == TypedFrom(e, <<>>).e
=============================================================================
