-------------------------- MODULE MCRuntimeOperators --------------------------
(* Instances of RuntimeOperators for TLC: 3-bit ints, 4-bit unsigneds. *)
EXTENDS RuntimeOperators

VARIABLE family (* which of the programs below, unchanged *)

AllInts == -4..3

(* Generics through longer chains of the exact operators; everything else. *)
Families ==
  [exact |-> [static |-> {"any"}, operators |-> ExactOperators, room |-> 4],
   every |-> [static |-> StaticTypes, operators |-> Operators, room |-> 3]]

InputOf(f) == \E static \in f.static, n \in Inputs : Input(static, n)
OperateOf(f) ==
  \E op \in f.operators, i, j \in Operand :
    GenericOperation(op, i, j) \/ TypedOperation(op, i, j)
NextOf(f) ==
  \/ Len(values) < f.room /\ (InputOf(f) \/ OperateOf(f))
  \/ Branch \/ EndMain

SpecOfFamilies ==
  /\ family \in DOMAIN Families /\ Init
  /\ [][NextOf(Families[family]) /\ UNCHANGED family]_<<vars, family>>
=============================================================================
