----------------------------- MODULE Compilation -----------------------------
(***************************************************************************)
(* The pipeline with the compiler's own passes, and what they keep.        *)
(***************************************************************************)
EXTENDS CompilePipeline, FuelExpansion, Optimizer, TypePropagation

CONSTANTS
  Input,        (* what the field of the context may be when main runs    *)
  FunctionOf(_) (* the one function a source's main calls with fuel, as    *)
                (* [formals, body], or Failure if it is not defined       *)

BurnedOnce(tree, s) ==
  IF FunctionOf(s) = Failure THEN Failure
  ELSE BurnPass(tree, FunctionOf(s).formals, FunctionOf(s).body)

(* Optimizer.run *)
OptimizerRun(tree) ==
  LET optimized == Optimized(tree)
  IN IF optimized = Fails THEN Failure ELSE TypesPropagated(optimized)

(* The translator knows no calls of the user's functions. *)
NoCallLeft(tree) == \A n \in Nodes(tree) : n.k # "call"

-----------------------------------------------------------------------------
SourceMeaning(s, n) == Meaning(MainOf(s), FunctionOf(s).formals, FunctionOf(s).body, n)
TreeMeaning(tree, n) == Meaning(tree, <<>>, Raise, n)

(***************************************************************************)
(* What burn_fuel makes of main prints and gives what main does when each  *)
(* call of the function has the fuel its caller has, less one, and raises  *)
(* where a call has none left, and only there.                             *)
(***************************************************************************)
FuelIsSpent ==
  \A m \in Module : pc[m] = "optimize" =>
    \A n \in Input : TreeMeaning(ast[m], n) = SourceMeaning(src[m], n)

(***************************************************************************)
(* What the translator gets prints and gives what the source does: neither *)
(* propagating constants nor leaving code out changes it.  (No float is    *)
(* matched with an integer pattern, and no clause is unreachable.)         *)
(***************************************************************************)
MeaningIsKept ==
  \A m \in Module : pc[m] = "generate" =>
    \A n \in Input : TreeMeaning(ast[m], n) = SourceMeaning(src[m], n)

(***************************************************************************)
(* What the translator makes a C int of is an integer whenever main gets   *)
(* there, or a boolean, which is what < of integers gives.                 *)
(***************************************************************************)
TypesHold ==
  \A m \in Module : pc[m] = "generate" =>
    \A n \in Input : Evaluated(ast[m], <<>>, Raise, n).typed
=============================================================================
