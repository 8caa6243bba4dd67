------------------------------ MODULE Optimizer ------------------------------
(***************************************************************************)
(* The passes of optimizer.ex that change the tree: constant propagation   *)
(* and dead code elimination.  StaticAnalysis, which runs before them,     *)
(* only annotates nodes, and nothing reads its annotations.                *)
(*                                                                         *)
(* KeepsTrue is not used: it is a slip IsFalse could hold, kept to show    *)
(* which property notices.                                                 *)
(***************************************************************************)
EXTENDS ElixirAst

(* Arithmetic on constants that Elixir raises for fails the compilation. *)
Fails == Node("fail", <<>>)
HasFailed(e) == \E n \in Nodes(e) : n.k = "fail"

-----------------------------------------------------------------------------
(* `known` gives the constant a variable's key stands for. *)
Folded(e) ==
  LET v == Compute(e.op, e.cs[1].v, e.cs[2].v)
  IN IF v = NoValue THEN Fails ELSE Const(v)

PropagateNode(e, known) ==
  CASE /\ e.k = "=" /\ e.cs[1].k = "var" /\ IsConst(e.cs[2]) ->
         [e |-> e.cs[2],
          acc |-> [key \in DOMAIN known \cup {e.cs[1].key} |->
                     IF key = e.cs[1].key THEN e.cs[2] ELSE known[key]]]
    [] /\ e.k = "op" /\ e.op # "<" /\ IsConst(e.cs[1]) /\ IsConst(e.cs[2]) ->
         [e |-> Folded(e), acc |-> known]
    [] e.k = "var" ->
         [e |-> IF e.key \in DOMAIN known THEN known[e.key] ELSE e, acc |-> known]
    [] OTHER -> [e |-> e, acc |-> known]

RECURSIVE Propagate(_, _)
Propagate(e, known) ==
  LET walked == WalkChildren(Propagate, e, known)
  IN PropagateNode(walked.e, walked.acc)

ConstantPropagation(e) == Propagate(e, <<>>).e

-----------------------------------------------------------------------------
(* The block of the first clause whose pattern is the constant, if any is. *)
AnalyzeCase(e) ==
  LET clauses == {i \in 1..ClauseCount(e) :
                    IsConst(e.cs[2 * i]) /\ Equal(e.cs[2 * i].v, e.cs[1].v)}
  IN IF IsConst(e.cs[1]) /\ clauses # {} THEN e.cs[2 * Min(clauses) + 1] ELSE e

(* Clauses on the constant false go; a first clause on true is the cond. *)
KeepsTrue(e) == IsConst(e) /\ e.v # True
IsFalse(e) == e = Const(False)
AnalyzeCond(e) ==
  LET clauses == [i \in 1..ClauseCount(e) |-> SubSeq(e.cs, 2 * i - 1, 2 * i)]
      kept == SelectSeq(clauses, LAMBDA c : ~IsFalse(c[1]))
  IN IF kept = <<>> THEN CondOf(<<>>)
     ELSE IF kept[1][1] = Const(True) THEN kept[1][2]
     ELSE CondOf(FlattenSeq(kept))

RECURSIVE Pruned(_)
Pruned(e) ==
  MapChildren(Pruned, CASE e.k = "case" -> AnalyzeCase(e)
                        [] e.k = "cond" -> AnalyzeCond(e)
                        [] OTHER -> e)

(* eliminate_constants_in_code: all but the last, which is the result *)
WithoutConstants(es) ==
  SelectSeq(Front(es), LAMBDA c : ~IsConst(c)) \o <<Last(es)>>

RECURSIVE ConstantsEliminated(_)
ConstantsEliminated(e) ==
  MapChildren(ConstantsEliminated,
              IF e.k = "block" THEN Block(WithoutConstants(e.cs)) ELSE e)

RECURSIVE ExpandedBlocks(_)
ExpandedBlocks(es) ==
  FlattenSeq([i \in DOMAIN es |-> IF es[i].k = "block" THEN ExpandedBlocks(es[i].cs)
                                  ELSE <<es[i]>>])

RECURSIVE BlocksJoined(_)
BlocksJoined(e) ==
  MapChildren(BlocksJoined, IF e.k = "block" THEN Block(ExpandedBlocks(e.cs)) ELSE e)

DeadCodeElimination(e) == BlocksJoined(ConstantsEliminated(Pruned(e)))

Optimized(e) ==
  LET propagated == ConstantPropagation(e)
  IN IF HasFailed(propagated) THEN Fails ELSE DeadCodeElimination(propagated)
=============================================================================
