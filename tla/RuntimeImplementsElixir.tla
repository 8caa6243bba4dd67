----------------------- MODULE RuntimeImplementsElixir -----------------------
(***************************************************************************)
(* RuntimeMemory implements ElixirBindings: every Generic in a C variable  *)
(* denotes, through the pools, the term the program bound.                 *)
(***************************************************************************)
EXTENDS RuntimeMemory, Terms

CONSTANT MatchSteps (* bound: how many parts a pattern has *)

ASSUME MatchStepsAssumption == MatchSteps \in Nat

AtomAt(start) == CHOOSE a \in Atoms : MkAtom(a).start = start

(* The term of Generic v, given those of the heap cells up to a limit. *)
TermOf(v, terms, limit) ==
  LET Part(i) == LET cell == tuple_pool[v.start + i - 1]
                 IN IF cell \in 0..(limit - 1) THEN terms[cell] ELSE NotATerm
  IN CASE v.type = "INTEGER" -> TInt(v.start)
       [] v.type = "ATOM" -> TAtom(AtomAt(v.start))
       [] v.type = "STRING" ->
            TText([i \in 1..(v.end - v.start) |-> string_pool[v.start + i - 1]])
       [] v = EmptyListValue -> TNil
       [] v.type = "LIST" /\ v # EmptyListValue -> TCons(Part(1), Part(2))
       [] v.type = "TUPLE" -> TTuple([i \in 1..(v.end - v.start + 1) |-> Part(i)])
       [] OTHER -> NotATerm

(* The terms of the heap cells: a cell refers to earlier ones only. *)
CellTerms == LET terms[i \in HeapIndices] == TermOf(heap[i], terms, i) IN terms

Term(v) == TermOf(v, CellTerms, HEAP_SIZE)

Bindings == [i \in 1..Len(env) |-> Term(env[i])]
Status == CASE pc = "idle" -> "idle" [] pc = "CATCH" -> "raised"
            [] OTHER -> "run"

Elixir == INSTANCE ElixirBindings WITH
  bindings <- Bindings,
  status <- Status

(* While a match is under way its statement has not happened yet. *)
ImplementsElixir == Elixir!Spec
=============================================================================
