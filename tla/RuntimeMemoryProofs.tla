-------------------------- MODULE RuntimeMemoryProofs --------------------------
(***************************************************************************)
(* Proofs about RuntimeMemory and its refinement of ElixirBindings, for    *)
(* every size of the pools, every set of constants and patterns, and any   *)
(* number of invocations.                                                  *)
(*                                                                         *)
(* The inductive invariant is Typed(SafeGeneric): the types, with every    *)
(* Generic in a variable, in a pending check or in ANY heap cell, live or  *)
(* garbage, bounded.  PoolBounds for the variables alone is not inductive: *)
(* a pattern with more elements than its tuple copies garbage into them.   *)
(***************************************************************************)
EXTENDS RuntimeImplementsElixir, SequenceTheorems, WellFoundedInduction, TLAPS

SafeGeneric == {v \in Generic : Bounded(v)}
IInv == Typed(SafeGeneric)

-----------------------------------------------------------------------------
(***************************************************************************)
(* Writing a sequence into a memory keeps the memory's domain and range,   *)
(* stores the sequence, and leaves everything else alone.                  *)
(***************************************************************************)
LEMMA FillProperties ==
  ASSUME NEW I, NEW S, NEW f \in [I -> S], NEW from \in Int,
         NEW s \in Seq(S), I \subseteq Int
  PROVE  /\ Fill(f, from, s) \in [I -> S]
         /\ \A i \in I : i < from => Fill(f, from, s)[i] = f[i]
<1>1. Len(s) \in Nat
  BY LenProperties
<1>2. ASSUME NEW i \in I, i \in from..(from + Len(s) - 1)
      PROVE  s[i - from + 1] \in S
  <2>1. i - from + 1 \in 1..Len(s)
    BY <1>1, <1>2
  <2>2. QED
    BY <2>1, ElementOfSeq
<1>3. DOMAIN f = I
  OBVIOUS
<1>4. \A i \in I : i < from => i \notin from..(from + Len(s) - 1)
  BY <1>1
<1>5. QED
  BY <1>2, <1>3, <1>4 DEF Fill

(***************************************************************************)
(* The Generics the emitted code makes are bounded.                        *)
(***************************************************************************)
LEMMA SafeValues ==
  /\ ZeroGeneric \in SafeGeneric
  /\ EmptyListValue \in SafeGeneric
  /\ \A n \in Int : MkInteger(n) \in SafeGeneric
  /\ \A a \in Atoms : MkAtom(a) \in SafeGeneric
  /\ \A i, j \in Int : 0 <= i /\ i <= j /\ j < STRING_POOL_SIZE
       => MkGeneric("STRING", i, j) \in SafeGeneric
  /\ \A i, j \in Int : 0 <= i /\ i <= j + 1 /\ j < TUPLE_POOL_SIZE
       => MkGeneric("TUPLE", i, j) \in SafeGeneric
  /\ \A i \in Int : 0 <= i /\ i + 1 < TUPLE_POOL_SIZE
       => MkGeneric("LIST", i, i + 1) \in SafeGeneric
BY DEF SafeGeneric, Generic, Types, Bounded, MkGeneric, MkInteger, MkAtom,
       ZeroGeneric, EmptyListValue, Atoms

LEMMA SafeIsGeneric == SafeGeneric \subseteq Generic
BY DEF SafeGeneric

LEMMA IndicesAreIntegers ==
  StringIndices \subseteq Int /\ TupleIndices \subseteq Int /\ HeapIndices \subseteq Int
BY DEF StringIndices, TupleIndices, HeapIndices

LEMMA PairIsSeq ==
  ASSUME NEW S, NEW x \in S, NEW y \in S
  PROVE  <<x, y>> \in Seq(S)
OBVIOUS

(* A sequence of at most two elements, cut. *)
LEMMA CutPair ==
  ASSUME NEW S, NEW x \in S, NEW y \in S, NEW n \in 0..2
  PROVE  SubSeq(<<x, y>>, 1, n) \in Seq(S)
<1>1. <<x, y>> \in Seq(S) /\ Len(<<x, y>>) = 2
  OBVIOUS
<1>2. \A i \in 1..n : i \in 1..2
  OBVIOUS
<1>3. QED
  BY <1>1, <1>2, SubSeqProperties

LEMMA InitSafe == Init => IInv
<1> SUFFICES ASSUME Init PROVE IInv
  OBVIOUS
<1>1. PoolsTyped(SafeGeneric)
  BY SafeValues, SizeAssumption
     DEF Init, PoolsTyped, StringIndices, TupleIndices, HeapIndices, AllChars
<1>2. LocalsTyped(SafeGeneric)
  BY EmptySeq DEF Init, LocalsTyped
<1>3. QED
  BY <1>1, <1>2 DEF Init, IInv, Typed, GoalTyped
-----------------------------------------------------------------------------
(***************************************************************************)
(* The statements that build values.                                       *)
(***************************************************************************)
LEMMA BindSafe ==
  ASSUME LocalsTyped(SafeGeneric), NEW v \in SafeGeneric,
         env' = Append(env, v), UNCHANGED <<binds, work>>
  PROVE  LocalsTyped(SafeGeneric)'
BY AppendProperties DEF LocalsTyped, Checks

LEMMA OperandSafe ==
  ASSUME LocalsTyped(SafeGeneric), NEW i \in Operand
  PROVE  env[i] \in SafeGeneric
BY ElementOfSeq DEF LocalsTyped, Operand

LEMMA BeginMainSafe == IInv /\ BeginMain => IInv'
<1> SUFFICES ASSUME IInv, BeginMain PROVE IInv'
  OBVIOUS
<1>1. BootText \in Seq(AllChars)
  BY DEF BootText, AllChars
<1>2. string_pool' \in [StringIndices -> AllChars]
  <2>1. string_pool \in [StringIndices -> AllChars]
    BY DEF IInv, Typed, PoolsTyped
  <2>2. string_pool' = Fill(string_pool, 0, BootText)
    BY DEF BeginMain
  <2>3. 0 \in Int
    OBVIOUS
  <2>4. QED
    BY <1>1, <2>1, <2>2, <2>3, IndicesAreIntegers, FillProperties
<1>3. PoolsTyped(SafeGeneric)'
  BY <1>2, SizeAssumption DEF BeginMain, ResetIndices, IInv, Typed, PoolsTyped, StringIndices,
       TupleIndices, HeapIndices
<1>4. LocalsTyped(SafeGeneric)'
  BY EmptySeq DEF BeginMain, IInv, Typed, LocalsTyped, Checks, matching
<1>5. QED
  BY <1>3, <1>4 DEF BeginMain, IInv, Typed, GoalTyped

LEMMA ScalarSafe ==
  ASSUME IInv, \/ \E n \in Ints : IntValue(n)
               \/ \E a \in AtomConsts : AtomConst(a)
  PROVE  IInv'
<1>1. PICK v \in SafeGeneric : env' = Append(env, v)
  BY SafeValues, DataAssumption DEF IntValue, AtomConst, Bind
<1>2. /\ UNCHANGED <<pools, matching, ret, pc>> /\ pc = "run"
  BY DEF IntValue, AtomConst, Bind
<1>3. LocalsTyped(SafeGeneric)'
  BY <1>1, <1>2, BindSafe DEF IInv, Typed, matching
<1>4. PoolsTyped(SafeGeneric)'
  BY <1>2 DEF IInv, Typed, PoolsTyped, pools
<1>5. QED
  BY <1>2, <1>3, <1>4 DEF IInv, Typed, GoalTyped

LEMMA StringConstSafe ==
  ASSUME IInv, NEW t \in Texts, StringConst(t)
  PROVE  IInv'
<1> DEFINE len == Len(t) + 1
<1> DEFINE last == LastIndex(string_pool_index, len)
<1>1. /\ Append(t, NUL) \in Seq(AllChars)
      /\ len \in Nat \ {0}
  <2>1. t \in Seq(AllChars)
    BY DataAssumption, SeqMonotonic DEF AllChars
  <2>2. QED
    BY <2>1, AppendProperties, LenProperties DEF AllChars
<1>2. CASE ~StringFits(last)
  <2>1. /\ UNCHANGED <<pools, env, matching, ret>> /\ pc' = "CATCH"
    BY <1>2 DEF StringConst, GotoCatch, pools
  <2>2. QED
    BY <2>1 DEF IInv, Typed, PoolsTyped, LocalsTyped, Checks, GoalTyped, pools, matching
<1>3. CASE StringFits(last)
  <2>1. /\ string_pool' = Fill(string_pool, string_pool_index, Append(t, NUL))
        /\ string_pool_index' = AfterLast(last)
        /\ env' = Append(env, MkGeneric("STRING", string_pool_index, last))
        /\ UNCHANGED <<pc, tuple_pool, tuple_pool_index, heap, heap_index, matching, ret>>
        /\ pc = "run"
    BY <1>3 DEF StringConst, Bind
  <2>2. string_pool_index \in Nat /\ STRING_POOL_SIZE \in Nat
    BY SizeAssumption DEF IInv, Typed, PoolsTyped, StringIndices
  <2>3. MkGeneric("STRING", string_pool_index, last) \in SafeGeneric
    BY <1>1, <1>3, <2>2, SafeValues DEF LastIndex, StringFits
  <2>4. string_pool' \in [StringIndices -> AllChars]
    <3>1. string_pool \in [StringIndices -> AllChars] /\ string_pool_index \in Int
      BY <2>2 DEF IInv, Typed, PoolsTyped
    <3>2. QED
      BY <1>1, <2>1, <3>1, IndicesAreIntegers, FillProperties
  <2>5. string_pool_index' \in StringIndices
    BY <1>1, <1>3, <2>1, <2>2 DEF StringIndices, LastIndex, StringFits, AfterLast
  <2>6. PoolsTyped(SafeGeneric)'
    BY <2>1, <2>4, <2>5 DEF IInv, Typed, PoolsTyped
  <2>7. LocalsTyped(SafeGeneric)'
    BY <2>1, <2>3, BindSafe DEF IInv, Typed, matching
  <2>8. QED
    BY <2>1, <2>6, <2>7 DEF IInv, Typed, GoalTyped
<1>4. QED
  BY <1>2, <1>3
LEMMA FunctionIsSeq ==
  ASSUME NEW S, NEW k \in Nat, NEW f \in [1..k -> S]
  PROVE  f \in Seq(S) /\ Len(f) = k
<1>1. f \in Seq(S)
  BY SeqDef
<1>2. DOMAIN f = 1..k /\ DOMAIN f = 1..Len(f) /\ Len(f) \in Nat
  BY <1>1, LenProperties
<1>3. QED
  BY <1>2

(***************************************************************************)
(* What tuples and lists have in common: values go to the heap and words   *)
(* to the tuple pool from their indices on, the indices move forward, and  *)
(* a value is bound unless the code went to CATCH.                         *)
(***************************************************************************)
Allocates ==
  /\ pc = "run"
  /\ \E values \in Seq(SafeGeneric), words \in Seq(0..(WORD - 1)) :
       /\ heap' = Fill(heap, heap_index, values)
       /\ tuple_pool' = Fill(tuple_pool, tuple_pool_index, words)
  /\ heap_index' \in heap_index..HEAP_SIZE
  /\ tuple_pool_index' \in tuple_pool_index..TUPLE_POOL_SIZE
  /\ \/ pc' = "CATCH" /\ UNCHANGED env
     \/ pc' = "run" /\ \E v \in SafeGeneric : env' = Append(env, v)
  /\ UNCHANGED <<string_pool, string_pool_index, matching, ret>>

LEMMA AllocatesSafe == IInv /\ Allocates => IInv'
<1> SUFFICES ASSUME IInv, Allocates PROVE IInv'
  OBVIOUS
<1>1. /\ heap \in [HeapIndices -> SafeGeneric] /\ heap_index \in Int
      /\ tuple_pool \in [TupleIndices -> 0..(WORD - 1)] /\ tuple_pool_index \in Int
      /\ heap_index >= 0 /\ tuple_pool_index >= 0 /\ LocalsTyped(SafeGeneric)
      /\ HEAP_SIZE \in Nat /\ TUPLE_POOL_SIZE \in Nat
  BY SizeAssumption DEF IInv, Typed, PoolsTyped
<1> PICK values \in Seq(SafeGeneric), words \in Seq(0..(WORD - 1)) :
       /\ heap' = Fill(heap, heap_index, values)
       /\ tuple_pool' = Fill(tuple_pool, tuple_pool_index, words)
  BY DEF Allocates
<1>2. heap' \in [HeapIndices -> SafeGeneric]
  <2>1. Fill(heap, heap_index, values) \in [HeapIndices -> SafeGeneric]
    BY <1>1, IndicesAreIntegers, FillProperties
  <2>2. QED
    BY <2>1
<1>3. tuple_pool' \in [TupleIndices -> 0..(WORD - 1)]
  <2>1. Fill(tuple_pool, tuple_pool_index, words) \in [TupleIndices -> 0..(WORD - 1)]
    BY <1>1, IndicesAreIntegers, FillProperties
  <2>2. QED
    BY <2>1
<1>4. PoolsTyped(SafeGeneric)'
  BY <1>1, <1>2, <1>3 DEF Allocates, IInv, Typed, PoolsTyped
<1>5. LocalsTyped(SafeGeneric)'
  <2>1. CASE UNCHANGED env
    BY <1>1, <2>1 DEF Allocates, LocalsTyped, Checks, matching
  <2>2. CASE \E v \in SafeGeneric : env' = Append(env, v)
    BY <1>1, <2>2, BindSafe DEF Allocates, matching
  <2>3. QED
    BY <2>1, <2>2 DEF Allocates
<1>6. QED
  BY <1>4, <1>5 DEF Allocates, IInv, Typed, GoalTyped

LEMMA TupleAllocates ==
  ASSUME IInv, NEW n \in Arities, NEW args \in [1..n -> Operand], TupleLiteral(args)
  PROVE  Allocates
<1> DEFINE heapRoom == HEAP_SIZE - heap_index
<1> DEFINE poolRoom == TUPLE_POOL_SIZE - tuple_pool_index
<1> DEFINE pointers == Least(n, Least(heapRoom, poolRoom))
<1> DEFINE elements == Least(n, Least(heapRoom, poolRoom + 1))
<1> DEFINE values == [i \in 1..elements |-> env[args[i]]]
<1> DEFINE words == [i \in 1..pointers |-> heap_index + i - 1]
<1>1. n \in Nat /\ Len(args) = n
  BY DataAssumption, FunctionIsSeq
<1>2. /\ heap_index \in 0..HEAP_SIZE /\ HEAP_SIZE \in Nat
      /\ tuple_pool_index \in 0..TUPLE_POOL_SIZE /\ TUPLE_POOL_SIZE \in Nat
  BY SizeAssumption DEF IInv, Typed, PoolsTyped
<1>3. elements \in 0..n /\ pointers \in 0..n /\ pointers <= heapRoom /\ pointers <= poolRoom
  BY <1>1, <1>2 DEF Least
<1>4. values \in Seq(SafeGeneric)
  <2>1. LocalsTyped(SafeGeneric)
    BY DEF IInv, Typed
  <2>2. \A i \in 1..elements : env[args[i]] \in SafeGeneric
    BY <1>1, <1>3, <2>1, OperandSafe
  <2>3. values \in [1..elements -> SafeGeneric] /\ elements \in Nat
    BY <1>3, <2>2
  <2>4. QED
    BY <2>3, FunctionIsSeq
<1>5. words \in Seq(0..(WORD - 1))
  <2>1. words \in [1..pointers -> 0..(WORD - 1)] /\ pointers \in Nat
    BY <1>2, <1>3, SizeAssumption
  <2>2. QED
    BY <2>1, FunctionIsSeq
<1>6. /\ heap' = Fill(heap, heap_index, values)
      /\ tuple_pool' = Fill(tuple_pool, tuple_pool_index, words)
      /\ UNCHANGED <<string_pool, string_pool_index, matching, ret>>
      /\ pc = "run"
  BY <1>1 DEF TupleLiteral
<1>7. CASE pointers < n
  <2>1. /\ pc' = "CATCH" /\ UNCHANGED <<env, heap_index, tuple_pool_index>>
    BY <1>1, <1>7 DEF TupleLiteral, GotoCatch
  <2>2. /\ heap_index' \in heap_index..HEAP_SIZE
        /\ tuple_pool_index' \in tuple_pool_index..TUPLE_POOL_SIZE
    BY <1>2, <2>1
  <2> HIDE DEF values, words
  <2>3. QED
    BY <1>4, <1>5, <1>6, <2>1, <2>2 DEF Allocates
<1>8. CASE ~(pointers < n)
  <2> DEFINE v == MkGeneric("TUPLE", tuple_pool_index, LastIndex(tuple_pool_index, n))
  <2>1. /\ heap_index' = heap_index + n /\ tuple_pool_index' = tuple_pool_index + n
        /\ env' = Append(env, v)
        /\ UNCHANGED pc
    BY <1>1, <1>8 DEF TupleLiteral, Bind
  <2>2. /\ heap_index' \in heap_index..HEAP_SIZE
        /\ tuple_pool_index' \in tuple_pool_index..TUPLE_POOL_SIZE
        /\ tuple_pool_index + n - 1 < TUPLE_POOL_SIZE
    BY <1>1, <1>2, <1>3, <1>8, <2>1
  <2>3. v \in SafeGeneric
    BY <1>1, <1>2, <2>2, SafeValues DEF LastIndex
  <2> HIDE DEF v
  <2>4. QED
    BY <1>4, <1>5, <1>6, <2>1, <2>2, <2>3 DEF Allocates
<1>9. QED
  BY <1>7, <1>8

LEMMA EmptyListSafe == IInv /\ EmptyList => IInv'
<1> SUFFICES ASSUME IInv, EmptyList PROVE IInv'
  OBVIOUS
<1>1. /\ heap_index \in 0..HEAP_SIZE /\ HEAP_SIZE \in Nat /\ heap_index \in Int
      /\ heap \in [HeapIndices -> SafeGeneric]
  BY SizeAssumption DEF IInv, Typed, PoolsTyped
<1>2. CASE heap_index < HEAP_SIZE
  <2>1. <<EmptyListValue>> \in Seq(SafeGeneric)
    BY SafeValues
  <2>2. /\ heap' = Fill(heap, heap_index, <<EmptyListValue>>)
        /\ heap_index' = heap_index + 1
        /\ env' = Append(env, EmptyListValue)
        /\ UNCHANGED <<pc, string_pool, string_pool_index, tuple_pool,
                       tuple_pool_index, matching, ret>>
        /\ pc = "run"
    BY <1>2 DEF EmptyList, Bind
  <2>3. heap' \in [HeapIndices -> SafeGeneric]
    BY <1>1, <2>1, <2>2, IndicesAreIntegers, FillProperties
  <2>4. PoolsTyped(SafeGeneric)'
    BY <1>1, <1>2, <2>2, <2>3 DEF IInv, Typed, PoolsTyped
  <2>5. LocalsTyped(SafeGeneric)'
    BY <2>2, SafeValues, BindSafe DEF IInv, Typed, matching
  <2>6. QED
    BY <2>2, <2>4, <2>5 DEF IInv, Typed, GoalTyped
<1>3. CASE ~(heap_index < HEAP_SIZE)
  <2>1. UNCHANGED <<pools, env, matching, ret>> /\ pc' = "CATCH"
    BY <1>3 DEF EmptyList, GotoCatch, pools
  <2>2. QED
    BY <2>1 DEF IInv, Typed, PoolsTyped, LocalsTyped, Checks, GoalTyped, pools, matching
<1>4. QED
  BY <1>2, <1>3

LEMMA ConsAllocates ==
  ASSUME IInv, NEW h \in Operand, NEW t \in Operand, ConsCell(h, t)
  PROVE  Allocates
<1> DEFINE words == Least(2, TUPLE_POOL_SIZE - tuple_pool_index)
<1> DEFINE cells == IF words < 2 THEN 0 ELSE Least(2, HEAP_SIZE - heap_index)
<1> DEFINE header == MkGeneric("LIST", tuple_pool_index, tuple_pool_index + 1)
<1> DEFINE pointers == SubSeq(<<heap_index, PreviousCell(heap_index)>>, 1, words)
<1> DEFINE values == SubSeq(<<env[h], header>>, 1, cells)
<1>1. /\ heap_index \in 0..HEAP_SIZE /\ HEAP_SIZE \in Nat
      /\ tuple_pool_index \in 0..TUPLE_POOL_SIZE /\ TUPLE_POOL_SIZE \in Nat
      /\ WORD \in Nat /\ WORD > HEAP_SIZE
      /\ LocalsTyped(SafeGeneric) /\ PoolsTyped(SafeGeneric)
  BY SizeAssumption DEF IInv, Typed, PoolsTyped
<1>2. words \in 0..2 /\ cells \in 0..2
  BY <1>1 DEF Least
<1>3. heap_index \in 0..(WORD - 1) /\ PreviousCell(heap_index) \in 0..(WORD - 1)
  BY <1>1 DEF PreviousCell
<1>4. pointers \in Seq(0..(WORD - 1))
  BY <1>2, <1>3, CutPair
<1>5. env[h] \in SafeGeneric
  BY <1>1, OperandSafe
<1>6. /\ heap' = Fill(heap, heap_index, values)
      /\ tuple_pool' = Fill(tuple_pool, tuple_pool_index, pointers)
      /\ heap_index' = heap_index + cells
      /\ tuple_pool_index' = tuple_pool_index + words
      /\ UNCHANGED <<string_pool, string_pool_index, matching, ret>>
      /\ pc = "run"
  BY DEF ConsCell
<1>7. /\ heap_index' \in heap_index..HEAP_SIZE
      /\ tuple_pool_index' \in tuple_pool_index..TUPLE_POOL_SIZE
  BY <1>1, <1>2, <1>6 DEF Least
<1>8. values \in Seq(SafeGeneric)
  <2>1. CASE words < 2
    <3>1. cells = 0
      BY <2>1
    <3>2. values = <<>>
      BY <3>1
    <3>3. QED
      BY <3>2, EmptySeq
  <2>2. CASE ~(words < 2)
    <3>1. tuple_pool_index + 1 < TUPLE_POOL_SIZE
      BY <1>1, <2>2 DEF Least
    <3>2. header \in SafeGeneric
      BY <1>1, <3>1, SafeValues
    <3>3. QED
      BY <1>2, <1>5, <3>2, CutPair
  <2>3. QED
    BY <2>1, <2>2
<1>9. CASE cells < 2
  <2>1. pc' = "CATCH" /\ UNCHANGED env
    BY <1>9 DEF ConsCell, GotoCatch
  <2>2. QED
    BY <1>4, <1>6, <1>7, <1>8, <2>1 DEF Allocates
<1>10. CASE ~(cells < 2)
  <2>1. env' = Append(env, header) /\ UNCHANGED pc
    BY <1>10 DEF ConsCell, Bind
  <2>2. header \in SafeGeneric
    <3>1. tuple_pool_index + 1 < TUPLE_POOL_SIZE
      BY <1>1, <1>10 DEF Least
    <3>2. QED
      BY <1>1, <3>1, SafeValues
  <2> HIDE DEF header
  <2>3. QED
    BY <1>4, <1>6, <1>7, <1>8, <2>1, <2>2 DEF Allocates
<1>11. QED
  BY <1>9, <1>10

-----------------------------------------------------------------------------
(***************************************************************************)
(* Pattern matching only moves values: out of the variables, and out of    *)
(* the heap cells the current check reads.  So if all of these lie in a    *)
(* set V, what the next state has in hand lies in V again.  C is a set of  *)
(* checks of such values, with every check a new pattern starts from.      *)
(***************************************************************************)
HandIn(V, C) == env \in Seq(V) /\ binds \in Seq(V) /\ work \in Seq(C)

ChecksOver(V, C) ==
  /\ C \subseteq Checks(V)
  /\ \A p \in Patterns, v \in V, g \in BOOLEAN : Check(p, v, g, 0) \in C

(* The current check may take a list apart: it is one, or is assumed to be. *)
TakenAsList == work[1].val.type = "LIST" \/ work[1].skip > 0
ReadableAsList == Readable(work[1].val.start) /\ Readable(work[1].val.start + 1)

ReadsIn(V) ==
  /\ Current({"tuple"}) /\ work[1].val.type = "TUPLE" =>
       \A i \in 1..Len(work[1].pat.subs) :
         Readable(work[1].val.start + i - 1) => Element(work[1].val.start + i - 1) \in V
  /\ Current({"list", "cons"}) /\ TakenAsList /\ ReadableAsList =>
       \A i \in {work[1].val.start, work[1].val.start + 1} : Element(i) \in V

TailIn(C) ==
  Current({"list"}) /\ TakenAsList /\ ReadableAsList =>
    Check(work[1].pat, Element(work[1].val.start + 1), FALSE, work[1].skip + 1) \in C

PatternStep ==
  MatchAny \/ MatchVar \/ MatchAtom \/ MatchInt \/ MatchText \/ MatchTuple
    \/ MatchList \/ MatchCons

LEMMA FrontCheck ==
  ASSUME NEW C, work \in Seq(C), work # <<>>
  PROVE  work[1] \in C /\ Tail(work) \in Seq(C)
<1>1. 1 \in 1..Len(work)
  BY EmptySeq
<1>2. QED
  BY <1>1, ElementOfSeq, HeadTailProperties

LEMMA MismatchStaysIn ==
  ASSUME NEW V, NEW C, ChecksOver(V, C), HandIn(V, C), GoalTyped, pc = "match",
         Mismatch, UNCHANGED env
  PROVE  HandIn(V, C)' /\ GoalTyped' /\ pc' \in {"match", "CATCH"}
<1>1. /\ goal \in [op : {"=", "case"}, arg : 1..Len(env), clauses : Seq(Patterns),
                     next : Nat]
      /\ goal.next \in 1..Len(goal.clauses)
  BY DEF GoalTyped
<1>2. binds' = <<>> /\ env' = env
  BY DEF Mismatch
<1>3. CASE goal.next = Len(goal.clauses)
  <2>1. work' = <<>> /\ pc' = "CATCH"
    BY <1>3 DEF Mismatch
  <2>2. QED
    BY <1>2, <2>1, EmptySeq DEF HandIn, GoalTyped
<1>4. CASE goal.next # Len(goal.clauses)
  <2>1. /\ goal' = [goal EXCEPT !.next = @ + 1]
        /\ work' = <<Check(goal.clauses[goal.next + 1], env[goal.arg], goal.op = "case", 0)>>
        /\ UNCHANGED pc
    BY <1>4 DEF Mismatch, NextClause, ClauseCheck
  <2>2. Len(goal.clauses) \in Nat
    BY <1>1, LenProperties
  <2>3. goal.next + 1 \in 1..Len(goal.clauses)
    BY <1>1, <1>4, <2>2
  <2>4. goal.clauses[goal.next + 1] \in Patterns
    BY <1>1, <2>3, ElementOfSeq
  <2>5. env[goal.arg] \in V
    BY <1>1, ElementOfSeq DEF HandIn
  <2>6. Check(goal.clauses[goal.next + 1], env[goal.arg], goal.op = "case", 0) \in C
    BY <2>4, <2>5 DEF ChecksOver
  <2>7. HandIn(V, C)'
    BY <1>2, <2>1, <2>6, EmptySeq DEF HandIn
  <2>8. /\ goal' \in [op : {"=", "case"}, arg : 1..Len(env), clauses : Seq(Patterns),
                       next : Nat]
        /\ goal'.next = goal.next + 1 /\ goal'.clauses = goal.clauses
    BY <1>1, <2>1
  <2>9. QED
    BY <1>2, <2>1, <2>3, <2>7, <2>8 DEF GoalTyped
<1>5. QED
  BY <1>3, <1>4

LEMMA ReplaceStaysIn ==
  ASSUME NEW V, NEW C, HandIn(V, C), GoalTyped, pc = "match", work # <<>>,
         NEW s \in Seq(C), Replace(s), UNCHANGED env, binds' \in Seq(V)
  PROVE  HandIn(V, C)' /\ GoalTyped' /\ pc' \in {"match", "CATCH"}
<1>1. work' \in Seq(C)
  BY FrontCheck, ConcatProperties DEF Replace, HandIn
<1>2. HandIn(V, C)'
  BY <1>1 DEF HandIn
<1>3. QED
  BY <1>2 DEF GoalTyped, Replace

LEMMA HoldsStaysIn ==
  ASSUME NEW V, NEW C, ChecksOver(V, C), HandIn(V, C), GoalTyped, pc = "match",
         work # <<>>, NEW c, Holds(c), UNCHANGED env
  PROVE  HandIn(V, C)' /\ GoalTyped' /\ pc' \in {"match", "CATCH"}
<1>1. CASE c
  <2>1. binds' \in Seq(V) /\ Replace(<<>>)
    BY <1>1 DEF Holds, HandIn
  <2>2. <<>> \in Seq(C)
    BY EmptySeq
  <2>3. QED
    BY <2>1, <2>2, ReplaceStaysIn
<1>2. CASE ~c
  BY <1>2, MismatchStaysIn DEF Holds
<1>3. QED
  BY <1>1, <1>2

LEMMA PatternStepStaysIn ==
  ASSUME NEW V, NEW C, ChecksOver(V, C), HandIn(V, C), GoalTyped, PatternStep,
         ReadsIn(V), TailIn(C)
  PROVE  HandIn(V, C)' /\ GoalTyped' /\ pc' \in {"match", "CATCH"}
<1>1. pc = "match" /\ work # <<>> /\ UNCHANGED env
  BY DEF PatternStep, MatchAny, MatchVar, MatchAtom, MatchInt, MatchText, MatchTuple,
         MatchList, MatchCons, Current
<1>2. work[1] \in Checks(V) /\ binds \in Seq(V)
  BY <1>1, FrontCheck DEF HandIn, ChecksOver
<1>3. work[1].pat.subs \in Seq(Patterns) /\ work[1].skip \in Nat
  BY <1>2, PatternAssumption DEF Checks
<1>4. \A p \in Patterns, v \in V, g \in BOOLEAN : Check(p, v, g, 0) \in C
  BY DEF ChecksOver
<1>5. CASE MatchAny \/ MatchAtom \/ MatchInt \/ MatchText
  BY <1>1, <1>5, HoldsStaysIn DEF MatchAny, MatchAtom, MatchInt, MatchText
<1>6. CASE MatchVar
  <2>1. work[1].val \in V
    BY <1>2 DEF Checks
  <2>2. binds' \in Seq(V) /\ Replace(<<>>)
    BY <1>2, <1>6, <2>1, AppendProperties DEF MatchVar
  <2>3. <<>> \in Seq(C)
    BY EmptySeq
  <2>4. QED
    BY <1>1, <2>2, <2>3, ReplaceStaysIn
<1>7. CASE MatchTuple
  <2> DEFINE v == work[1].val
  <2> DEFINE subs == work[1].pat.subs
  <2> DEFINE s == [i \in 1..Len(subs) |-> Check(subs[i], Element(v.start + i - 1), TRUE, 0)]
  <2>1. CASE v.type = "TUPLE" /\ \A i \in 1..Len(subs) : Readable(v.start + i - 1)
    <3>1. Replace(s) /\ UNCHANGED binds
      BY <1>7, <2>1 DEF MatchTuple
    <3>2. \A i \in 1..Len(subs) : Element(v.start + i - 1) \in V
      BY <1>7, <2>1 DEF MatchTuple, ReadsIn
    <3>3. \A i \in 1..Len(subs) : s[i] \in C
      BY <1>3, <1>4, <3>2, ElementOfSeq
    <3>4. Len(subs) \in Nat /\ s \in [1..Len(subs) -> C]
      BY <1>3, <3>3, LenProperties
    <3>5. s \in Seq(C)
      BY <3>4, FunctionIsSeq
    <3>6. binds' \in Seq(V)
      BY <1>2, <3>1
    <3>7. QED
      BY <1>1, <3>1, <3>5, <3>6, ReplaceStaysIn
  <2>2. CASE ~(v.type = "TUPLE" /\ \A i \in 1..Len(subs) : Readable(v.start + i - 1))
    BY <1>1, <1>7, <2>2, MismatchStaysIn DEF MatchTuple
  <2>3. QED
    BY <2>1, <2>2
<1>8. CASE MatchList
  <2> DEFINE c == work[1]
  <2> DEFINE more == c.skip < Len(c.pat.subs)
  <2> DEFINE typed == c.skip = 0 => c.val.type = "LIST"
  <2> DEFINE taken == more /\ typed /\ Readable(c.val.start) /\ Readable(c.val.start + 1)
  <2>1. CASE taken
    <3> DEFINE first == Check(c.pat.subs[c.skip + 1], Element(c.val.start), FALSE, 0)
    <3> DEFINE rest == Check(c.pat, Element(c.val.start + 1), FALSE, c.skip + 1)
    <3>1. Replace(<<first, rest>>) /\ UNCHANGED binds
      BY <1>8, <2>1 DEF MatchList
    <3>2. c.skip + 1 \in 1..Len(c.pat.subs)
      BY <1>3, <2>1, LenProperties
    <3>3. c.pat.subs[c.skip + 1] \in Patterns
      BY <1>3, <3>2, ElementOfSeq
    <3>4. Current({"list"}) /\ Current({"list", "cons"}) /\ TakenAsList /\ ReadableAsList
      BY <1>3, <1>8, <2>1 DEF MatchList, Current, TakenAsList, ReadableAsList
    <3>5. Element(c.val.start) \in V
      BY <2>1, <3>4 DEF ReadsIn
    <3>6. first \in C
      BY <1>4, <3>3, <3>5
    <3>7. rest \in C
      BY <2>1, <3>4 DEF TailIn
    <3>8. <<first, rest>> \in Seq(C)
      BY <3>6, <3>7, PairIsSeq
    <3>9. binds' \in Seq(V)
      BY <1>2, <3>1
    <3>10. QED
      BY <1>1, <3>1, <3>8, <3>9, ReplaceStaysIn
  <2>2. CASE ~taken
    <3>1. Holds(~more /\ typed /\ c.val.start = -1 /\ c.val.end = -1)
      BY <1>8, <2>2 DEF MatchList
    <3>2. QED
      BY <1>1, <3>1, HoldsStaysIn
  <2>3. QED
    BY <2>1, <2>2
<1>9. CASE MatchCons
  <2> DEFINE c == work[1]
  <2> DEFINE taken == c.val.type = "LIST" /\ Readable(c.val.start) /\ Readable(c.val.start + 1)
  <2>1. CASE taken
    <3> DEFINE first == Check(c.pat.subs[1], Element(c.val.start), FALSE, 0)
    <3> DEFINE rest == Check(c.pat.subs[2], Element(c.val.start + 1), FALSE, 0)
    <3>1. Replace(<<first, rest>>) /\ UNCHANGED binds
      BY <1>9, <2>1 DEF MatchCons
    <3>2. Len(c.pat.subs) = 2
      BY <1>2, <1>9, PatternAssumption DEF Checks, MatchCons, Current
    <3>3. c.pat.subs[1] \in Patterns /\ c.pat.subs[2] \in Patterns
      BY <1>3, <3>2, ElementOfSeq
    <3>4. Current({"list", "cons"}) /\ TakenAsList /\ ReadableAsList
      BY <1>9, <2>1 DEF MatchCons, Current, TakenAsList, ReadableAsList
    <3>5. Element(c.val.start) \in V /\ Element(c.val.start + 1) \in V
      BY <2>1, <3>4 DEF ReadsIn
    <3>6. first \in C /\ rest \in C
      BY <1>4, <3>3, <3>5
    <3>7. <<first, rest>> \in Seq(C)
      BY <3>6, PairIsSeq
    <3>8. binds' \in Seq(V)
      BY <1>2, <3>1
    <3>9. QED
      BY <1>1, <3>1, <3>7, <3>8, ReplaceStaysIn
  <2>2. CASE ~taken
    BY <1>1, <1>9, <2>2, MismatchStaysIn DEF MatchCons
  <2>3. QED
    BY <2>1, <2>2
<1>10. QED
  BY <1>5, <1>6, <1>7, <1>8, <1>9 DEF PatternStep

LEMMA StartMatchStaysIn ==
  ASSUME NEW V, NEW C, ChecksOver(V, C), HandIn(V, C),
         NEW i \in Operand, NEW m \in Matches, StartMatch(m.op, i, m.clauses)
  PROVE  HandIn(V, C)' /\ GoalTyped'
<1>1. /\ m.op \in {"=", "case"} /\ m.clauses \in Seq(Patterns)
      /\ Len(m.clauses) \in Nat \ {0}
  BY MatchAssumption, EmptySeq
<1>2. m.clauses[1] \in Patterns /\ env[i] \in V
  <2>1. 1 \in 1..Len(m.clauses)
    BY <1>1
  <2>2. QED
    BY <1>1, <2>1, ElementOfSeq DEF HandIn, Operand
<1>3. Check(m.clauses[1], env[i], m.op = "case", 0) \in C
  BY <1>1, <1>2 DEF ChecksOver
<1>4. HandIn(V, C)'
  BY <1>3 DEF StartMatch, ClauseCheck, HandIn
<1>5. GoalTyped'
  BY <1>1 DEF StartMatch, GoalTyped, Operand
<1>6. QED
  BY <1>4, <1>5

LEMMA MatchSucceedsStaysIn ==
  ASSUME NEW V, NEW C, HandIn(V, C), MatchSucceeds
  PROVE  HandIn(V, C)'
<1>1. env' \in Seq(V)
  BY ConcatProperties DEF MatchSucceeds, HandIn
<1>2. QED
  BY <1>1, EmptySeq DEF MatchSucceeds, HandIn

(***************************************************************************)
(* The first use: V is the bounded values, which the whole heap holds.     *)
(***************************************************************************)
LEMMA ElementSafe ==
  ASSUME IInv, NEW i, Readable(i)
  PROVE  Element(i) \in SafeGeneric
<1>1. tuple_pool[i] \in HeapIndices
  BY SizeAssumption DEF IInv, Typed, PoolsTyped, Readable, TupleIndices, HeapIndices
<1>2. QED
  BY <1>1 DEF IInv, Typed, PoolsTyped, Element

LEMMA SafeChecks == ChecksOver(SafeGeneric, Checks(SafeGeneric))
BY DEF ChecksOver, Check, Checks

LEMMA PatternStepSafe == IInv /\ PatternStep => IInv'
<1> SUFFICES ASSUME IInv, PatternStep PROVE IInv'
  OBVIOUS
<1>1. UNCHANGED <<pools, env, ret>> /\ work # <<>>
  BY DEF PatternStep, MatchAny, MatchVar, MatchAtom, MatchInt, MatchText, MatchTuple,
         MatchList, MatchCons, Current
<1>2. HandIn(SafeGeneric, Checks(SafeGeneric)) /\ GoalTyped
  BY DEF IInv, Typed, LocalsTyped, HandIn
<1>3. ReadsIn(SafeGeneric)
  BY ElementSafe DEF ReadsIn, ReadableAsList
<1>4. TailIn(Checks(SafeGeneric))
  <2>1. work[1].pat \in Patterns /\ work[1].skip + 1 \in Nat
    <3>1. work[1] \in Checks(SafeGeneric)
      BY <1>1, <1>2, FrontCheck DEF HandIn
    <3>2. QED
      BY <3>1 DEF Checks
  <2>2. \A p \in Patterns, v \in SafeGeneric, k \in Nat :
          Check(p, v, FALSE, k) \in Checks(SafeGeneric)
    BY DEF Check, Checks
  <2>3. QED
    BY <2>1, <2>2, ElementSafe DEF TailIn, ReadableAsList
<1>5. HandIn(SafeGeneric, Checks(SafeGeneric))' /\ GoalTyped' /\ pc' \in {"match", "CATCH"}
  BY <1>2, <1>3, <1>4, SafeChecks, PatternStepStaysIn
<1>6. PoolsTyped(SafeGeneric)'
  BY <1>1 DEF IInv, Typed, PoolsTyped, pools
<1>7. QED
  BY <1>1, <1>5, <1>6 DEF IInv, Typed, LocalsTyped, HandIn, Checks

LEMMA StartMatchSafe ==
  ASSUME IInv, NEW i \in Operand, NEW m \in Matches, StartMatch(m.op, i, m.clauses)
  PROVE  IInv'
<1>1. HandIn(SafeGeneric, Checks(SafeGeneric))
  BY DEF IInv, Typed, LocalsTyped, HandIn
<1>2. HandIn(SafeGeneric, Checks(SafeGeneric))' /\ GoalTyped'
  BY <1>1, SafeChecks, StartMatchStaysIn
<1>3. PoolsTyped(SafeGeneric)' /\ pc' = "match" /\ ret' \in Int
  BY DEF StartMatch, IInv, Typed, PoolsTyped, pools
<1>4. QED
  BY <1>2, <1>3 DEF IInv, Typed, LocalsTyped, HandIn, Checks

LEMMA MatchSucceedsSafe == IInv /\ MatchSucceeds => IInv'
<1> SUFFICES ASSUME IInv, MatchSucceeds PROVE IInv'
  OBVIOUS
<1>1. HandIn(SafeGeneric, Checks(SafeGeneric))'
  BY MatchSucceedsStaysIn DEF IInv, Typed, LocalsTyped, HandIn
<1>2. PoolsTyped(SafeGeneric)' /\ pc' = "run" /\ ret' \in Int
  BY DEF MatchSucceeds, IInv, Typed, PoolsTyped, pools
<1>3. QED
  BY <1>1, <1>2 DEF IInv, Typed, GoalTyped, LocalsTyped, HandIn, Checks

LEMMA EndSafe == IInv /\ End => IInv'
<1> SUFFICES ASSUME IInv, End PROVE IInv'
  OBVIOUS
<1>1. /\ UNCHANGED <<pools, matching>> /\ pc' \in {"idle", "CATCH"}
      /\ env' = env \/ env' = <<>>
  BY DEF End, RaiseStmt, Catch, ReturnMain, GotoCatch
<1>2. ret' \in Int
  <2>1. \A i \in Operand : env[i].start \in Int
    BY OperandSafe, SafeIsGeneric DEF IInv, Typed, Generic
  <2>2. QED
    <3>1. ret \in Int
      BY DEF IInv, Typed
    <3>2. ASSUME NEW i \in Operand, ReturnMain(i) PROVE ret' \in Int
      BY <2>1, <3>1, <3>2 DEF ReturnMain
    <3>3. RaiseStmt \/ Catch => ret' \in Int
      BY <3>1 DEF RaiseStmt, Catch
    <3>4. QED
      BY <3>2, <3>3 DEF End
<1>3. LocalsTyped(SafeGeneric)'
  BY <1>1, EmptySeq DEF IInv, Typed, LocalsTyped, Checks, matching
<1>4. PoolsTyped(SafeGeneric)'
  BY <1>1 DEF IInv, Typed, PoolsTyped, pools
<1>5. QED
  BY <1>1, <1>2, <1>3, <1>4 DEF IInv, Typed, GoalTyped

LEMMA NextSafe == IInv /\ [Next]_vars => IInv'
<1> SUFFICES ASSUME IInv, [Next]_vars PROVE IInv'
  OBVIOUS
<1>1. CASE BeginMain
  BY <1>1, BeginMainSafe
<1>2. CASE Build
  BY <1>2, ScalarSafe, StringConstSafe, TupleAllocates, EmptyListSafe, ConsAllocates,
     AllocatesSafe DEF Build
<1>3. CASE BeginMatch
  BY <1>3, StartMatchSafe DEF BeginMatch
<1>4. CASE MatchStep
  BY <1>4, PatternStepSafe, MatchSucceedsSafe DEF MatchStep, PatternStep
<1>5. CASE End
  BY <1>5, EndSafe
<1>6. CASE UNCHANGED vars
  BY <1>6 DEF vars, pools, matching, IInv, Typed, PoolsTyped, LocalsTyped, Checks, GoalTyped
<1>7. QED
  BY <1>1, <1>2, <1>3, <1>4, <1>5, <1>6 DEF Next

LEMMA Safety == Spec => []IInv
BY InitSafe, NextSafe, PTL DEF Spec

-----------------------------------------------------------------------------
(***************************************************************************)
(* Type correctness of the pools, the variables and the pending checks.    *)
(***************************************************************************)
THEOREM TypeCorrect == Spec => []TypeOK
<1>1. IInv => TypeOK
  <2> SUFFICES ASSUME IInv PROVE TypeOK
    OBVIOUS
  <2>1. PoolsTyped(Generic)
    BY SafeIsGeneric DEF IInv, Typed, PoolsTyped
  <2>2. Checks(SafeGeneric) \subseteq Checks(Generic)
    BY SafeIsGeneric DEF Checks
  <2>3. LocalsTyped(Generic)
    BY <2>2, SafeIsGeneric, SeqMonotonic DEF IInv, Typed, LocalsTyped
  <2>4. QED
    BY <2>1, <2>3 DEF IInv, Typed, TypeOK
<1>2. QED
  BY <1>1, Safety, PTL

(***************************************************************************)
(* Every string, tuple and list handle the program holds, and every one in *)
(* the heap, stays inside its pool: no read of string_pool, tuple_pool or  *)
(* heap that starts from one is ever out of bounds, garbage included.      *)
(***************************************************************************)
THEOREM HandlesStayInPools == Spec => []PoolBounds
<1>1. IInv => PoolBounds
  <2> SUFFICES ASSUME IInv PROVE PoolBounds
    OBVIOUS
  <2>1. HeapBounded
    BY DEF IInv, Typed, PoolsTyped, HeapBounded, SafeGeneric
  <2>2. /\ env \in Seq(SafeGeneric) /\ binds \in Seq(SafeGeneric)
        /\ work \in Seq(Checks(SafeGeneric))
    BY DEF IInv, Typed, LocalsTyped
  <2>3. /\ \A i \in DOMAIN env : env[i] \in SafeGeneric
        /\ \A i \in DOMAIN binds : binds[i] \in SafeGeneric
        /\ \A i \in DOMAIN work : work[i] \in Checks(SafeGeneric)
    BY <2>2, ElementOfSeq, LenProperties
  <2>4. HandBounded
    BY <2>3 DEF HandBounded, InHand, SafeGeneric, Checks
  <2>5. QED
    BY <2>1, <2>4 DEF PoolBounds
<1>2. QED
  BY <1>1, Safety, PTL
-----------------------------------------------------------------------------
(***************************************************************************)
(* Immutability.  Every store of the emitted code is a Fill from an index  *)
(* on, and every index is only ever advanced.                              *)
(***************************************************************************)
LEMMA FillKeepsBelow ==
  ASSUME NEW n \in Nat, NEW S, NEW f \in [0..(n - 1) -> S], NEW from \in 0..n,
         NEW s \in Seq(S)
  PROVE  SameBelow(f, Fill(f, from, s), from)
<1>1. \A i \in 0..(from - 1) : i \in 0..(n - 1) /\ i < from
  OBVIOUS
<1>2. QED
  BY <1>1, FillProperties DEF SameBelow

LEMMA SameBelowRefl == \A f, n : SameBelow(f, f, n)
BY DEF SameBelow

LEMMA UnchangedKeeps ==
  ASSUME IInv, UNCHANGED pools
  PROVE  WriteOnceStep
BY SameBelowRefl DEF WriteOnceStep, pools, IInv, Typed, PoolsTyped, StringIndices

LEMMA StringConstKeeps ==
  ASSUME IInv, NEW t \in Texts, StringConst(t)
  PROVE  WriteOnceStep
<1>1. Append(t, NUL) \in Seq(AllChars) /\ Len(t) \in Nat
  <2>1. t \in Seq(AllChars)
    BY DataAssumption, SeqMonotonic DEF AllChars
  <2>2. QED
    BY <2>1, AppendProperties, LenProperties DEF AllChars
<1>2. /\ string_pool \in [0..(STRING_POOL_SIZE - 1) -> AllChars]
      /\ string_pool_index \in 0..STRING_POOL_SIZE /\ STRING_POOL_SIZE \in Nat
      /\ tuple_pool_index \in Nat /\ heap_index \in Nat
  BY SizeAssumption DEF IInv, Typed, PoolsTyped, StringIndices
<1>3. UNCHANGED <<tuple_pool, tuple_pool_index, heap, heap_index>>
  BY DEF StringConst
<1>4. \/ UNCHANGED <<string_pool, string_pool_index>>
      \/ /\ string_pool' = Fill(string_pool, string_pool_index, Append(t, NUL))
         /\ string_pool_index' = string_pool_index + Len(t) + 1
  BY <1>1, <1>2 DEF StringConst, AfterLast, LastIndex
<1>5. string_pool_index' >= string_pool_index
  BY <1>1, <1>2, <1>4
<1>6. SameBelow(string_pool, string_pool', string_pool_index)
  BY <1>1, <1>2, <1>4, FillKeepsBelow, SameBelowRefl
<1>7. QED
  BY <1>2, <1>3, <1>5, <1>6, SameBelowRefl DEF WriteOnceStep

LEMMA AllocatesKeeps == IInv /\ Allocates => WriteOnceStep
<1> SUFFICES ASSUME IInv, Allocates PROVE WriteOnceStep
  OBVIOUS
<1>1. /\ heap \in [0..(HEAP_SIZE - 1) -> SafeGeneric] /\ heap_index \in 0..HEAP_SIZE
      /\ tuple_pool \in [0..(TUPLE_POOL_SIZE - 1) -> 0..(WORD - 1)]
      /\ tuple_pool_index \in 0..TUPLE_POOL_SIZE
      /\ HEAP_SIZE \in Nat /\ TUPLE_POOL_SIZE \in Nat /\ string_pool_index \in Int
  BY SizeAssumption DEF IInv, Typed, PoolsTyped, HeapIndices, TupleIndices, StringIndices
<1>2. SameBelow(heap, heap', heap_index)
  BY <1>1, FillKeepsBelow DEF Allocates
<1>3. SameBelow(tuple_pool, tuple_pool', tuple_pool_index)
  <2>1. PICK s \in Seq(0..(WORD - 1)) : tuple_pool' = Fill(tuple_pool, tuple_pool_index, s)
    BY DEF Allocates
  <2>2. /\ tuple_pool \in [0..(TUPLE_POOL_SIZE - 1) -> 0..(WORD - 1)]
        /\ tuple_pool_index \in 0..TUPLE_POOL_SIZE /\ TUPLE_POOL_SIZE \in Nat
    BY <1>1
  <2>3. QED
    BY <2>1, <2>2, FillKeepsBelow
<1>4. QED
  BY <1>1, <1>2, <1>3, SameBelowRefl DEF Allocates, WriteOnceStep

LEMMA EmptyListKeeps == IInv /\ EmptyList => WriteOnceStep
<1> SUFFICES ASSUME IInv, EmptyList PROVE WriteOnceStep
  OBVIOUS
<1>1. /\ heap \in [0..(HEAP_SIZE - 1) -> SafeGeneric] /\ heap_index \in 0..HEAP_SIZE
      /\ HEAP_SIZE \in Nat /\ string_pool_index \in Int /\ tuple_pool_index \in Int
      /\ heap_index \in Int
  BY SizeAssumption DEF IInv, Typed, PoolsTyped, HeapIndices, StringIndices
<1>2. <<EmptyListValue>> \in Seq(SafeGeneric)
  BY SafeValues
<1>3. SameBelow(heap, heap', heap_index) /\ heap_index' >= heap_index
  <2>1. SameBelow(heap, Fill(heap, heap_index, <<EmptyListValue>>), heap_index)
    BY <1>1, <1>2, FillKeepsBelow
  <2>2. CASE heap_index < HEAP_SIZE
    BY <1>1, <2>1, <2>2 DEF EmptyList
  <2>3. CASE ~(heap_index < HEAP_SIZE)
    BY <1>1, <2>3, SameBelowRefl DEF EmptyList
  <2>4. QED
    BY <2>2, <2>3
<1>4. QED
  BY <1>1, <1>3, SameBelowRefl DEF EmptyList, WriteOnceStep

LEMMA NextKeeps == IInv /\ Next => WriteOnceStep
<1> SUFFICES ASSUME IInv, Next PROVE WriteOnceStep
  OBVIOUS
<1>1. CASE BeginMain
  BY <1>1 DEF BeginMain, WriteOnceStep
<1>2. CASE Build
  <2>1. (\E n \in Ints : IntValue(n)) \/ (\E a \in AtomConsts : AtomConst(a))
          => UNCHANGED pools
    BY DEF IntValue, AtomConst
  <2> QED
    BY <1>2, <2>1, UnchangedKeeps, StringConstKeeps, TupleAllocates, ConsAllocates,
       AllocatesKeeps, EmptyListKeeps DEF Build
<1>3. CASE BeginMatch \/ MatchStep \/ End
  <2>1. UNCHANGED pools
    BY <1>3 DEF BeginMatch, StartMatch, MatchStep, MatchAny, MatchVar, MatchAtom,
         MatchInt, MatchText, MatchTuple, MatchList, MatchCons, MatchSucceeds, End,
         RaiseStmt, Catch, ReturnMain
  <2> QED
    BY <2>1, UnchangedKeeps
<1> QED
  BY <1>1, <1>2, <1>3 DEF Next

(***************************************************************************)
(* Variables are immutable: while an invocation runs, no action writes     *)
(* below an index, and no index moves back.                                *)
(***************************************************************************)
THEOREM ImmutableWhileRunning == Spec => WriteOnce
<1>1. IInv /\ [Next]_vars => [WriteOnceStep]_vars
  BY NextKeeps
<1>2. QED
  BY <1>1, Safety, PTL DEF Spec, WriteOnce
-----------------------------------------------------------------------------
(***************************************************************************)
(* No invocation reads what an earlier one left.  The indices alone do not *)
(* say so: the contents of the pools survive, and a handle is copied from  *)
(* a heap cell without a look at what it names.  The invariant asks it of  *)
(* every value the program has in hand and of every cell below the heap    *)
(* index: the handle is of this invocation, a string still reads as a      *)
(* constant, a tuple has the size of a literal, and the second word of a   *)
(* list names the cell of a list, which is what lets a list pattern follow *)
(* the tails without looking at their types.                               *)
(***************************************************************************)
ReadsAsText(v) == v.type = "STRING" => \E t \in Texts : Chars(v) = Append(t, NUL)
TailIsList(v) ==
  v.type = "LIST" /\ v.start # -1 => heap[tuple_pool[v.end]].type = "LIST"
HasArity(v) == v.type = "TUPLE" => v.end - v.start + 1 \in Arities
IsMeant(v) ==
  /\ v.type = "INTEGER" => v = MkInteger(v.start)
  /\ v.type = "ATOM" => \E a \in Atoms : v = MkAtom(a)
Sound(v) == Live(v) /\ ReadsAsText(v) /\ TailIsList(v) /\ HasArity(v) /\ IsMeant(v)

Held == InHand \cup {heap[i] : i \in 0..(heap_index - 1)}
HeldSound == \A v \in Held : Sound(v)
WordsBelow == \A i \in 0..(tuple_pool_index - 1) : tuple_pool[i] < heap_index
TailsAreLists == \A i \in DOMAIN work : work[i].skip > 0 => work[i].val.type = "LIST"
MemorySound == HeldSound /\ WordsBelow /\ TailsAreLists

AtRest == pc # "match" => work = <<>> /\ binds = <<>>
FreshInv == AtRest /\ (pc \in {"run", "match"} => MemorySound)

(***************************************************************************)
(* What is asked of the program: no tuple pattern is longer than a tuple   *)
(* it is matched with.  MatchTuple does not compare the two, and the third *)
(* element of a pair is whatever word lies behind it.                      *)
(***************************************************************************)
TuplesFit ==
  Current({"tuple"}) /\ work[1].val.type = "TUPLE" =>
    Len(work[1].pat.subs) <= work[1].val.end - work[1].val.start + 1

(* A sufficient condition that can be read off the program. *)
ShortPatterns ==
  \A p \in Patterns : p.kind = "tuple" => \A n \in Arities : Len(p.subs) <= n

ListChecks(V) == {c \in Checks(V) : c.skip > 0 => c.val.type = "LIST"}

LEMMA Indices ==
  ASSUME IInv
  PROVE  /\ heap \in [0..(HEAP_SIZE - 1) -> SafeGeneric] /\ heap_index \in 0..HEAP_SIZE
         /\ tuple_pool \in [0..(TUPLE_POOL_SIZE - 1) -> 0..(WORD - 1)]
         /\ tuple_pool_index \in 0..TUPLE_POOL_SIZE
         /\ string_pool \in [0..(STRING_POOL_SIZE - 1) -> AllChars]
         /\ string_pool_index \in 0..STRING_POOL_SIZE
         /\ HEAP_SIZE \in Nat /\ TUPLE_POOL_SIZE \in Nat /\ STRING_POOL_SIZE \in Nat
         /\ WORD \in Nat /\ WORD > HEAP_SIZE
BY SizeAssumption DEF IInv, Typed, PoolsTyped, HeapIndices, TupleIndices, StringIndices

(* Of this, what proofs about numbers and about the tuple pool need. *)
LEMMA Sizes ==
  ASSUME IInv
  PROVE  /\ heap_index \in 0..HEAP_SIZE /\ tuple_pool_index \in 0..TUPLE_POOL_SIZE
         /\ string_pool_index \in 0..STRING_POOL_SIZE
         /\ HEAP_SIZE \in Nat /\ TUPLE_POOL_SIZE \in Nat /\ STRING_POOL_SIZE \in Nat
         /\ WORD \in Nat /\ WORD > HEAP_SIZE
BY Indices

LEMMA TuplePoolIs ==
  ASSUME IInv
  PROVE  /\ tuple_pool \in [0..(TUPLE_POOL_SIZE - 1) -> 0..(WORD - 1)]
         /\ tuple_pool_index \in 0..TUPLE_POOL_SIZE /\ heap_index \in 0..HEAP_SIZE
         /\ HEAP_SIZE \in Nat /\ TUPLE_POOL_SIZE \in Nat /\ WORD \in Nat
BY Indices

LEMMA HandIsSafe ==
  ASSUME IInv
  PROVE  InHand \subseteq SafeGeneric
<1>1. /\ env \in Seq(SafeGeneric) /\ binds \in Seq(SafeGeneric)
      /\ work \in Seq(Checks(SafeGeneric))
  BY DEF IInv, Typed, LocalsTyped
<1>2. /\ \A i \in DOMAIN env : env[i] \in SafeGeneric
      /\ \A i \in DOMAIN binds : binds[i] \in SafeGeneric
      /\ \A i \in DOMAIN work : work[i] \in Checks(SafeGeneric)
  BY <1>1, ElementOfSeq, LenProperties
<1>3. QED
  BY <1>2 DEF InHand, Checks

LEMMA HeldIsSafe ==
  ASSUME IInv
  PROVE  Held \subseteq SafeGeneric
<1>1. \A i \in 0..(heap_index - 1) : heap[i] \in SafeGeneric
  BY Indices
<1>2. QED
  BY <1>1, HandIsSafe DEF Held

(***************************************************************************)
(* A sound value stays sound, because nothing below the indices changes.   *)
(***************************************************************************)
LEMMA StaysSound ==
  ASSUME IInv, pc # "idle", WriteOnceStep, WordsBelow,
         heap_index' \in Int, tuple_pool_index' \in Int, string_pool_index' \in Int,
         NEW v \in SafeGeneric, Sound(v)
  PROVE  Sound(v)'
<1>1. /\ string_pool_index' >= string_pool_index
      /\ tuple_pool_index' >= tuple_pool_index
      /\ \A i \in 0..(string_pool_index - 1) : string_pool'[i] = string_pool[i]
      /\ \A i \in 0..(tuple_pool_index - 1) : tuple_pool'[i] = tuple_pool[i]
      /\ \A i \in 0..(heap_index - 1) : heap'[i] = heap[i]
  BY DEF WriteOnceStep, SameBelow
<1>2. v.start \in Int /\ v.end \in Int /\ Bounded(v) /\ Live(v)
  BY DEF SafeGeneric, Generic, Sound
<1>3. Live(v)'
  BY <1>1, <1>2, Indices DEF Live
<1>4. ReadsAsText(v)'
  <2> SUFFICES ASSUME v.type = "STRING" PROVE ReadsAsText(v)'
    BY DEF ReadsAsText
  <2>1. v.start >= 0 /\ v.end < string_pool_index
    BY <1>2 DEF Bounded, Live
  <2>2. \A i \in 1..(v.end - v.start + 1) :
          string_pool'[v.start + i - 1] = string_pool[v.start + i - 1]
    <3> SUFFICES ASSUME NEW i \in 1..(v.end - v.start + 1)
                 PROVE  string_pool'[v.start + i - 1] = string_pool[v.start + i - 1]
      OBVIOUS
    <3>1. string_pool_index \in Int
      BY Indices
    <3>2. v.start + i - 1 \in 0..(string_pool_index - 1)
      BY <1>2, <2>1, <3>1
    <3>3. QED
      BY <1>1, <3>2
  <2>3. Chars(v)' = Chars(v)
    BY <2>2 DEF Chars
  <2>4. QED
    BY <2>3 DEF Sound, ReadsAsText
<1>5. TailIsList(v)'
  <2> SUFFICES ASSUME v.type = "LIST", v.start # -1 PROVE TailIsList(v)'
    BY DEF TailIsList
  <2>1. v.end \in 0..(tuple_pool_index - 1)
    <3>1. v.start >= 0 /\ v.end = v.start + 1
      BY <1>2 DEF Bounded
    <3>2. v.end < tuple_pool_index /\ tuple_pool_index \in Int
      BY <1>2, Indices DEF Live
    <3>3. QED
      BY <1>2, <3>1, <3>2
  <2>2. tuple_pool[v.end] \in 0..(heap_index - 1)
    BY <2>1, TuplePoolIs DEF WordsBelow
  <2>3. heap'[tuple_pool'[v.end]] = heap[tuple_pool[v.end]]
    BY <1>1, <2>1, <2>2
  <2>4. QED
    BY <2>3 DEF Sound, TailIsList
<1>6. HasArity(v)' /\ IsMeant(v)'
  BY DEF Sound, HasArity, IsMeant
<1>7. QED
  BY <1>3, <1>4, <1>5, <1>6 DEF Sound

LEMMA AppendInHand ==
  ASSUME IInv, NEW w \in SafeGeneric, env' = Append(env, w), UNCHANGED <<binds, work>>
  PROVE  InHand' \subseteq InHand \cup {w}
<1>1. env \in Seq(SafeGeneric)
  BY DEF IInv, Typed, LocalsTyped
<1>2. \A i \in DOMAIN env' : env'[i] = w \/ (i \in DOMAIN env /\ env'[i] = env[i])
  <2>1. /\ Len(env') = Len(env) + 1 /\ Len(env) \in Nat
        /\ DOMAIN env' = 1..Len(env') /\ DOMAIN env = 1..Len(env)
        /\ \A i \in 1..Len(env) : env'[i] = env[i]
        /\ env'[Len(env) + 1] = w
    BY <1>1, AppendProperties, LenProperties
  <2>2. \A i \in 1..(Len(env) + 1) : i = Len(env) + 1 \/ i \in 1..Len(env)
    BY <2>1
  <2>3. DOMAIN env' = 1..(Len(env) + 1)
    BY <2>1
  <2>4. ASSUME NEW i \in DOMAIN env'
        PROVE  env'[i] = w \/ (i \in DOMAIN env /\ env'[i] = env[i])
    <3>1. i = Len(env) + 1 \/ i \in 1..Len(env)
      BY <2>2, <2>3, Zenon
    <3>2. QED
      BY <2>1, <3>1, Zenon
  <2>5. QED
    BY <2>4
<1>3. \A i \in DOMAIN env' : env'[i] \in InHand \cup {w}
  BY <1>2 DEF InHand
<1>4. QED
  BY <1>3 DEF InHand

(***************************************************************************)
(* A statement that binds w and stores, above the indices, only w and      *)
(* values the program already has, with words below the new heap index.    *)
(***************************************************************************)
LEMMA OldOrNew ==
  \A a, b \in Int : \A i \in 0..(b - 1) : i \in 0..(a - 1) \/ i \in a..(b - 1)
OBVIOUS

NewCellsFrom(w) == \A i \in heap_index..(heap_index' - 1) : heap'[i] \in Held \cup {w}
NewWordsBelow ==
  \A i \in tuple_pool_index..(tuple_pool_index' - 1) : tuple_pool'[i] < heap_index'

LEMMA BuiltSound ==
  ASSUME IInv, IInv', FreshInv, pc = "run", WriteOnceStep, NEW w \in SafeGeneric,
         env' = Append(env, w), UNCHANGED <<pc, binds, work>>, Sound(w)',
         NewCellsFrom(w), NewWordsBelow
  PROVE  FreshInv'
<1>1. MemorySound
  BY DEF FreshInv
<1>2. /\ heap_index' \in Int /\ tuple_pool_index' \in Int /\ string_pool_index' \in Int
      /\ heap_index' >= heap_index
      /\ \A i \in 0..(tuple_pool_index - 1) : tuple_pool'[i] = tuple_pool[i]
      /\ \A i \in 0..(heap_index - 1) : heap'[i] = heap[i]
  BY DEF IInv, Typed, PoolsTyped, StringIndices, WriteOnceStep, SameBelow
<1>3. /\ heap_index \in Int /\ heap_index' \in Int
      /\ tuple_pool_index \in Int /\ tuple_pool_index' \in Int
  BY <1>2, Indices
<1>4. Held' \subseteq Held \cup {w}
  <2>1. InHand' \subseteq InHand \cup {w}
    BY AppendInHand
  <2>2. \A i \in 0..(heap_index' - 1) : heap'[i] \in Held \cup {w}
    <3> SUFFICES ASSUME NEW i \in 0..(heap_index' - 1) PROVE heap'[i] \in Held \cup {w}
      OBVIOUS
    <3>1. i \in 0..(heap_index - 1) \/ i \in heap_index..(heap_index' - 1)
      BY <1>3, OldOrNew, Zenon
    <3>2. CASE i \in 0..(heap_index - 1)
      BY <1>2, <3>2 DEF Held
    <3>3. CASE i \in heap_index..(heap_index' - 1)
      BY <3>3 DEF NewCellsFrom
    <3>4. QED
      BY <3>1, <3>2, <3>3
  <2>3. QED
    BY <2>1, <2>2 DEF Held
<1>5. HeldSound'
  <2> SUFFICES ASSUME NEW v \in Held' PROVE Sound(v)'
    BY DEF HeldSound
  <2>1. CASE v = w
    BY <2>1
  <2>2. CASE v \in Held
    BY <1>1, <1>2, <2>2, HeldIsSafe, StaysSound DEF MemorySound, HeldSound
  <2>3. QED
    BY <1>4, <2>1, <2>2
<1>6. WordsBelow'
  <2> SUFFICES ASSUME NEW i \in 0..(tuple_pool_index' - 1) PROVE tuple_pool'[i] < heap_index'
    BY DEF WordsBelow
  <2>1. i \in 0..(tuple_pool_index - 1) \/ i \in tuple_pool_index..(tuple_pool_index' - 1)
    BY <1>3, OldOrNew, Zenon
  <2>2. CASE i \in 0..(tuple_pool_index - 1)
    <3>1. tuple_pool[i] < heap_index /\ tuple_pool[i] \in Nat
      BY <1>1, <2>2, Indices DEF MemorySound, WordsBelow
    <3>2. QED
      BY <1>2, <2>2, <3>1, TuplePoolIs
  <2>3. CASE i \in tuple_pool_index..(tuple_pool_index' - 1)
    BY <2>3 DEF NewWordsBelow
  <2>4. QED
    BY <2>1, <2>2, <2>3
<1>7. TailsAreLists'
  BY <1>1 DEF MemorySound, TailsAreLists
<1>8. QED
  BY <1>5, <1>6, <1>7 DEF FreshInv, AtRest, MemorySound

(* A statement that ends the invocation leaves nothing to say. *)
LEMMA CatchFresh ==
  ASSUME FreshInv, pc = "run", pc' \notin {"run", "match"}, UNCHANGED <<binds, work>>
  PROVE  FreshInv'
BY DEF FreshInv, AtRest

LEMMA FillStores ==
  ASSUME NEW n \in Nat, NEW S, NEW f \in [0..(n - 1) -> S], NEW from \in 0..n,
         NEW s \in Seq(S), from + Len(s) <= n
  PROVE  \A i \in from..(from + Len(s) - 1) :
           i - from + 1 \in 1..Len(s) /\ Fill(f, from, s)[i] = s[i - from + 1]
<1>1. Len(s) \in Nat
  BY LenProperties
<1>2. \A i \in from..(from + Len(s) - 1) : i \in 0..(n - 1) /\ i - from + 1 \in 1..Len(s)
  BY <1>1
<1>3. QED
  BY <1>2 DEF Fill

(* What was written is read back. *)
LEMMA ReadBack ==
  ASSUME NEW n \in Nat, NEW S, NEW f \in [0..(n - 1) -> S], NEW from \in 0..n,
         NEW s \in Seq(S), NEW k \in Nat, k = Len(s), from + k <= n
  PROVE  [i \in 1..k |-> Fill(f, from, s)[from + i - 1]] = s
<1>1. \A i \in 1..k : Fill(f, from, s)[from + i - 1] = s[i]
  <2> SUFFICES ASSUME NEW i \in 1..k PROVE Fill(f, from, s)[from + i - 1] = s[i]
    OBVIOUS
  <2>1. from + i - 1 \in from..(from + k - 1) /\ from + i - 1 - from + 1 = i
    OBVIOUS
  <2>2. QED
    BY <2>1, FillStores
<1>2. s = [i \in 1..k |-> s[i]]
  BY LenProperties
<1>3. QED
  BY <1>1, <1>2

LEMMA ScalarFresh ==
  ASSUME IInv, IInv', FreshInv, \/ \E n \in Ints : IntValue(n)
                                \/ \E a \in AtomConsts : AtomConst(a)
  PROVE  FreshInv'
<1>1. PICK w \in SafeGeneric :
        env' = Append(env, w) /\ w.type \in {"INTEGER", "ATOM"} /\ IsMeant(w)
  <2>1. \A n \in Int : MkInteger(n).type = "INTEGER" /\ IsMeant(MkInteger(n))
    BY DEF MkInteger, MkGeneric, IsMeant
  <2>2. \A a \in Atoms : MkAtom(a).type = "ATOM" /\ IsMeant(MkAtom(a))
    <3>1. \A a \in Atoms : MkAtom(a).type = "ATOM"
      BY DEF MkAtom, MkGeneric, Atoms
    <3>2. QED
      BY <3>1 DEF IsMeant
  <2>3. QED
    BY <2>1, <2>2, SafeValues, DataAssumption DEF IntValue, AtomConst, Bind
<1>2. pc = "run" /\ UNCHANGED <<pools, pc, binds, work>>
  BY DEF IntValue, AtomConst, Bind, matching
<1>3. Sound(w)'
  BY <1>1 DEF Sound, Live, ReadsAsText, TailIsList, HasArity, IsMeant
<1>4. WriteOnceStep
  BY <1>2, UnchangedKeeps
<1>5. heap_index' = heap_index /\ tuple_pool_index' = tuple_pool_index
  BY <1>2 DEF pools
<1>6. heap_index \in Int /\ tuple_pool_index \in Int
  BY Indices
<1>7. NewCellsFrom(w) /\ NewWordsBelow
  BY <1>5, <1>6 DEF NewCellsFrom, NewWordsBelow
<1>8. QED
  BY <1>1, <1>2, <1>3, <1>4, <1>7, BuiltSound

LEMMA StringConstFresh ==
  ASSUME IInv, IInv', FreshInv, NEW t \in Texts, StringConst(t)
  PROVE  FreshInv'
<1> DEFINE last == LastIndex(string_pool_index, Len(t) + 1)
<1>1. pc = "run" /\ UNCHANGED <<binds, work, heap, heap_index, tuple_pool, tuple_pool_index>>
  BY DEF StringConst, matching
<1>2. CASE ~StringFits(last)
  BY <1>1, <1>2, CatchFresh DEF StringConst, GotoCatch
<1>3. CASE StringFits(last)
  <2>1. /\ string_pool' = Fill(string_pool, string_pool_index, Append(t, NUL))
        /\ string_pool_index' = last + 1
        /\ env' = Append(env, MkGeneric("STRING", string_pool_index, last))
        /\ UNCHANGED pc
    BY <1>3 DEF StringConst, Bind, AfterLast
  <2>2. Append(t, NUL) \in Seq(AllChars) /\ Len(t) \in Nat /\ Len(Append(t, NUL)) = Len(t) + 1
    <3>1. t \in Seq(AllChars)
      BY DataAssumption, SeqMonotonic DEF AllChars
    <3>2. QED
      BY <3>1, AppendProperties, LenProperties DEF AllChars
  <2>3. PICK from \in Nat, to \in Nat :
          /\ from = string_pool_index /\ to = last /\ to = from + Len(t)
          /\ to + 1 < STRING_POOL_SIZE
    <3>1. string_pool_index \in Nat /\ last = string_pool_index + Len(t)
      BY <2>2, Indices DEF LastIndex
    <3>2. last \in Nat /\ last + 1 < STRING_POOL_SIZE
      BY <1>3, <2>2, <3>1 DEF StringFits
    <3> HIDE DEF last
    <3>3. QED
      BY <3>1, <3>2
  <2>4. PICK w \in SafeGeneric : w = MkGeneric("STRING", from, to)
    BY <2>2, <2>3, SafeValues, Indices
  <2>5. w.type = "STRING" /\ w.start = from /\ w.end = to
    BY <2>4 DEF MkGeneric
  <2>6. Chars(w)' = Append(t, NUL)
    <3>1. PICK s \in Seq(AllChars), k \in Nat : s = Append(t, NUL) /\ k = Len(s)
      BY <2>2, LenProperties
    <3>2. k = to - from + 1 /\ from \in 0..STRING_POOL_SIZE /\ from + k <= STRING_POOL_SIZE
      BY <2>2, <2>3, <3>1, Sizes
    <3>3. [i \in 1..k |-> Fill(string_pool, from, s)[from + i - 1]] = s
      <4>1. string_pool \in [0..(STRING_POOL_SIZE - 1) -> AllChars] /\ STRING_POOL_SIZE \in Nat
        BY Indices
      <4>2. k = Len(s)
        BY <3>1
      <4>3. QED
        BY <3>2, <4>1, <4>2, ReadBack
    <3>4. Chars(w)' = [i \in 1..k |-> string_pool'[from + i - 1]]
      BY <2>5, <3>2 DEF Chars
    <3>5. QED
      BY <2>1, <2>3, <3>1, <3>3, <3>4
  <2>7. Sound(w)'
    <3>1. string_pool_index' = to + 1
      BY <2>1, <2>3
    <3>2. Live(w)'
      BY <2>3, <2>5, <3>1 DEF Live
    <3>3. QED
      BY <2>5, <2>6, <3>2 DEF Sound, ReadsAsText, TailIsList, HasArity, IsMeant
  <2>8. heap_index \in Int /\ tuple_pool_index \in Int
    BY Indices
  <2>9. NewCellsFrom(w) /\ NewWordsBelow
    BY <1>1, <2>8 DEF NewCellsFrom, NewWordsBelow
  <2>10. QED
    BY <1>1, <2>1, <2>3, <2>4, <2>7, <2>9, StringConstKeeps, BuiltSound
<1>4. QED
  BY <1>2, <1>3

LEMMA EmptyListFresh == IInv /\ IInv' /\ FreshInv /\ EmptyList => FreshInv'
<1> SUFFICES ASSUME IInv, IInv', FreshInv, EmptyList PROVE FreshInv'
  OBVIOUS
<1>1. pc = "run" /\ UNCHANGED <<binds, work, tuple_pool, tuple_pool_index>>
  BY DEF EmptyList, matching
<1>2. CASE ~(heap_index < HEAP_SIZE)
  BY <1>1, <1>2, CatchFresh DEF EmptyList, GotoCatch
<1>3. CASE heap_index < HEAP_SIZE
  <2>1. /\ heap' = Fill(heap, heap_index, <<EmptyListValue>>)
        /\ heap_index' = heap_index + 1
        /\ env' = Append(env, EmptyListValue) /\ UNCHANGED pc
    BY <1>3 DEF EmptyList, Bind
  <2>2. Sound(EmptyListValue)'
    <3>1. -1 < tuple_pool_index'
      BY <1>1, Indices
    <3>2. QED
      BY <3>1 DEF Sound, Live, ReadsAsText, TailIsList, HasArity, IsMeant, EmptyListValue,
         MkGeneric
  <2>3. NewWordsBelow
    <3>1. tuple_pool_index \in Int
      BY Indices
    <3>2. QED
      BY <1>1, <3>1 DEF NewWordsBelow
  <2>4. NewCellsFrom(EmptyListValue)
    <3>1. heap_index \in Int /\ heap'[heap_index] = EmptyListValue
      BY <1>3, <2>1, Indices DEF Fill
    <3>2. \A i \in heap_index..(heap_index + 1 - 1) : i = heap_index
      BY <3>1
    <3>3. QED
      BY <2>1, <3>1, <3>2 DEF NewCellsFrom
  <2>5. QED
    BY <1>1, <2>1, <2>2, <2>3, <2>4, SafeValues, EmptyListKeeps, BuiltSound
<1>4. QED
  BY <1>2, <1>3

LEMMA OperandHeld ==
  ASSUME NEW i \in Operand, IInv
  PROVE  env[i] \in Held
<1>1. env \in Seq(SafeGeneric)
  BY DEF IInv, Typed, LocalsTyped
<1>2. i \in DOMAIN env
  BY <1>1, LenProperties DEF Operand
<1>3. QED
  BY <1>2 DEF Held, InHand

LEMMA TupleFresh ==
  ASSUME IInv, IInv', FreshInv, NEW n \in Arities, NEW args \in [1..n -> Operand],
         TupleLiteral(args)
  PROVE  FreshInv'
<1> DEFINE heapRoom == HEAP_SIZE - heap_index
<1> DEFINE poolRoom == TUPLE_POOL_SIZE - tuple_pool_index
<1> DEFINE pointers == Least(n, Least(heapRoom, poolRoom))
<1> DEFINE elements == Least(n, Least(heapRoom, poolRoom + 1))
<1>1. n \in Nat /\ Len(args) = n
  BY DataAssumption, FunctionIsSeq
<1>2. pc = "run" /\ UNCHANGED <<binds, work>>
  BY DEF TupleLiteral, matching
<1>3. CASE pointers < n
  BY <1>1, <1>2, <1>3, CatchFresh DEF TupleLiteral, GotoCatch
<1>4. CASE ~(pointers < n)
  <2>1. PICK h \in Nat, p \in Nat :
          /\ h = heap_index /\ p = tuple_pool_index
          /\ h + n <= HEAP_SIZE /\ p + n <= TUPLE_POOL_SIZE
          /\ elements = n /\ pointers = n
    <3>1. /\ heap_index \in 0..HEAP_SIZE /\ HEAP_SIZE \in Nat
          /\ tuple_pool_index \in 0..TUPLE_POOL_SIZE /\ TUPLE_POOL_SIZE \in Nat
      BY Indices
    <3>2. n <= heapRoom /\ n <= poolRoom /\ pointers = n
      BY <1>1, <1>4, <3>1 DEF Least
    <3>3. elements = n
      BY <1>1, <3>1, <3>2 DEF Least
    <3> HIDE DEF pointers, elements
    <3>4. QED
      BY <1>1, <3>1, <3>2, <3>3
  <2>2. /\ heap' = Fill(heap, h, [i \in 1..n |-> env[args[i]]])
        /\ tuple_pool' = Fill(tuple_pool, p, [i \in 1..n |-> h + i - 1])
        /\ heap_index' = h + n /\ tuple_pool_index' = p + n
        /\ env' = Append(env, MkGeneric("TUPLE", p, p + n - 1))
        /\ UNCHANGED pc
    BY <1>1, <1>4, <2>1 DEF TupleLiteral, Bind, LastIndex
  <2>3. PICK w \in SafeGeneric : w = MkGeneric("TUPLE", p, p + n - 1)
    BY <1>1, <2>1, SafeValues, Indices
  <2>4. Sound(w)'
    <3>1. w.type = "TUPLE" /\ w.start = p /\ w.end = p + n - 1
      BY <2>3 DEF MkGeneric
    <3>2. w.end < tuple_pool_index'
      BY <1>1, <2>2, <3>1
    <3>3. w.end - w.start + 1 = n
      BY <1>1, <3>1
    <3>4. QED
      BY <3>1, <3>2, <3>3 DEF Sound, Live, ReadsAsText, TailIsList, HasArity, IsMeant
  <2>5. NewCellsFrom(w)
    <3>1. \A i \in h..(h + n - 1) : i \in 0..(HEAP_SIZE - 1) /\ i - h + 1 \in 1..n
      BY <1>1, <2>1, Sizes
    <3>2. DOMAIN heap = 0..(HEAP_SIZE - 1)
      BY Indices
    <3>3. Len([i \in 1..n |-> env[args[i]]]) = n
      BY <1>1
    <3>4. \A i \in h..(h + n - 1) : heap'[i] = env[args[i - h + 1]]
      BY <2>2, <3>1, <3>2, <3>3 DEF Fill
    <3>5. \A i \in h..(h + n - 1) : heap'[i] \in Held
      BY <3>1, <3>4, OperandHeld
    <3>6. heap_index = h /\ heap_index' = h + n
      BY <2>1, <2>2
    <3>7. heap_index..(heap_index' - 1) = h..(h + n - 1)
      BY <1>1, <2>1, <3>6
    <3>8. QED
      BY <3>5, <3>7 DEF NewCellsFrom
  <2>6. NewWordsBelow
    <3>1. \A i \in p..(p + n - 1) :
            i \in 0..(TUPLE_POOL_SIZE - 1) /\ i - p + 1 \in 1..n /\ h + (i - p + 1) - 1 < h + n
      BY <1>1, <2>1, Indices
    <3>2. DOMAIN tuple_pool = 0..(TUPLE_POOL_SIZE - 1)
      BY Indices
    <3>3. Len([i \in 1..n |-> h + i - 1]) = n
      BY <1>1
    <3>4. \A i \in p..(p + n - 1) : tuple_pool'[i] = h + (i - p + 1) - 1
      BY <2>2, <3>1, <3>2, <3>3 DEF Fill
    <3>5. \A i \in p..(p + n - 1) : tuple_pool'[i] < h + n
      BY <3>1, <3>4
    <3>6. tuple_pool_index = p /\ tuple_pool_index' = p + n /\ heap_index' = h + n
      BY <2>1, <2>2
    <3>7. tuple_pool_index..(tuple_pool_index' - 1) = p..(p + n - 1)
      BY <1>1, <2>1, <3>6
    <3>8. QED
      BY <3>5, <3>6, <3>7, Zenon DEF NewWordsBelow
  <2>7. WriteOnceStep
    BY TupleAllocates, AllocatesKeeps
  <2>8. QED
    BY <1>2, <2>2, <2>3, <2>4, <2>5, <2>6, <2>7, BuiltSound
<1>5. QED
  BY <1>3, <1>4

LEMMA ConsFresh ==
  ASSUME DisciplinedLists, IInv, IInv', FreshInv, NEW h \in Operand, NEW t \in Operand,
         ConsCell(h, t)
  PROVE  FreshInv'
<1> DEFINE words == Least(2, TUPLE_POOL_SIZE - tuple_pool_index)
<1> DEFINE cells == IF words < 2 THEN 0 ELSE Least(2, HEAP_SIZE - heap_index)
<1>1. pc = "run" /\ UNCHANGED <<binds, work>>
  BY DEF ConsCell, matching
<1>2. CASE cells < 2
  BY <1>1, <1>2, CatchFresh DEF ConsCell, GotoCatch
<1>3. CASE ~(cells < 2)
  <2>1. PICK c \in Nat, p \in Nat :
          /\ c = heap_index /\ p = tuple_pool_index
          /\ c + 2 <= HEAP_SIZE /\ p + 2 <= TUPLE_POOL_SIZE
          /\ cells = 2 /\ words = 2
    <3>1. /\ heap_index \in 0..HEAP_SIZE /\ HEAP_SIZE \in Nat
          /\ tuple_pool_index \in 0..TUPLE_POOL_SIZE /\ TUPLE_POOL_SIZE \in Nat
      BY Indices
    <3>2. words = 2 /\ tuple_pool_index + 2 <= TUPLE_POOL_SIZE
      BY <1>3, <3>1 DEF Least
    <3>3. cells = 2 /\ heap_index + 2 <= HEAP_SIZE
      BY <1>3, <3>1, <3>2 DEF Least
    <3> HIDE DEF words, cells
    <3>4. QED
      BY <3>1, <3>2, <3>3
  <2>2. c > 0 /\ heap[c - 1].type = "LIST"
    BY <2>1 DEF ConsCell
  <2>3. PICK w \in SafeGeneric : w = MkGeneric("LIST", p, p + 1)
    BY <2>1, SafeValues, Indices
  <2>4. PreviousCell(c) = c - 1
    <3>1. c - 1 \in 0..(WORD - 1)
      BY <2>1, <2>2, Sizes
    <3>2. WORD \in Nat \ {0} /\ \A k \in 0..(WORD - 1) : k % WORD = k
      BY SizeAssumption
    <3>3. QED
      BY <3>1, <3>2 DEF PreviousCell
  <2>5. /\ heap' = Fill(heap, c, <<env[h], w>>)
        /\ tuple_pool' = Fill(tuple_pool, p, <<c, c - 1>>)
        /\ heap_index' = c + 2 /\ tuple_pool_index' = p + 2
        /\ env' = Append(env, w)
        /\ UNCHANGED pc
    <3>1. ASSUME NEW x, NEW y PROVE SubSeq(<<x, y>>, 1, 2) = <<x, y>>
      <4>1. <<x, y>> \in Seq({x, y}) /\ Len(<<x, y>>) = 2
        OBVIOUS
      <4>2. QED
        BY <4>1, SubSeqFull
    <3>2. /\ heap' = Fill(heap, c, SubSeq(<<env[h], w>>, 1, 2))
          /\ tuple_pool' = Fill(tuple_pool, p, SubSeq(<<c, c - 1>>, 1, 2))
          /\ heap_index' = c + 2 /\ tuple_pool_index' = p + 2
      BY <2>1, <2>3, <2>4 DEF ConsCell
    <3>3. env' = Append(env, w) /\ UNCHANGED pc
      BY <2>1, <2>3 DEF ConsCell, Bind
    <3>4. QED
      BY <3>1, <3>2, <3>3
  <2>6. /\ heap'[c] = env[h] /\ heap'[c + 1] = w /\ heap'[c - 1] = heap[c - 1]
        /\ tuple_pool'[p] = c /\ tuple_pool'[p + 1] = c - 1
    <3>1. /\ c \in 0..(HEAP_SIZE - 1) /\ c + 1 \in 0..(HEAP_SIZE - 1)
          /\ c - 1 \in 0..(HEAP_SIZE - 1)
          /\ p \in 0..(TUPLE_POOL_SIZE - 1) /\ p + 1 \in 0..(TUPLE_POOL_SIZE - 1)
      BY <2>1, <2>2, Sizes
    <3>2. DOMAIN heap = 0..(HEAP_SIZE - 1) /\ DOMAIN tuple_pool = 0..(TUPLE_POOL_SIZE - 1)
      BY Indices
    <3>3. QED
      BY <2>1, <2>5, <3>1, <3>2 DEF Fill
  <2>7. Sound(w)'
    <3>1. w.type = "LIST" /\ w.start = p /\ w.end = p + 1
      BY <2>3 DEF MkGeneric
    <3>2. Live(w)'
      BY <2>1, <2>5, <3>1 DEF Live
    <3>3. TailIsList(w)'
      BY <2>2, <2>6, <3>1 DEF TailIsList
    <3>4. QED
      BY <3>1, <3>2, <3>3 DEF Sound, ReadsAsText, HasArity, IsMeant
  <2>8. NewCellsFrom(w)
    <3>1. \A i \in c..(c + 2 - 1) : i = c \/ i = c + 1
      BY <2>1
    <3>2. \A i \in c..(c + 2 - 1) : heap'[i] \in Held \cup {w}
      BY <2>6, <3>1, OperandHeld
    <3>3. QED
      BY <2>1, <2>5, <3>2 DEF NewCellsFrom
  <2>9. NewWordsBelow
    <3>1. \A i \in p..(p + 2 - 1) : i = p \/ i = p + 1
      BY <2>1
    <3>2. c < c + 2 /\ c - 1 < c + 2
      BY <2>1
    <3>3. \A i \in p..(p + 2 - 1) : tuple_pool'[i] < c + 2
      BY <2>6, <3>1, <3>2
    <3>4. tuple_pool_index..(tuple_pool_index' - 1) = p..(p + 2 - 1) /\ heap_index' = c + 2
      BY <2>1, <2>5
    <3>5. QED
      BY <3>3, <3>4, Zenon DEF NewWordsBelow
  <2>10. WriteOnceStep
    BY ConsAllocates, AllocatesKeeps
  <2>11. QED
    BY <1>1, <2>3, <2>5, <2>7, <2>8, <2>9, <2>10, BuiltSound
<1>4. QED
  BY <1>2, <1>3

LEMMA BeginMainFresh == IInv /\ FreshInv /\ BeginMain => FreshInv'
<1> SUFFICES ASSUME IInv, FreshInv, BeginMain PROVE FreshInv'
  OBVIOUS
<1>1. /\ env' = <<>> /\ work' = <<>> /\ binds' = <<>> /\ pc' = "run"
      /\ heap_index' = 0 /\ tuple_pool_index' = 0
  BY DEF BeginMain, ResetIndices, FreshInv, AtRest, matching
<1>2. Held' = {}
  BY <1>1 DEF Held, InHand
<1>3. HeldSound' /\ WordsBelow' /\ TailsAreLists'
  BY <1>1, <1>2 DEF HeldSound, WordsBelow, TailsAreLists
<1>4. QED
  BY <1>1, <1>3 DEF FreshInv, AtRest, MemorySound

(***************************************************************************)
(* Pattern matching again, now with V the values the program holds.        *)
(***************************************************************************)
LEMMA Narrowed ==
  ASSUME NEW S, NEW s \in Seq(S), NEW V, \A i \in DOMAIN s : s[i] \in V
  PROVE  s \in Seq(V)
<1>1. Len(s) \in Nat /\ s \in [1..Len(s) -> V]
  BY LenProperties
<1>2. QED
  BY <1>1, FunctionIsSeq

LEMMA HeldInHand ==
  ASSUME IInv, TailsAreLists, NEW V, V = Held
  PROVE  HandIn(V, ListChecks(V)) /\ ChecksOver(V, ListChecks(V))
<1>1. /\ env \in Seq(SafeGeneric) /\ binds \in Seq(SafeGeneric)
      /\ work \in Seq(Checks(SafeGeneric))
  BY DEF IInv, Typed, LocalsTyped
<1>2. \A i \in DOMAIN work : work[i] \in ListChecks(V)
  <2> SUFFICES ASSUME NEW i \in DOMAIN work PROVE work[i] \in ListChecks(V)
    OBVIOUS
  <2>1. work[i] \in Checks(SafeGeneric)
    BY <1>1, ElementOfSeq, LenProperties
  <2>2. work[i].val \in V
    BY DEF Held, InHand
  <2>3. work[i].skip > 0 => work[i].val.type = "LIST"
    BY DEF TailsAreLists
  <2>4. QED
    BY <2>1, <2>2, <2>3 DEF Checks, ListChecks
<1>3. work \in Seq(ListChecks(V))
  BY <1>1, <1>2, Narrowed
<1>4. env \in Seq(V)
  <2>1. \A i \in DOMAIN env : env[i] \in V
    BY DEF Held, InHand
  <2>2. QED
    BY <1>1, <2>1, Narrowed
<1>5. binds \in Seq(V)
  <2>1. \A i \in DOMAIN binds : binds[i] \in V
    BY DEF Held, InHand
  <2>2. QED
    BY <1>1, <2>1, Narrowed
<1>6. ChecksOver(V, ListChecks(V))
  <2>1. ASSUME NEW pat \in Patterns, NEW v \in V, NEW g \in BOOLEAN
        PROVE  Check(pat, v, g, 0) \in Checks(V) /\ Check(pat, v, g, 0).skip = 0
    BY DEF Check, Checks
  <2>2. \A pat \in Patterns, v \in V, g \in BOOLEAN : Check(pat, v, g, 0) \in ListChecks(V)
    BY <2>1 DEF ListChecks
  <2>3. ListChecks(V) \subseteq Checks(V)
    BY DEF ListChecks
  <2>4. QED
    BY <2>2, <2>3 DEF ChecksOver
<1>7. QED
  BY <1>3, <1>4, <1>5, <1>6 DEF HandIn

(* Whatever lies below the tuple pool index is the address of a held value. *)
LEMMA ElementHeld ==
  ASSUME IInv, WordsBelow, NEW i \in 0..(tuple_pool_index - 1)
  PROVE  Element(i) \in Held
<1>1. tuple_pool[i] \in 0..(heap_index - 1)
  BY TuplePoolIs DEF WordsBelow
<1>2. QED
  BY <1>1 DEF Element, Held

LEMMA ListReads ==
  ASSUME IInv, MemorySound, NEW v \in Held, v.type = "LIST", Readable(v.start)
  PROVE  /\ v.start \in 0..(tuple_pool_index - 1) /\ v.start + 1 \in 0..(tuple_pool_index - 1)
         /\ Element(v.start + 1).type = "LIST"
<1>1. Sound(v) /\ Bounded(v) /\ v.start \in Int /\ v.end \in Int
  BY HeldIsSafe DEF MemorySound, HeldSound, SafeGeneric, Generic
<1>2. v.start >= 0
  BY DEF Readable
<1>3. v.end = v.start + 1 /\ v.start # -1
  BY <1>1, <1>2 DEF Bounded
<1>4. v.end < tuple_pool_index /\ tuple_pool_index \in Int
  BY <1>1, Indices DEF Sound, Live
<1>5. Element(v.start + 1).type = "LIST"
  BY <1>1, <1>3 DEF Sound, TailIsList, Element
<1>6. QED
  BY <1>1, <1>2, <1>3, <1>4, <1>5

LEMMA HeldReads ==
  ASSUME IInv, MemorySound, TuplesFit, PatternStep, NEW V, V = Held
  PROVE  ReadsIn(V) /\ TailIn(ListChecks(V))
<1>1. work # <<>> /\ WordsBelow
  BY DEF PatternStep, MatchAny, MatchVar, MatchAtom, MatchInt, MatchText, MatchTuple,
         MatchList, MatchCons, Current, MemorySound
<1>2. work[1] \in ListChecks(V)
  <2>1. HandIn(V, ListChecks(V))
    BY HeldInHand DEF MemorySound
  <2>2. QED
    BY <1>1, <2>1, FrontCheck DEF HandIn
<1> PICK c \in ListChecks(V) : c = work[1]
  BY <1>2
<1>3. /\ c.pat \in Patterns /\ c.val \in V /\ c.skip \in Nat
      /\ c.skip > 0 => c.val.type = "LIST"
  BY DEF ListChecks, Checks
<1>4. /\ Sound(c.val) /\ Bounded(c.val) /\ c.val.start \in Int /\ c.val.end \in Int
  BY <1>3, HeldIsSafe DEF MemorySound, HeldSound, SafeGeneric, Generic
<1>5. ASSUME Current({"tuple"}), c.val.type = "TUPLE", NEW i \in 1..Len(c.pat.subs)
      PROVE  Element(c.val.start + i - 1) \in V
  <2>1. Len(c.pat.subs) <= c.val.end - c.val.start + 1 /\ Len(c.pat.subs) \in Nat
    BY <1>3, <1>5, PatternAssumption, LenProperties DEF TuplesFit
  <2>2. c.val.start >= 0
    BY <1>4, <1>5 DEF Bounded
  <2>3. c.val.end < tuple_pool_index /\ tuple_pool_index \in Int
    BY <1>4, <1>5, Indices DEF Sound, Live
  <2>4. c.val.start + i - 1 \in 0..(tuple_pool_index - 1)
    <3>1. \A from, to, n, k, top \in Int :
            (from >= 0 /\ 1 <= k /\ k <= n /\ n <= to - from + 1 /\ to < top)
              => from + k - 1 \in 0..(top - 1)
      OBVIOUS
    <3>2. i \in Int /\ 1 <= i /\ i <= Len(c.pat.subs) /\ Len(c.pat.subs) \in Int
      BY <2>1
    <3>3. QED
      BY <1>4, <2>1, <2>2, <2>3, <3>1, <3>2
  <2>5. QED
    BY <1>1, <2>4, ElementHeld
<1>6. ASSUME TakenAsList, ReadableAsList
      PROVE  /\ Element(c.val.start) \in V /\ Element(c.val.start + 1) \in V
             /\ Element(c.val.start + 1).type = "LIST"
  <2>1. c.val.type = "LIST"
    BY <1>3, <1>6 DEF TakenAsList
  <2>2. Readable(c.val.start)
    BY <1>6 DEF ReadableAsList
  <2>3. QED
    BY <1>1, <1>3, <2>1, <2>2, ListReads, ElementHeld
<1>7. ReadsIn(V)
  BY <1>5, <1>6 DEF ReadsIn
<1>8. ASSUME TakenAsList, ReadableAsList
      PROVE  Check(c.pat, Element(c.val.start + 1), FALSE, c.skip + 1) \in ListChecks(V)
  <2>1. c.skip + 1 \in Nat
    BY <1>3
  <2>2. QED
    BY <1>3, <1>6, <1>8, <2>1 DEF Check, Checks, ListChecks
<1>9. TailIn(ListChecks(V))
  BY <1>8 DEF TailIn
<1>10. QED
  BY <1>7, <1>9

(* Moving held values between the hands of the program keeps memory sound. *)
LEMMA MovedSound ==
  ASSUME IInv, MemorySound, pc # "idle", UNCHANGED pools, NEW V, V = Held,
         HandIn(V, ListChecks(V))'
  PROVE  MemorySound'
<1>1. /\ \A i \in DOMAIN env' : env'[i] \in V
      /\ \A i \in DOMAIN binds' : binds'[i] \in V
      /\ \A i \in DOMAIN work' : work'[i] \in ListChecks(V)
  BY ElementOfSeq, LenProperties DEF HandIn
<1>2. Held' \subseteq V
  <2>1. \A i \in DOMAIN work' : work'[i].val \in V
    BY <1>1 DEF ListChecks, Checks
  <2>2. InHand' \subseteq V
    BY <1>1, <2>1 DEF InHand
  <2>3. \A i \in 0..(heap_index' - 1) : heap'[i] \in V
    BY DEF Held, pools
  <2>4. QED
    BY <2>2, <2>3 DEF Held
<1>3. WriteOnceStep
  BY UnchangedKeeps
<1>4. heap_index' \in Int /\ tuple_pool_index' \in Int /\ string_pool_index' \in Int
  BY Indices DEF pools
<1>5. HeldSound'
  <2> SUFFICES ASSUME NEW v \in Held' PROVE Sound(v)'
    BY DEF HeldSound
  <2>1. v \in SafeGeneric /\ Sound(v)
    BY <1>2, HeldIsSafe DEF MemorySound, HeldSound
  <2>2. QED
    BY <1>3, <1>4, <2>1, StaysSound DEF MemorySound
<1>6. WordsBelow'
  BY DEF MemorySound, WordsBelow, pools
<1>7. TailsAreLists'
  BY <1>1 DEF ListChecks, TailsAreLists
<1>8. QED
  BY <1>5, <1>6, <1>7 DEF MemorySound

LEMMA MatchFresh ==
  ASSUME IInv, FreshInv, TuplesFit, BeginMatch \/ MatchStep
  PROVE  FreshInv'
<1>1. /\ pc \in {"run", "match"} /\ UNCHANGED pools
      /\ pc = "match" => GoalTyped
  BY DEF BeginMatch, StartMatch, MatchStep, MatchAny, MatchVar, MatchAtom, MatchInt,
         MatchText, MatchTuple, MatchList, MatchCons, MatchSucceeds, Current, IInv, Typed
<1>2. MemorySound
  BY <1>1 DEF FreshInv
<1> PICK V : V = Held
  OBVIOUS
<1> DEFINE C == ListChecks(V)
<1>3. HandIn(V, C) /\ ChecksOver(V, C)
  BY <1>2, HeldInHand DEF MemorySound
<1>4. CASE BeginMatch
  <2>1. HandIn(V, C)' /\ pc' = "match"
    <3>1. PICK i \in Operand, m \in Matches : StartMatch(m.op, i, m.clauses)
      BY <1>4 DEF BeginMatch
    <3> HIDE DEF C
    <3>2. QED
      BY <1>3, <3>1, StartMatchStaysIn DEF StartMatch
  <2>2. MemorySound'
    BY <1>1, <1>2, <2>1, MovedSound
  <2>3. QED
    BY <2>1, <2>2 DEF FreshInv, AtRest
<1>5. CASE MatchSucceeds
  <2>1. HandIn(V, C)' /\ work' = <<>> /\ binds' = <<>>
    <3> HIDE DEF C
    <3>1. QED
      BY <1>3, <1>5, MatchSucceedsStaysIn DEF MatchSucceeds
  <2>2. MemorySound'
    BY <1>1, <1>2, <2>1, MovedSound
  <2>3. QED
    BY <2>1, <2>2 DEF FreshInv, AtRest
<1>6. CASE PatternStep
  <2>1. pc = "match" /\ GoalTyped
    BY <1>1, <1>6 DEF PatternStep, MatchAny, MatchVar, MatchAtom, MatchInt, MatchText,
       MatchTuple, MatchList, MatchCons, Current
  <2>2. HandIn(V, C)' /\ pc' \in {"match", "CATCH"}
    <3>1. ReadsIn(V) /\ TailIn(C)
      BY <1>2, <1>6, HeldReads
    <3> HIDE DEF C
    <3>2. QED
      BY <1>3, <1>6, <2>1, <3>1, PatternStepStaysIn
  <2>3. MemorySound'
    BY <1>1, <1>2, <2>2, MovedSound
  <2>4. pc' = "CATCH" => work' = <<>> /\ binds' = <<>>
    BY <1>6, <2>1 DEF PatternStep, MatchAny, MatchVar, MatchAtom, MatchInt, MatchText,
       MatchTuple, MatchList, MatchCons, Holds, Mismatch, Replace
  <2>5. QED
    BY <2>2, <2>3, <2>4 DEF FreshInv, AtRest
<1>7. QED
  BY <1>4, <1>5, <1>6 DEF MatchStep, PatternStep

LEMMA NextFresh ==
  ASSUME DisciplinedLists, IInv, IInv', FreshInv, TuplesFit, [Next]_vars
  PROVE  FreshInv'
<1>1. CASE BeginMain
  BY <1>1, BeginMainFresh
<1>2. CASE Build
  BY <1>2, ScalarFresh, StringConstFresh, TupleFresh, EmptyListFresh, ConsFresh DEF Build
<1>3. CASE BeginMatch \/ MatchStep
  BY <1>3, MatchFresh
<1>4. CASE End
  <2>1. /\ pc \in {"run", "CATCH"} /\ pc' \in {"idle", "CATCH"}
        /\ UNCHANGED <<binds, work>>
    BY <1>4 DEF End, RaiseStmt, Catch, ReturnMain, GotoCatch, matching
  <2>2. QED
    BY <2>1 DEF FreshInv, AtRest
<1>5. CASE UNCHANGED vars
  BY <1>5 DEF vars, pools, matching, FreshInv, AtRest, MemorySound, HeldSound, WordsBelow,
     TailsAreLists, Held, InHand, Sound, Live, ReadsAsText, Chars, TailIsList,
     HasArity, IsMeant
<1>6. QED
  BY <1>1, <1>2, <1>3, <1>4, <1>5 DEF Next

LEMMA Freshness ==
  ASSUME DisciplinedLists
  PROVE  Spec /\ []TuplesFit => []FreshInv
<1>1. Init => FreshInv
  BY DEF Init, FreshInv, AtRest
<1>2. IInv /\ IInv' /\ FreshInv /\ TuplesFit /\ [Next]_vars => FreshInv'
  BY NextFresh
<1>3. QED
  BY <1>1, <1>2, Safety, PTL DEF Spec

(***************************************************************************)
(* No invocation sees another's data.  For every size of the pools and     *)
(* every program whose tuple patterns are no longer than the tuples they   *)
(* meet and whose lists are built from their tails: each value a statement *)
(* of the generated program can reach was made by the current invocation,  *)
(* although the contents of the pools outlive it and are never cleared.    *)
(***************************************************************************)
THEOREM NothingStale ==
  ASSUME DisciplinedLists
  PROVE  Spec /\ []TuplesFit => []NoStaleData
<1>1. ASSUME IInv, FreshInv
      PROVE  NoStaleData
  <2> SUFFICES ASSUME pc \in {"run", "match"}
               PROVE  /\ \A v \in InHand : Live(v)
                      /\ \A i \in 0..(heap_index - 1) : Live(heap[i])
                      /\ \A i \in 0..(tuple_pool_index - 1) : tuple_pool[i] < heap_index
    BY DEF NoStaleData
  <2>1. \A v \in Held : Live(v)
    BY <1>1 DEF FreshInv, MemorySound, HeldSound, Sound
  <2>2. WordsBelow
    BY <1>1 DEF FreshInv, MemorySound
  <2>3. QED
    BY <2>1, <2>2 DEF Held, WordsBelow
<1>2. QED
  BY <1>1, Safety, Freshness, PTL

(***************************************************************************)
(* Under the same conditions a string stays the constant it was made from, *)
(* character by character, as long as the program can reach it: no later   *)
(* constant, and not the atom text at the bottom of the pool, runs over it. *)
(***************************************************************************)
THEOREM StringsStayIntact ==
  ASSUME DisciplinedLists
  PROVE  Spec /\ []TuplesFit => []StringsIntact
<1>1. ASSUME FreshInv
      PROVE  StringsIntact
  BY <1>1 DEF FreshInv, MemorySound, HeldSound, Held, Sound, ReadsAsText, StringsIntact
<1>2. QED
  BY <1>1, Freshness, PTL

(***************************************************************************)
(* The condition on tuples is one on the text of the program: it holds     *)
(* throughout if no tuple pattern is longer than any tuple literal.        *)
(***************************************************************************)
THEOREM ShortPatternsFit ==
  ASSUME DisciplinedLists, ShortPatterns
  PROVE  Spec => []TuplesFit
<1>1. ASSUME IInv, FreshInv
      PROVE  TuplesFit
  <2> SUFFICES ASSUME Current({"tuple"}), work[1].val.type = "TUPLE"
               PROVE  Len(work[1].pat.subs) <= work[1].val.end - work[1].val.start + 1
    BY DEF TuplesFit
  <2>1. work # <<>> /\ work \in Seq(Checks(SafeGeneric)) /\ MemorySound
    BY <1>1 DEF Current, IInv, Typed, LocalsTyped, FreshInv
  <2>2. work[1] \in Checks(SafeGeneric) /\ 1 \in DOMAIN work
    BY <2>1, FrontCheck, EmptySeq, LenProperties
  <2>3. work[1].pat \in Patterns /\ work[1].pat.kind = "tuple"
    BY <2>2 DEF Checks, Current
  <2>4. work[1].val \in Held
    BY <2>2 DEF Held, InHand
  <2>5. work[1].val.end - work[1].val.start + 1 \in Arities
    BY <2>1, <2>4 DEF MemorySound, HeldSound, Sound, HasArity
  <2>6. QED
    BY <2>3, <2>5 DEF ShortPatterns
<1>2. Init => FreshInv
  BY DEF Init, FreshInv, AtRest
<1>3. IInv /\ IInv' /\ FreshInv /\ [Next]_vars => FreshInv'
  BY <1>1, NextFresh
<1>4. QED
  BY <1>1, <1>2, <1>3, Safety, PTL DEF Spec
-----------------------------------------------------------------------------
(***************************************************************************)
(* The refinement: what an invocation does in the pools is what Elixir     *)
(* does with immutable terms.                                              *)
(*                                                                         *)
(*   - A cell of the heap refers to earlier cells only (HeapInOrder), so   *)
(*     what the cells denote is well defined, and a step that writes once  *)
(*     leaves every live value the term it has (TermKept).                 *)
(*   - A statement that builds makes a value with the term the program     *)
(*     meant, or raises (TupleMeans, ConsMeans, ...).                      *)
(*   - The checks of a match, step by step, are Elixir's comparisons       *)
(*     (EachStepAgrees); so while a match is under way Elixir's match of   *)
(*     the same clause has come as far (MatchInv), and its end is Elixir's *)
(*     verdict.                                                            *)
(***************************************************************************)
(***************************************************************************)
(* Induction over a set of numbers, and what the two recursive functions   *)
(* of the mapping are: the terms of the heap cells, and a match.           *)
(***************************************************************************)
LEMMA NumbersAreAll ==
  ASSUME NEW S, 0 \in S, \A n \in Nat : n \in S => n + 1 \in S
  PROVE  Nat \subseteq S
<1> DEFINE T == {n \in Nat : n \notin S}
<1> SUFFICES ASSUME T # {}  PROVE FALSE
  OBVIOUS
<1>1. T \subseteq Nat
  OBVIOUS
<1>2. PICK x \in T : \A y \in T : ~(<<y, x>> \in OpToRel(<, Nat))
  <2> HIDE DEF T
  <2> QED
    BY <1>1, NatLessThanWellFounded, WFMin, Zenon
<1>3. x # 0 /\ x - 1 \in Nat /\ x - 1 < x
  OBVIOUS
<1>4. x - 1 \notin T
  BY <1>2, <1>3 DEF OpToRel
<1> QED
  BY <1>3, <1>4

(* Only what lies below the limit is looked at. *)
LEMMA TermsBelow ==
  ASSUME NEW v, NEW T, NEW U, NEW n, \A c \in 0..(n - 1) : T[c] = U[c]
  PROVE  TermOf(v, T, n) = TermOf(v, U, n)
BY Zenon DEF TermOf

LEMMA CellTermsAre ==
  ASSUME HEAP_SIZE \in Nat
  PROVE  CellTerms = [i \in HeapIndices |-> TermOf(heap[i], CellTerms, i)]
<1> DEFINE IsBelow(T, n) == T = [i \in 0..(n - 1) |-> TermOf(heap[i], T, i)]
           Ns == {n \in Nat : \E T : IsBelow(T, n)}
<1>1. 0 \in Ns
  <2> DEFINE T == [i \in 0..(0 - 1) |-> NotATerm]
  <2>1. IsBelow(T, 0)
    OBVIOUS
  <2> QED
    BY <2>1
<1>2. ASSUME NEW n \in Nat, n \in Ns  PROVE n + 1 \in Ns
  <2>1. PICK T : IsBelow(T, n)
    BY <1>2
  <2> DEFINE U == [i \in 0..(n + 1 - 1) |-> TermOf(heap[i], T, i)]
  <2>2. \A i \in 0..(n - 1) : T[i] = TermOf(heap[i], T, i)
    BY <2>1
  <2>3. \A i \in 0..(n - 1) : i \in 0..(n + 1 - 1) /\ U[i] = T[i]
    BY <2>2
  <2>4. \A i \in 0..(n + 1 - 1) : \A c \in 0..(i - 1) : c \in 0..(n - 1)
    OBVIOUS
  <2> HIDE DEF U
  <2>5. ASSUME NEW i \in 0..(n + 1 - 1)  PROVE TermOf(heap[i], U, i) = TermOf(heap[i], T, i)
    <3>1. \A c \in 0..(i - 1) : U[c] = T[c]
      BY <2>3, <2>4
    <3> HIDE DEF Ns, IsBelow
    <3> QED
      BY <3>1, TermsBelow
  <2>6. IsBelow(U, n + 1)
    BY <2>5 DEF U
  <2> QED
    BY <2>6
<1>3. HEAP_SIZE \in Ns
  <2> HIDE DEF Ns
  <2> QED
    BY <1>1, <1>2, NumbersAreAll
<1>4. PICK T : T = [i \in HeapIndices |-> TermOf(heap[i], T, i)]
  BY <1>3 DEF HeapIndices
<1> DEFINE it == CHOOSE U : U = [i \in HeapIndices |-> TermOf(heap[i], U, i)]
<1>5. it = [i \in HeapIndices |-> TermOf(heap[i], it, i)]
  BY <1>4
<1>6. CellTerms = it
  BY DEF CellTerms
<1> HIDE DEF it
<1> QED
  BY <1>5, <1>6

LEMMA RunIs ==
  ASSUME NEW p, NEW t
  PROVE  /\ Elixir!Run(p, t)[0] = Elixir!StartOf(p, t)
         /\ \A k \in 1..MatchSteps :
              Elixir!Run(p, t)[k] = Elixir!Advance(Elixir!Run(p, t)[k - 1])
<1> DEFINE Next1(f, k) == IF k = 0 THEN Elixir!StartOf(p, t) ELSE Elixir!Advance(f[k - 1])
           IsUpTo(f, n) == f = [k \in 0..n |-> Next1(f, k)]
           Ns == {n \in Nat : \E f : IsUpTo(f, n)}
<1>1. 0 \in Ns
  <2> DEFINE f == [k \in 0..0 |-> Elixir!StartOf(p, t)]
  <2>1. IsUpTo(f, 0)
    <3>1. \A k \in 0..0 : Next1(f, k) = Elixir!StartOf(p, t)
      OBVIOUS
    <3> QED
      BY <3>1
  <2> QED
    BY <2>1
<1>2. ASSUME NEW n \in Nat, n \in Ns  PROVE n + 1 \in Ns
  <2>1. PICK f : IsUpTo(f, n)
    BY <1>2
  <2> DEFINE g == [k \in 0..(n + 1) |-> Next1(f, k)]
  <2>2. \A k \in 0..n : f[k] = Next1(f, k)
    BY <2>1
  <2>3. \A k \in 0..n : k \in 0..(n + 1) /\ g[k] = f[k]
    <3> HIDE DEF Next1
    <3> QED
      BY <2>2
  <2>4. \A k \in 0..(n + 1) : k # 0 => k - 1 \in 0..n
    OBVIOUS
  <2> HIDE DEF g
  <2>5. \A k \in 0..(n + 1) : Next1(g, k) = Next1(f, k)
    BY <2>3, <2>4
  <2>6. IsUpTo(g, n + 1)
    <3> HIDE DEF Next1
    <3> QED
      BY <2>5 DEF g
  <2> QED
    BY <2>6
<1>3. MatchSteps \in Ns
  <2> HIDE DEF Ns
  <2> QED
    BY <1>1, <1>2, NumbersAreAll, MatchStepsAssumption
<1>4. PICK f : IsUpTo(f, MatchSteps)
  BY <1>3
<1> DEFINE it == CHOOSE g : g = [k \in 0..MatchSteps |-> Next1(g, k)]
<1>5. it = [k \in 0..MatchSteps |-> Next1(it, k)]
  <2> HIDE DEF Next1
  <2> QED
    BY <1>4
<1>6. Elixir!Run(p, t) = it
  BY DEF Elixir!Run
<1> HIDE DEF it
<1>7. /\ 0 \in 0..MatchSteps
      /\ \A k \in 1..MatchSteps : k \in 0..MatchSteps /\ k # 0
  BY MatchStepsAssumption
<1>8. it[0] = Next1(it, 0) /\ \A k \in 1..MatchSteps : it[k] = Next1(it, k)
  <2> HIDE DEF Next1
  <2> QED
    BY <1>5, <1>7
<1> QED
  BY <1>6, <1>7, <1>8

(* the term that the i-th word of the tuple pool stands for *)
PartAt(i, T, n) == IF tuple_pool[i] \in 0..(n - 1) THEN T[tuple_pool[i]] ELSE NotATerm
Text(v) == [i \in 1..(v.end - v.start) |-> string_pool[v.start + i - 1]]

TermIs(v, T, n, term) ==
  /\ v.type = "INTEGER" => term = TInt(v.start)
  /\ v.type = "ATOM" => term = TAtom(AtomAt(v.start))
  /\ v.type = "STRING" => term = TText(Text(v))
  /\ v = EmptyListValue => term = TNil
  /\ v.type = "LIST" /\ v # EmptyListValue =>
       term = TCons(PartAt(v.start, T, n), PartAt(v.start + 1, T, n))
  /\ v.type = "TUPLE" =>
       term = TTuple([i \in 1..(v.end - v.start + 1) |-> PartAt(v.start + i - 1, T, n)])
  /\ v.type = "INVALID" => term = NotATerm

LEMMA TermOfIs == \A v \in Generic : \A T, n : TermIs(v, T, n, TermOf(v, T, n))
<1> SUFFICES ASSUME NEW v \in Generic, NEW T, NEW n  PROVE TermIs(v, T, n, TermOf(v, T, n))
  OBVIOUS
<1>1. v.start \in Int /\ v.type \in Types
  BY DEF Generic
<1>2. v.start + 1 - 1 = v.start /\ v.start + 2 - 1 = v.start + 1
  BY <1>1
<1>3. EmptyListValue.type = "LIST"
  BY DEF EmptyListValue, MkGeneric
<1>4. v.type = "INTEGER" => TermOf(v, T, n) = TInt(v.start)
  BY <1>3 DEF TermOf
<1>5. v.type = "ATOM" => TermOf(v, T, n) = TAtom(AtomAt(v.start))
  BY <1>3 DEF TermOf
<1>6. v.type = "STRING" => TermOf(v, T, n) = TText(Text(v))
  BY <1>3 DEF TermOf, Text
<1>7. v = EmptyListValue => TermOf(v, T, n) = TNil
  BY <1>3 DEF TermOf
<1>8. v.type = "LIST" /\ v # EmptyListValue =>
        TermOf(v, T, n) = TCons(PartAt(v.start, T, n), PartAt(v.start + 1, T, n))
  BY <1>2 DEF TermOf, PartAt
<1>9. v.type = "TUPLE" =>
        TermOf(v, T, n) =
          TTuple([i \in 1..(v.end - v.start + 1) |-> PartAt(v.start + i - 1, T, n)])
  BY <1>3 DEF TermOf, PartAt
<1>10. v.type = "INVALID" => TermOf(v, T, n) = NotATerm
  BY <1>3 DEF TermOf
<1> QED
  BY <1>4, <1>5, <1>6, <1>7, <1>8, <1>9, <1>10 DEF TermIs

LEMMA TermOfIsThen == (\A v \in Generic : \A T, n : TermIs(v, T, n, TermOf(v, T, n)))'
  BY TermOfIs, PTL

(* what v refers to lies below cell n *)
PointsBelow(v, n) ==
  v.type \in {"TUPLE", "LIST"} => \A i \in v.start..v.end : i >= 0 => tuple_pool[i] < n

(* the words of the tuple pool that v has *)
LEMMA WordsOf ==
  ASSUME IInv, NEW v \in SafeGeneric, Live(v)
  PROVE  /\ v.type = "TUPLE" => \A i \in 1..(v.end - v.start + 1) :
              /\ v.start + i - 1 \in 0..(tuple_pool_index - 1)
              /\ v.start + i - 1 \in v.start..v.end
         /\ v.type = "LIST" /\ v # EmptyListValue =>
              /\ v.start \in 0..(tuple_pool_index - 1)
              /\ v.start + 1 \in 0..(tuple_pool_index - 1)
              /\ v.start \in v.start..v.end /\ v.start + 1 \in v.start..v.end
         /\ v.type = "STRING" => \A i \in 1..(v.end - v.start) :
              v.start + i - 1 \in 0..(string_pool_index - 1)
<1>1. v \in Generic /\ v.start \in Int /\ v.end \in Int /\ Bounded(v)
  BY DEF SafeGeneric, Generic
<1>2. tuple_pool_index \in Int /\ string_pool_index \in Int
  BY Indices
<1>3. v.type = "TUPLE" => \A i \in 1..(v.end - v.start + 1) :
        /\ v.start + i - 1 \in 0..(tuple_pool_index - 1)
        /\ v.start + i - 1 \in v.start..v.end
  BY <1>1, <1>2 DEF Bounded, Live
<1>4. v.type = "LIST" /\ v # EmptyListValue => v.start >= 0 /\ v.end = v.start + 1
  <2> SUFFICES ASSUME v.type = "LIST", v.start = -1, v.end = -1  PROVE v = EmptyListValue
    BY <1>1 DEF Bounded
  <2> QED
    BY <1>1 DEF Generic, EmptyListValue, MkGeneric
<1>5. v.type = "LIST" /\ v # EmptyListValue =>
        /\ v.start \in 0..(tuple_pool_index - 1)
        /\ v.start + 1 \in 0..(tuple_pool_index - 1)
        /\ v.start \in v.start..v.end /\ v.start + 1 \in v.start..v.end
  BY <1>1, <1>2, <1>4 DEF Live
<1>6. v.type = "STRING" => \A i \in 1..(v.end - v.start) :
        v.start + i - 1 \in 0..(string_pool_index - 1)
  BY <1>1, <1>2 DEF Bounded, Live
<1> QED
  BY <1>3, <1>5, <1>6

(***************************************************************************)
(* The term of v is the same now and later, if nothing below the indices   *)
(* changes and the cells below the heap index denote the same.             *)
(***************************************************************************)
LEMMA TermOfKept ==
  ASSUME IInv, WordsBelow, NEW CONSTANT v \in SafeGeneric, Live(v),
         SameBelow(string_pool, string_pool', string_pool_index),
         SameBelow(tuple_pool, tuple_pool', tuple_pool_index),
         NEW CONSTANT T, NEW CONSTANT U, NEW CONSTANT n \in Nat,
         \A c \in 0..(n - 1) : c < heap_index => U[c] = T[c]
  PROVE  TermOf(v, U, n)' = TermOf(v, T, n)
<1>1. v \in Generic
  BY DEF SafeGeneric
<1>2. ASSUME NEW i \in 0..(tuple_pool_index - 1)  PROVE PartAt(i, U, n)' = PartAt(i, T, n)
  <2>1. tuple_pool'[i] = tuple_pool[i] /\ tuple_pool[i] < heap_index
    BY DEF SameBelow, WordsBelow
  <2> QED
    BY <2>1 DEF PartAt
<1>3. v.type = "STRING" => Text(v)' = Text(v)
  BY WordsOf DEF Text, SameBelow
<1>4. v.type = "LIST" /\ v # EmptyListValue =>
        /\ PartAt(v.start, U, n)' = PartAt(v.start, T, n)
        /\ PartAt(v.start + 1, U, n)' = PartAt(v.start + 1, T, n)
  BY <1>2, WordsOf
<1>5. v.type = "TUPLE" => \A i \in 1..(v.end - v.start + 1) :
        PartAt(v.start + i - 1, U, n)' = PartAt(v.start + i - 1, T, n)
  BY <1>2, WordsOf
<1>6. TermIs(v, U, n, TermOf(v, U, n))' /\ TermIs(v, T, n, TermOf(v, T, n))
  BY <1>1, TermOfIs, TermOfIsThen
<1>7. v.type \in {"INVALID", "INTEGER", "STRING", "ATOM", "TUPLE", "LIST"}
  BY <1>1 DEF Generic, Types
<1>8. CASE v.type = "TUPLE"
  <2>1. [i \in 1..(v.end - v.start + 1) |-> PartAt(v.start + i - 1, U, n)'] =
        [i \in 1..(v.end - v.start + 1) |-> PartAt(v.start + i - 1, T, n)]
    BY <1>5, <1>8, Zenon
  <2> QED
    BY <1>6, <1>8, <2>1, Zenon DEF TermIs
<1>9. CASE v.type = "LIST"
  BY <1>4, <1>6, <1>9, Zenon DEF TermIs
<1>10. CASE v.type \in {"INVALID", "INTEGER", "STRING", "ATOM"}
  BY <1>3, <1>6, <1>10 DEF TermIs
<1> QED
  BY <1>7, <1>8, <1>9, <1>10

(***************************************************************************)
(* The heap in order: what a cell refers to lies below it.                 *)
(***************************************************************************)
HeapInOrder == \A c \in 0..(heap_index - 1) : PointsBelow(heap[c], c)

LEMMA CellIsHeld ==
  ASSUME IInv, MemorySound, NEW c \in 0..(heap_index - 1)
  PROVE  /\ c \in HeapIndices /\ heap[c] \in SafeGeneric /\ Live(heap[c])
         /\ heap[c] \in Held /\ Sound(heap[c])
BY Indices DEF Held, MemorySound, HeldSound, Sound, HeapIndices

LEMMA CellTermIs ==
  ASSUME IInv, MemorySound, HeapInOrder, NEW c \in 0..(heap_index - 1)
  PROVE  CellTerms[c] = Term(heap[c])
<1> PICK v : v = heap[c]
  OBVIOUS
<1>1. c \in HeapIndices /\ v \in SafeGeneric /\ v \in Generic /\ Live(v) /\ PointsBelow(v, c)
  BY CellIsHeld DEF HeapInOrder, SafeGeneric
<1>2. CellTerms[c] = TermOf(v, CellTerms, c)
  BY <1>1, CellTermsAre, SizeAssumption
<1>3. c \in Nat /\ c <= HEAP_SIZE /\ HEAP_SIZE \in Nat /\ heap_index <= HEAP_SIZE
  BY Indices
<1>4. ASSUME NEW i \in 0..(tuple_pool_index - 1), tuple_pool[i] < c
      PROVE  PartAt(i, CellTerms, c) = PartAt(i, CellTerms, HEAP_SIZE)
  <2>1. tuple_pool[i] \in Nat
    BY TuplePoolIs
  <2>2. tuple_pool[i] \in 0..(c - 1) /\ tuple_pool[i] \in 0..(HEAP_SIZE - 1)
    BY <1>3, <1>4, <2>1
  <2> QED
    BY <2>2 DEF PartAt
<1>5. v.type = "TUPLE" => \A i \in 1..(v.end - v.start + 1) :
        PartAt(v.start + i - 1, CellTerms, c) = PartAt(v.start + i - 1, CellTerms, HEAP_SIZE)
  <2> SUFFICES ASSUME v.type = "TUPLE", NEW i \in 1..(v.end - v.start + 1)
               PROVE  PartAt(v.start + i - 1, CellTerms, c) =
                        PartAt(v.start + i - 1, CellTerms, HEAP_SIZE)
    OBVIOUS
  <2> PICK j : j = v.start + i - 1
    OBVIOUS
  <2>1. j \in 0..(tuple_pool_index - 1) /\ j \in v.start..v.end
    BY <1>1, WordsOf
  <2>2. tuple_pool[j] < c
    BY <1>1, <2>1 DEF PointsBelow
  <2> QED
    BY <1>4, <2>1, <2>2
<1>6. v.type = "LIST" /\ v # EmptyListValue =>
        /\ PartAt(v.start, CellTerms, c) = PartAt(v.start, CellTerms, HEAP_SIZE)
        /\ PartAt(v.start + 1, CellTerms, c) = PartAt(v.start + 1, CellTerms, HEAP_SIZE)
  <2> SUFFICES ASSUME v.type = "LIST", v # EmptyListValue
               PROVE  /\ PartAt(v.start, CellTerms, c) = PartAt(v.start, CellTerms, HEAP_SIZE)
                      /\ PartAt(v.start + 1, CellTerms, c) =
                           PartAt(v.start + 1, CellTerms, HEAP_SIZE)
    OBVIOUS
  <2> PICK j : j = v.start + 1
    OBVIOUS
  <2>1. /\ v.start \in 0..(tuple_pool_index - 1) /\ v.start \in v.start..v.end
        /\ j \in 0..(tuple_pool_index - 1) /\ j \in v.start..v.end
    BY <1>1, WordsOf
  <2>2. tuple_pool[v.start] < c /\ tuple_pool[j] < c
    BY <1>1, <2>1 DEF PointsBelow
  <2> QED
    BY <1>4, <2>1, <2>2
<1>t. TermIs(v, CellTerms, c, CellTerms[c]) /\ TermIs(v, CellTerms, HEAP_SIZE, Term(v))
  BY <1>1, <1>2, TermOfIs DEF Term
<1>7. v.type \in {"INVALID", "INTEGER", "STRING", "ATOM", "TUPLE", "LIST"}
  BY <1>1 DEF Generic, Types
<1>8. CASE v.type = "TUPLE"
  <2>1. [i \in 1..(v.end - v.start + 1) |-> PartAt(v.start + i - 1, CellTerms, c)] =
        [i \in 1..(v.end - v.start + 1) |-> PartAt(v.start + i - 1, CellTerms, HEAP_SIZE)]
    BY <1>5, <1>8, Zenon
  <2> QED
    BY <1>t, <1>8, <2>1, Zenon DEF TermIs
<1>9. CASE v.type = "LIST"
  BY <1>t, <1>6, <1>9, Zenon DEF TermIs
<1>10. CASE v.type \in {"INVALID", "INTEGER", "STRING", "ATOM"}
  BY <1>t, <1>10 DEF TermIs
<1> QED
  BY <1>7, <1>8, <1>9, <1>10

(***************************************************************************)
(* What a value in hand denotes is the same after any step of its          *)
(* invocation, for nothing below the indices is written again.             *)
(***************************************************************************)
LEMMA CellTermsAreThen ==
  (CellTerms = [i \in HeapIndices |-> TermOf(heap[i], CellTerms, i)])'
<1>1. CellTerms = [i \in HeapIndices |-> TermOf(heap[i], CellTerms, i)]
  BY CellTermsAre, SizeAssumption
<1> QED
  BY <1>1, PTL

Kept == WriteOnceStep /\ pc # "idle" /\ heap_index' \in Int

LEMMA CellTermsKept ==
  ASSUME IInv, MemorySound, Kept, NEW c \in 0..(heap_index - 1)
  PROVE  CellTerms'[c] = CellTerms[c]
<1> PICK now, then : now = CellTerms /\ then = CellTerms'
  OBVIOUS
<1> DEFINE Ns == {n \in Nat : \A d \in 0..(n - 1) : d < heap_index => then[d] = now[d]}
<1>1. 0 \in Ns
  OBVIOUS
<1>2. ASSUME NEW n \in Nat, n \in Ns  PROVE n + 1 \in Ns
  <2> SUFFICES ASSUME n < heap_index  PROVE then[n] = now[n]
    BY <1>2
  <2>1. n \in 0..(heap_index - 1) /\ n \in HeapIndices
    BY Indices DEF HeapIndices
  <2> PICK v \in SafeGeneric : v = heap[n]
    BY <2>1, CellIsHeld
  <2>2. Live(v) /\ heap'[n] = v
    BY <2>1, CellIsHeld DEF Kept, WriteOnceStep, SameBelow
  <2>3. now[n] = TermOf(v, now, n)
    BY <2>1, CellTermsAre, SizeAssumption
  <2>4. then[n] = TermOf(v, then, n)'
    BY <2>1, <2>2, CellTermsAreThen
  <2>5. TermOf(v, then, n)' = TermOf(v, now, n)
    BY <1>2, <2>2, TermOfKept DEF MemorySound, Kept, WriteOnceStep
  <2> QED
    BY <2>3, <2>4, <2>5
<1>3. c + 1 \in Ns
  <2> HIDE DEF Ns
  <2> QED
    BY <1>1, <1>2, NumbersAreAll
<1>4. c < heap_index /\ c \in 0..(c + 1 - 1)
  BY Indices
<1> QED
  BY <1>3, <1>4

LEMMA TermKept ==
  ASSUME IInv, MemorySound, Kept, NEW CONSTANT v \in SafeGeneric, Live(v)
  PROVE  Term(v)' = Term(v)
<1> PICK now, then : now = CellTerms /\ then = CellTerms'
  OBVIOUS
<1>1. \A c \in 0..(HEAP_SIZE - 1) : c < heap_index => then[c] = now[c]
  BY CellTermsKept, Indices
<1>2. TermOf(v, then, HEAP_SIZE)' = TermOf(v, now, HEAP_SIZE)
  BY <1>1, TermOfKept, SizeAssumption DEF MemorySound, Kept, WriteOnceStep
<1>3. Term(v)' = TermOf(v, then, HEAP_SIZE)'
  BY DEF Term
<1> QED
  BY <1>2, <1>3 DEF Term

(***************************************************************************)
(* The heap stays in order.                                                *)
(***************************************************************************)
LEMMA PointsKept ==
  ASSUME IInv, Kept, NEW CONSTANT v \in SafeGeneric, Live(v), NEW CONSTANT n, PointsBelow(v, n)
  PROVE  PointsBelow(v, n)'
<1>1. \A i \in 0..(tuple_pool_index - 1) : tuple_pool'[i] = tuple_pool[i]
  BY DEF Kept, WriteOnceStep, SameBelow
<1>2. v.start \in Int /\ v.end \in Int /\ tuple_pool_index \in Int
  BY Indices DEF SafeGeneric, Generic
<1>3. v.type \in {"TUPLE", "LIST"} =>
        \A i \in v.start..v.end : i >= 0 => i \in 0..(tuple_pool_index - 1)
  BY <1>2 DEF Live
<1> QED
  BY <1>1, <1>3 DEF PointsBelow

LEMMA HeldPoints ==
  ASSUME IInv, MemorySound, NEW v \in Held, NEW n \in Int, n >= heap_index
  PROVE  PointsBelow(v, n)
<1>1. v \in SafeGeneric /\ Live(v)
  BY HeldIsSafe DEF MemorySound, HeldSound, Sound
<1>2. v.start \in Int /\ v.end \in Int /\ tuple_pool_index \in Int /\ heap_index \in Int
  BY <1>1, Indices DEF SafeGeneric, Generic
<1>3. v.type \in {"TUPLE", "LIST"} =>
        \A i \in v.start..v.end : i >= 0 => i \in 0..(tuple_pool_index - 1)
  BY <1>1, <1>2 DEF Live
<1>4. \A i \in 0..(tuple_pool_index - 1) : tuple_pool[i] < n
  <2> TAKE i \in 0..(tuple_pool_index - 1)
  <2>1. tuple_pool[i] < heap_index /\ tuple_pool[i] \in Int
    BY TuplePoolIs DEF MemorySound, WordsBelow
  <2> QED
    BY <1>2, <2>1
<1> QED
  BY <1>3, <1>4 DEF PointsBelow

(* new cells, each with nothing above it *)
NewCellsInOrder ==
  \A c \in heap_index..(heap_index' - 1) : PointsBelow(heap[c], c)'

LEMMA StaysInOrder ==
  ASSUME IInv, MemorySound, HeapInOrder, Kept, NewCellsInOrder
  PROVE  HeapInOrder'
<1> SUFFICES ASSUME NEW CONSTANT c \in 0..(heap_index' - 1)  PROVE PointsBelow(heap[c], c)'
  BY DEF HeapInOrder
<1>1. c \in 0..(heap_index - 1) \/ c \in heap_index..(heap_index' - 1)
  <2>1. heap_index \in Int /\ heap_index' \in Int
    BY Indices DEF Kept
  <2> QED
    BY <2>1, OldOrNew, Zenon
<1>2. CASE c \in 0..(heap_index - 1)
  <2> PICK v \in SafeGeneric : v = heap[c]
    BY <1>2, CellIsHeld
  <2>1. Live(v) /\ PointsBelow(v, c) /\ heap'[c] = v
    BY <1>2, CellIsHeld DEF HeapInOrder, Kept, WriteOnceStep, SameBelow
  <2>2. PointsBelow(v, c)'
    BY <2>1, PointsKept
  <2> QED
    BY <2>1, <2>2
<1>3. CASE c \in heap_index..(heap_index' - 1)
  BY <1>3 DEF NewCellsInOrder
<1> QED
  BY <1>1, <1>2, <1>3

(***************************************************************************)
(* What the statements that build store, once more as facts about cells.   *)
(***************************************************************************)
LEMMA TupleStores ==
  ASSUME IInv, NEW n \in Arities, NEW args \in [1..n -> Operand], TupleLiteral(args)
  PROVE  \/ pc' = "CATCH" /\ UNCHANGED env
         \/ /\ n \in Nat /\ heap_index + n <= HEAP_SIZE /\ tuple_pool_index + n <= TUPLE_POOL_SIZE
            /\ heap_index' = heap_index + n /\ tuple_pool_index' = tuple_pool_index + n
            /\ env' = Append(env, MkGeneric("TUPLE", tuple_pool_index, tuple_pool_index + n - 1))
            /\ pc' = pc
            /\ \A i \in 1..n : /\ heap'[heap_index + i - 1] = env[args[i]]
                               /\ tuple_pool'[tuple_pool_index + i - 1] = heap_index + i - 1
<1> DEFINE heapRoom == HEAP_SIZE - heap_index
<1> DEFINE poolRoom == TUPLE_POOL_SIZE - tuple_pool_index
<1> DEFINE pointers == Least(n, Least(heapRoom, poolRoom))
<1> DEFINE elements == Least(n, Least(heapRoom, poolRoom + 1))
<1>1. n \in Nat /\ Len(args) = n
  BY DataAssumption, FunctionIsSeq
<1>2. CASE pointers < n
  BY <1>1, <1>2 DEF TupleLiteral, GotoCatch
<1>3. CASE ~(pointers < n)
  <2>1. PICK h \in Nat, p \in Nat :
          /\ h = heap_index /\ p = tuple_pool_index
          /\ h + n <= HEAP_SIZE /\ p + n <= TUPLE_POOL_SIZE
          /\ elements = n /\ pointers = n
    <3>1. /\ heap_index \in 0..HEAP_SIZE /\ HEAP_SIZE \in Nat
          /\ tuple_pool_index \in 0..TUPLE_POOL_SIZE /\ TUPLE_POOL_SIZE \in Nat
      BY Indices
    <3>2. n <= heapRoom /\ n <= poolRoom /\ pointers = n
      BY <1>1, <1>3, <3>1 DEF Least
    <3>3. elements = n
      BY <1>1, <3>1, <3>2 DEF Least
    <3> HIDE DEF pointers, elements
    <3>4. QED
      BY <1>1, <3>1, <3>2, <3>3
  <2>2. /\ heap' = Fill(heap, h, [i \in 1..n |-> env[args[i]]])
        /\ tuple_pool' = Fill(tuple_pool, p, [i \in 1..n |-> h + i - 1])
        /\ heap_index' = h + n /\ tuple_pool_index' = p + n
        /\ env' = Append(env, MkGeneric("TUPLE", p, p + n - 1))
        /\ UNCHANGED pc
    BY <1>1, <1>3, <2>1 DEF TupleLiteral, Bind, LastIndex
  <2>3. /\ DOMAIN heap = 0..(HEAP_SIZE - 1) /\ DOMAIN tuple_pool = 0..(TUPLE_POOL_SIZE - 1)
        /\ Len([i \in 1..n |-> env[args[i]]]) = n /\ Len([i \in 1..n |-> h + i - 1]) = n
    BY <1>1, Indices
  <2>4. /\ \A i \in h..(h + n - 1) : i \in 0..(HEAP_SIZE - 1) /\ i - h + 1 \in 1..n
        /\ \A i \in p..(p + n - 1) : i \in 0..(TUPLE_POOL_SIZE - 1) /\ i - p + 1 \in 1..n
    <3>1. HEAP_SIZE \in Nat /\ TUPLE_POOL_SIZE \in Nat
      BY Sizes
    <3> HIDE DEF heapRoom, poolRoom, pointers, elements
    <3>2. \A i \in h..(h + n - 1) : i \in 0..(HEAP_SIZE - 1) /\ i - h + 1 \in 1..n
      BY <1>1, <2>1, <3>1
    <3>3. \A i \in p..(p + n - 1) : i \in 0..(TUPLE_POOL_SIZE - 1) /\ i - p + 1 \in 1..n
      BY <1>1, <2>1, <3>1
    <3> QED
      BY <3>2, <3>3
  <2>5. \A k \in h..(h + n - 1) : heap'[k] = env[args[k - h + 1]]
    BY <2>2, <2>3, <2>4 DEF Fill
  <2>6. \A k \in p..(p + n - 1) : tuple_pool'[k] = h + (k - p + 1) - 1
    BY <2>2, <2>3, <2>4 DEF Fill
  <2>7. ASSUME NEW i \in 1..n
        PROVE  heap'[h + i - 1] = env[args[i]] /\ tuple_pool'[p + i - 1] = h + i - 1
    <3>1. /\ h + i - 1 \in h..(h + n - 1) /\ h + i - 1 - h + 1 = i
          /\ p + i - 1 \in p..(p + n - 1) /\ p + i - 1 - p + 1 = i
      BY <1>1
    <3> PICK c, d : c = h + i - 1 /\ d = p + i - 1
      OBVIOUS
    <3>2. heap'[c] = env[args[i]] /\ tuple_pool'[d] = h + i - 1
      BY <2>5, <2>6, <3>1
    <3> QED
      BY <3>2
  <2> QED
    BY <1>1, <2>1, <2>2, <2>7
<1> QED
  BY <1>2, <1>3

LEMMA ConsStores ==
  ASSUME IInv, DisciplinedLists, NEW h \in Operand, NEW t \in Operand, ConsCell(h, t)
  PROVE  \/ pc' = "CATCH" /\ UNCHANGED env
         \/ /\ heap_index + 2 <= HEAP_SIZE /\ tuple_pool_index + 2 <= TUPLE_POOL_SIZE
            /\ heap_index > 0 /\ heap[heap_index - 1] = env[t] /\ env[t].type = "LIST"
            /\ heap_index' = heap_index + 2 /\ tuple_pool_index' = tuple_pool_index + 2
            /\ env' = Append(env, MkGeneric("LIST", tuple_pool_index, tuple_pool_index + 1))
            /\ pc' = pc
            /\ heap'[heap_index] = env[h] /\ heap'[heap_index - 1] = heap[heap_index - 1]
            /\ heap'[heap_index + 1] = MkGeneric("LIST", tuple_pool_index, tuple_pool_index + 1)
            /\ tuple_pool'[tuple_pool_index] = heap_index
            /\ tuple_pool'[tuple_pool_index + 1] = heap_index - 1
<1> DEFINE words == Least(2, TUPLE_POOL_SIZE - tuple_pool_index)
<1> DEFINE cells == IF words < 2 THEN 0 ELSE Least(2, HEAP_SIZE - heap_index)
<1>1. CASE cells < 2
  BY <1>1 DEF ConsCell, GotoCatch
<1>2. CASE ~(cells < 2)
  <2>1. PICK c \in Nat, p \in Nat :
          /\ c = heap_index /\ p = tuple_pool_index
          /\ c + 2 <= HEAP_SIZE /\ p + 2 <= TUPLE_POOL_SIZE
          /\ cells = 2 /\ words = 2
    <3>1. /\ heap_index \in 0..HEAP_SIZE /\ HEAP_SIZE \in Nat
          /\ tuple_pool_index \in 0..TUPLE_POOL_SIZE /\ TUPLE_POOL_SIZE \in Nat
      BY Indices
    <3>2. words = 2 /\ tuple_pool_index + 2 <= TUPLE_POOL_SIZE
      BY <1>2, <3>1 DEF Least
    <3>3. cells = 2 /\ heap_index + 2 <= HEAP_SIZE
      BY <1>2, <3>1, <3>2 DEF Least
    <3> HIDE DEF words, cells
    <3>4. QED
      BY <3>1, <3>2, <3>3
  <2>2. c > 0 /\ heap[c - 1] = env[t] /\ env[t].type = "LIST"
    BY <2>1 DEF ConsCell
  <2>3. PICK w : w = MkGeneric("LIST", p, p + 1)
    OBVIOUS
  <2>4. PreviousCell(c) = c - 1
    <3>1. c - 1 \in 0..(WORD - 1)
      BY <2>1, <2>2, Sizes
    <3>2. WORD \in Nat \ {0} /\ \A k \in 0..(WORD - 1) : k % WORD = k
      BY SizeAssumption
    <3>3. QED
      BY <3>1, <3>2 DEF PreviousCell
  <2>5. /\ heap' = Fill(heap, c, <<env[h], w>>)
        /\ tuple_pool' = Fill(tuple_pool, p, <<c, c - 1>>)
        /\ heap_index' = c + 2 /\ tuple_pool_index' = p + 2
        /\ env' = Append(env, w)
        /\ UNCHANGED pc
    <3>1. ASSUME NEW x, NEW y PROVE SubSeq(<<x, y>>, 1, 2) = <<x, y>>
      <4>1. <<x, y>> \in Seq({x, y}) /\ Len(<<x, y>>) = 2
        OBVIOUS
      <4>2. QED
        BY <4>1, SubSeqFull
    <3>2. /\ heap' = Fill(heap, c, SubSeq(<<env[h], w>>, 1, 2))
          /\ tuple_pool' = Fill(tuple_pool, p, SubSeq(<<c, c - 1>>, 1, 2))
          /\ heap_index' = c + 2 /\ tuple_pool_index' = p + 2
      BY <2>1, <2>3, <2>4 DEF ConsCell
    <3>3. env' = Append(env, w) /\ UNCHANGED pc
      BY <2>1, <2>3 DEF ConsCell, Bind
    <3>4. QED
      BY <3>1, <3>2, <3>3
  <2>6. /\ heap'[c] = env[h] /\ heap'[c + 1] = w /\ heap'[c - 1] = heap[c - 1]
        /\ tuple_pool'[p] = c /\ tuple_pool'[p + 1] = c - 1
    <3>1. /\ c \in 0..(HEAP_SIZE - 1) /\ c + 1 \in 0..(HEAP_SIZE - 1) /\ c - 1 \in 0..(HEAP_SIZE - 1)
          /\ p \in 0..(TUPLE_POOL_SIZE - 1) /\ p + 1 \in 0..(TUPLE_POOL_SIZE - 1)
      BY <2>1, <2>2, Sizes
    <3>2. DOMAIN heap = 0..(HEAP_SIZE - 1) /\ DOMAIN tuple_pool = 0..(TUPLE_POOL_SIZE - 1)
      BY Indices
    <3>3. QED
      BY <2>1, <2>5, <3>1, <3>2 DEF Fill
  <2> QED
    BY <2>1, <2>2, <2>3, <2>5, <2>6
<1> QED
  BY <1>1, <1>2

LEMMA EmptyStores ==
  ASSUME IInv, EmptyList
  PROVE  \/ pc' = "CATCH" /\ UNCHANGED env
         \/ /\ heap_index' = heap_index + 1 /\ heap'[heap_index] = EmptyListValue
            /\ env' = Append(env, EmptyListValue) /\ pc' = pc
<1>1. CASE ~(heap_index < HEAP_SIZE)
  BY <1>1 DEF EmptyList, GotoCatch
<1>2. CASE heap_index < HEAP_SIZE
  <2>1. /\ heap' = Fill(heap, heap_index, <<EmptyListValue>>)
        /\ heap_index' = heap_index + 1
        /\ env' = Append(env, EmptyListValue) /\ UNCHANGED pc
    BY <1>2 DEF EmptyList, Bind
  <2>2. heap'[heap_index] = EmptyListValue
    BY <1>2, <2>1, Indices DEF Fill
  <2> QED
    BY <2>1, <2>2
<1> QED
  BY <1>1, <1>2

LEMMA StringStores ==
  ASSUME IInv, NEW t \in Texts, StringConst(t)
  PROVE  \/ pc' = "CATCH" /\ UNCHANGED env
         \/ /\ env' = Append(env, MkGeneric("STRING", string_pool_index, string_pool_index + Len(t)))
            /\ pc' = pc /\ Len(t) \in Nat
            /\ [i \in 1..Len(t) |-> string_pool'[string_pool_index + i - 1]] = t
<1> DEFINE last == LastIndex(string_pool_index, Len(t) + 1)
<1>1. CASE ~StringFits(last)
  BY <1>1 DEF StringConst, GotoCatch
<1>2. CASE StringFits(last)
  <2>1. t \in Seq(AllChars) /\ NUL \in AllChars
    BY DataAssumption, SeqMonotonic DEF AllChars
  <2>2. PICK s \in Seq(AllChars), k \in Nat : s = Append(t, NUL) /\ k = Len(t)
    BY <2>1, AppendProperties, LenProperties
  <2>3. Len(s) = k + 1 /\ \A i \in 1..k : s[i] = t[i]
    BY <2>1, <2>2, AppendProperties
  <2>4. PICK from \in 0..STRING_POOL_SIZE :
          /\ from = string_pool_index /\ last = from + k /\ from + (k + 1) <= STRING_POOL_SIZE
    <3>1. string_pool_index \in Nat /\ last = string_pool_index + k
      BY <2>2, Indices DEF LastIndex
    <3>2. last + 1 < STRING_POOL_SIZE
      BY <1>2 DEF StringFits
    <3> HIDE DEF last
    <3> QED
      BY <3>1, <3>2, Indices
  <2>5. /\ string_pool' = Fill(string_pool, from, s)
        /\ env' = Append(env, MkGeneric("STRING", from, from + k))
        /\ pc' = pc
    BY <1>2, <2>2, <2>4 DEF StringConst, Bind
  <2>6. [i \in 1..(k + 1) |-> string_pool'[from + i - 1]] = s
    <3>1. string_pool \in [0..(STRING_POOL_SIZE - 1) -> AllChars] /\ STRING_POOL_SIZE \in Nat
      BY Indices
    <3>2. k + 1 \in Nat /\ k + 1 = Len(s)
      BY <2>3
    <3> QED
      BY <2>4, <2>5, <3>1, <3>2, ReadBack
  <2>7. \A i \in 1..k : string_pool'[from + i - 1] = t[i]
    <3> TAKE i \in 1..k
    <3>1. i \in 1..(k + 1)
      OBVIOUS
    <3> DEFINE f == [j \in 1..(k + 1) |-> string_pool'[from + j - 1]]
    <3>2. f[i] = string_pool'[from + i - 1]
      BY <3>1
    <3>3. f[i] = s[i]
      BY <2>6
    <3> QED
      BY <2>3, <3>2, <3>3
  <2>8. t = [i \in 1..k |-> t[i]]
    BY <2>1, <2>2, LenProperties
  <2> QED
    BY <2>2, <2>4, <2>5, <2>7, <2>8
<1> QED
  BY <1>1, <1>2

LEMMA StepKept ==
  ASSUME IInv, IInv', Next, pc # "idle"
  PROVE  Kept
<1>1. heap_index' \in Int
  BY SizeAssumption DEF IInv, Typed, PoolsTyped
<1> QED
  BY <1>1, NextKeeps DEF Kept

LEMMA HeldCell ==
  ASSUME IInv, MemorySound, Kept, NEW CONSTANT v, v \in Held,
         NEW CONSTANT c \in Int, c >= heap_index
  PROVE  PointsBelow(v, c)'
<1>1. v \in SafeGeneric /\ Live(v) /\ PointsBelow(v, c)
  BY HeldIsSafe, HeldPoints DEF MemorySound, HeldSound, Sound
<1> QED
  BY <1>1, PointsKept

LEMMA BuildInOrder ==
  ASSUME DisciplinedLists, IInv, IInv', MemorySound, HeapInOrder, Build, pc' # "CATCH"
  PROVE  HeapInOrder'
<1>1. pc = "run"
  BY DEF Build, IntValue, AtomConst, StringConst, TupleLiteral, EmptyList, ConsCell
<1>2. Kept
  BY <1>1, StepKept DEF Next
<1>3. heap_index \in Nat
  BY Indices
<1>4. CASE heap_index' = heap_index
  <2>1. NewCellsInOrder
    BY <1>3, <1>4 DEF NewCellsInOrder
  <2> QED
    BY <1>2, <2>1, StaysInOrder
<1>5. ASSUME NEW n \in Arities, NEW args \in [1..n -> Operand], TupleLiteral(args)
      PROVE  HeapInOrder'
  <2>1. /\ n \in Nat /\ heap_index' = heap_index + n
        /\ \A i \in 1..n : heap'[heap_index + i - 1] = env[args[i]]
    BY <1>5, TupleStores
  <2>2. NewCellsInOrder
    <3> SUFFICES ASSUME NEW CONSTANT c \in heap_index..(heap_index' - 1)
                 PROVE  PointsBelow(heap[c], c)'
      BY DEF NewCellsInOrder
    <3>1. c \in Int /\ c >= heap_index
      BY <1>3
    <3>2. PICK i \in 1..n : heap_index + i - 1 = c
      <4>1. c - heap_index + 1 \in 1..n /\ heap_index + (c - heap_index + 1) - 1 = c
        BY <1>3, <2>1
      <4> QED
        BY <4>1
    <3> PICK v : v = env[args[i]]
      OBVIOUS
    <3>3. heap'[c] = v /\ v \in Held
      BY <2>1, <3>2, OperandHeld
    <3>4. PointsBelow(v, c)'
      BY <1>2, <3>1, <3>3, HeldCell
    <3> QED
      BY <3>3, <3>4
  <2> QED
    BY <1>2, <2>2, StaysInOrder
<1>6. ASSUME EmptyList
      PROVE  HeapInOrder'
  <2>1. heap_index' = heap_index + 1 /\ heap'[heap_index] = EmptyListValue
    BY <1>6, EmptyStores
  <2>2. NewCellsInOrder
    <3> SUFFICES ASSUME NEW CONSTANT c \in heap_index..(heap_index' - 1)
                 PROVE  PointsBelow(heap[c], c)'
      BY DEF NewCellsInOrder
    <3>1. heap'[c] = EmptyListValue
      BY <1>3, <2>1
    <3> QED
      BY <3>1 DEF PointsBelow, EmptyListValue, MkGeneric
  <2> QED
    BY <1>2, <2>2, StaysInOrder
<1>7. ASSUME NEW h \in Operand, NEW t \in Operand, ConsCell(h, t)
      PROVE  HeapInOrder'
  <2>1. PICK k, p : k = heap_index /\ p = tuple_pool_index
    OBVIOUS
  <2>2. k \in Nat /\ p \in Nat
    BY <2>1, Indices
  <2>3. PICK v, w : v = env[h] /\ w = MkGeneric("LIST", p, p + 1)
    OBVIOUS
  <2>4. /\ heap_index' = k + 2 /\ heap'[k] = v /\ heap'[k + 1] = w
        /\ tuple_pool'[p] = k /\ tuple_pool'[p + 1] = k - 1
    BY <1>7, <2>1, <2>3, ConsStores
  <2>5. PointsBelow(v, k)'
    BY <1>2, <2>1, <2>2, <2>3, OperandHeld, HeldCell
  <2>6. PointsBelow(w, k + 1)'
    <3>1. w.start = p /\ w.end = p + 1
      BY <2>3 DEF MkGeneric
    <3>2. \A i \in p..(p + 1) : i = p \/ i = p + 1
      BY <2>2
    <3>3. k < k + 1 /\ k - 1 < k + 1
      BY <2>2
    <3> QED
      BY <2>4, <3>1, <3>2, <3>3 DEF PointsBelow
  <2>7. NewCellsInOrder
    <3> SUFFICES ASSUME NEW CONSTANT c \in heap_index..(heap_index' - 1)
                 PROVE  PointsBelow(heap[c], c)'
      BY DEF NewCellsInOrder
    <3>1. c = k \/ c = k + 1
      BY <2>1, <2>2, <2>4
    <3>2. CASE c = k
      BY <2>4, <2>5, <3>2
    <3>3. CASE c = k + 1
      BY <2>4, <2>6, <3>3
    <3> QED
      BY <3>1, <3>2, <3>3
  <2> QED
    BY <1>2, <2>7, StaysInOrder
<1>8. ASSUME \/ \E n \in Ints : IntValue(n)
             \/ \E a \in AtomConsts : AtomConst(a)
             \/ \E t \in Texts : StringConst(t)
      PROVE  HeapInOrder'
  <2>1. heap_index' = heap_index
    BY <1>8 DEF IntValue, AtomConst, StringConst, pools
  <2> QED
    BY <1>4, <2>1
<1> QED
  BY <1>5, <1>6, <1>7, <1>8 DEF Build

OrderInv == pc \in {"run", "match"} => HeapInOrder

LEMMA OrderStep ==
  ASSUME DisciplinedLists, IInv, IInv', FreshInv, OrderInv, [Next]_vars
  PROVE  OrderInv'
<1>1. CASE BeginMain
  BY <1>1 DEF BeginMain, ResetIndices, OrderInv, HeapInOrder
<1>2. CASE Build
  <2>1. pc = "run"
    BY <1>2 DEF Build, IntValue, AtomConst, StringConst, TupleLiteral, EmptyList, ConsCell
  <2> QED
    BY <1>2, <2>1, BuildInOrder DEF OrderInv, FreshInv
<1>3. CASE BeginMatch \/ MatchStep \/ End \/ UNCHANGED vars
  <2>1. UNCHANGED <<heap, heap_index, tuple_pool>>
    BY <1>3 DEF BeginMatch, StartMatch, MatchStep, MatchAny, MatchVar, MatchAtom,
         MatchInt, MatchText, MatchTuple, MatchList, MatchCons, MatchSucceeds, End,
         RaiseStmt, Catch, ReturnMain, pools, vars
  <2>2. pc' \in {"run", "match"} => pc \in {"run", "match"}
    BY <1>3 DEF BeginMatch, StartMatch, MatchStep, MatchAny, MatchVar, MatchAtom,
         MatchInt, MatchText, MatchTuple, MatchList, MatchCons, MatchSucceeds, End,
         RaiseStmt, Catch, ReturnMain, Current, GotoCatch, vars
  <2> QED
    BY <2>1, <2>2 DEF OrderInv, HeapInOrder, PointsBelow
<1> QED
  BY <1>1, <1>2, <1>3 DEF Next

(***************************************************************************)
(* A statement that builds, step by step: the variables keep their terms,  *)
(* and the new one has the term the program meant.                         *)
(***************************************************************************)
LEMMA TermIsThen == (\A v \in Generic : TermIs(v, CellTerms, HEAP_SIZE, Term(v)))'
<1>1. \A v \in Generic : TermIs(v, CellTerms, HEAP_SIZE, Term(v))
  BY TermOfIs DEF Term
<1> QED
  BY <1>1, PTL

LEMMA PartIs ==
  ASSUME IInv, MemorySound, HeapInOrder, NEW i, tuple_pool[i] \in 0..(heap_index - 1)
  PROVE  PartAt(i, CellTerms, HEAP_SIZE) = Term(Element(i))
<1> PICK c \in 0..(heap_index - 1) : c = tuple_pool[i]
  OBVIOUS
<1>1. c \in 0..(HEAP_SIZE - 1)
  BY Indices
<1>2. CellTerms[c] = Term(heap[c])
  BY CellTermIs
<1> QED
  BY <1>1, <1>2 DEF PartAt, Element

LEMMA PartIsThen ==
  (IInv /\ MemorySound /\ HeapInOrder =>
     \A i : tuple_pool[i] \in 0..(heap_index - 1) =>
              PartAt(i, CellTerms, HEAP_SIZE) = Term(Element(i)))'
<1>1. IInv /\ MemorySound /\ HeapInOrder =>
        \A i : tuple_pool[i] \in 0..(heap_index - 1) =>
                 PartAt(i, CellTerms, HEAP_SIZE) = Term(Element(i))
  BY PartIs
<1> QED
  BY <1>1, PTL

LEMMA OperandTerm ==
  ASSUME IInv, MemorySound, Kept, NEW CONSTANT i \in Operand
  PROVE  Bindings[i] = Term(env[i]) /\ \A v : v = env[i] => Term(v)' = Bindings[i]
<1> PICK v : v = env[i]
  OBVIOUS
<1>1. v \in SafeGeneric /\ Live(v)
  BY OperandHeld, HeldIsSafe DEF MemorySound, HeldSound, Sound
<1>2. Bindings[i] = Term(v)
  BY DEF Bindings, Operand
<1>3. Term(v)' = Term(v)
  BY <1>1, TermKept
<1> QED
  BY <1>2, <1>3

LEMMA BindingsAre ==
  ASSUME IInv
  PROVE  Len(env) \in Nat /\ Len(Bindings) = Len(env) /\ Elixir!Operand = Operand
<1>1. Len(env) \in Nat
  BY LenProperties DEF IInv, Typed, LocalsTyped
<1>2. Len(Bindings) = Len(env)
  BY <1>1 DEF Bindings
<1> QED
  BY <1>1, <1>2 DEF Operand, Elixir!Operand

LEMMA BindingsKept ==
  ASSUME IInv, MemorySound, Kept, UNCHANGED env
  PROVE  Bindings' = Bindings
<1>1. \A i \in 1..Len(env) : Term(env[i])' = Term(env[i])
  <2> TAKE i \in 1..Len(env)
  <2> PICK j \in Operand : j = i
    BY DEF Operand
  <2> PICK v : v = env[j]
    OBVIOUS
  <2>1. Term(v)' = Term(v)
    BY OperandTerm
  <2> QED
    BY <2>1
<1> QED
  BY <1>1 DEF Bindings

LEMMA BindingsGrow ==
  ASSUME IInv, MemorySound, Kept, NEW CONSTANT w \in SafeGeneric, env' = Append(env, w),
         NEW CONSTANT t, Term(w)' = t
  PROVE  Bindings' = Append(Bindings, t)
<1>1. PICK n \in Nat : n = Len(env)
  BY BindingsAre
<1>2. Len(env') = n + 1 /\ env'[n + 1] = w /\ \A i \in 1..n : env'[i] = env[i]
  BY <1>1, AppendProperties DEF IInv, Typed, LocalsTyped
<1>3. ASSUME NEW CONSTANT i \in 1..n
      PROVE  Bindings'[i] = Bindings[i] /\ i \in 1..(n + 1)
  <2>1. i \in Operand
    BY <1>1 DEF Operand
  <2> PICK v : v = env[i]
    OBVIOUS
  <2>2. Term(v)' = Bindings[i]
    BY <2>1, OperandTerm
  <2>3. env'[i] = v /\ i \in 1..Len(env')
    BY <1>2
  <2>4. Bindings'[i] = Term(env[i])'
    BY <2>3 DEF Bindings
  <2>5. Term(env[i])' = Term(v)'
    BY <2>3
  <2> QED
    BY <1>2, <2>2, <2>3, <2>4, <2>5
<1>4. Bindings'[n + 1] = t
  <2>1. n + 1 \in 1..Len(env')
    BY <1>2
  <2>2. Bindings'[n + 1] = Term(env[n + 1])'
    BY <2>1 DEF Bindings
  <2>3. Term(env[n + 1])' = Term(w)'
    BY <1>2
  <2> QED
    BY <2>2, <2>3
<1>5. Bindings' = [i \in 1..(n + 1) |-> Bindings'[i]]
  BY <1>2 DEF Bindings
<1>6. Append(Bindings, t) = [i \in 1..(n + 1) |-> IF i = n + 1 THEN t ELSE Bindings[i]]
  <2>1. PICK B, S : B = Bindings /\ S = {Bindings[i] : i \in 1..n} \cup {t}
    OBVIOUS
  <2>2. B \in [1..n -> S] /\ t \in S
    BY <1>1, <2>1 DEF Bindings
  <2>3. B \in Seq(S) /\ Len(B) = n
    BY <2>2, FunctionIsSeq
  <2>4. PICK A \in Seq(S) : A = Append(B, t)
    BY <2>2, <2>3, AppendProperties
  <2>5. Len(A) = n + 1 /\ A[n + 1] = t /\ \A i \in 1..n : A[i] = B[i]
    BY <2>2, <2>3, <2>4, AppendProperties
  <2>6. A = [i \in 1..(n + 1) |-> A[i]]
    BY <2>5, LenProperties
  <2>7. \A i \in 1..(n + 1) : A[i] = IF i = n + 1 THEN t ELSE B[i]
    BY <2>5
  <2> QED
    BY <2>1, <2>4, <2>6, <2>7, Zenon
<1>7. \A i \in 1..(n + 1) : i = n + 1 \/ i \in 1..n
  OBVIOUS
<1>8. \A i \in 1..(n + 1) : Bindings'[i] = IF i = n + 1 THEN t ELSE Bindings[i]
  <2>1. \A i \in 1..n : i # n + 1
    OBVIOUS
  <2> QED
    BY <1>3, <1>4, <1>7, <2>1, Zenon
<1> QED
  BY <1>5, <1>6, <1>8, Zenon

(* a statement that gives up raises, and one that binds w binds its term *)
LEMMA Raising ==
  ASSUME IInv, MemorySound, Kept, pc \in {"run", "match"}, pc' = "CATCH", UNCHANGED <<env, ret>>,
         NEW s, stmt' = s
  PROVE  Elixir!Raises(s)
<1>1. Bindings' = Bindings
  BY BindingsKept
<1>2. Status = "run" /\ Status' = "raised"
  BY DEF Status
<1> QED
  BY <1>1, <1>2 DEF Elixir!Raises

LEMMA Binding ==
  ASSUME IInv, MemorySound, Kept, pc = "run", Room, NEW CONSTANT w \in SafeGeneric,
         NEW CONSTANT t, Term(w)' = t, env' = Append(env, w), UNCHANGED <<pc, ret>>,
         NEW s, stmt' = s
  PROVE  Elixir!Binds(s, t)
<1>1. Bindings' = Append(Bindings, t)
  BY BindingsGrow
<1>2. Status = "run" /\ Status' = Status
  BY DEF Status
<1>3. Len(Bindings) < MaxBindings
  BY BindingsAre DEF Room
<1> QED
  BY <1>1, <1>2, <1>3 DEF Elixir!Binds

LEMMA SameTerms ==
  \A x, y : /\ Elixir!TInt(x) = TInt(x) /\ Elixir!TText(x) = TText(x)
            /\ Elixir!TAtom(x) = TAtom(x) /\ Elixir!TTuple(x) = TTuple(x)
            /\ Elixir!TCons(x, y) = TCons(x, y) /\ Elixir!TNil = TNil
            /\ Elixir!PList(x) = PList(x)
BY DEF Elixir!TInt, Elixir!TText, Elixir!TAtom, Elixir!TTuple, Elixir!TCons, Elixir!TNil,
   Elixir!PInt, Elixir!PText, Elixir!PAtom, Elixir!PTuple, Elixir!PCons, Elixir!PList,
   Elixir!MkPattern, TInt, TText, TAtom, TTuple, TCons, TNil, PInt, PText, PAtom, PTuple,
   PCons, PList, MkPattern

Sane == IInv /\ FreshInv /\ OrderInv

LEMMA SaneRuns ==
  ASSUME Sane, pc \in {"run", "match"}
  PROVE  IInv /\ MemorySound /\ HeapInOrder
BY DEF Sane, FreshInv, OrderInv

LEMMA SaneRunsThen == (Sane /\ pc \in {"run", "match"} => IInv /\ MemorySound /\ HeapInOrder)'
<1>1. Sane /\ pc \in {"run", "match"} => IInv /\ MemorySound /\ HeapInOrder
  BY SaneRuns
<1> QED
  BY <1>1, PTL

LEMMA AtomsDiffer == \A a \in Atoms : AtomAt(MkAtom(a).start) = a
<1>1. \A a, b \in Atoms : MkAtom(a).start = MkAtom(b).start => a = b
  BY DEF Atoms, MkAtom, MkGeneric
<1> QED
  BY <1>1 DEF AtomAt

LEMMA NewIsSafe ==
  ASSUME IInv, IInv', NEW w \in Generic, env' = Append(env, w)
  PROVE  w \in SafeGeneric
<1>1. env' \in Seq(SafeGeneric) /\ env \in Seq(SafeGeneric) /\ env \in Seq(Generic)
  BY SafeIsGeneric, SeqMonotonic DEF IInv, Typed, LocalsTyped
<1>2. env'[Len(env) + 1] = w /\ Len(env') = Len(env) + 1 /\ Len(env) \in Nat
  BY <1>1, AppendProperties, LenProperties
<1> QED
  BY <1>1, <1>2, ElementOfSeq

LEMMA ScalarMeans ==
  ASSUME Sane, Sane', \/ \E n \in Ints : IntValue(n)
                      \/ \E a \in AtomConsts : AtomConst(a)
  PROVE  Elixir!Build
<1>1. pc = "run" /\ Room /\ UNCHANGED <<pc, ret>>
  BY DEF IntValue, AtomConst, Bind
<1>2. IInv /\ MemorySound /\ Kept
  BY <1>1, SaneRuns, StepKept DEF Sane, Next, Build
<1>3. ASSUME NEW n \in Ints, IntValue(n)
      PROVE  Elixir!Binds(Elixir!Stmt("int", <<n>>, <<>>), TInt(n))
  <2> PICK w, t : w = MkInteger(n) /\ t = TInt(n)
    OBVIOUS
  <2>1. w \in SafeGeneric /\ w.type = "INTEGER" /\ w.start = n
    BY SafeValues, DataAssumption DEF MkInteger, MkGeneric
  <2>2. Term(w)' = t
    BY <2>1, TermIsThen, SafeIsGeneric DEF TermIs
  <2>3. env' = Append(env, w) /\ stmt' = Elixir!Stmt("int", <<n>>, <<>>)
    BY <1>3 DEF IntValue, Bind, Stmt, Elixir!Stmt
  <2> QED
    BY <1>1, <1>2, <2>1, <2>2, <2>3, Binding
<1>4. ASSUME NEW a \in AtomConsts, AtomConst(a)
      PROVE  Elixir!Binds(Elixir!Stmt("atom", <<a>>, <<>>), TAtom(a))
  <2> PICK w, t : w = MkAtom(a) /\ t = TAtom(a)
    OBVIOUS
  <2>0. a \in Atoms
    BY DataAssumption
  <2>1. w \in SafeGeneric /\ w.type = "ATOM" /\ AtomAt(w.start) = a
    <3>1. w.type = "ATOM"
      BY <2>0 DEF MkAtom, MkGeneric, Atoms
    <3> QED
      BY <2>0, <3>1, SafeValues, AtomsDiffer
  <2>2. Term(w)' = t
    <3>1. AtomAt(w.start)' = AtomAt(w.start)
      BY DEF AtomAt
    <3> QED
      BY <2>1, <3>1, TermIsThen, SafeIsGeneric DEF TermIs
  <2>3. env' = Append(env, w) /\ stmt' = Elixir!Stmt("atom", <<a>>, <<>>)
    BY <1>4 DEF AtomConst, Bind, Stmt, Elixir!Stmt
  <2> QED
    BY <1>1, <1>2, <2>1, <2>2, <2>3, Binding
<1> QED
  BY <1>3, <1>4, SameTerms, Zenon DEF Elixir!Build

LEMMA StringMeans ==
  ASSUME Sane, Sane', NEW t \in Texts, StringConst(t)
  PROVE  Elixir!Build
<1>1. pc = "run" /\ Room /\ UNCHANGED ret
  BY DEF StringConst
<1>2. IInv /\ MemorySound /\ Kept
  BY <1>1, SaneRuns, StepKept DEF Sane, Next, Build
<1>3. stmt' = Elixir!Stmt("text", <<t>>, <<>>)
  BY DEF StringConst, Stmt, Elixir!Stmt
<1>4. CASE pc' = "CATCH" /\ UNCHANGED env
  BY <1>1, <1>2, <1>3, <1>4, Raising DEF Elixir!Build, Elixir!Builds
<1>5. CASE /\ env' = Append(env, MkGeneric("STRING", string_pool_index, string_pool_index + Len(t)))
           /\ pc' = pc /\ Len(t) \in Nat
           /\ [i \in 1..Len(t) |-> string_pool'[string_pool_index + i - 1]] = t
  <2>1. PICK from, k : from = string_pool_index /\ k = Len(t)
    OBVIOUS
  <2>2. from \in Nat /\ k \in Nat
    BY <1>2, <1>5, <2>1, Indices
  <2> PICK w : w = MkGeneric("STRING", from, from + k)
    OBVIOUS
  <2>3. w.type = "STRING" /\ w.start = from /\ w.end = from + k /\ w.end - w.start = k
    BY <2>2 DEF MkGeneric
  <2>4. w \in SafeGeneric
    <3>1. env' = Append(env, w)
      BY <1>5, <2>1
    <3>2. env' \in Seq(SafeGeneric) /\ env \in Seq(SafeGeneric)
      BY <1>2 DEF Sane, IInv, Typed, LocalsTyped
    <3>3. w \in Generic
      BY <2>2 DEF MkGeneric, Generic, Types
    <3>4. env'[Len(env) + 1] = w /\ Len(env') = Len(env) + 1 /\ Len(env) \in Nat
      BY <3>1, <3>2, <3>3, AppendProperties, LenProperties, SafeIsGeneric, SeqMonotonic
    <3> QED
      BY <3>2, <3>4, ElementOfSeq
  <2>5. Text(w)' = t
    BY <1>5, <2>1, <2>3 DEF Text
  <2> PICK term : term = TText(t)
    OBVIOUS
  <2>6. Term(w)' = term
    BY <2>3, <2>4, <2>5, TermIsThen, SafeIsGeneric DEF TermIs
  <2>7. Elixir!Binds(Elixir!Stmt("text", <<t>>, <<>>), term)
    BY <1>1, <1>2, <1>3, <1>5, <2>1, <2>4, <2>6, Binding
  <2> QED
    BY <2>7, SameTerms, Zenon DEF Elixir!Build, Elixir!Builds
<1> QED
  BY <1>2, <1>4, <1>5, StringStores

LEMMA EmptyMeans ==
  ASSUME Sane, Sane', EmptyList
  PROVE  Elixir!Build
<1>1. pc = "run" /\ Room /\ UNCHANGED ret
  BY DEF EmptyList
<1>2. IInv /\ MemorySound /\ Kept
  BY <1>1, SaneRuns, StepKept DEF Sane, Next, Build
<1>3. stmt' = Elixir!Stmt("nil_list", <<>>, <<>>)
  BY DEF EmptyList, Stmt, Elixir!Stmt
<1>4. CASE pc' = "CATCH" /\ UNCHANGED env
  BY <1>1, <1>2, <1>3, <1>4, Raising DEF Elixir!Build, Elixir!Builds
<1>5. CASE env' = Append(env, EmptyListValue) /\ pc' = pc
  <2> PICK w, term : w = EmptyListValue /\ term = TNil
    OBVIOUS
  <2>1. w \in SafeGeneric
    BY SafeValues
  <2>2. Term(w)' = term
    BY <2>1, TermIsThen, SafeIsGeneric DEF TermIs, EmptyListValue
  <2>3. Elixir!Binds(Elixir!Stmt("nil_list", <<>>, <<>>), term)
    BY <1>1, <1>2, <1>3, <1>5, <2>1, <2>2, Binding
  <2> QED
    BY <2>3, SameTerms, Zenon DEF Elixir!Build, Elixir!Builds
<1> QED
  BY <1>2, <1>4, <1>5, EmptyStores

LEMMA TupleMeans ==
  ASSUME Sane, Sane', NEW CONSTANT n \in Arities, NEW CONSTANT args \in [1..n -> Operand],
         TupleLiteral(args)
  PROVE  Elixir!Build
<1>1. pc = "run" /\ Room /\ UNCHANGED ret
  BY DEF TupleLiteral
<1>2. IInv /\ MemorySound /\ Kept
  BY <1>1, SaneRuns, StepKept DEF Sane, Next, Build
<1>3. stmt' = Elixir!Stmt("tuple", args, <<>>)
  BY DEF TupleLiteral, Stmt, Elixir!Stmt
<1> PICK meant : meant = TTuple([i \in 1..n |-> Bindings[args[i]]])
  OBVIOUS
<1>4. Elixir!Builds(Elixir!Stmt("tuple", args, <<>>), meant) => Elixir!Build
  <2>1. args \in [1..n -> Elixir!Operand]
    BY <1>2, BindingsAre
  <2> QED
    BY <2>1, SameTerms, Zenon DEF Elixir!Build
<1>5. CASE pc' = "CATCH" /\ UNCHANGED env
  BY <1>1, <1>2, <1>3, <1>4, <1>5, Raising DEF Elixir!Builds
<1>6. CASE /\ n \in Nat /\ heap_index + n <= HEAP_SIZE /\ tuple_pool_index + n <= TUPLE_POOL_SIZE
           /\ heap_index' = heap_index + n /\ tuple_pool_index' = tuple_pool_index + n
           /\ env' = Append(env, MkGeneric("TUPLE", tuple_pool_index, tuple_pool_index + n - 1))
           /\ pc' = pc
           /\ \A i \in 1..n : /\ heap'[heap_index + i - 1] = env[args[i]]
                              /\ tuple_pool'[tuple_pool_index + i - 1] = heap_index + i - 1
  <2>1. PICK h, p : h = heap_index /\ p = tuple_pool_index
    OBVIOUS
  <2>2. h \in Nat /\ p \in Nat /\ n \in Nat
    BY <1>2, <1>6, <2>1, Indices
  <2> PICK w : w = MkGeneric("TUPLE", p, p + n - 1)
    OBVIOUS
  <2>3. w.type = "TUPLE" /\ w.start = p /\ w.end = p + n - 1 /\ w.end - w.start + 1 = n
    BY <2>2 DEF MkGeneric
  <2>4. w \in SafeGeneric
    <3>1. w \in Generic
      BY <2>2 DEF MkGeneric, Generic, Types
    <3> QED
      BY <1>2, <1>6, <2>1, <3>1, NewIsSafe DEF Sane
  <2>5. ASSUME NEW CONSTANT i \in 1..n
        PROVE  PartAt(p + i - 1, CellTerms, HEAP_SIZE)' = Bindings[args[i]]
    <3> PICK j, c : j = p + i - 1 /\ c = h + i - 1
      OBVIOUS
    <3> PICK k \in Operand : k = args[i]
      OBVIOUS
    <3> PICK v : v = env[k]
      OBVIOUS
    <3>1. heap'[c] = v /\ tuple_pool'[j] = c
      BY <1>6, <2>1
    <3>2. tuple_pool'[j] \in 0..(heap_index' - 1)
      BY <1>6, <2>1, <2>2, <3>1
    <3>3. PartAt(j, CellTerms, HEAP_SIZE)' = Term(Element(j))'
      <4>1. (IInv /\ MemorySound /\ HeapInOrder)'
        BY <1>1, <1>6, SaneRunsThen
      <4> QED
        BY <3>2, <4>1, PartIsThen
    <3>4. Element(j)' = v
      BY <3>1 DEF Element
    <3>5. Term(v)' = Bindings[k]
      BY <1>2, OperandTerm
    <3> QED
      BY <3>3, <3>4, <3>5
  <2>6. Term(w)' = meant
    <3>1. Term(w)' = TTuple([i \in 1..n |-> PartAt(p + i - 1, CellTerms, HEAP_SIZE)'])
      <4>1. TermIs(w, CellTerms, HEAP_SIZE, Term(w))'
        BY <2>4, TermIsThen, SafeIsGeneric
      <4> QED
        BY <2>3, <4>1 DEF TermIs
    <3>2. [i \in 1..n |-> PartAt(p + i - 1, CellTerms, HEAP_SIZE)'] =
          [i \in 1..n |-> Bindings[args[i]]]
      BY <2>5, Zenon
    <3> QED
      BY <3>1, <3>2, Zenon
  <2>7. Elixir!Binds(Elixir!Stmt("tuple", args, <<>>), meant)
    BY <1>1, <1>2, <1>3, <1>6, <2>1, <2>4, <2>6, Binding
  <2> QED
    BY <1>4, <2>7 DEF Elixir!Builds
<1> QED
  BY <1>2, <1>5, <1>6, TupleStores

LEMMA ConsMeans ==
  ASSUME DisciplinedLists, Sane, Sane', NEW CONSTANT h \in Operand, NEW CONSTANT t \in Operand,
         ConsCell(h, t)
  PROVE  Elixir!Build
<1>1. pc = "run" /\ Room /\ UNCHANGED ret
  BY DEF ConsCell
<1>2. IInv /\ MemorySound /\ Kept
  BY <1>1, SaneRuns, StepKept DEF Sane, Next, Build
<1>3. stmt' = Elixir!Stmt("cons", <<h, t>>, <<>>)
  BY DEF ConsCell, Stmt, Elixir!Stmt
<1> PICK meant : meant = TCons(Bindings[h], Bindings[t])
  OBVIOUS
<1>4. Elixir!Builds(Elixir!Stmt("cons", <<h, t>>, <<>>), meant) => Elixir!Build
  <2>1. h \in Elixir!Operand /\ t \in Elixir!Operand
    BY <1>2, BindingsAre
  <2> QED
    BY <2>1, SameTerms, Zenon DEF Elixir!Build
<1>5. CASE pc' = "CATCH" /\ UNCHANGED env
  BY <1>1, <1>2, <1>3, <1>4, <1>5, Raising DEF Elixir!Builds
<1>6. CASE ~(pc' = "CATCH" /\ UNCHANGED env)
  <2>1. PICK c, p : c = heap_index /\ p = tuple_pool_index
    OBVIOUS
  <2>2. c \in Nat /\ p \in Nat
    BY <1>2, <2>1, Indices
  <2> PICK w : w = MkGeneric("LIST", p, p + 1)
    OBVIOUS
  <2> PICK v, u : v = env[h] /\ u = env[t]
    OBVIOUS
  <2>3. /\ c > 0 /\ heap_index' = c + 2 /\ env' = Append(env, w) /\ pc' = pc
        /\ heap'[c] = v /\ heap'[c - 1] = u
        /\ tuple_pool'[p] = c /\ tuple_pool'[p + 1] = c - 1
    BY <1>2, <1>6, <2>1, ConsStores
  <2>4. w.type = "LIST" /\ w.start = p /\ w # EmptyListValue
    BY <2>2 DEF MkGeneric, EmptyListValue
  <2>5. w \in SafeGeneric
    <3>1. w \in Generic
      BY <2>2 DEF MkGeneric, Generic, Types
    <3> QED
      BY <1>2, <2>3, <3>1, NewIsSafe DEF Sane
  <2>6. (IInv /\ MemorySound /\ HeapInOrder)'
    BY <1>1, <2>3, SaneRunsThen
  <2>7. tuple_pool'[p] \in 0..(heap_index' - 1) /\ tuple_pool'[p + 1] \in 0..(heap_index' - 1)
    BY <2>2, <2>3
  <2>8. PartAt(p, CellTerms, HEAP_SIZE)' = Bindings[h]
    <3>1. PartAt(p, CellTerms, HEAP_SIZE)' = Term(Element(p))'
      BY <2>6, <2>7, PartIsThen
    <3>2. Element(p)' = v
      BY <2>3 DEF Element
    <3>3. Term(v)' = Bindings[h]
      BY <1>2, OperandTerm
    <3> QED
      BY <3>1, <3>2, <3>3
  <2>9. PartAt(p + 1, CellTerms, HEAP_SIZE)' = Bindings[t]
    <3> PICK q : q = p + 1
      OBVIOUS
    <3>1. PartAt(q, CellTerms, HEAP_SIZE)' = Term(Element(q))'
      BY <2>6, <2>7, PartIsThen
    <3>2. Element(q)' = u
      BY <2>3 DEF Element
    <3>3. Term(u)' = Bindings[t]
      BY <1>2, OperandTerm
    <3> QED
      BY <3>1, <3>2, <3>3
  <2>10. Term(w)' = meant
    <3>1. TermIs(w, CellTerms, HEAP_SIZE, Term(w))'
      BY <2>5, TermIsThen, SafeIsGeneric
    <3> QED
      BY <2>4, <2>8, <2>9, <3>1 DEF TermIs
  <2>11. Elixir!Binds(Elixir!Stmt("cons", <<h, t>>, <<>>), meant)
    BY <1>1, <1>2, <1>3, <2>3, <2>5, <2>10, Binding
  <2> QED
    BY <1>4, <2>11 DEF Elixir!Builds
<1> QED
  BY <1>5, <1>6

(***************************************************************************)
(* A step of a match: what the emitted check asks of the current value,    *)
(* and what Elixir asks of the term it denotes.                            *)
(***************************************************************************)
LEMMA CompareIs ==
  ASSUME NEW m, NEW p, NEW t
  PROVE  /\ p.kind = "any" => Elixir!Compare(m, p, t) = Elixir!Into(m, <<>>, <<>>)
         /\ p.kind = "var" => Elixir!Compare(m, p, t) = Elixir!Into(m, <<>>, <<t>>)
         /\ p.kind \in {"int", "text", "atom"} =>
              Elixir!Compare(m, p, t) =
                IF Elixir!IsConstant(p, t) THEN Elixir!Into(m, <<>>, <<>>) ELSE Elixir!Failed
<1>1. p.kind \notin {"int", "text", "atom"} => ~Elixir!IsConstant(p, t)
  BY DEF Elixir!IsConstant
<1> QED
  BY <1>1 DEF Elixir!Compare

LEMMA CompareTuple ==
  ASSUME NEW m, NEW p, NEW t, p.kind = "tuple"
  PROVE  Elixir!Compare(m, p, t) =
           IF t.kind = "tuple" /\ Len(p.subs) = Len(t.subs)
             THEN Elixir!Into(m, [i \in 1..Len(p.subs) |->
                                    Elixir!Pair(p.subs[i], t.subs[i])], <<>>)
             ELSE Elixir!Failed
<1>1. ~Elixir!IsConstant(p, t)
  BY DEF Elixir!IsConstant
<1> QED
  BY <1>1 DEF Elixir!Compare

LEMMA CompareCons ==
  ASSUME NEW m, NEW p, NEW t, p.kind = "cons"
  PROVE  Elixir!Compare(m, p, t) =
           IF t.kind = "cons"
             THEN Elixir!Into(m, <<Elixir!Pair(p.subs[1], t.subs[1]),
                                   Elixir!Pair(p.subs[2], t.subs[2])>>, <<>>)
             ELSE Elixir!Failed
<1>1. ~Elixir!IsConstant(p, t)
  BY DEF Elixir!IsConstant
<1> QED
  BY <1>1 DEF Elixir!Compare

LEMMA CompareList ==
  ASSUME NEW m, NEW p, NEW t, p.kind = "list"
  PROVE  /\ p.subs = <<>> =>
              Elixir!Compare(m, p, t) =
                IF t = TNil THEN Elixir!Into(m, <<>>, <<>>) ELSE Elixir!Failed
         /\ p.subs # <<>> =>
              Elixir!Compare(m, p, t) =
                IF t.kind = "cons"
                  THEN Elixir!Into(m, <<Elixir!Pair(p.subs[1], t.subs[1]),
                                        Elixir!Pair(PList(Tail(p.subs)), t.subs[2])>>, <<>>)
                  ELSE Elixir!Failed
<1>1. ~Elixir!IsConstant(p, t)
  BY DEF Elixir!IsConstant
<1>2. Elixir!TNil = TNil /\ \A s : Elixir!PList(s) = PList(s)
  BY SameTerms
<1> QED
  BY <1>1, <1>2 DEF Elixir!Compare

LEMMA ConstantIs ==
  ASSUME NEW p, NEW t
  PROVE  /\ p.kind = "int" => (Elixir!IsConstant(p, t) <=> t = TInt(p.n))
         /\ p.kind = "text" => (Elixir!IsConstant(p, t) <=> t = TText(p.text))
         /\ p.kind = "atom" => (Elixir!IsConstant(p, t) <=> t = TAtom(p.atom))
BY SameTerms DEF Elixir!IsConstant

LEMMA KindsAre ==
  /\ TNil.kind = "list" /\ \A x : TInt(x).kind = "int" /\ TText(x).kind = "text"
  /\ \A x : TAtom(x).kind = "atom" /\ TTuple(x).kind = "tuple" /\ TTuple(x).subs = x
  /\ \A x, y : /\ TCons(x, y).kind = "cons"
               /\ TCons(x, y).subs[1] = x /\ TCons(x, y).subs[2] = y
BY DEF TNil, TInt, TText, TAtom, TTuple, TCons, PList, PInt, PText, PAtom, PTuple, PCons, MkPattern

LEMMA ConsIs ==
  ASSUME NEW x, NEW y
  PROVE  TCons(x, y).kind = "cons" /\ TCons(x, y).subs[1] = x /\ TCons(x, y).subs[2] = y
BY KindsAre

IsTaken(i) == Readable(i) /\ Element(i) \in Held

LEMMA WordTaken ==
  ASSUME IInv, MemorySound, HeapInOrder, NEW i \in 0..(tuple_pool_index - 1)
  PROVE  IsTaken(i) /\ PartAt(i, CellTerms, HEAP_SIZE) = Term(Element(i))
<1>1. tuple_pool[i] \in 0..(heap_index - 1)
  BY TuplePoolIs DEF MemorySound, WordsBelow
<1>2. Readable(i)
  BY <1>1, TuplePoolIs DEF Readable
<1>3. Element(i) \in Held
  BY ElementHeld DEF MemorySound
<1> QED
  BY <1>1, <1>2, <1>3, PartIs DEF IsTaken

(* A held value, the words it can be taken apart by, and its term. *)
Meaning(v, term) ==
  /\ v.type \in {"INTEGER", "STRING", "ATOM", "TUPLE", "LIST"}
  /\ v.type = "INTEGER" => v = MkInteger(v.start) /\ term = TInt(v.start)
  /\ v.type = "ATOM" => \E a \in Atoms : v = MkAtom(a) /\ term = TAtom(a)
  /\ v.type = "STRING" => term = TText(Text(v))
  /\ v.type = "LIST" /\ v.start = -1 => v = EmptyListValue /\ term = TNil
  /\ v.type = "LIST" /\ v.start # -1 =>
       /\ IsTaken(v.start) /\ IsTaken(v.start + 1)
       /\ term = TCons(Term(Element(v.start)), Term(Element(v.start + 1)))
  /\ v.type = "TUPLE" =>
       /\ \A i \in 1..(v.end - v.start + 1) : IsTaken(v.start + i - 1)
       /\ term = TTuple([i \in 1..(v.end - v.start + 1) |-> Term(Element(v.start + i - 1))])

LEMMA MeaningKind ==
  ASSUME NEW v, NEW t, Meaning(v, t)
  PROVE  /\ t.kind = "int" <=> v.type = "INTEGER"
         /\ t.kind = "atom" <=> v.type = "ATOM"
         /\ t.kind = "text" <=> v.type = "STRING"
         /\ t.kind = "list" <=> v.type = "LIST" /\ v.start = -1
         /\ t.kind = "cons" <=> v.type = "LIST" /\ v.start # -1
         /\ t.kind = "tuple" <=> v.type = "TUPLE"
         /\ t = TNil <=> v.type = "LIST" /\ v.start = -1
<1>1. /\ v.type = "INTEGER" => t.kind = "int"
      /\ v.type = "ATOM" => t.kind = "atom"
      /\ v.type = "STRING" => t.kind = "text"
      /\ v.type = "LIST" /\ v.start = -1 => t.kind = "list" /\ t = TNil
      /\ v.type = "LIST" /\ v.start # -1 => t.kind = "cons"
      /\ v.type = "TUPLE" => t.kind = "tuple"
  BY KindsAre DEF Meaning
<1>2. v.type \in {"INTEGER", "STRING", "ATOM", "TUPLE", "LIST"} /\ TNil.kind = "list"
  BY KindsAre DEF Meaning
<1> QED
  BY <1>1, <1>2

LEMMA HeldMeaning ==
  ASSUME IInv, MemorySound, HeapInOrder, NEW v \in Held
  PROVE  Meaning(v, Term(v))
<1>1. /\ v \in SafeGeneric /\ v \in Generic /\ Live(v) /\ IsMeant(v)
      /\ v.start \in Int /\ v.end \in Int /\ Bounded(v)
  BY HeldIsSafe DEF MemorySound, HeldSound, Sound, SafeGeneric, Generic
<1>2. TermIs(v, CellTerms, HEAP_SIZE, Term(v))
  BY <1>1, TermOfIs DEF Term
<1>3. v.type \in {"INTEGER", "STRING", "ATOM", "TUPLE", "LIST"}
  BY <1>1 DEF Generic, Types, Live
<1>4. v.type = "INTEGER" => v = MkInteger(v.start) /\ Term(v) = TInt(v.start)
  BY <1>1, <1>2 DEF TermIs, IsMeant
<1>5. v.type = "ATOM" => \E a \in Atoms : v = MkAtom(a) /\ Term(v) = TAtom(a)
  <2> SUFFICES ASSUME v.type = "ATOM"
               PROVE  \E a \in Atoms : v = MkAtom(a) /\ Term(v) = TAtom(a)
    OBVIOUS
  <2>1. PICK a \in Atoms : v = MkAtom(a)
    BY <1>1 DEF IsMeant
  <2>2. AtomAt(v.start) = a
    BY <2>1, AtomsDiffer
  <2> QED
    BY <1>2, <2>1, <2>2 DEF TermIs
<1>6. v.type = "STRING" => Term(v) = TText(Text(v))
  BY <1>2 DEF TermIs
<1>7. v.type = "LIST" /\ v.start = -1 => v = EmptyListValue /\ Term(v) = TNil
  <2> SUFFICES ASSUME v.type = "LIST", v.start = -1  PROVE v = EmptyListValue
    BY <1>2 DEF TermIs
  <2> QED
    BY <1>1 DEF Generic, Bounded, EmptyListValue, MkGeneric
<1>8. v.type = "LIST" /\ v.start # -1 =>
        /\ IsTaken(v.start) /\ IsTaken(v.start + 1)
        /\ Term(v) = TCons(Term(Element(v.start)), Term(Element(v.start + 1)))
  <2> SUFFICES ASSUME v.type = "LIST", v.start # -1
               PROVE  /\ IsTaken(v.start) /\ IsTaken(v.start + 1)
                      /\ Term(v) = TCons(Term(Element(v.start)), Term(Element(v.start + 1)))
    OBVIOUS
  <2>1. v # EmptyListValue
    BY DEF EmptyListValue, MkGeneric
  <2>2. v.start \in 0..(tuple_pool_index - 1) /\ v.start + 1 \in 0..(tuple_pool_index - 1)
    BY <1>1, <2>1, WordsOf
  <2>3. Term(v) = TCons(PartAt(v.start, CellTerms, HEAP_SIZE),
                        PartAt(v.start + 1, CellTerms, HEAP_SIZE))
    BY <1>2, <2>1 DEF TermIs
  <2> QED
    BY <2>2, <2>3, WordTaken
<1>9. v.type = "TUPLE" =>
        /\ \A i \in 1..(v.end - v.start + 1) : IsTaken(v.start + i - 1)
        /\ Term(v) = TTuple([i \in 1..(v.end - v.start + 1) |-> Term(Element(v.start + i - 1))])
  <2> SUFFICES ASSUME v.type = "TUPLE"
               PROVE  /\ \A i \in 1..(v.end - v.start + 1) : IsTaken(v.start + i - 1)
                      /\ Term(v) = TTuple([i \in 1..(v.end - v.start + 1) |->
                                             Term(Element(v.start + i - 1))])
    OBVIOUS
  <2>1. \A i \in 1..(v.end - v.start + 1) :
          /\ IsTaken(v.start + i - 1)
          /\ PartAt(v.start + i - 1, CellTerms, HEAP_SIZE) = Term(Element(v.start + i - 1))
    <3> TAKE i \in 1..(v.end - v.start + 1)
    <3> PICK j : j = v.start + i - 1
      OBVIOUS
    <3>1. j \in 0..(tuple_pool_index - 1)
      BY <1>1, WordsOf
    <3> QED
      BY <3>1, WordTaken
  <2>2. Term(v) = TTuple([i \in 1..(v.end - v.start + 1) |->
                            PartAt(v.start + i - 1, CellTerms, HEAP_SIZE)])
    BY <1>2 DEF TermIs
  <2>3. [i \in 1..(v.end - v.start + 1) |-> PartAt(v.start + i - 1, CellTerms, HEAP_SIZE)] =
        [i \in 1..(v.end - v.start + 1) |-> Term(Element(v.start + i - 1))]
    BY <2>1, Zenon
  <2> QED
    BY <2>1, <2>2, <2>3
<1> QED
  BY <1>3, <1>4, <1>5, <1>6, <1>7, <1>8, <1>9 DEF Meaning

(***************************************************************************)
(* What is asked of the program, beyond DisciplinedLists.  The translator  *)
(* emits no comparison for an integer, and none of the length of a text,   *)
(* where it does not set the generic flag: such patterns stand in tuples   *)
(* or under a case.                                                        *)
(***************************************************************************)
ChecksConstants ==
  /\ \A p \in Patterns : p.kind \in {"list", "cons"} =>
       \A i \in 1..Len(p.subs) : p.subs[i].kind # "int"
  /\ \A m \in Matches : m.op = "=" => m.clauses[1].kind \notin {"int", "text"}

(* And MatchTuple compares no sizes: whoever is compared has the pattern's. *)
SizesAgree ==
  Current({"tuple"}) /\ work[1].val.type = "TUPLE" =>
    Len(work[1].pat.subs) = work[1].val.end - work[1].val.start + 1

(* What then holds of every pending check. *)
MeantCheck(c) ==
  /\ c.pat.kind \in {"int", "text"} => c.gen
  /\ c.skip > 0 => c.pat.kind = "list" /\ c.skip <= Len(c.pat.subs)
WorkMeant == \A i \in DOMAIN work : MeantCheck(work[i])

(* what a check has left to compare, with its term *)
RestOf(c) ==
  IF c.skip = 0 THEN c.pat ELSE PList(SubSeq(c.pat.subs, c.skip + 1, Len(c.pat.subs)))
PairOf(c) == Elixir!Pair(RestOf(c), Term(c.val))
Pairs(s) == [i \in 1..Len(s) |-> PairOf(s[i])]
Taken(b) == [i \in 1..Len(b) |-> Term(b[i])]

MeantChecks == {c \in Checks(SafeGeneric) : MeantCheck(c)}
Continues(s, b) ==
  work' = s \o Tail(work) /\ binds' = binds \o b /\ UNCHANGED <<pc, goal, stmt>>

(* The step and Elixir agree on m, the match so far. *)
Compared(m) == Elixir!Compare(m, RestOf(work[1]), Term(work[1].val))
StepAgrees(m) ==
  \/ Mismatch /\ Compared(m) = Elixir!Failed
  \/ \E s \in Seq(MeantChecks), b \in Seq(SafeGeneric) :
       Continues(s, b) /\ Compared(m) = Elixir!Into(m, Pairs(s), Taken(b))

LEMMA FrontIs ==
  ASSUME Sane, WorkMeant, PatternStep
  PROVE  /\ IInv /\ MemorySound /\ HeapInOrder
         /\ pc = "match" /\ work # <<>> /\ 1 \in DOMAIN work
         /\ work[1] \in MeantChecks /\ work[1].val \in Held
         /\ Meaning(work[1].val, Term(work[1].val))
         /\ work[1].pat.kind # "list" => RestOf(work[1]) = work[1].pat
         /\ work \in Seq(Checks(SafeGeneric)) /\ binds \in Seq(SafeGeneric)
<1>1. pc = "match" /\ work # <<>>
  BY DEF PatternStep, MatchAny, MatchVar, MatchAtom, MatchInt, MatchText, MatchTuple,
         MatchList, MatchCons, Current
<1>2. IInv /\ MemorySound /\ HeapInOrder
  BY <1>1, SaneRuns
<1>3. work \in Seq(Checks(SafeGeneric)) /\ binds \in Seq(SafeGeneric)
  BY <1>2 DEF IInv, Typed, LocalsTyped
<1>4. 1 \in DOMAIN work /\ work[1] \in Checks(SafeGeneric)
  BY <1>1, <1>3, FrontCheck, EmptySeq, LenProperties
<1>5. work[1] \in MeantChecks
  BY <1>4 DEF MeantChecks, WorkMeant
<1>6. work[1].val \in Held
  BY <1>4 DEF Held, InHand
<1>7. Meaning(work[1].val, Term(work[1].val))
  BY <1>2, <1>6, HeldMeaning
<1>8. work[1].pat.kind # "list" => RestOf(work[1]) = work[1].pat
  <2>1. work[1].skip \in Nat /\ (work[1].skip > 0 => work[1].pat.kind = "list")
    BY <1>5 DEF MeantChecks, MeantCheck, Checks
  <2> QED
    BY <2>1 DEF RestOf
<1> QED
  BY <1>1, <1>2, <1>3, <1>4, <1>5, <1>6, <1>7, <1>8

LEMMA HoldAgrees ==
  ASSUME binds \in Seq(SafeGeneric), Holds(TRUE), NEW m,
         Compared(m) = Elixir!Into(m, <<>>, <<>>)
  PROVE  StepAgrees(m)
<1>1. <<>> \in Seq(MeantChecks) /\ <<>> \in Seq(SafeGeneric)
  BY EmptySeq
<1>2. Continues(<<>>, <<>>)
  <2>1. binds \o <<>> = binds
    BY ConcatEmptySeq
  <2> QED
    BY <2>1 DEF Holds, Replace, Continues
<1>3. Pairs(<<>>) = <<>> /\ Taken(<<>>) = <<>>
  BY DEF Pairs, Taken
<1> QED
  BY <1>1, <1>2, <1>3 DEF StepAgrees

LEMMA FailAgrees ==
  ASSUME Holds(FALSE) \/ Mismatch, NEW m, Compared(m) = Elixir!Failed
  PROVE  StepAgrees(m)
BY DEF Holds, StepAgrees

LEMMA ConstantAgrees ==
  ASSUME Sane, WorkMeant, MatchAny \/ MatchVar \/ MatchAtom \/ MatchInt, NEW m
  PROVE  StepAgrees(m)
<1> PICK c, v, t, p : /\ c = work[1] /\ v = work[1].val /\ t = Term(work[1].val)
                      /\ p = work[1].pat
  OBVIOUS
<1>1. /\ work # <<>> /\ c \in MeantChecks /\ Meaning(v, t)
      /\ c.pat.kind # "list" => RestOf(c) = c.pat
      /\ binds \in Seq(SafeGeneric) /\ v \in SafeGeneric /\ v \in Held
  BY FrontIs, HeldIsSafe DEF PatternStep
<1>2. p.kind # "list" => Compared(m) = Elixir!Compare(m, p, t)
  BY <1>1 DEF Compared
<1>3. CASE MatchAny
  <2>1. p.kind = "any" /\ Holds(TRUE)
    BY <1>3 DEF MatchAny, Current
  <2>2. Compared(m) = Elixir!Into(m, <<>>, <<>>)
    BY <1>2, <2>1, CompareIs
  <2> QED
    BY <1>1, <2>1, <2>2, HoldAgrees
<1>4. CASE MatchVar
  <2>1. <<>> \in Seq(MeantChecks) /\ <<v>> \in Seq(SafeGeneric)
    BY <1>1, EmptySeq
  <2>2. Continues(<<>>, <<v>>)
    <3>1. Append(binds, v) = binds \o <<v>>
      BY <1>1, AppendIsConcat
    <3> QED
      BY <1>4, <3>1 DEF MatchVar, Replace, Continues
  <2>3. Pairs(<<>>) = <<>> /\ Taken(<<v>>) = <<t>>
    BY DEF Pairs, Taken
  <2>4. Compared(m) = Elixir!Into(m, <<>>, <<t>>)
    BY <1>2, <1>4, CompareIs DEF MatchVar, Current
  <2> QED
    BY <2>1, <2>2, <2>3, <2>4 DEF StepAgrees
<1>5. CASE MatchAtom
  <2>1. p.kind = "atom" /\ p.atom \in Atoms
    BY <1>1, <1>5, PatternAssumption DEF MatchAtom, Current, MeantChecks, Checks
  <2>2. Compared(m) = IF t = TAtom(p.atom) THEN Elixir!Into(m, <<>>, <<>>) ELSE Elixir!Failed
    <3>1. Compared(m) =
            IF Elixir!IsConstant(p, t) THEN Elixir!Into(m, <<>>, <<>>) ELSE Elixir!Failed
      BY <1>2, <2>1, CompareIs
    <3>2. Elixir!IsConstant(p, t) <=> t = TAtom(p.atom)
      BY <2>1, ConstantIs
    <3> QED
      BY <3>1, <3>2
  <2>3. t = TAtom(p.atom) <=> v.type = "ATOM" /\ v.start = MkAtom(p.atom).start
    <3>1. CASE v.type = "ATOM"
      <4>1. PICK a \in Atoms : v = MkAtom(a) /\ t = TAtom(a)
        BY <1>1, <3>1 DEF Meaning
      <4>2. t = TAtom(p.atom) <=> a = p.atom
        BY <4>1 DEF TAtom, PAtom, MkPattern
      <4>3. a = p.atom <=> v.start = MkAtom(p.atom).start
        BY <2>1, <4>1, AtomsDiffer
      <4> QED
        BY <3>1, <4>2, <4>3
    <3>2. CASE v.type # "ATOM"
      BY <1>1, <3>2, MeaningKind, KindsAre
    <3> QED
      BY <3>1, <3>2
  <2>4. CASE t = TAtom(p.atom)
    BY <1>1, <1>5, <2>2, <2>3, <2>4, HoldAgrees DEF MatchAtom
  <2>5. CASE t # TAtom(p.atom)
    BY <1>1, <1>5, <2>2, <2>3, <2>5, FailAgrees DEF MatchAtom
  <2> QED
    BY <2>4, <2>5
<1>6. CASE MatchInt
  <2>1. p.kind = "int" /\ p.n \in Int /\ c.gen
    BY <1>1, <1>6, PatternAssumption DEF MatchInt, Current, MeantChecks, MeantCheck, Checks
  <2>2. Compared(m) = IF t = TInt(p.n) THEN Elixir!Into(m, <<>>, <<>>) ELSE Elixir!Failed
    <3>1. Compared(m) =
            IF Elixir!IsConstant(p, t) THEN Elixir!Into(m, <<>>, <<>>) ELSE Elixir!Failed
      BY <1>2, <2>1, CompareIs
    <3>2. Elixir!IsConstant(p, t) <=> t = TInt(p.n)
      BY <2>1, ConstantIs
    <3> QED
      BY <3>1, <3>2
  <2>3. t = TInt(p.n) <=> v = MkInteger(p.n)
    <3>1. CASE v.type = "INTEGER"
      <4>1. v = MkInteger(v.start) /\ t = TInt(v.start)
        BY <1>1, <3>1 DEF Meaning
      <4> QED
        BY <4>1 DEF TInt, PInt, MkPattern, MkInteger, MkGeneric
    <3>2. CASE v.type # "INTEGER"
      <4>1. v # MkInteger(p.n)
        BY <3>2 DEF MkInteger, MkGeneric
      <4>2. t # TInt(p.n)
        BY <1>1, <3>2, MeaningKind, KindsAre
      <4> QED
        BY <4>1, <4>2
    <3> QED
      BY <3>1, <3>2
  <2>4. CASE t = TInt(p.n)
    BY <1>1, <1>6, <2>1, <2>2, <2>3, <2>4, HoldAgrees DEF MatchInt
  <2>5. CASE t # TInt(p.n)
    BY <1>1, <1>6, <2>1, <2>2, <2>3, <2>5, FailAgrees DEF MatchInt
  <2> QED
    BY <2>4, <2>5
<1> QED
  BY <1>3, <1>4, <1>5, <1>6

LEMMA TextAgrees ==
  ASSUME Sane, WorkMeant, MatchText, NEW m
  PROVE  StepAgrees(m)
<1> PICK c, v, t, p, text :
       /\ c = work[1] /\ v = work[1].val /\ t = Term(work[1].val)
       /\ p = work[1].pat /\ text = work[1].pat.text
  OBVIOUS
<1>1. /\ IInv /\ c \in MeantChecks /\ Meaning(v, t) /\ (p.kind # "list" => RestOf(c) = p)
      /\ binds \in Seq(SafeGeneric) /\ v \in SafeGeneric
  BY FrontIs, HeldIsSafe DEF PatternStep
<1>2. p.kind = "text" /\ c.gen /\ text \in Seq(Char) /\ Len(text) \in Nat
  <2>1. p.kind = "text" /\ p \in Patterns /\ c.gen
    BY <1>1 DEF MatchText, Current, MeantChecks, MeantCheck, Checks
  <2>2. text \in Seq(Char)
    BY <2>1, PatternAssumption
  <2> QED
    BY <2>1, <2>2, LenProperties
<1>3. Compared(m) = IF t = TText(text) THEN Elixir!Into(m, <<>>, <<>>) ELSE Elixir!Failed
  <2>1. Compared(m) = Elixir!Compare(m, p, t)
    BY <1>1, <1>2 DEF Compared
  <2>2. Elixir!Compare(m, p, t) =
          IF Elixir!IsConstant(p, t) THEN Elixir!Into(m, <<>>, <<>>) ELSE Elixir!Failed
    BY <1>2, CompareIs
  <2>3. Elixir!IsConstant(p, t) <=> t = TText(text)
    BY <1>2, ConstantIs
  <2> QED
    BY <2>1, <2>2, <2>3
<1>4. v.start \in Int /\ v.end \in Int /\ Bounded(v) /\ STRING_POOL_SIZE \in Nat
  BY <1>1, Indices DEF SafeGeneric, Generic
<1>5. ASSUME t = TText(text)
      PROVE  v.type = "STRING" /\ Len(text) = v.end - v.start /\ SameChars(text, v.start)
  <2>1. v.type = "STRING"
    BY <1>1, <1>5, MeaningKind, KindsAre
  <2>2. text = Text(v)
    <3>1. t = TText(Text(v))
      BY <1>1, <2>1 DEF Meaning
    <3> QED
      BY <1>5, <3>1 DEF TText, PText, MkPattern
  <2>3. v.end - v.start \in Nat
    BY <1>4, <2>1 DEF Bounded
  <2>4. Len(text) = v.end - v.start
    BY <2>2, <2>3 DEF Text
  <2>5. \A i \in 1..Len(text) : string_pool[v.start + i - 1] = text[i]
    <3>1. text = [i \in 1..Len(text) |-> string_pool[v.start + i - 1]]
      BY <2>2, <2>4 DEF Text
    <3> PICK k : k = Len(text)
      OBVIOUS
    <3>2. \A i \in 1..k : text[i] = string_pool[v.start + i - 1]
      BY <3>1
    <3> QED
      BY <3>2
  <2> QED
    BY <2>1, <2>4, <2>5 DEF SameChars
<1>6. ASSUME v.type = "STRING", Len(text) = v.end - v.start, SameChars(text, v.start)
      PROVE  t = TText(text)
  <2>1. v.start >= 0 /\ v.end < STRING_POOL_SIZE
    BY <1>4, <1>6 DEF Bounded
  <2>2. \A i \in 1..Len(text) : v.start < STRING_POOL_SIZE - (i - 1)
    BY <1>2, <1>4, <1>6, <2>1
  <2>3. \A i \in 1..Len(text) : string_pool[v.start + i - 1] = text[i]
    BY <1>6, <2>1, <2>2 DEF SameChars
  <2>4. Text(v) = [i \in 1..Len(text) |-> text[i]]
    BY <1>6, <2>3 DEF Text
  <2>5. text = [i \in 1..Len(text) |-> text[i]]
    BY <1>2, LenProperties
  <2> QED
    BY <1>1, <1>6, <2>4, <2>5 DEF Meaning
<1>7. Holds(v.type = "STRING" /\ Len(text) = v.end - v.start /\ SameChars(text, v.start))
  BY <1>2 DEF MatchText
<1>8. CASE t = TText(text)
  <2>1. Holds(TRUE)
    BY <1>5, <1>7, <1>8 DEF Holds
  <2>2. Compared(m) = Elixir!Into(m, <<>>, <<>>)
    BY <1>3, <1>8
  <2> QED
    BY <1>1, <2>1, <2>2, HoldAgrees
<1>9. CASE t # TText(text)
  <2>1. Mismatch
    BY <1>6, <1>7, <1>9 DEF Holds
  <2>2. Compared(m) = Elixir!Failed
    BY <1>3, <1>9
  <2> QED
    BY <2>1, <2>2, FailAgrees
<1> QED
  BY <1>8, <1>9

(* a check of an element of a held value *)
LEMMA ElementCheck ==
  ASSUME IInv, NEW p \in Patterns, NEW i, IsTaken(i), NEW g \in BOOLEAN,
         p.kind \in {"int", "text"} => g
  PROVE  /\ Check(p, Element(i), g, 0) \in MeantChecks
         /\ PairOf(Check(p, Element(i), g, 0)) = Elixir!Pair(p, Term(Element(i)))
<1> PICK v : v = Element(i)
  OBVIOUS
<1>1. v \in SafeGeneric
  BY HeldIsSafe DEF IsTaken
<1>2. Check(p, v, g, 0) \in Checks(SafeGeneric) /\ MeantCheck(Check(p, v, g, 0))
  BY <1>1 DEF Check, Checks, MeantCheck
<1>3. RestOf(Check(p, v, g, 0)) = p /\ Check(p, v, g, 0).val = v
  BY DEF RestOf, Check
<1> QED
  BY <1>2, <1>3 DEF MeantChecks, PairOf

LEMMA TupleAgrees ==
  ASSUME Sane, WorkMeant, SizesAgree, MatchTuple, NEW m
  PROVE  StepAgrees(m)
<1> PICK c, v, t, p, subs :
       /\ c = work[1] /\ v = work[1].val /\ t = Term(work[1].val)
       /\ p = work[1].pat /\ subs = work[1].pat.subs
  OBVIOUS
<1>1. /\ IInv /\ c \in MeantChecks /\ Meaning(v, t) /\ (p.kind # "list" => RestOf(c) = p)
      /\ binds \in Seq(SafeGeneric) /\ v \in SafeGeneric
  BY FrontIs, HeldIsSafe DEF PatternStep
<1>2. p.kind = "tuple" /\ subs \in Seq(Patterns) /\ Current({"tuple"})
  <2>1. p.kind = "tuple" /\ p \in Patterns
    BY <1>1 DEF MatchTuple, Current, MeantChecks, Checks
  <2> QED
    BY <2>1, PatternAssumption DEF MatchTuple
<1>3. Compared(m) = IF t.kind = "tuple" /\ Len(subs) = Len(t.subs)
                      THEN Elixir!Into(m, [i \in 1..Len(subs) |->
                                             Elixir!Pair(subs[i], t.subs[i])], <<>>)
                      ELSE Elixir!Failed
  <2>1. Compared(m) = Elixir!Compare(m, p, t)
    BY <1>1, <1>2 DEF Compared
  <2> QED
    BY <1>2, <2>1, CompareTuple
<1>4. CASE v.type # "TUPLE"
  <2>1. Mismatch
    BY <1>4 DEF MatchTuple
  <2>2. t.kind # "tuple"
    BY <1>1, <1>4, MeaningKind
  <2> QED
    BY <1>3, <2>1, <2>2, FailAgrees
<1>5. CASE v.type = "TUPLE"
  <2>1. PICK n \in Nat : n = Len(subs) /\ n = v.end - v.start + 1
    BY <1>2, <1>5, LenProperties DEF SizesAgree
  <2>2. \A i \in 1..n : IsTaken(v.start + i - 1)
    BY <1>1, <1>5, <2>1 DEF Meaning
  <2>3. t.kind = "tuple" /\ t.subs = [i \in 1..n |-> Term(Element(v.start + i - 1))]
    BY <1>1, <1>5, <2>1, KindsAre DEF Meaning
  <2>4. Compared(m) = Elixir!Into(m, [i \in 1..n |-> Elixir!Pair(subs[i], t.subs[i])], <<>>)
    <3>1. Len(t.subs) = n
      BY <2>3
    <3> QED
      BY <1>3, <2>1, <2>3, <3>1
  <2>5. PICK s : s = [i \in 1..n |-> Check(subs[i], Element(v.start + i - 1), TRUE, 0)]
    OBVIOUS
  <2>6. Replace(s) /\ UNCHANGED binds
    <3>1. \A i \in 1..n : Readable(v.start + i - 1)
      BY <2>2 DEF IsTaken
    <3> QED
      BY <1>5, <2>1, <2>5, <3>1 DEF MatchTuple
  <2>7. \A i \in 1..n : s[i] \in MeantChecks /\ PairOf(s[i]) = Elixir!Pair(subs[i], t.subs[i])
    <3> TAKE i \in 1..n
    <3> PICK q \in Patterns : q = subs[i]
      BY <1>2, <2>1, ElementOfSeq
    <3> PICK j : j = v.start + i - 1
      OBVIOUS
    <3>1. /\ Check(q, Element(j), TRUE, 0) \in MeantChecks
          /\ PairOf(Check(q, Element(j), TRUE, 0)) = Elixir!Pair(q, Term(Element(j)))
      BY <1>1, <2>2, ElementCheck
    <3>2. s[i] = Check(q, Element(j), TRUE, 0) /\ t.subs[i] = Term(Element(j))
      BY <2>3, <2>5
    <3> QED
      BY <3>1, <3>2
  <2>8. s \in Seq(MeantChecks) /\ Len(s) = n
    <3>1. s \in [1..n -> MeantChecks]
      BY <2>5, <2>7
    <3> QED
      BY <3>1, FunctionIsSeq
  <2>9. Pairs(s) = [i \in 1..n |-> Elixir!Pair(subs[i], t.subs[i])]
    BY <2>7, <2>8 DEF Pairs
  <2>10. Continues(s, <<>>) /\ Taken(<<>>) = <<>> /\ <<>> \in Seq(SafeGeneric)
    <3>1. binds \o <<>> = binds
      BY <1>1, ConcatEmptySeq
    <3> QED
      BY <2>6, <3>1, EmptySeq DEF Replace, Continues, Taken
  <2> QED
    BY <2>4, <2>8, <2>9, <2>10 DEF StepAgrees
<1> QED
  BY <1>4, <1>5

(* Two checks in the place of one, against the two parts of a list. *)
LEMMA PairAgrees ==
  ASSUME binds \in Seq(SafeGeneric), NEW c1 \in MeantChecks, NEW c2 \in MeantChecks,
         Replace(<<c1, c2>>), UNCHANGED binds, NEW m,
         Compared(m) = Elixir!Into(m, <<PairOf(c1), PairOf(c2)>>, <<>>)
  PROVE  StepAgrees(m)
<1>1. <<c1, c2>> \in Seq(MeantChecks) /\ <<>> \in Seq(SafeGeneric)
  BY PairIsSeq, EmptySeq
<1>2. Continues(<<c1, c2>>, <<>>)
  <2>1. binds \o <<>> = binds
    BY ConcatEmptySeq
  <2> QED
    BY <2>1 DEF Replace, Continues
<1>3. Pairs(<<c1, c2>>) = <<PairOf(c1), PairOf(c2)>> /\ Taken(<<>>) = <<>>
  <2>1. Len(<<c1, c2>>) = 2 /\ <<c1, c2>>[1] = c1 /\ <<c1, c2>>[2] = c2
    OBVIOUS
  <2>2. Pairs(<<c1, c2>>) = [i \in 1..2 |-> PairOf(<<c1, c2>>[i])]
    BY <2>1 DEF Pairs
  <2> PICK a, b : a = PairOf(c1) /\ b = PairOf(c2)
    OBVIOUS
  <2>3. <<a, b>> = [i \in 1..2 |-> IF i = 1 THEN a ELSE b]
    OBVIOUS
  <2>4. \A i \in 1..2 : PairOf(<<c1, c2>>[i]) = IF i = 1 THEN a ELSE b
    <3>1. \A i \in 1..2 : i = 1 \/ i = 2
      OBVIOUS
    <3>2. 2 # 1
      OBVIOUS
    <3> QED
      BY <2>1, <3>1, <3>2, Zenon
  <2>5. [i \in 1..2 |-> PairOf(<<c1, c2>>[i])] = [i \in 1..2 |-> IF i = 1 THEN a ELSE b]
    BY <2>4, Zenon
  <2> QED
    BY <2>2, <2>3, <2>5 DEF Taken
<1> QED
  BY <1>1, <1>2, <1>3 DEF StepAgrees

LEMMA ConsAgrees ==
  ASSUME Sane, WorkMeant, ChecksConstants, MatchCons, NEW m
  PROVE  StepAgrees(m)
<1> PICK c, v, t, p, subs :
       /\ c = work[1] /\ v = work[1].val /\ t = Term(work[1].val)
       /\ p = work[1].pat /\ subs = work[1].pat.subs
  OBVIOUS
<1>1. /\ IInv /\ c \in MeantChecks /\ Meaning(v, t) /\ (p.kind # "list" => RestOf(c) = p)
      /\ binds \in Seq(SafeGeneric) /\ v \in SafeGeneric
  BY FrontIs, HeldIsSafe DEF PatternStep
<1>2. p.kind = "cons" /\ p \in Patterns
  BY <1>1 DEF MatchCons, Current, MeantChecks, Checks
<1>3. /\ subs[1] \in Patterns /\ subs[2] \in Patterns
      /\ subs[1].kind \notin {"int", "text"} /\ subs[2].kind \notin {"int", "text"}
  <2>1. subs \in Seq(Patterns) /\ Len(subs) = 2
    BY <1>2, PatternAssumption
  <2>2. \A i \in 1..2 : subs[i].kind \notin {"int", "text"}
    BY <1>2, <2>1, PatternAssumption DEF ChecksConstants
  <2> QED
    BY <2>1, <2>2, ElementOfSeq
<1>4. Compared(m) = IF t.kind = "cons"
                      THEN Elixir!Into(m, <<Elixir!Pair(subs[1], t.subs[1]),
                                            Elixir!Pair(subs[2], t.subs[2])>>, <<>>)
                      ELSE Elixir!Failed
  <2>1. Compared(m) = Elixir!Compare(m, p, t)
    BY <1>1, <1>2 DEF Compared
  <2> QED
    BY <1>2, <2>1, CompareCons
<1>5. CASE v.type = "LIST" /\ v.start # -1
  <2> PICK i, j : i = v.start /\ j = v.start + 1
    OBVIOUS
  <2>1. IsTaken(i) /\ IsTaken(j) /\ t = TCons(Term(Element(i)), Term(Element(j)))
    BY <1>1, <1>5 DEF Meaning
  <2> PICK c1, c2 : /\ c1 = Check(subs[1], Element(i), FALSE, 0)
                    /\ c2 = Check(subs[2], Element(j), FALSE, 0)
    OBVIOUS
  <2>2. /\ c1 \in MeantChecks /\ PairOf(c1) = Elixir!Pair(subs[1], Term(Element(i)))
        /\ c2 \in MeantChecks /\ PairOf(c2) = Elixir!Pair(subs[2], Term(Element(j)))
    BY <1>1, <1>3, <2>1, ElementCheck
  <2>3. Replace(<<c1, c2>>) /\ UNCHANGED binds
    BY <1>5, <2>1 DEF MatchCons, IsTaken
  <2>4. Compared(m) = Elixir!Into(m, <<PairOf(c1), PairOf(c2)>>, <<>>)
    <3>1. t.kind = "cons" /\ t.subs[1] = Term(Element(i)) /\ t.subs[2] = Term(Element(j))
      <4> PICK x, y : x = Term(Element(i)) /\ y = Term(Element(j))
        OBVIOUS
      <4>1. t = TCons(x, y)
        BY <2>1
      <4>2. TCons(x, y).kind = "cons" /\ TCons(x, y).subs[1] = x /\ TCons(x, y).subs[2] = y
        BY ConsIs
      <4> QED
        BY <4>1, <4>2
    <3> QED
      BY <1>4, <2>2, <3>1
  <2> QED
    BY <1>1, <2>2, <2>3, <2>4, PairAgrees
<1>6. CASE ~(v.type = "LIST" /\ v.start # -1)
  <2>1. v.type = "LIST" => ~Readable(v.start)
    BY <1>6 DEF Readable
  <2>2. Mismatch
    BY <2>1 DEF MatchCons
  <2>3. t.kind # "cons"
    BY <1>1, <1>6, MeaningKind
  <2> QED
    BY <1>4, <2>2, <2>3, FailAgrees
<1> QED
  BY <1>5, <1>6

(* what is left of a sequence when k elements are taken *)
LEMMA RestIs ==
  ASSUME NEW S, NEW s \in Seq(S), NEW n \in Nat, n <= Len(s),
         NEW rest, rest = SubSeq(s, n + 1, Len(s))
  PROVE  /\ n = Len(s) => rest = <<>>
         /\ n < Len(s) => /\ rest # <<>> /\ rest[1] = s[n + 1]
                          /\ Tail(rest) = SubSeq(s, n + 2, Len(s))
                          /\ s[n + 1] \in S
<1>1. Len(s) \in Nat
  BY LenProperties
<1>2. rest = SubSeq(s, n + 1, Len(s))
  OBVIOUS
<1>3. CASE n = Len(s)
  <2>1. rest = <<>>
    BY <1>1, <1>2, <1>3, SubSeqEmpty
  <2> QED
    BY <1>1, <1>3, <2>1
<1>4. CASE n # Len(s)
  <2>1. n + 1 \in 1..Len(s) /\ Len(s) \in (n + 1)..Len(s) /\ n + 1 + 1 = n + 2
    BY <1>1, <1>4
  <2>2. Head(rest) = s[n + 1] /\ Tail(rest) = SubSeq(s, n + 2, Len(s))
    BY <1>2, <2>1, HeadTailOfSubSeq
  <2>3. \A i \in (n + 1)..Len(s) : i \in 1..Len(s)
    BY <1>1
  <2>4. Len(rest) = Len(s) - (n + 1) + 1 /\ rest \in Seq(S)
    <3>1. \A i \in (n + 1)..Len(s) : s[i] \in S
      BY <2>3, ElementOfSeq
    <3> QED
      BY <1>1, <1>2, <2>1, <3>1, SubSeqProperties
  <2>5. rest # <<>>
    <3>1. Len(rest) # 0
      BY <1>1, <1>4, <2>4
    <3> QED
      BY <3>1, EmptySeq
  <2>6. rest[1] = s[n + 1]
    BY <2>2, <2>4, <2>5
  <2>7. s[n + 1] \in S
    BY <2>1, ElementOfSeq
  <2> QED
    BY <1>4, <2>2, <2>5, <2>6, <2>7
<1> QED
  BY <1>3, <1>4

LEMMA ListAgrees ==
  ASSUME Sane, WorkMeant, ChecksConstants, MatchList, NEW m
  PROVE  StepAgrees(m)
<1> PICK c, v, t, subs, k, r :
       /\ c = work[1] /\ v = work[1].val /\ t = Term(work[1].val)
       /\ subs = work[1].pat.subs /\ k = work[1].skip /\ r = RestOf(work[1])
  OBVIOUS
<1>1. /\ IInv /\ c \in MeantChecks /\ Meaning(v, t) /\ MemorySound /\ 1 \in DOMAIN work
      /\ binds \in Seq(SafeGeneric) /\ v \in SafeGeneric
  BY FrontIs, HeldIsSafe DEF PatternStep
<1>2. /\ c.pat.kind = "list" /\ c.pat \in Patterns /\ subs \in Seq(Patterns)
      /\ k \in Nat /\ k <= Len(subs) /\ Len(subs) \in Nat
  <2>1. /\ c.pat.kind = "list" /\ c.pat \in Patterns /\ k \in Nat /\ (k > 0 => k <= Len(subs))
    BY <1>1 DEF MatchList, Current, MeantChecks, MeantCheck, Checks
  <2>2. subs \in Seq(Patterns) /\ Len(subs) \in Nat
    BY <2>1, PatternAssumption, LenProperties
  <2> QED
    BY <2>1, <2>2
<1>3. r.kind = "list" /\ r.subs = SubSeq(subs, k + 1, Len(subs))
  <2>1. k = 0 => SubSeq(subs, k + 1, Len(subs)) = subs
    BY <1>2, SubSeqFull
  <2> QED
    BY <1>2, <2>1 DEF RestOf, PList, MkPattern
<1>4. /\ k = Len(subs) => r.subs = <<>>
      /\ k < Len(subs) => /\ r.subs # <<>> /\ r.subs[1] = subs[k + 1]
                          /\ Tail(r.subs) = SubSeq(subs, k + 2, Len(subs))
                          /\ subs[k + 1] \in Patterns
  <2> PICK rs : rs = r.subs
    OBVIOUS
  <2>1. rs = SubSeq(subs, k + 1, Len(subs))
    BY <1>3
  <2>2. k = Len(subs) => rs = <<>>
    BY <1>2, <2>1, RestIs
  <2>3. k < Len(subs) => rs # <<>> /\ rs[1] = subs[k + 1]
    BY <1>2, <2>1, RestIs
  <2>4. k < Len(subs) =>
          Tail(rs) = SubSeq(subs, k + 2, Len(subs)) /\ subs[k + 1] \in Patterns
    BY <1>2, <2>1, RestIs
  <2> QED
    BY <2>2, <2>3, <2>4
<1>5. Compared(m) = Elixir!Compare(m, r, t)
  BY DEF Compared
<1>6. (k = 0 => v.type = "LIST") <=> v.type = "LIST"
  <2>1. k > 0 => v.type = "LIST"
    BY <1>1 DEF MemorySound, TailsAreLists
  <2> QED
    BY <1>2, <2>1
<1>7. CASE k < Len(subs)
  <2>1. Compared(m) = IF t.kind = "cons"
          THEN Elixir!Into(m, <<Elixir!Pair(r.subs[1], t.subs[1]),
                                Elixir!Pair(PList(Tail(r.subs)), t.subs[2])>>, <<>>)
          ELSE Elixir!Failed
    <3>1. r.kind = "list" /\ r.subs # <<>>
      BY <1>2, <1>3, <1>4, <1>7
    <3>2. Elixir!Compare(m, r, t) =
            IF t.kind = "cons"
              THEN Elixir!Into(m, <<Elixir!Pair(r.subs[1], t.subs[1]),
                                    Elixir!Pair(PList(Tail(r.subs)), t.subs[2])>>, <<>>)
              ELSE Elixir!Failed
      BY <3>1, CompareList
    <3> QED
      BY <1>5, <3>2
  <2>2. CASE v.type = "LIST" /\ v.start # -1
    <3> PICK i, j : i = v.start /\ j = v.start + 1
      OBVIOUS
    <3>1. IsTaken(i) /\ IsTaken(j) /\ t = TCons(Term(Element(i)), Term(Element(j)))
      BY <1>1, <2>2 DEF Meaning
    <3> PICK q \in Patterns : q = subs[k + 1]
      BY <1>4, <1>7
    <3> PICK c1, c2 : /\ c1 = Check(q, Element(i), FALSE, 0)
                      /\ c2 = Check(c.pat, Element(j), FALSE, k + 1)
      OBVIOUS
    <3>2. q.kind \notin {"int", "text"}
      <4>1. k + 1 \in 1..Len(subs)
        BY <1>2, <1>7
      <4> QED
        BY <1>2, <4>1, PatternAssumption DEF ChecksConstants
    <3>3. c1 \in MeantChecks /\ PairOf(c1) = Elixir!Pair(q, Term(Element(i)))
      BY <1>1, <3>1, <3>2, ElementCheck
    <3>4. c2 \in MeantChecks
      <4>1. Element(j) \in SafeGeneric /\ k + 1 \in Nat /\ k + 1 <= Len(subs)
        BY <1>1, <1>2, <1>7, <3>1, HeldIsSafe DEF IsTaken
      <4>2. /\ c2.pat = c.pat /\ c2.skip = k + 1 /\ c2 \in Checks(SafeGeneric)
        BY <1>2, <4>1 DEF Check, Checks
      <4> QED
        BY <1>2, <4>1, <4>2 DEF MeantChecks, MeantCheck
    <3>5. PairOf(c2) = Elixir!Pair(PList(Tail(r.subs)), Term(Element(j)))
      <4>1. /\ c2.pat.subs = subs /\ c2.skip = k + 1 /\ c2.val = Element(j)
            /\ k + 1 # 0 /\ k + 1 + 1 = k + 2
        BY <1>2 DEF Check
      <4>2. RestOf(c2) = PList(SubSeq(subs, k + 2, Len(subs)))
        BY <4>1 DEF RestOf
      <4> QED
        BY <1>4, <1>7, <4>1, <4>2 DEF PairOf
    <3>6. Replace(<<c1, c2>>) /\ UNCHANGED binds
      BY <1>6, <1>7, <2>2, <3>1 DEF MatchList, IsTaken
    <3>7. Compared(m) = Elixir!Into(m, <<PairOf(c1), PairOf(c2)>>, <<>>)
      <4>1. t.kind = "cons" /\ t.subs[1] = Term(Element(i)) /\ t.subs[2] = Term(Element(j))
        <5> PICK x, y : x = Term(Element(i)) /\ y = Term(Element(j))
          OBVIOUS
        <5>1. t = TCons(x, y)
          BY <3>1
        <5>2. TCons(x, y).kind = "cons" /\ TCons(x, y).subs[1] = x /\ TCons(x, y).subs[2] = y
          BY ConsIs
        <5> QED
          BY <5>1, <5>2
      <4> QED
        BY <1>4, <1>7, <2>1, <3>3, <3>5, <4>1
    <3> QED
      BY <1>1, <3>3, <3>4, <3>6, <3>7, PairAgrees
  <2>3. CASE ~(v.type = "LIST" /\ v.start # -1)
    <3>1. v.type = "LIST" => ~Readable(v.start)
      BY <2>3 DEF Readable
    <3>2. Holds(FALSE)
      BY <1>6, <1>7, <3>1 DEF MatchList
    <3>3. t.kind # "cons"
      BY <1>1, <2>3, MeaningKind
    <3> QED
      BY <2>1, <3>2, <3>3, FailAgrees
  <2> QED
    BY <2>2, <2>3
<1>8. CASE ~(k < Len(subs))
  <2>1. Compared(m) = IF t = TNil THEN Elixir!Into(m, <<>>, <<>>) ELSE Elixir!Failed
    <3>1. r.kind = "list" /\ r.subs = <<>>
      BY <1>2, <1>3, <1>4, <1>8
    <3>2. Elixir!Compare(m, r, t) =
            IF t = TNil THEN Elixir!Into(m, <<>>, <<>>) ELSE Elixir!Failed
      BY <3>1, CompareList
    <3> QED
      BY <1>5, <3>2
  <2>2. Holds(v.type = "LIST" /\ v.start = -1 /\ v.end = -1)
    BY <1>6, <1>8 DEF MatchList
  <2>3. CASE v.type = "LIST" /\ v.start = -1
    <3>1. t = TNil /\ v.end = -1
      BY <1>1, <2>3 DEF Meaning, EmptyListValue, MkGeneric
    <3>2. Holds(TRUE)
      BY <2>2, <2>3, <3>1 DEF Holds
    <3> QED
      BY <1>1, <2>1, <3>1, <3>2, HoldAgrees
  <2>4. CASE ~(v.type = "LIST" /\ v.start = -1)
    <3>1. t # TNil
      BY <1>1, <2>4, MeaningKind
    <3>2. Mismatch
      BY <2>2, <2>4 DEF Holds
    <3> QED
      BY <2>1, <3>1, <3>2, FailAgrees
  <2> QED
    BY <2>3, <2>4
<1> QED
  BY <1>7, <1>8

LEMMA EachStepAgrees ==
  ASSUME Sane, WorkMeant, SizesAgree, ChecksConstants, PatternStep, NEW m
  PROVE  StepAgrees(m)
BY ConstantAgrees, TextAgrees, TupleAgrees, ListAgrees, ConsAgrees DEF PatternStep

(***************************************************************************)
(* A sequence mapped element by element.                                   *)
(***************************************************************************)
Mapped(f, s) == [i \in 1..Len(s) |-> f[s[i]]]

ImageOf(f, S) == {f[x] : x \in S}

LEMMA MappedIs ==
  \A fun, Src : \A q \in Seq(Src) :
    /\ Mapped(fun, q) \in Seq(ImageOf(fun, Src))
    /\ Len(Mapped(fun, q)) = Len(q) /\ Len(q) \in Nat
<1> TAKE fun, Src
<1> TAKE q \in Seq(Src)
<1>1. Len(q) \in Nat /\ \A i \in 1..Len(q) : q[i] \in Src
  BY LenProperties, ElementOfSeq
<1>2. Mapped(fun, q) \in [1..Len(q) -> ImageOf(fun, Src)]
  BY <1>1 DEF Mapped, ImageOf
<1>3. Mapped(fun, q) \in Seq(ImageOf(fun, Src)) /\ Len(Mapped(fun, q)) = Len(q)
  BY <1>1, <1>2, FunctionIsSeq
<1> QED
  BY <1>1, <1>3

LEMMA MapConcat ==
  ASSUME NEW g, NEW A, NEW a \in Seq(A), NEW b \in Seq(A)
  PROVE  Mapped(g, a \o b) = Mapped(g, a) \o Mapped(g, b)
<1>00. PICK R : R = ImageOf(g, A)
  OBVIOUS
<1> PICK c \in Seq(A) : c = a \o b
  BY ConcatProperties
<1>0. \A q \in Seq(A) :
        /\ Mapped(g, q) \in Seq(R) /\ Len(Mapped(g, q)) = Len(q) /\ Len(q) \in Nat
        /\ \A i \in 1..Len(q) : Mapped(g, q)[i] = g[q[i]]
  <2>1. \A q \in Seq(A) :
          Mapped(g, q) \in Seq(R) /\ Len(Mapped(g, q)) = Len(q) /\ Len(q) \in Nat
    BY <1>00, MappedIs
  <2>2. \A q \in Seq(A) : \A i \in 1..Len(q) : Mapped(g, q)[i] = g[q[i]]
    BY DEF Mapped
  <2> QED
    BY <2>1, <2>2
<1>1. PICK ma : /\ ma = Mapped(g, a)
               /\ ma \in Seq(R) /\ Len(ma) = Len(a) /\ Len(a) \in Nat
               /\ \A i \in 1..Len(a) : ma[i] = g[a[i]]
  <2>1. /\ Mapped(g, a) \in Seq(R) /\ Len(Mapped(g, a)) = Len(a) /\ Len(a) \in Nat
        /\ \A i \in 1..Len(a) : Mapped(g, a)[i] = g[a[i]]
    BY <1>0
  <2> QED
    BY <2>1
<1>2. PICK mb : /\ mb = Mapped(g, b)
               /\ mb \in Seq(R) /\ Len(mb) = Len(b) /\ Len(b) \in Nat
               /\ \A i \in 1..Len(b) : mb[i] = g[b[i]]
  <2>1. /\ Mapped(g, b) \in Seq(R) /\ Len(Mapped(g, b)) = Len(b) /\ Len(b) \in Nat
        /\ \A i \in 1..Len(b) : Mapped(g, b)[i] = g[b[i]]
    BY <1>0
  <2> QED
    BY <2>1
<1>3. PICK mc : /\ mc = Mapped(g, c)
               /\ mc \in Seq(R) /\ Len(mc) = Len(c) /\ Len(c) \in Nat
               /\ \A i \in 1..Len(c) : mc[i] = g[c[i]]
  <2>1. /\ Mapped(g, c) \in Seq(R) /\ Len(Mapped(g, c)) = Len(c) /\ Len(c) \in Nat
        /\ \A i \in 1..Len(c) : Mapped(g, c)[i] = g[c[i]]
    BY <1>0
  <2> QED
    BY <2>1
<1>4. /\ Len(c) = Len(a) + Len(b)
      /\ \A i \in 1..(Len(a) + Len(b)) : c[i] = IF i <= Len(a) THEN a[i] ELSE b[i - Len(a)]
  BY ConcatProperties
<1>5. /\ ma \o mb \in Seq(R) /\ Len(ma \o mb) = Len(ma) + Len(mb)
      /\ \A i \in 1..(Len(ma) + Len(mb)) :
           (ma \o mb)[i] = IF i <= Len(ma) THEN ma[i] ELSE mb[i - Len(ma)]
  <2>1. ma \in Seq(R) /\ mb \in Seq(R)
    BY <1>1, <1>2
  <2> QED
    BY <2>1, ConcatProperties
<1>6. ASSUME NEW i \in 1..Len(c) PROVE mc[i] = (ma \o mb)[i]
  <2>1. i \in 1..(Len(a) + Len(b)) /\ i \in 1..(Len(ma) + Len(mb)) /\ i \in Int
    BY <1>1, <1>2, <1>4
  <2>2. CASE i <= Len(a)
    <3>1. i \in 1..Len(a)
      BY <1>1, <2>1, <2>2
    <3>2. mc[i] = g[a[i]]
      BY <1>3, <1>4, <2>1, <2>2
    <3>3. (ma \o mb)[i] = ma[i]
      BY <1>1, <1>5, <2>1, <2>2
    <3>4. ma[i] = g[a[i]]
      BY <1>1, <3>1
    <3> QED
      BY <3>2, <3>3, <3>4
  <2>3. CASE ~(i <= Len(a))
    <3>1. i - Len(a) \in 1..Len(b)
      BY <1>1, <1>2, <2>1, <2>3
    <3>2. mc[i] = g[b[i - Len(a)]]
      BY <1>3, <1>4, <2>1, <2>3
    <3>3. (ma \o mb)[i] = mb[i - Len(a)]
      BY <1>1, <1>5, <2>1, <2>3
    <3>4. mb[i - Len(a)] = g[b[i - Len(a)]]
      BY <1>2, <3>1
    <3> QED
      BY <3>2, <3>3, <3>4
  <2> QED
    BY <2>2, <2>3
<1>7. Len(mc) = Len(ma \o mb)
  BY <1>1, <1>2, <1>3, <1>4, <1>5
<1>8. mc = ma \o mb
  BY <1>3, <1>5, <1>6, <1>7, SeqEqual
<1> QED
  BY <1>1, <1>2, <1>3, <1>8

LEMMA MapTail ==
  ASSUME NEW g, NEW A, NEW a \in Seq(A), a # <<>>
  PROVE  /\ Mapped(g, Tail(a)) = Tail(Mapped(g, a))
         /\ Mapped(g, a) # <<>> /\ Mapped(g, a)[1] = g[a[1]]
<1>00. PICK R : R = ImageOf(g, A)
  OBVIOUS
<1> PICK c \in Seq(A) : c = Tail(a)
  BY HeadTailProperties
<1>0. \A q \in Seq(A) :
        /\ Mapped(g, q) \in Seq(R) /\ Len(Mapped(g, q)) = Len(q) /\ Len(q) \in Nat
        /\ \A i \in 1..Len(q) : Mapped(g, q)[i] = g[q[i]]
  <2>1. \A q \in Seq(A) :
          Mapped(g, q) \in Seq(R) /\ Len(Mapped(g, q)) = Len(q) /\ Len(q) \in Nat
    BY <1>00, MappedIs
  <2>2. \A q \in Seq(A) : \A i \in 1..Len(q) : Mapped(g, q)[i] = g[q[i]]
    BY DEF Mapped
  <2> QED
    BY <2>1, <2>2
<1>1. PICK ma : /\ ma = Mapped(g, a)
               /\ ma \in Seq(R) /\ Len(ma) = Len(a) /\ Len(a) \in Nat
               /\ \A i \in 1..Len(a) : ma[i] = g[a[i]]
  <2>1. /\ Mapped(g, a) \in Seq(R) /\ Len(Mapped(g, a)) = Len(a) /\ Len(a) \in Nat
        /\ \A i \in 1..Len(a) : Mapped(g, a)[i] = g[a[i]]
    BY <1>0
  <2> QED
    BY <2>1
<1>2. PICK mc : /\ mc = Mapped(g, c)
               /\ mc \in Seq(R) /\ Len(mc) = Len(c) /\ Len(c) \in Nat
               /\ \A i \in 1..Len(c) : mc[i] = g[c[i]]
  <2>1. /\ Mapped(g, c) \in Seq(R) /\ Len(Mapped(g, c)) = Len(c) /\ Len(c) \in Nat
        /\ \A i \in 1..Len(c) : Mapped(g, c)[i] = g[c[i]]
    BY <1>0
  <2> QED
    BY <2>1
<1>3. Len(a) # 0 /\ 1 \in 1..Len(a)
  BY <1>1, EmptySeq
<1>4. ma # <<>>
  BY <1>1, <1>3, EmptySeq
<1>5. Len(c) = Len(a) - 1 /\ \A i \in 1..Len(c) : c[i] = a[i + 1]
  BY HeadTailProperties
<1>6. Tail(ma) \in Seq(R) /\ Len(Tail(ma)) = Len(ma) - 1
      /\ \A i \in 1..Len(Tail(ma)) : Tail(ma)[i] = ma[i + 1]
  BY <1>1, <1>4, HeadTailProperties
<1>7. ASSUME NEW i \in 1..Len(c) PROVE mc[i] = Tail(ma)[i]
  <2>1. i + 1 \in 1..Len(a) /\ i \in 1..Len(Tail(ma))
    BY <1>1, <1>5, <1>6
  <2>2. mc[i] = g[a[i + 1]]
    BY <1>2, <1>5
  <2>3. Tail(ma)[i] = ma[i + 1] /\ ma[i + 1] = g[a[i + 1]]
    BY <1>1, <1>6, <2>1
  <2> QED
    BY <2>2, <2>3
<1>8. Len(mc) = Len(Tail(ma))
  BY <1>1, <1>2, <1>5, <1>6
<1>9. mc = Tail(ma)
  BY <1>2, <1>6, <1>7, <1>8, SeqEqual
<1> QED
  BY <1>1, <1>2, <1>3, <1>4, <1>9

LEMMA PairsMapped ==
  \E f : \A q \in Seq(Checks(SafeGeneric)) :
    Pairs(q) = Mapped(f, q) /\ \A i \in 1..Len(q) : f[q[i]] = PairOf(q[i])
<1> PICK f : f = [c \in Checks(SafeGeneric) |-> PairOf(c)]
  OBVIOUS
<1>1. ASSUME NEW q \in Seq(Checks(SafeGeneric))
      PROVE  Pairs(q) = Mapped(f, q) /\ \A i \in 1..Len(q) : f[q[i]] = PairOf(q[i])
  <2>1. \A i \in 1..Len(q) : q[i] \in Checks(SafeGeneric)
    BY ElementOfSeq
  <2>2. \A i \in 1..Len(q) : f[q[i]] = PairOf(q[i])
    BY <2>1
  <2> QED
    BY <2>2, Zenon DEF Mapped, Pairs
<1> QED
  BY <1>1

LEMMA PairsConcat ==
  ASSUME NEW x \in Seq(Checks(SafeGeneric)), NEW y \in Seq(Checks(SafeGeneric))
  PROVE  Pairs(x \o y) = Pairs(x) \o Pairs(y)
<1> PICK h : \A q \in Seq(Checks(SafeGeneric)) : Pairs(q) = Mapped(h, q)
  BY PairsMapped
<1> PICK z \in Seq(Checks(SafeGeneric)) : z = x \o y
  BY ConcatProperties
<1>1. Pairs(z) = Mapped(h, z) /\ Pairs(x) = Mapped(h, x) /\ Pairs(y) = Mapped(h, y)
  OBVIOUS
<1>2. Mapped(h, x \o y) = Mapped(h, x) \o Mapped(h, y)
  BY MapConcat
<1> QED
  BY <1>1, <1>2

LEMMA PairsTail ==
  ASSUME NEW x \in Seq(Checks(SafeGeneric)), x # <<>>
  PROVE  /\ Pairs(Tail(x)) = Tail(Pairs(x))
         /\ Pairs(x) # <<>> /\ Pairs(x)[1] = PairOf(x[1])
<1> PICK h : \A q \in Seq(Checks(SafeGeneric)) :
               Pairs(q) = Mapped(h, q) /\ \A i \in 1..Len(q) : h[q[i]] = PairOf(q[i])
  BY PairsMapped
<1> PICK z \in Seq(Checks(SafeGeneric)) : z = Tail(x)
  BY HeadTailProperties
<1>1. Pairs(z) = Mapped(h, z) /\ Pairs(x) = Mapped(h, x)
  OBVIOUS
<1>2. 1 \in 1..Len(x)
  BY EmptySeq, LenProperties
<1>3. h[x[1]] = PairOf(x[1])
  BY <1>2
<1>4. Mapped(h, Tail(x)) = Tail(Mapped(h, x)) /\ Mapped(h, x) # <<>> /\ Mapped(h, x)[1] = h[x[1]]
  BY MapTail
<1> QED
  BY <1>1, <1>3, <1>4

LEMMA TakenConcat ==
  ASSUME NEW x \in Seq(SafeGeneric), NEW y \in Seq(SafeGeneric)
  PROVE  Taken(x \o y) = Taken(x) \o Taken(y)
<1> PICK h : h = [v \in SafeGeneric |-> Term(v)]
  OBVIOUS
<1> PICK z \in Seq(SafeGeneric) : z = x \o y
  BY ConcatProperties
<1>1. ASSUME NEW q \in Seq(SafeGeneric) PROVE Mapped(h, q) = Taken(q)
  <2>1. \A i \in 1..Len(q) : q[i] \in SafeGeneric
    BY ElementOfSeq
  <2>2. \A i \in 1..Len(q) : h[q[i]] = Term(q[i])
    BY <2>1
  <2> QED
    BY <2>2, Zenon DEF Mapped, Taken
<1>2. Mapped(h, x \o y) = Mapped(h, x) \o Mapped(h, y)
  BY MapConcat
<1>3. Mapped(h, z) = Taken(z) /\ Mapped(h, x) = Taken(x) /\ Mapped(h, y) = Taken(y)
  BY <1>1
<1> QED
  BY <1>2, <1>3

LEMMA TermOfSame ==
  ASSUME UNCHANGED pools
  PROVE  \A v, T, n : TermOf(v, T, n)' = TermOf(v, T, n)
<1> string_pool' = string_pool /\ tuple_pool' = tuple_pool
  BY DEF pools
<1> QED
  BY DEF TermOf

LEMMA CellTermsSame ==
  ASSUME UNCHANGED pools
  PROVE  CellTerms' = CellTerms
<1> PICK now, then : now = CellTerms /\ then = CellTerms'
  OBVIOUS
<1>1. now = [i \in HeapIndices |-> TermOf(heap[i], now, i)]
  BY CellTermsAre, SizeAssumption
<1>2. then = [i \in HeapIndices |-> TermOf(heap[i], then, i)]
  <2>1. then = [i \in HeapIndices |-> TermOf(heap[i], then, i)']
    BY CellTermsAreThen
  <2>2. \A i \in HeapIndices : TermOf(heap[i], then, i)' = TermOf(heap[i], then, i)
    <3>1. \A i \in HeapIndices : heap'[i] = heap[i]
      BY DEF pools
    <3>2. \A i, v : TermOf(v, then, i)' = TermOf(v, then, i)
      BY TermOfSame
    <3> QED
      BY <3>1, <3>2
  <2> QED
    BY <2>1, <2>2
<1> DEFINE Ns == {n \in Nat : \A d \in 0..(n - 1) : d < HEAP_SIZE => then[d] = now[d]}
<1>3. 0 \in Ns
  OBVIOUS
<1>4. ASSUME NEW n \in Nat, n \in Ns  PROVE n + 1 \in Ns
  <2> SUFFICES ASSUME n < HEAP_SIZE  PROVE then[n] = now[n]
    BY <1>4
  <2>1. n \in HeapIndices
    BY SizeAssumption DEF HeapIndices
  <2>2. \A c \in 0..(n - 1) : then[c] = now[c]
    BY <1>4, SizeAssumption
  <2>3. TermOf(heap[n], then, n) = TermOf(heap[n], now, n)
    BY <2>2, TermsBelow
  <2> QED
    BY <1>1, <1>2, <2>1, <2>3
<1>5. HEAP_SIZE \in Ns
  <2> HIDE DEF Ns
  <2> QED
    BY <1>3, <1>4, NumbersAreAll, SizeAssumption
<1>6. \A i \in HeapIndices : then[i] = now[i]
  BY <1>5, SizeAssumption DEF HeapIndices
<1> QED
  BY <1>1, <1>2, <1>6

LEMMA TermSame ==
  ASSUME UNCHANGED pools
  PROVE  \A v : Term(v)' = Term(v)
BY TermOfSame, CellTermsSame, Zenon DEF Term

(***************************************************************************)
(* A match that is over stays as it is, and one that is not goes on.       *)
(***************************************************************************)
LEMMA RunStays ==
  ASSUME NEW p, NEW t, NEW k \in 0..MatchSteps, Elixir!Run(p, t)[k].left = <<>>
  PROVE  Elixir!MatchTerm(p, t) = Elixir!Run(p, t)[k]
<1> PICK run : run = Elixir!Run(p, t)
  OBVIOUS
<1> DEFINE Ns == {n \in Nat : k + n <= MatchSteps => run[k + n] = run[k]}
<1>1. 0 \in Ns
  BY MatchStepsAssumption
<1>2. ASSUME NEW n \in Nat, n \in Ns  PROVE n + 1 \in Ns
  <2> SUFFICES ASSUME k + (n + 1) <= MatchSteps  PROVE run[k + (n + 1)] = run[k]
    BY <1>2
  <2>1. PICK i \in 1..MatchSteps : i = k + (n + 1) /\ i - 1 = k + n
    BY MatchStepsAssumption
  <2>2. run[k + n] = run[k]
    BY <1>2, MatchStepsAssumption
  <2>3. run[i] = Elixir!Advance(run[i - 1])
    BY RunIs
  <2>4. run[i] = Elixir!Advance(run[k])
    BY <2>1, <2>2, <2>3
  <2> QED
    BY <2>1, <2>4 DEF Elixir!Advance
<1>3. MatchSteps - k \in Nat /\ k + (MatchSteps - k) = MatchSteps
  BY MatchStepsAssumption
<1>4. MatchSteps - k \in Ns
  <2> HIDE DEF Ns
  <2> QED
    BY <1>1, <1>2, <1>3, NumbersAreAll
<1>5. run[MatchSteps] = run[k]
  BY <1>3, <1>4, MatchStepsAssumption
<1> QED
  BY <1>5 DEF Elixir!MatchTerm

LEMMA RunGoesOn ==
  ASSUME NEW p, NEW t, NEW k \in 0..MatchSteps, NEW now, now = Elixir!Run(p, t)[k],
         now.left # <<>>, Elixir!MatchTerm(p, t).left = <<>>
  PROVE  /\ k + 1 \in 0..MatchSteps
         /\ Elixir!Run(p, t)[k + 1] = Elixir!Compare(now, now.left[1].pat, now.left[1].term)
<1>1. k # MatchSteps
  BY DEF Elixir!MatchTerm
<1>2. PICK i \in 1..MatchSteps : i = k + 1 /\ i - 1 = k
  BY <1>1, MatchStepsAssumption
<1>3. Elixir!Run(p, t)[i] = Elixir!Advance(Elixir!Run(p, t)[i - 1])
  BY RunIs
<1>4. Elixir!Run(p, t)[k + 1] = Elixir!Advance(now)
  BY <1>2, <1>3
<1> QED
  BY <1>2, <1>4, MatchStepsAssumption DEF Elixir!Advance

(***************************************************************************)
(* While a match is under way, Elixir's match of the same clause with the  *)
(* term of the same variable has come as far, and no earlier clause        *)
(* matches.                                                                *)
(***************************************************************************)
Value == Term(env[goal.arg])
SoFar == [ok |-> TRUE, left |-> Pairs(work), terms |-> Taken(binds)]

OfProgram == \E m \in Matches : goal.op = m.op /\ goal.clauses = m.clauses
EarlierFail == \A j \in 1..(goal.next - 1) : ~Elixir!MatchTerm(goal.clauses[j], Value).ok
InClause == \E k \in 0..MatchSteps : Elixir!Run(goal.clauses[goal.next], Value)[k] = SoFar

MatchInv == pc = "match" => OfProgram /\ WorkMeant /\ EarlierFail /\ InClause

(* The bound on the steps of a match is one: every match is over by then. *)
EnoughSteps ==
  \A m \in Matches : \A i \in DOMAIN m.clauses : \A t :
    Elixir!MatchTerm(m.clauses[i], t).left = <<>>

ClauseStarted ==
  /\ OfProgram /\ goal.next \in DOMAIN goal.clauses /\ binds = <<>>
  /\ work = ClauseCheck(goal.op, goal.clauses[goal.next], env[goal.arg])

LEMMA ClauseStarts == ChecksConstants /\ ClauseStarted => WorkMeant /\ InClause
<1> SUFFICES ASSUME ChecksConstants, ClauseStarted  PROVE WorkMeant /\ InClause
  OBVIOUS
<1> PICK p, v, op : p = goal.clauses[goal.next] /\ v = env[goal.arg] /\ op = goal.op
  OBVIOUS
<1> PICK c : c = Check(p, v, op = "case", 0)
  OBVIOUS
<1>1. work = <<c>> /\ Len(work) = 1 /\ work[1] = c
  BY DEF ClauseStarted, ClauseCheck
<1>2. c.pat = p /\ c.val = v /\ c.skip = 0 /\ c.gen = (op = "case")
  BY DEF Check
<1>3. p.kind \in {"int", "text"} => c.gen
  <2>1. PICK m \in Matches : op = m.op /\ goal.clauses = m.clauses
    BY DEF ClauseStarted, OfProgram
  <2>2. CASE op = "case"
    BY <1>2, <2>2
  <2>3. CASE op # "case"
    <3>1. op = "=" /\ Len(m.clauses) = 1 /\ m.clauses \in Seq(Patterns)
      BY <2>1, <2>3, MatchAssumption
    <3>2. goal.next = 1
      BY <2>1, <3>1, LenProperties DEF ClauseStarted
    <3> QED
      BY <2>1, <3>1, <3>2 DEF ChecksConstants
  <2> QED
    BY <2>2, <2>3
<1>4. WorkMeant
  <2>1. \A i \in DOMAIN work : i = 1
    BY <1>1
  <2> QED
    BY <1>1, <1>2, <1>3, <2>1 DEF WorkMeant, MeantCheck
<1>5. Pairs(work) = <<Elixir!Pair(p, Term(v))>>
  <2>1. PairOf(work[1]) = Elixir!Pair(p, Term(v))
    BY <1>1, <1>2 DEF PairOf, RestOf
  <2>2. Pairs(work) = [i \in 1..1 |-> PairOf(work[i])]
    BY <1>1 DEF Pairs
  <2> PICK x : x = Elixir!Pair(p, Term(v))
    OBVIOUS
  <2>3. \A i \in 1..1 : PairOf(work[i]) = x
    BY <2>1
  <2>4. <<x>> = [i \in 1..1 |-> x]
    OBVIOUS
  <2> QED
    BY <2>2, <2>3, <2>4
<1>6. Taken(binds) = <<>>
  BY DEF ClauseStarted, Taken
<1>7. SoFar = Elixir!StartOf(p, Term(v))
  BY <1>5, <1>6 DEF SoFar, Elixir!StartOf
<1>8. Elixir!Run(p, Term(v))[0] = SoFar /\ 0 \in 0..MatchSteps
  BY <1>7, RunIs, MatchStepsAssumption
<1> QED
  BY <1>4, <1>8 DEF InClause, Value

LEMMA ClauseStartsThen == (ChecksConstants /\ ClauseStarted => WorkMeant /\ InClause)'
  BY ClauseStarts, PTL

(* A step with the pools as they are leaves the terms as they are. *)
LEMMA PairsSame ==
  ASSUME UNCHANGED pools
  PROVE  \A q : Pairs(q)' = Pairs(q) /\ Taken(q)' = Taken(q)
<1>1. \A v : Term(v)' = Term(v)
  BY TermSame
<1>2. \A c : PairOf(c)' = PairOf(c)
  BY <1>1 DEF PairOf, RestOf
<1> QED
  BY <1>1, <1>2 DEF Pairs, Taken

LEMMA PatternKeeps ==
  ASSUME PatternStep
  PROVE  UNCHANGED <<pools, env, ret>>
BY DEF PatternStep, MatchAny, MatchVar, MatchAtom, MatchInt, MatchText, MatchTuple,
       MatchList, MatchCons

LEMMA GoalIs ==
  ASSUME IInv, pc = "match"
  PROVE  /\ goal.next \in DOMAIN goal.clauses /\ goal.next \in Nat
         /\ DOMAIN goal.clauses = 1..Len(goal.clauses) /\ Len(goal.clauses) \in Nat
         /\ goal.arg \in Operand
BY LenProperties DEF IInv, Typed, GoalTyped, Operand

LEMMA ClauseEnds ==
  ASSUME IInv, MatchInv, EnoughSteps, pc = "match", NEW j \in DOMAIN goal.clauses, NEW t
  PROVE  Elixir!MatchTerm(goal.clauses[j], t).left = <<>>
<1>1. PICK m \in Matches : goal.clauses = m.clauses
  BY DEF MatchInv, OfProgram
<1> QED
  BY <1>1 DEF EnoughSteps

LEMMA ComparedNext ==
  ASSUME Sane, MatchInv, EnoughSteps, PatternStep, NEW k \in 0..MatchSteps,
         Elixir!Run(goal.clauses[goal.next], Value)[k] = SoFar
  PROVE  /\ k + 1 \in 0..MatchSteps
         /\ Elixir!Run(goal.clauses[goal.next], Value)[k + 1] = Compared(SoFar)
<1>1. work # <<>> /\ work \in Seq(Checks(SafeGeneric)) /\ IInv /\ pc = "match"
  BY FrontIs DEF MatchInv, PatternStep, MatchAny, MatchVar, MatchAtom, MatchInt, MatchText,
     MatchTuple, MatchList, MatchCons, Current
<1>2. SoFar.left = Pairs(work)
  BY DEF SoFar
<1>3. Pairs(work) # <<>> /\ Pairs(work)[1] = PairOf(work[1])
  BY <1>1, PairsTail
<1>4. /\ SoFar.left # <<>> /\ SoFar.left[1].pat = RestOf(work[1])
      /\ SoFar.left[1].term = Term(work[1].val)
  BY <1>2, <1>3 DEF PairOf, Elixir!Pair
<1>5. Elixir!MatchTerm(goal.clauses[goal.next], Value).left = <<>>
  BY <1>1, GoalIs, ClauseEnds
<1> PICK p, t, now : /\ p = goal.clauses[goal.next] /\ t = Value /\ now = SoFar
  OBVIOUS
<1>6. /\ k + 1 \in 0..MatchSteps
      /\ Elixir!Run(p, t)[k + 1] = Elixir!Compare(now, now.left[1].pat, now.left[1].term)
  BY <1>4, <1>5, RunGoesOn
<1> QED
  BY <1>4, <1>6 DEF Compared

LEMMA ClauseFails ==
  ASSUME Sane, MatchInv, EnoughSteps, PatternStep, Compared(SoFar) = Elixir!Failed
  PROVE  ~Elixir!MatchTerm(goal.clauses[goal.next], Value).ok
<1>1. pc = "match"
  BY DEF PatternStep, MatchAny, MatchVar, MatchAtom, MatchInt, MatchText,
     MatchTuple, MatchList, MatchCons, Current
<1>2. PICK k \in 0..MatchSteps : Elixir!Run(goal.clauses[goal.next], Value)[k] = SoFar
  BY <1>1 DEF MatchInv, InClause
<1> PICK p, t : p = goal.clauses[goal.next] /\ t = Value
  OBVIOUS
<1> PICK n : n = k + 1
  OBVIOUS
<1>3. n \in 0..MatchSteps /\ Elixir!Run(p, t)[n] = Elixir!Failed
  BY <1>2, ComparedNext
<1>4. Elixir!MatchTerm(p, t) = Elixir!Run(p, t)[n]
  BY <1>3, RunStays DEF Elixir!Failed
<1> QED
  BY <1>3, <1>4 DEF Elixir!Failed

(* The two sides have come one step further. *)
LEMMA ClauseContinues ==
  ASSUME Sane, MatchInv, EnoughSteps, PatternStep,
         NEW CONSTANT s \in Seq(MeantChecks), NEW CONSTANT b \in Seq(SafeGeneric),
         Continues(s, b), Compared(SoFar) = Elixir!Into(SoFar, Pairs(s), Taken(b))
  PROVE  MatchInv'
<1>1. /\ work # <<>> /\ work \in Seq(Checks(SafeGeneric)) /\ pc = "match"
      /\ binds \in Seq(SafeGeneric) /\ IInv /\ WorkMeant
  BY FrontIs DEF MatchInv, PatternStep, MatchAny, MatchVar, MatchAtom, MatchInt, MatchText,
     MatchTuple, MatchList, MatchCons, Current
<1>2. /\ UNCHANGED <<pools, env, pc, goal, stmt>> /\ work' = s \o Tail(work)
      /\ binds' = binds \o b
  BY PatternKeeps DEF Continues
<1>3. s \in Seq(Checks(SafeGeneric)) /\ Tail(work) \in Seq(Checks(SafeGeneric))
  <2>1. MeantChecks \subseteq Checks(SafeGeneric)
    BY DEF MeantChecks
  <2> QED
    BY <1>1, <2>1, SeqMonotonic, HeadTailProperties
<1>4. PICK k \in 0..MatchSteps : Elixir!Run(goal.clauses[goal.next], Value)[k] = SoFar
  BY <1>1 DEF MatchInv, InClause
<1> PICK p, t : p = goal.clauses[goal.next] /\ t = Value
  OBVIOUS
<1> PICK n : n = k + 1
  OBVIOUS
<1>5. n \in 0..MatchSteps /\ Elixir!Run(p, t)[n] = Elixir!Into(SoFar, Pairs(s), Taken(b))
  BY <1>4, ComparedNext
<1>6. Value' = t
  <2> PICK v : v = env[goal.arg]
    OBVIOUS
  <2>1. env[goal.arg]' = v
    BY <1>2
  <2>2. Term(v)' = Term(v)
    BY <1>2, TermSame
  <2>3. Value' = Term(v)'
    BY <2>1 DEF Value
  <2> QED
    BY <2>2, <2>3 DEF Value
<1>7. Pairs(work)' = Pairs(s) \o Tail(Pairs(work))
  <2> PICK w, q : w = s \o Tail(work) /\ q = Tail(work)
    OBVIOUS
  <2>1. Pairs(work)' = Pairs(w)'
    BY <1>2 DEF Pairs
  <2>2. Pairs(w)' = Pairs(w)
    BY <1>2, PairsSame
  <2>3. Pairs(w) = Pairs(s) \o Pairs(q)
    BY <1>3, PairsConcat
  <2>4. Pairs(q) = Tail(Pairs(work))
    BY <1>1, PairsTail
  <2> QED
    BY <2>1, <2>2, <2>3, <2>4
<1>8. Taken(binds)' = Taken(binds) \o Taken(b)
  <2> PICK w : w = binds \o b
    OBVIOUS
  <2>1. Taken(binds)' = Taken(w)'
    BY <1>2 DEF Taken
  <2>2. Taken(w)' = Taken(w)
    BY <1>2, PairsSame
  <2>3. Taken(w) = Taken(binds) \o Taken(b)
    BY <1>1, TakenConcat
  <2> QED
    BY <2>1, <2>2, <2>3
<1>9. SoFar' = Elixir!Into(SoFar, Pairs(s), Taken(b))
  BY <1>7, <1>8 DEF SoFar, Elixir!Into
<1>10. InClause'
  <2>1. (goal.clauses[goal.next])' = p
    BY <1>2
  <2> PICK now : now = Elixir!Into(SoFar, Pairs(s), Taken(b))
    OBVIOUS
  <2>2. Elixir!Run(p, t)[n] = SoFar'
    BY <1>5, <1>9
  <2> QED
    BY <1>5, <1>6, <2>1, <2>2 DEF InClause
<1>11. EarlierFail' /\ OfProgram'
  <2>1. \A j \in 1..(goal.next - 1) : ~Elixir!MatchTerm(goal.clauses[j], t).ok
    BY <1>1 DEF MatchInv, EarlierFail
  <2>2. goal' = goal
    BY <1>2
  <2> QED
    BY <1>1, <1>6, <2>1, <2>2 DEF EarlierFail, MatchInv, OfProgram
<1>12. WorkMeant'
  <2>1. \A i \in DOMAIN work' : work'[i] \in MeantChecks
    <3>1. work \in Seq(MeantChecks)
      <4>1. \A i \in 1..Len(work) : work[i] \in MeantChecks
        BY <1>1, ElementOfSeq, LenProperties DEF WorkMeant, MeantChecks
      <4> QED
        BY <1>1, <4>1, LenProperties, FunctionIsSeq
    <3>2. work' \in Seq(MeantChecks)
      BY <1>1, <1>2, <3>1, HeadTailProperties, ConcatProperties
    <3> QED
      BY <3>2, ElementOfSeq, LenProperties
  <2> QED
    BY <2>1 DEF WorkMeant, MeantChecks, MeantCheck
<1> QED
  BY <1>10, <1>11, <1>12 DEF MatchInv

LEMMA NextClauseStarts ==
  ASSUME Sane, MatchInv, EnoughSteps, ChecksConstants, PatternStep, Mismatch,
         Compared(SoFar) = Elixir!Failed, goal.next # Len(goal.clauses)
  PROVE  MatchInv'
<1>1. pc = "match" /\ IInv
  BY DEF Sane, PatternStep, MatchAny, MatchVar, MatchAtom, MatchInt, MatchText,
     MatchTuple, MatchList, MatchCons, Current
<1> PICK n, cs, i, op : n = goal.next /\ cs = goal.clauses /\ i = goal.arg /\ op = goal.op
  OBVIOUS
<1>2. /\ n \in Nat /\ n \in DOMAIN cs /\ DOMAIN cs = 1..Len(cs) /\ Len(cs) \in Nat
      /\ n + 1 \in DOMAIN cs
  BY <1>1, GoalIs
<1>3. /\ UNCHANGED <<pools, env, pc>> /\ binds' = <<>>
      /\ goal' = [goal EXCEPT !.next = n + 1]
      /\ work' = ClauseCheck(op, cs[n + 1], env[i])
  BY PatternKeeps DEF Mismatch, NextClause
<1>4. goal'.next = n + 1 /\ goal'.clauses = cs /\ goal'.arg = i /\ goal'.op = op
  <2>1. goal \in [op : {"=", "case"}, arg : 1..Len(env), clauses : Seq(Patterns), next : Nat]
    BY <1>1 DEF IInv, Typed, GoalTyped
  <2> QED
    BY <1>3, <2>1
<1>5. OfProgram'
  BY <1>1, <1>4 DEF MatchInv, OfProgram
<1>6. ClauseStarted'
  <2>1. work' = ClauseCheck(goal'.op, goal'.clauses[goal'.next], env'[goal'.arg])
    BY <1>3, <1>4
  <2> QED
    BY <1>2, <1>3, <1>4, <1>5, <2>1 DEF ClauseStarted, ClauseCheck, Check
<1> PICK t : t = Value
  OBVIOUS
<1>7. Value' = t
  <2> PICK v : v = env[i]
    OBVIOUS
  <2>1. env[goal.arg]' = v
    BY <1>3, <1>4
  <2>2. Term(v)' = Term(v)
    BY <1>3, TermSame
  <2>3. Value' = Term(v)'
    BY <2>1 DEF Value
  <2> QED
    BY <2>2, <2>3 DEF Value
<1>8. EarlierFail'
  <2>1. \A j \in 1..(n - 1) : ~Elixir!MatchTerm(cs[j], t).ok
    BY <1>1 DEF MatchInv, EarlierFail
  <2>2. ~Elixir!MatchTerm(cs[n], t).ok
    BY ClauseFails
  <2>3. ASSUME NEW j \in 1..(n + 1 - 1)  PROVE ~Elixir!MatchTerm(cs[j], t).ok
    <3>3. j = n \/ j \in 1..(n - 1)
      BY <1>2
    <3>1. CASE j = n
      BY <2>2, <3>1
    <3>2. CASE j \in 1..(n - 1)
      BY <2>1, <3>2
    <3> QED
      BY <3>1, <3>2, <3>3
  <2>4. (goal.next - 1)' = n + 1 - 1
    BY <1>2, <1>4
  <2>5. \A j : (goal.clauses[j])' = cs[j]
    BY <1>4
  <2> QED
    BY <1>7, <2>3, <2>4, <2>5, Zenon DEF EarlierFail
<1>9. ChecksConstants'
  BY DEF ChecksConstants
<1> QED
  BY <1>5, <1>6, <1>8, <1>9, ClauseStartsThen DEF MatchInv

LEMMA FirstClauseStarts ==
  ASSUME Sane, ChecksConstants, NEW CONSTANT i \in Operand, NEW CONSTANT m \in Matches,
         StartMatch(m.op, i, m.clauses)
  PROVE  MatchInv'
<1>1. /\ goal'.op = m.op /\ goal'.arg = i /\ goal'.clauses = m.clauses /\ goal'.next = 1
      /\ UNCHANGED <<env, binds>> /\ pc = "run"
      /\ work' = ClauseCheck(m.op, m.clauses[1], env[i])
  BY DEF StartMatch
<1>2. OfProgram'
  BY <1>1 DEF OfProgram
<1>3. binds = <<>>
  BY <1>1 DEF Sane, FreshInv, AtRest
<1>4. 1 \in DOMAIN m.clauses
  BY MatchAssumption, EmptySeq, LenProperties
<1>5. ClauseStarted'
  <2>1. work' = ClauseCheck(goal'.op, goal'.clauses[goal'.next], env'[goal'.arg])
    BY <1>1
  <2> QED
    BY <1>1, <1>2, <1>3, <1>4, <2>1 DEF ClauseStarted, ClauseCheck, Check
<1>6. EarlierFail'
  <2>1. 1..(goal'.next - 1) = {}
    BY <1>1
  <2> QED
    BY <2>1 DEF EarlierFail
<1>7. ChecksConstants'
  BY DEF ChecksConstants
<1> QED
  BY <1>2, <1>5, <1>6, <1>7, ClauseStartsThen DEF MatchInv

LEMMA MatchInvStep ==
  ASSUME ChecksConstants, EnoughSteps, Sane, SizesAgree, MatchInv, [Next]_vars
  PROVE  MatchInv'
<1>1. CASE pc' # "match"
  BY <1>1 DEF MatchInv
<1>2. CASE BeginMatch
  BY <1>2, FirstClauseStarts DEF BeginMatch
<1>3. CASE PatternStep
  <2>1. WorkMeant
    BY <1>3 DEF MatchInv, PatternStep, MatchAny, MatchVar, MatchAtom, MatchInt, MatchText,
       MatchTuple, MatchList, MatchCons, Current
  <2>2. StepAgrees(SoFar)
    BY <1>3, <2>1, EachStepAgrees
  <2>3. CASE Mismatch /\ Compared(SoFar) = Elixir!Failed
    <3>1. CASE goal.next = Len(goal.clauses)
      BY <2>3, <3>1, <1>1 DEF Mismatch
    <3>2. CASE goal.next # Len(goal.clauses)
      BY <1>3, <2>3, <3>2, NextClauseStarts
    <3> QED
      BY <3>1, <3>2
  <2>4. CASE \E s \in Seq(MeantChecks), b \in Seq(SafeGeneric) :
               Continues(s, b) /\ Compared(SoFar) = Elixir!Into(SoFar, Pairs(s), Taken(b))
    BY <1>3, <2>4, ClauseContinues
  <2> QED
    BY <2>2, <2>3, <2>4 DEF StepAgrees
<1>4. CASE UNCHANGED vars
  <2>1. UNCHANGED pools /\ UNCHANGED <<env, goal, work, binds, pc>>
    BY <1>4 DEF vars, pools, matching
  <2>2. Value' = Value
    <3> PICK v : v = env[goal.arg]
      OBVIOUS
    <3>1. env[goal.arg]' = v
      BY <2>1
    <3>2. Value' = Term(v)'
      BY <3>1 DEF Value
    <3> QED
      BY <2>1, <3>2, TermSame DEF Value
  <2>3. SoFar' = SoFar
    <3> PICK w, b : w = work /\ b = binds
      OBVIOUS
    <3>1. Pairs(work)' = Pairs(w)' /\ Taken(binds)' = Taken(b)'
      BY <2>1 DEF Pairs, Taken
    <3> QED
      BY <2>1, <3>1, PairsSame DEF SoFar
  <2> PICK t, x : t = Value /\ x = SoFar
    OBVIOUS
  <2>4. pc = "match" => InClause'
    BY <2>1, <2>2, <2>3 DEF InClause, MatchInv
  <2>5. pc = "match" => EarlierFail'
    BY <2>1, <2>2 DEF EarlierFail, MatchInv
  <2>6. pc = "match" => WorkMeant' /\ OfProgram'
    BY <2>1 DEF WorkMeant, OfProgram, MatchInv, MeantCheck
  <2> QED
    BY <2>1, <2>4, <2>5, <2>6 DEF MatchInv
<1>5. CASE BeginMain \/ Build \/ MatchSucceeds \/ End
  <2>1. pc' # "match"
    <3>1. Build => pc = "run"
      BY DEF Build, IntValue, AtomConst, StringConst, TupleLiteral, EmptyList, ConsCell
    <3>2. Build => pc' = pc \/ pc' = "CATCH"
      BY DEF Build, IntValue, AtomConst, StringConst, TupleLiteral, EmptyList, ConsCell,
         Bind, GotoCatch
    <3> QED
      BY <1>5, <3>1, <3>2 DEF BeginMain, MatchSucceeds, End, RaiseStmt, Catch, ReturnMain,
         GotoCatch
  <2> QED
    BY <1>1, <2>1
<1> QED
  BY <1>2, <1>3, <1>4, <1>5 DEF Next, MatchStep, PatternStep

(***************************************************************************)
(* What each step is in Elixir.                                            *)
(***************************************************************************)
LEMMA BindingsSame ==
  ASSUME UNCHANGED pools, UNCHANGED env
  PROVE  Bindings' = Bindings
<1> PICK e : e = env
  OBVIOUS
<1>1. Bindings' = Taken(e)' /\ Bindings = Taken(e)
  BY DEF Bindings, Taken
<1> QED
  BY <1>1, PairsSame

LEMMA FirstIs ==
  ASSUME NEW cs, NEW t, NEW n \in DOMAIN cs, DOMAIN cs \subseteq Nat,
         Elixir!MatchTerm(cs[n], t).ok,
         \A j \in DOMAIN cs : j < n => ~Elixir!MatchTerm(cs[j], t).ok
  PROVE  Elixir!FirstMatch(cs, t) = Elixir!MatchTerm(cs[n], t)
<1> DEFINE matched == {i \in DOMAIN cs : Elixir!MatchTerm(cs[i], t).ok}
           first == CHOOSE i \in matched : \A j \in matched : i <= j
<1>1. n \in matched /\ \A j \in matched : n <= j
  OBVIOUS
<1>2. first \in matched /\ \A j \in matched : first <= j
  <2> HIDE DEF matched
  <2> QED
    BY <1>1
<1>3. first = n
  <2>1. first \in Nat /\ n \in Nat /\ first <= n /\ n <= first
    BY <1>1, <1>2
  <2> QED
    BY <2>1
<1> QED
  BY <1>1, <1>3 DEF Elixir!FirstMatch

LEMMA NoneMatches ==
  ASSUME NEW cs, NEW t, \A j \in DOMAIN cs : ~Elixir!MatchTerm(cs[j], t).ok
  PROVE  ~Elixir!FirstMatch(cs, t).ok
BY DEF Elixir!FirstMatch, Elixir!Failed

LEMMA GoalTerm ==
  ASSUME IInv, pc = "match"
  PROVE  goal.arg \in Elixir!Operand /\ Bindings[goal.arg] = Value
<1>1. goal.arg \in Operand
  BY GoalIs
<1> QED
  BY <1>1, BindingsAre DEF Bindings, Operand, Value

LEMMA SuccessIsMatch ==
  ASSUME Sane, MatchInv, MatchSucceeds
  PROVE  \E i \in Elixir!Operand, m \in Matches : Elixir!Match(i, m)
<1>1. /\ pc = "match" /\ work = <<>> /\ pc' = "run" /\ env' = env \o binds
      /\ stmt' = MatchStmt /\ UNCHANGED pools /\ UNCHANGED ret
  BY DEF MatchSucceeds
<1>2. IInv /\ env \in Seq(SafeGeneric) /\ binds \in Seq(SafeGeneric)
  BY DEF Sane, IInv, Typed, LocalsTyped
<1> PICK i, cs, n : i = goal.arg /\ cs = goal.clauses /\ n = goal.next
  OBVIOUS
<1> PICK t : t = Value
  OBVIOUS
<1>3. i \in Elixir!Operand /\ Bindings[i] = t
  BY <1>1, <1>2, GoalTerm
<1>4. PICK m \in Matches : goal.op = m.op /\ cs = m.clauses
  BY <1>1 DEF MatchInv, OfProgram
<1>5. n \in DOMAIN cs /\ n \in Nat /\ DOMAIN cs = 1..Len(cs) /\ Len(cs) \in Nat
  BY <1>1, <1>2, GoalIs
<1>6. Elixir!MatchTerm(cs[n], t) = SoFar
  <2>1. PICK k \in 0..MatchSteps : Elixir!Run(cs[n], t)[k] = SoFar
    BY <1>1 DEF MatchInv, InClause
  <2>2. SoFar.left = <<>>
    BY <1>1 DEF SoFar, Pairs
  <2> PICK p : p = cs[n]
    OBVIOUS
  <2>3. Elixir!MatchTerm(p, t) = Elixir!Run(p, t)[k]
    BY <2>1, <2>2, RunStays
  <2> QED
    BY <2>1, <2>3
<1>7. SoFar.ok /\ SoFar.terms = Taken(binds)
  BY DEF SoFar
<1>8. Elixir!FirstMatch(cs, t) = SoFar
  <2>1. \A j \in DOMAIN cs : j < n => ~Elixir!MatchTerm(cs[j], t).ok
    <3>1. \A j \in 1..(n - 1) : ~Elixir!MatchTerm(cs[j], t).ok
      BY <1>1 DEF MatchInv, EarlierFail
    <3>2. \A j \in DOMAIN cs : j < n => j \in 1..(n - 1)
      BY <1>5
    <3> QED
      BY <3>1, <3>2
  <2>2. DOMAIN cs \subseteq Nat
    BY <1>5
  <2> QED
    BY <1>5, <1>6, <1>7, <2>1, <2>2, FirstIs
<1>9. Bindings' = Bindings \o Taken(binds)
  <2> PICK w, e, b : w = env \o binds /\ e = env /\ b = binds
    OBVIOUS
  <2>1. Bindings' = Taken(w)'
    BY <1>1 DEF Bindings, Taken
  <2>2. Taken(w)' = Taken(w)
    BY <1>1, PairsSame
  <2>3. Taken(w) = Taken(e) \o Taken(b)
    BY <1>2, TakenConcat
  <2>4. Taken(e) = Bindings
    BY DEF Taken, Bindings
  <2> QED
    BY <2>1, <2>2, <2>3, <2>4
<1>10. Status = "run" /\ Status' = Status
  BY <1>1 DEF Status
<1>11. stmt' = Elixir!Stmt(m.op, <<i>>, m.clauses)
  BY <1>1, <1>4 DEF MatchStmt, Stmt, Elixir!Stmt
<1>12. Elixir!Match(i, m)
  BY <1>1, <1>3, <1>4, <1>7, <1>8, <1>9, <1>10, <1>11 DEF Elixir!Match
<1> QED
  BY <1>3, <1>12

LEMMA FailureIsMatch ==
  ASSUME Sane, MatchInv, EnoughSteps, PatternStep, Mismatch, Compared(SoFar) = Elixir!Failed,
         goal.next = Len(goal.clauses)
  PROVE  \E i \in Elixir!Operand, m \in Matches : Elixir!Match(i, m)
<1>1. /\ pc = "match" /\ pc' = "CATCH" /\ stmt' = MatchStmt
      /\ UNCHANGED pools /\ UNCHANGED <<env, ret>> /\ IInv
  BY PatternKeeps DEF Mismatch, Sane, PatternStep, MatchAny, MatchVar, MatchAtom, MatchInt,
     MatchText, MatchTuple, MatchList, MatchCons, Current
<1> PICK i, cs, n : i = goal.arg /\ cs = goal.clauses /\ n = goal.next
  OBVIOUS
<1> PICK t : t = Value
  OBVIOUS
<1>2. i \in Elixir!Operand /\ Bindings[i] = t
  BY <1>1, GoalTerm
<1>3. PICK m \in Matches : goal.op = m.op /\ cs = m.clauses
  BY <1>1 DEF MatchInv, OfProgram
<1>4. n \in DOMAIN cs /\ n \in Nat /\ DOMAIN cs = 1..Len(cs) /\ n = Len(cs)
  BY <1>1, GoalIs
<1>5. ~Elixir!FirstMatch(cs, t).ok
  <2>1. \A j \in 1..(n - 1) : ~Elixir!MatchTerm(cs[j], t).ok
    BY <1>1 DEF MatchInv, EarlierFail
  <2>2. ~Elixir!MatchTerm(cs[n], t).ok
    BY ClauseFails
  <2>3. ASSUME NEW j \in DOMAIN cs  PROVE ~Elixir!MatchTerm(cs[j], t).ok
    <3>1. j = n \/ j \in 1..(n - 1)
      BY <1>4
    <3>2. CASE j = n
      BY <2>2, <3>2
    <3>3. CASE j \in 1..(n - 1)
      BY <2>1, <3>3
    <3> QED
      BY <3>1, <3>2, <3>3
  <2> QED
    BY <2>3, NoneMatches
<1>6. Bindings' = Bindings
  BY <1>1, BindingsSame
<1>7. Status = "run" /\ Status' = "raised"
  BY <1>1 DEF Status
<1>8. stmt' = Elixir!Stmt(m.op, <<i>>, m.clauses)
  BY <1>1, <1>3 DEF MatchStmt, Stmt, Elixir!Stmt
<1>9. Elixir!Match(i, m)
  BY <1>1, <1>2, <1>3, <1>5, <1>6, <1>7, <1>8 DEF Elixir!Match, Elixir!Raises
<1> QED
  BY <1>2, <1>9

LEMMA EndIsElixir ==
  ASSUME Sane, End
  PROVE  Elixir!Next
<1>1. UNCHANGED pools
  BY DEF End, RaiseStmt, Catch, ReturnMain
<1>2. CASE RaiseStmt
  <2>1. Bindings' = Bindings
    BY <1>1, <1>2, BindingsSame DEF RaiseStmt, GotoCatch
  <2>2. Elixir!Raises(Elixir!Stmt("raise", <<>>, <<>>))
    BY <1>2, <2>1 DEF RaiseStmt, GotoCatch, Stmt, Elixir!Stmt, Elixir!Raises, Status
  <2> QED
    BY <2>2 DEF Elixir!Next
<1>3. CASE Catch
  <2>1. Bindings' = <<>>
    BY <1>3 DEF Catch, Bindings
  <2>2. Elixir!Exits
    BY <1>3, <2>1 DEF Catch, Elixir!Exits, Elixir!Stmt, NoStmt, Status
  <2> QED
    BY <2>2 DEF Elixir!Next
<1>4. ASSUME NEW CONSTANT i \in Operand, ReturnMain(i)  PROVE Elixir!Next
  <2>1. pc = "run" /\ IInv /\ MemorySound /\ HeapInOrder
    BY <1>4, SaneRuns DEF ReturnMain
  <2> PICK v, t : v = env[i] /\ t = Term(env[i])
    OBVIOUS
  <2>2. i \in Elixir!Operand /\ Bindings[i] = t
    BY <2>1, BindingsAre DEF Bindings, Operand
  <2>3. Meaning(v, t)
    BY <2>1, OperandHeld, HeldMeaning
  <2>4. t.kind = "int" <=> v.type = "INTEGER"
    BY <2>3, MeaningKind
  <2>5. stmt' = Elixir!Stmt("return", <<i>>, <<>>) /\ Status = "run"
    BY <1>4, <2>1 DEF ReturnMain, Stmt, Elixir!Stmt, Status
  <2>6. CASE v.type = "INTEGER"
    <3>1. pc' = "idle" /\ ret' = v.start /\ env' = <<>>
      BY <1>4, <2>6 DEF ReturnMain
    <3>2. t.n = v.start
      BY <2>3, <2>6 DEF Meaning, TInt, PInt, MkPattern
    <3>3. Bindings' = <<>> /\ Status' = "idle"
      BY <3>1 DEF Bindings, Status
    <3>4. Elixir!Return(i)
      BY <2>2, <2>4, <2>5, <2>6, <3>1, <3>2, <3>3 DEF Elixir!Return
    <3> QED
      BY <2>2, <3>4 DEF Elixir!Next
  <2>7. CASE v.type # "INTEGER"
    <3>1. pc' = "CATCH" /\ UNCHANGED <<env, ret>>
      BY <1>4, <2>7 DEF ReturnMain, GotoCatch
    <3>2. Bindings' = Bindings /\ Status' = "raised"
      BY <1>1, <3>1, BindingsSame DEF Status
    <3>3. Elixir!Return(i)
      BY <2>2, <2>4, <2>5, <2>7, <3>1, <3>2 DEF Elixir!Return, Elixir!Raises
    <3> QED
      BY <2>2, <3>3 DEF Elixir!Next
  <2> QED
    BY <2>6, <2>7
<1> QED
  BY <1>2, <1>3, <1>4 DEF End

LEMMA StepIsElixir ==
  ASSUME DisciplinedLists, ChecksConstants, EnoughSteps, Sane, Sane', SizesAgree, MatchInv,
         [Next]_vars
  PROVE  [Elixir!Next]_(Elixir!vars)
<1>1. CASE BeginMain
  <2>1. Bindings' = <<>>
    BY <1>1 DEF BeginMain, Bindings
  <2>2. Elixir!BeginMain
    BY <1>1, <2>1 DEF BeginMain, Elixir!BeginMain, Elixir!Stmt, NoStmt, Status
  <2> QED
    BY <2>2 DEF Elixir!Next
<1>2. CASE Build
  <2>1. Elixir!Build
    BY <1>2, ScalarMeans, StringMeans, TupleMeans, EmptyMeans, ConsMeans DEF Build
  <2> QED
    BY <2>1 DEF Elixir!Next
<1>3. CASE BeginMatch
  <2>1. UNCHANGED pools /\ UNCHANGED <<env, stmt, ret>> /\ pc = "run" /\ pc' = "match"
    BY <1>3 DEF BeginMatch, StartMatch
  <2>2. Bindings' = Bindings /\ Status' = Status
    BY <2>1, BindingsSame DEF Status
  <2> QED
    BY <2>1, <2>2 DEF Elixir!vars
<1>4. CASE PatternStep
  <2>1. WorkMeant /\ pc = "match"
    BY <1>4 DEF MatchInv, PatternStep, MatchAny, MatchVar, MatchAtom, MatchInt, MatchText,
       MatchTuple, MatchList, MatchCons, Current
  <2>2. StepAgrees(SoFar)
    BY <1>4, <2>1, EachStepAgrees
  <2>3. UNCHANGED pools /\ UNCHANGED <<env, ret>> /\ Bindings' = Bindings
    BY <1>4, PatternKeeps, BindingsSame
  <2>4. CASE Mismatch /\ Compared(SoFar) = Elixir!Failed /\ goal.next = Len(goal.clauses)
    BY <1>4, <2>4, FailureIsMatch DEF Elixir!Next
  <2>5. CASE Mismatch /\ goal.next # Len(goal.clauses)
    <3>1. UNCHANGED <<pc, stmt>>
      BY <2>5 DEF Mismatch
    <3> QED
      BY <2>3, <3>1 DEF Elixir!vars, Status
  <2>6. CASE \E s \in Seq(MeantChecks), b \in Seq(SafeGeneric) : Continues(s, b)
    <3>1. UNCHANGED <<pc, stmt>>
      BY <2>6 DEF Continues
    <3> QED
      BY <2>3, <3>1 DEF Elixir!vars, Status
  <2> QED
    BY <2>2, <2>4, <2>5, <2>6 DEF StepAgrees
<1>5. CASE MatchSucceeds
  BY <1>5, SuccessIsMatch DEF Elixir!Next
<1>6. CASE End
  BY <1>6, EndIsElixir
<1>7. CASE UNCHANGED vars
  <2>1. Bindings' = Bindings /\ Status' = Status
    BY <1>7, BindingsSame DEF vars, Status
  <2> QED
    BY <1>7, <2>1 DEF vars, Elixir!vars
<1> QED
  BY <1>1, <1>2, <1>3, <1>4, <1>5, <1>6, <1>7 DEF Next, MatchStep, PatternStep

LEMMA InitIsElixir == Init => Elixir!Init
BY DEF Init, Elixir!Init, Bindings, Status, NoStmt, Elixir!Stmt

(***************************************************************************)
(* RuntimeMemory implements ElixirBindings.  For every size of the pools   *)
(* and every program within the three conditions, as long as the tuples    *)
(* compared have the size of their patterns: what the pools denote only    *)
(* changes as Elixir's bindings do, each statement raises or binds what it *)
(* means, a match takes the clause Elixir takes, binds what Elixir binds   *)
(* and fails exactly when Elixir's does, and main returns Elixir's result. *)
(***************************************************************************)
THEOREM RuntimeImplementsBindings ==
  ASSUME DisciplinedLists, ChecksConstants, EnoughSteps
  PROVE  Spec /\ []SizesAgree => ImplementsElixir
<1>1. SizesAgree => TuplesFit
  <2> SUFFICES ASSUME SizesAgree, Current({"tuple"}), work[1].val.type = "TUPLE"
               PROVE  Len(work[1].pat.subs) <= work[1].val.end - work[1].val.start + 1
    BY DEF TuplesFit
  <2> QED
    BY DEF SizesAgree
<1>2. Init => OrderInv /\ MatchInv
  BY DEF Init, OrderInv, MatchInv
<1>3. IInv /\ IInv' /\ FreshInv /\ OrderInv /\ [Next]_vars => OrderInv'
  BY OrderStep
<1>4. Sane /\ SizesAgree /\ MatchInv /\ [Next]_vars => MatchInv'
  BY MatchInvStep
<1>5. Sane /\ Sane' /\ SizesAgree /\ MatchInv /\ [Next]_vars => [Elixir!Next]_(Elixir!vars)
  BY StepIsElixir
<1>6. Sane <=> IInv /\ FreshInv /\ OrderInv
  BY DEF Sane
<1>7. Spec /\ []TuplesFit => []FreshInv
  BY Freshness
<1>8. Spec => []IInv
  BY Safety
<1> QED
  BY <1>1, <1>2, <1>3, <1>4, <1>5, <1>6, <1>7, <1>8, InitIsElixir, PTL
     DEF Spec, ImplementsElixir, Elixir!Spec

(***************************************************************************)
(* The condition on sizes is one on the text of the program too: it holds  *)
(* throughout if every tuple pattern has the size of every tuple literal.  *)
(***************************************************************************)
SizedPatterns ==
  \A p \in Patterns : p.kind = "tuple" => \A n \in Arities : Len(p.subs) = n

THEOREM SizedProgramsImplementBindings ==
  ASSUME DisciplinedLists, ChecksConstants, EnoughSteps, SizedPatterns
  PROVE  Spec => ImplementsElixir
<1>1. ASSUME IInv, FreshInv
      PROVE  SizesAgree
  <2> SUFFICES ASSUME Current({"tuple"}), work[1].val.type = "TUPLE"
               PROVE  Len(work[1].pat.subs) = work[1].val.end - work[1].val.start + 1
    BY DEF SizesAgree
  <2>1. work # <<>> /\ work \in Seq(Checks(SafeGeneric)) /\ MemorySound
    BY <1>1 DEF Current, IInv, Typed, LocalsTyped, FreshInv
  <2>2. work[1] \in Checks(SafeGeneric) /\ 1 \in DOMAIN work
    BY <2>1, FrontCheck, EmptySeq, LenProperties
  <2>3. work[1].pat \in Patterns /\ work[1].pat.kind = "tuple"
    BY <2>2 DEF Checks, Current
  <2>4. work[1].val \in Held
    BY <2>2 DEF Held, InHand
  <2>5. work[1].val.end - work[1].val.start + 1 \in Arities
    BY <2>1, <2>4 DEF MemorySound, HeldSound, Sound, HasArity
  <2> QED
    BY <2>3, <2>5 DEF SizedPatterns
<1>2. ShortPatterns
  <2>1. \A n \in Arities : n \in Nat
    BY DataAssumption
  <2> QED
    BY <2>1 DEF ShortPatterns, SizedPatterns
<1>3. Spec => []TuplesFit
  BY <1>2, ShortPatternsFit
<1> QED
  BY <1>1, <1>3, Safety, Freshness, RuntimeImplementsBindings, PTL
=============================================================================
