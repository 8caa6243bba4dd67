---------------------------- MODULE RuntimeMemory ----------------------------
(***************************************************************************)
(* The memory of one generated eBPF program on one CPU: the string pool,   *)
(* the tuple pool and the heap of priv/c_boilerplates, and the C code that *)
(* lib/honey/compiler/translator.ex emits to build strings, tuples and     *)
(* lists in them and to take those apart again by pattern matching.        *)
(*                                                                         *)
(* The three pools are BPF_MAP_TYPE_PERCPU_ARRAY maps, so a CPU never sees *)
(* another's, the kernel never runs one program twice at once on a CPU,    *)
(* and what an invocation leaves in them is still there in the next one.   *)
(*                                                                         *)
(* The program is a sequence of elementary statements over values already  *)
(* bound (`env`), which the environment picks one by one: a behaviour is a *)
(* run of SOME program, and the statements are those the translator emits  *)
(* when it flattens an expression.  Forms the C compiler rejects (a string *)
(* constant inside a list pattern) are excluded by PatternAssumption.      *)
(*                                                                         *)
(* PastLast, ResetTwoIndices, StringFitsExactly, OntoLast, EmptyListBelow, *)
(* SameCell and MatchIntType are not used: each is a slip its              *)
(* neighbour could hold, kept to show which property would notice.         *)
(***************************************************************************)
EXTENDS Integers, Sequences

CONSTANTS
  STRING_POOL_SIZE, (* characters in the string pool; 500 in the code      *)
  TUPLE_POOL_SIZE,  (* words in the tuple pool; 500 in the code            *)
  HEAP_SIZE,        (* Generics in the heap; 100 in the code               *)
  WORD,             (* number of values of a C unsigned; 2^32 in the code  *)
  Char,             (* characters of the program's string constants        *)
  Texts,            (* the string constants, sequences of characters       *)
  Ints,             (* the integers a statement may produce                *)
  AtomConsts,       (* the atoms among "nil", "false", "true" it produces  *)
  Arities,          (* the sizes of the program's tuple literals           *)
  Patterns,         (* the patterns, closed under taking sub-patterns      *)
  Matches,          (* the `=` and `case` statements: operator and clauses *)
  DisciplinedLists, (* TRUE: every [h | t] is built right after its tail t *)
  MaxBindings       (* bound on the values one invocation binds            *)

Kinds == {"any", "var", "int", "text", "atom", "tuple", "list", "cons"}
Atoms == {"nil", "false", "true"}

(***************************************************************************)
(* The text beginning_main_code copies to the start of the string pool.    *)
(***************************************************************************)
BootText == <<"n","i","l", "f","a","l","s","e", "t","r","u","e">>
NUL == "NUL"
AllChars == Char \cup {NUL} \cup {BootText[i] : i \in 1..12}

ASSUME SizeAssumption ==
  /\ STRING_POOL_SIZE \in Nat /\ STRING_POOL_SIZE >= 12
  /\ TUPLE_POOL_SIZE \in Nat
  /\ HEAP_SIZE \in Nat
  /\ WORD \in Nat /\ WORD > HEAP_SIZE /\ WORD > TUPLE_POOL_SIZE
  /\ MaxBindings \in Nat
  /\ DisciplinedLists \in BOOLEAN

ASSUME DataAssumption ==
  /\ Texts \subseteq Seq(Char)
  /\ Ints \subseteq Int
  /\ AtomConsts \subseteq Atoms
  /\ Arities \subseteq Nat

ASSUME PatternAssumption ==
  \A p \in Patterns :
    /\ p.kind \in Kinds
    /\ p.n \in Int
    /\ p.text \in Seq(Char)
    /\ p.atom \in Atoms
    /\ p.subs \in Seq(Patterns)
    /\ p.kind = "cons" => Len(p.subs) = 2
    /\ p.kind \in {"list", "cons"} =>
         \A i \in 1..Len(p.subs) : p.subs[i].kind # "text"

ASSUME MatchAssumption ==
  \A m \in Matches :
    /\ m.op \in {"=", "case"}
    /\ m.clauses \in Seq(Patterns) /\ m.clauses # <<>>
    /\ m.op = "=" => Len(m.clauses) = 1

VARIABLES
  string_pool, string_pool_index,
  tuple_pool, tuple_pool_index,
  heap, heap_index,
  pc,       (* "idle", "run", "match" or the label "CATCH"                 *)
  env,      (* the C variables in scope, oldest first: a sequence of values *)
  goal,     (* the `=` or `case` being executed                            *)
  work,     (* what its current pattern still has to check, in code order  *)
  binds,    (* the variables its current pattern has bound so far          *)
  stmt,     (* history: the statement executed last, with its operands     *)
  ret       (* what the last finished invocation returned                  *)

pools == <<string_pool, string_pool_index, tuple_pool, tuple_pool_index,
           heap, heap_index>>
matching == <<goal, work, binds>>
vars == <<pools, pc, env, matching, stmt, ret>>

-----------------------------------------------------------------------------
(***************************************************************************)
(* Generic: a type tag and a union.  The union is seen through its `start` *)
(* and `end` members, the low and the high half of `integer`.              *)
(***************************************************************************)
Types == {"INVALID", "INTEGER", "STRING", "ATOM", "TUPLE", "LIST"}
Generic == [type : Types, start : Int, end : Int]

MkGeneric(type, start, end) == [type |-> type, start |-> start, end |-> end]
MkInteger(n) == MkGeneric("INTEGER", n, IF n < 0 THEN -1 ELSE 0)
MkAtom(a) == CASE a = "nil"   -> MkGeneric("ATOM", 0, 2)
               [] a = "false" -> MkGeneric("ATOM", 3, 7)
               [] a = "true"  -> MkGeneric("ATOM", 8, 11)
ZeroGeneric == MkGeneric("INVALID", 0, 0)
EmptyListValue == MkGeneric("LIST", -1, -1)

Least(a, b) == IF a <= b THEN a ELSE b

(* the last of n places from `first` on; the code keeps inclusive ends *)
PastLast(first, n) == first + n
LastIndex(first, n) == first + n - 1

(* memory f with the words of sequence s written from index `from` on *)
Fill(f, from, s) ==
  [i \in DOMAIN f |-> IF i \in from..(from + Len(s) - 1)
                        THEN s[i - from + 1] ELSE f[i]]

NoGoal == [op |-> "none", arg |-> 0, clauses |-> <<>>, next |-> 0]
NoStmt == [op |-> "none", args |-> <<>>, pats |-> <<>>]
Stmt(op, args, pats) == [op |-> op, args |-> args, pats |-> pats]

Init ==
  /\ string_pool = [i \in 0..(STRING_POOL_SIZE - 1) |-> NUL]
  /\ tuple_pool = [i \in 0..(TUPLE_POOL_SIZE - 1) |-> 0]
  /\ heap = [i \in 0..(HEAP_SIZE - 1) |-> ZeroGeneric]
  /\ string_pool_index = 0 /\ tuple_pool_index = 0 /\ heap_index = 0
  /\ pc = "idle" /\ env = <<>>
  /\ goal = NoGoal /\ work = <<>> /\ binds = <<>>
  /\ stmt = NoStmt /\ ret = 0

-----------------------------------------------------------------------------
(***************************************************************************)
(* Entry of main: the indices are reset, the contents are not; the text of *)
(* the three atoms is copied to the bottom of the string pool, whose index *)
(* stays 0.                                                                *)
(***************************************************************************)
ResetTwoIndices ==
  string_pool_index' = 0 /\ tuple_pool_index' = 0 /\ UNCHANGED heap_index
ResetIndices == string_pool_index' = 0 /\ tuple_pool_index' = 0 /\ heap_index' = 0

BeginMain ==
  /\ pc = "idle"
  /\ pc' = "run"
  /\ ResetIndices
  /\ string_pool' = Fill(string_pool, 0, BootText)
  /\ env' = <<>> /\ stmt' = NoStmt
  /\ UNCHANGED <<tuple_pool, heap, matching, ret>>

Room == Len(env) < MaxBindings
Operand == 1..Len(env)

Bind(v) == env' = Append(env, v) /\ UNCHANGED pc
GotoCatch == pc' = "CATCH" /\ UNCHANGED env

(***************************************************************************)
(* A constant or any statement whose result is an integer or an atom; no   *)
(* pool is involved.                                                       *)
(***************************************************************************)
IntValue(n) ==
  /\ pc = "run" /\ Room
  /\ Bind(MkInteger(n))
  /\ stmt' = Stmt("int", <<n>>, <<>>)
  /\ UNCHANGED <<pools, matching, ret>>

AtomConst(a) ==
  /\ pc = "run" /\ Room
  /\ Bind(MkAtom(a))
  /\ stmt' = Stmt("atom", <<a>>, <<>>)
  /\ UNCHANGED <<pools, matching, ret>>

(***************************************************************************)
(* A string constant: its characters and a terminating NUL go to the pool. *)
(***************************************************************************)
StringFitsExactly(last) == last < STRING_POOL_SIZE
StringFits(last) == last + 1 < STRING_POOL_SIZE

OntoLast(last) == last
AfterLast(last) == last + 1

StringConst(t) ==
  LET last == LastIndex(string_pool_index, Len(t) + 1)
  IN /\ pc = "run" /\ Room
     /\ stmt' = Stmt("text", <<t>>, <<>>)
     /\ IF StringFits(last)
          THEN /\ string_pool' = Fill(string_pool, string_pool_index, Append(t, NUL))
               /\ string_pool_index' = AfterLast(last)
               /\ Bind(MkGeneric("STRING", string_pool_index, last))
          ELSE GotoCatch /\ UNCHANGED <<string_pool, string_pool_index>>
     /\ UNCHANGED <<tuple_pool, tuple_pool_index, heap, heap_index, matching, ret>>

(***************************************************************************)
(* A tuple literal.  Element i is stored after its own two bound checks;   *)
(* the indices advance only when all of them were stored, so a failure     *)
(* leaves the first ones behind as garbage above the indices.              *)
(***************************************************************************)
TupleLiteral(args) ==
  LET n == Len(args)
      heapRoom == HEAP_SIZE - heap_index
      poolRoom == TUPLE_POOL_SIZE - tuple_pool_index
      pointers == Least(n, Least(heapRoom, poolRoom))
      elements == Least(n, Least(heapRoom, poolRoom + 1))
  IN /\ pc = "run" /\ Room
     /\ stmt' = Stmt("tuple", args, <<>>)
     /\ heap' = Fill(heap, heap_index, [i \in 1..elements |-> env[args[i]]])
     /\ tuple_pool' = Fill(tuple_pool, tuple_pool_index,
                           [i \in 1..pointers |-> heap_index + i - 1])
     /\ IF pointers < n
          THEN GotoCatch /\ UNCHANGED <<heap_index, tuple_pool_index>>
          ELSE /\ heap_index' = heap_index + n
               /\ tuple_pool_index' = tuple_pool_index + n
               /\ Bind(MkGeneric("TUPLE", tuple_pool_index, LastIndex(tuple_pool_index, n)))
     /\ UNCHANGED <<string_pool, string_pool_index, matching, ret>>

EmptyListBelow ==
  /\ pc = "run" /\ Room
  /\ stmt' = Stmt("nil_list", <<>>, <<>>)
  /\ IF heap_index < HEAP_SIZE
       THEN /\ heap' = Fill(heap, heap_index - 1, <<EmptyListValue>>)
            /\ heap_index' = heap_index + 1
            /\ Bind(EmptyListValue)
       ELSE GotoCatch /\ UNCHANGED <<heap, heap_index>>
  /\ UNCHANGED <<string_pool, string_pool_index, tuple_pool, tuple_pool_index, matching, ret>>

(* The empty list is a heap cell of its own. *)
EmptyList ==
  /\ pc = "run" /\ Room
  /\ stmt' = Stmt("nil_list", <<>>, <<>>)
  /\ IF heap_index < HEAP_SIZE
       THEN /\ heap' = Fill(heap, heap_index, <<EmptyListValue>>)
            /\ heap_index' = heap_index + 1
            /\ Bind(EmptyListValue)
       ELSE GotoCatch /\ UNCHANGED <<heap, heap_index>>
  /\ UNCHANGED <<string_pool, string_pool_index, tuple_pool, tuple_pool_index, matching, ret>>

(***************************************************************************)
(* [h | t], allocate_list_header_into_heap: two tuple pool words, the heap *)
(* index the head is about to get and the index below it, whatever lies    *)
(* there; then the head and the list header themselves go to the heap.     *)
(* Each of the four stores has its own check and its own increment.  The   *)
(* code never reads the value of t: t is an operand only to say what the   *)
(* program meant.                                                          *)
(***************************************************************************)
SameCell(i) == i
PreviousCell(i) == (i - 1) % WORD

ConsCell(h, t) ==
  LET words == Least(2, TUPLE_POOL_SIZE - tuple_pool_index)
      cells == IF words < 2 THEN 0 ELSE Least(2, HEAP_SIZE - heap_index)
      header == MkGeneric("LIST", tuple_pool_index, tuple_pool_index + 1)
      pointers == <<heap_index, PreviousCell(heap_index)>>
      values == <<env[h], header>>
  IN /\ pc = "run" /\ Room
     /\ DisciplinedLists =>
          /\ env[t].type = "LIST"
          /\ heap_index > 0 /\ heap[heap_index - 1] = env[t]
     /\ stmt' = Stmt("cons", <<h, t>>, <<>>)
     /\ tuple_pool' = Fill(tuple_pool, tuple_pool_index, SubSeq(pointers, 1, words))
     /\ tuple_pool_index' = tuple_pool_index + words
     /\ heap' = Fill(heap, heap_index, SubSeq(values, 1, cells))
     /\ heap_index' = heap_index + cells
     /\ IF cells < 2 THEN GotoCatch ELSE Bind(header)
     /\ UNCHANGED <<string_pool, string_pool_index, matching, ret>>

-----------------------------------------------------------------------------
(***************************************************************************)
(* Pattern matching.  `work` is the list of checks the emitted code has    *)
(* still to make: pattern `pat` against value `val`, `gen` being the       *)
(* translator's flag of that name and `skip` the number of elements of a   *)
(* list pattern already taken.  A failed check jumps to the exit label:    *)
(* CATCH for `=`, the next clause for `case`.                              *)
(***************************************************************************)
Check(pat, val, gen, skip) == [pat |-> pat, val |-> val, gen |-> gen, skip |-> skip]

(***************************************************************************)
(* `pattern = value` has one clause and `case` several.  Only a case sets  *)
(* the generic flag.  A text pattern against anything but a C String does  *)
(* not compile under `=`.                                                  *)
(***************************************************************************)
ClauseCheck(op, clause, value) == <<Check(clause, value, op = "case", 0)>>

StartMatch(op, i, clauses) ==
  /\ pc = "run" /\ Room
  /\ op = "=" /\ clauses[1].kind = "text" => env[i].type = "STRING"
  /\ pc' = "match"
  /\ goal' = [op |-> op, arg |-> i, clauses |-> clauses, next |-> 1]
  /\ work' = ClauseCheck(op, clauses[1], env[i])
  /\ UNCHANGED <<pools, env, binds, stmt, ret>>

MatchStmt == Stmt(goal.op, <<goal.arg>>, goal.clauses)

NextClause == goal.next + 1

(* op_result.exception = 1 ; goto exit_label *)
Mismatch ==
  /\ binds' = <<>>
  /\ IF goal.next = Len(goal.clauses)
       THEN pc' = "CATCH" /\ goal' = NoGoal /\ work' = <<>> /\ stmt' = MatchStmt
       ELSE /\ goal' = [goal EXCEPT !.next = NextClause]
            /\ work' = ClauseCheck(goal.op, goal.clauses[NextClause], env[goal.arg])
            /\ UNCHANGED <<pc, stmt>>

(* the current check holds and leaves the checks s in its place *)
Replace(s) == work' = s \o Tail(work) /\ UNCHANGED <<pc, goal, stmt>>

Holds(condition) ==
  IF condition THEN Replace(<<>>) /\ UNCHANGED binds ELSE Mismatch

(* the two bound checks before an element is read through the tuple pool *)
Readable(index) ==
  /\ index \in 0..(TUPLE_POOL_SIZE - 1)
  /\ tuple_pool[index] < HEAP_SIZE
Element(index) == heap[tuple_pool[index]]

Current(kinds) == pc = "match" /\ work # <<>> /\ work[1].pat.kind \in kinds

MatchAny == Current({"any"}) /\ Holds(TRUE) /\ UNCHANGED <<pools, env, ret>>

MatchVar ==
  /\ Current({"var"})
  /\ Replace(<<>>) /\ binds' = Append(binds, work[1].val)
  /\ UNCHANGED <<pools, env, ret>>

MatchAtom ==
  /\ Current({"atom"})
  /\ Holds(/\ work[1].val.type = "ATOM"
           /\ work[1].val.start = MkAtom(work[1].pat.atom).start)
  /\ UNCHANGED <<pools, env, ret>>

MatchIntType ==
  /\ Current({"int"})
  /\ Holds(work[1].gen => work[1].val.type = "INTEGER")
  /\ UNCHANGED <<pools, env, ret>>

(* Without the generic flag the emitted code is empty. *)
MatchInt ==
  /\ Current({"int"})
  /\ Holds(work[1].gen => work[1].val = MkInteger(work[1].pat.n))
  /\ UNCHANGED <<pools, env, ret>>

(***************************************************************************)
(* generate_bitstring_checker_at_position: a character whose index would   *)
(* fall outside the pool is not compared at all.  Without the generic flag *)
(* the length is not compared either.                                      *)
(***************************************************************************)
SameChars(text, start) ==
  \A i \in 1..Len(text) :
    (start < STRING_POOL_SIZE - (i - 1) /\ start >= 0) =>
      string_pool[start + i - 1] = text[i]

MatchText ==
  LET v == work[1].val
      text == work[1].pat.text
  IN /\ Current({"text"})
     /\ Holds(/\ work[1].gen => /\ v.type = "STRING"
                                /\ Len(text) = v.end - v.start
              /\ SameChars(text, v.start))
     /\ UNCHANGED <<pools, env, ret>>

(* The size of the tuple is not compared with the size of the pattern. *)
MatchTuple ==
  LET v == work[1].val
      subs == work[1].pat.subs
  IN /\ Current({"tuple"})
     /\ IF v.type = "TUPLE" /\ \A i \in 1..Len(subs) : Readable(v.start + i - 1)
          THEN /\ Replace([i \in 1..Len(subs) |->
                             Check(subs[i], Element(v.start + i - 1), TRUE, 0)])
               /\ UNCHANGED binds
          ELSE Mismatch
     /\ UNCHANGED <<pools, env, ret>>

(***************************************************************************)
(* [p1, ..., pn]: the type is checked on the list itself and not on the    *)
(* tails reached from it; the last tail must have both halves equal to -1. *)
(***************************************************************************)
MatchList ==
  LET c == work[1]
      more == c.skip < Len(c.pat.subs)
      typed == c.skip = 0 => c.val.type = "LIST"
  IN /\ Current({"list"})
     /\ IF more /\ typed /\ Readable(c.val.start) /\ Readable(c.val.start + 1)
          THEN /\ Replace(<<Check(c.pat.subs[c.skip + 1], Element(c.val.start), FALSE, 0),
                            Check(c.pat, Element(c.val.start + 1), FALSE, c.skip + 1)>>)
               /\ UNCHANGED binds
          ELSE Holds(~more /\ typed /\ c.val.start = -1 /\ c.val.end = -1)
     /\ UNCHANGED <<pools, env, ret>>

(* [ph | pt] *)
MatchCons ==
  LET c == work[1]
  IN /\ Current({"cons"})
     /\ IF c.val.type = "LIST" /\ Readable(c.val.start) /\ Readable(c.val.start + 1)
          THEN /\ Replace(<<Check(c.pat.subs[1], Element(c.val.start), FALSE, 0),
                            Check(c.pat.subs[2], Element(c.val.start + 1), FALSE, 0)>>)
               /\ UNCHANGED binds
          ELSE Mismatch
     /\ UNCHANGED <<pools, env, ret>>

(* op_result.exception is still 0 at the exit label *)
MatchSucceeds ==
  /\ pc = "match" /\ work = <<>>
  /\ pc' = "run"
  /\ env' = env \o binds
  /\ stmt' = MatchStmt
  /\ goal' = NoGoal /\ binds' = <<>>
  /\ UNCHANGED <<pools, work, ret>>

MatchStep ==
  \/ MatchAny \/ MatchVar \/ MatchAtom \/ MatchInt \/ MatchText
  \/ MatchTuple \/ MatchList \/ MatchCons \/ MatchSucceeds

-----------------------------------------------------------------------------
(* raise "..." *)
RaiseStmt ==
  /\ pc = "run"
  /\ GotoCatch
  /\ stmt' = Stmt("raise", <<>>, <<>>)
  /\ UNCHANGED <<pools, matching, ret>>

(* The end of main: an integer is returned, anything else is an exception. *)
ReturnMain(i) ==
  /\ pc = "run"
  /\ IF env[i].type = "INTEGER"
       THEN pc' = "idle" /\ ret' = env[i].start /\ env' = <<>>
       ELSE GotoCatch /\ UNCHANGED ret
  /\ stmt' = Stmt("return", <<i>>, <<>>)
  /\ UNCHANGED <<pools, matching>>

(* CATCH: bpf_printk of the message; return 0 *)
Catch ==
  /\ pc = "CATCH"
  /\ pc' = "idle" /\ ret' = 0
  /\ env' = <<>> /\ stmt' = NoStmt
  /\ UNCHANGED <<pools, matching>>

Build ==
  \/ \E n \in Ints : IntValue(n)
  \/ \E a \in AtomConsts : AtomConst(a)
  \/ \E t \in Texts : StringConst(t)
  \/ \E n \in Arities : \E args \in [1..n -> Operand] : TupleLiteral(args)
  \/ EmptyList
  \/ \E h, t \in Operand : ConsCell(h, t)

BeginMatch ==
  \E i \in Operand, m \in Matches : StartMatch(m.op, i, m.clauses)

End == RaiseStmt \/ Catch \/ \E i \in Operand : ReturnMain(i)

Next == BeginMain \/ Build \/ BeginMatch \/ MatchStep \/ End

Spec == Init /\ [][Next]_vars

-----------------------------------------------------------------------------
(***************************************************************************)
(* The types, with V the values a Generic may take.                        *)
(***************************************************************************)
StringIndices == 0..(STRING_POOL_SIZE - 1)
TupleIndices == 0..(TUPLE_POOL_SIZE - 1)
HeapIndices == 0..(HEAP_SIZE - 1)

PoolsTyped(V) ==
  /\ string_pool \in [StringIndices -> AllChars]
  /\ tuple_pool \in [TupleIndices -> 0..(WORD - 1)]
  /\ heap \in [HeapIndices -> V]
  /\ string_pool_index \in StringIndices
  /\ tuple_pool_index \in 0..TUPLE_POOL_SIZE
  /\ heap_index \in 0..HEAP_SIZE

Checks(V) == [pat : Patterns, val : V, gen : BOOLEAN, skip : Nat]
LocalsTyped(V) == env \in Seq(V) /\ binds \in Seq(V) /\ work \in Seq(Checks(V))

GoalTyped ==
  pc = "match" =>
    /\ goal \in [op : {"=", "case"}, arg : 1..Len(env), clauses : Seq(Patterns),
                  next : Nat]
    /\ goal.next \in 1..Len(goal.clauses)

Typed(V) ==
  /\ pc \in {"idle", "run", "match", "CATCH"}
  /\ ret \in Int
  /\ PoolsTyped(V) /\ LocalsTyped(V) /\ GoalTyped

TypeOK == Typed(Generic)

(* Every value the program can reach in one step, and every heap cell. *)
InHand == {env[i] : i \in DOMAIN env} \cup {binds[i] : i \in DOMAIN binds}
            \cup {work[i].val : i \in DOMAIN work}

(***************************************************************************)
(* Whatever the program, the sizes, and the garbage earlier invocations    *)
(* left, a string or tuple handle anywhere (in a C variable or in a heap   *)
(* cell, live or not) lies inside its pool: the guard around a character   *)
(* comparison is never what makes a string pattern match.                  *)
(***************************************************************************)
Bounded(v) ==
  /\ v.type = "STRING" => /\ v.start >= 0 /\ v.start <= v.end
                          /\ v.end < STRING_POOL_SIZE
  /\ v.type = "TUPLE" => /\ v.start >= 0 /\ v.start <= v.end + 1
                         /\ v.end < TUPLE_POOL_SIZE
  /\ v.type = "LIST" => \/ v.start = -1 /\ v.end = -1
                        \/ /\ v.start >= 0 /\ v.end = v.start + 1
                           /\ v.end < TUPLE_POOL_SIZE
HeapBounded == \A i \in DOMAIN heap : Bounded(heap[i])
HandBounded == \A v \in InHand : Bounded(v)
PoolBounds == HeapBounded /\ HandBounded

(***************************************************************************)
(* Variables are immutable (language.md): while an invocation runs, nothing *)
(* below the three indices is written again and no index moves back, so a  *)
(* handle keeps denoting what it was made for.                             *)
(***************************************************************************)
SameBelow(f, g, limit) == \A i \in 0..(limit - 1) : g[i] = f[i]
WriteOnceStep ==
  pc # "idle" =>
    /\ string_pool_index' >= string_pool_index
    /\ tuple_pool_index' >= tuple_pool_index
    /\ heap_index' >= heap_index
    /\ SameBelow(string_pool, string_pool', string_pool_index)
    /\ SameBelow(tuple_pool, tuple_pool', tuple_pool_index)
    /\ SameBelow(heap, heap', heap_index)
WriteOnce == [][WriteOnceStep]_vars

(***************************************************************************)
(* No invocation sees another's data: a value in hand or stored below the  *)
(* heap index was made by this invocation, its handle reaching only below  *)
(* the indices, and so was everything a tuple pool word points to.  Holds  *)
(* of programs whose tuple patterns have the size of their tuples and      *)
(* whose lists are DisciplinedLists.                                       *)
(***************************************************************************)
Live(v) ==
  /\ v.type # "INVALID"
  /\ v.type = "STRING" => v.end < string_pool_index
  /\ v.type \in {"TUPLE", "LIST"} => v.end < tuple_pool_index
NoStaleData ==
  pc \in {"run", "match"} =>
    /\ \A v \in InHand : Live(v)
    /\ \A i \in 0..(heap_index - 1) : Live(heap[i])
    /\ \A i \in 0..(tuple_pool_index - 1) : tuple_pool[i] < heap_index

(***************************************************************************)
(* A string in hand still reads as a constant of the program, its NUL at   *)
(* its end: neither later constants nor the atom text run over it.         *)
(***************************************************************************)
Chars(v) == [i \in 1..(v.end - v.start + 1) |-> string_pool[v.start + i - 1]]
StringsIntact ==
  pc \in {"run", "match"} => \A v \in InHand :
    v.type = "STRING" => \E t \in Texts : Chars(v) = Append(t, NUL)
=============================================================================
