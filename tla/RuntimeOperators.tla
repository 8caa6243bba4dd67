--------------------------- MODULE RuntimeOperators ---------------------------
(***************************************************************************)
(* The operators of a generated program: the functions Sum, Subtract,      *)
(* Multiply, Divide, Equals, GreaterThan and LessThan the C runtime runs   *)
(* on Generics, the bare C operators the translator emits when both        *)
(* operands are statically integers, and the two ways a program branches   *)
(* on a result: `cond`, and `if`, which Elixir has expanded to a `case`    *)
(* with the clauses false and true.                                        *)
(*                                                                         *)
(* A behaviour is any sequence of operations over values already computed. *)
(* `meaning` is a history variable: what the same operations give in       *)
(* Elixir, whose integers have no width.                                   *)
(*                                                                         *)
(* SumWraps, LimitOneSided and ToBoolNil are not used: each is a slip its  *)
(* neighbour could hold, kept to show which property notices.              *)
(***************************************************************************)
EXTENDS Integers, Sequences

CONSTANTS
  INT_MAX,     (* 2147483647 in the code                                   *)
  LONG_MAX,    (* of the long a Generic holds; 2^63 - 1 in the code        *)
  Inputs,      (* the integers programs start from                         *)
  StaticTypes, (* what is known of them at compile time: "int", "any"      *)
  Operators,   (* the operators programs use                               *)
  MaxValues    (* bound on the values one program computes                 *)

INT_MIN == -INT_MAX - 1
Int32 == INT_MIN..INT_MAX
UNSIGNED == 2 * (INT_MAX + 1)
Arithmetic == {"+", "-", "*", "/"}
Comparisons == {"==", ">", "<"}
(* those the functions of the runtime get right *)
ExactOperators == {"+", "*"} \cup Comparisons

ASSUME WidthAssumption ==
  /\ INT_MAX \in Nat \ {0}
  /\ LONG_MAX \in Nat /\ LONG_MAX >= UNSIGNED

ASSUME ProgramAssumption ==
  /\ Inputs \subseteq Int32
  /\ StaticTypes \subseteq {"int", "any"}
  /\ Operators \subseteq Arithmetic \cup Comparisons
  /\ MaxValues \in Nat

VARIABLES
  pc,      (* "run" or the label "CATCH"                            *)
  values,  (* the C variables: static type and run-time value       *)
  meaning, (* history: the Elixir values they stand for             *)
  last,    (* history: the operation executed last and its operands *)
  exact    (* history: only ExactOperators on Generics so far       *)

vars == <<pc, values, meaning, last, exact>>

-----------------------------------------------------------------------------
Generic == [type : {"INTEGER", "ATOM"}, n : Int]
Integer(n) == [type |-> "INTEGER", n |-> n]
Atom(start) == [type |-> "ATOM", n |-> start] (* start tells the three apart *)
ATOM_NIL == Atom(0)
ATOM_FALSE == Atom(3)
ATOM_TRUE == Atom(8)
Truth(b) == IF b THEN ATOM_TRUE ELSE ATOM_FALSE

(* OpResult *)
Raised == [exception |-> TRUE, value |-> ATOM_NIL]
Result(v) == [exception |-> FALSE, value |-> v]

(* conversions on assignment: to long, to int, and of |n| to unsigned *)
Wrap(n, max) == ((n + max + 1) % (2 * (max + 1))) - max - 1
Long(n) == IF n \in (-LONG_MAX - 1)..LONG_MAX THEN n ELSE Wrap(n, LONG_MAX)
Magnitude(n) == IF n < 0 THEN -n ELSE n
Unsigned(n) == Magnitude(n) % UNSIGNED

OnIntegers(x, y, result) ==
  IF x.type = "INTEGER" /\ y.type = "INTEGER" THEN result ELSE Raised

-----------------------------------------------------------------------------
(***************************************************************************)
(* runtime_functions.bpf.c.  x and y are Generics, a and b their integers. *)
(***************************************************************************)
SumWraps(x, y) == OnIntegers(x, y, Result(Integer(Wrap(x.n + y.n, INT_MAX))))

Sum(x, y) ==
  LET a == x.n b == y.n
      overflow == a > 0 /\ b > INT_MAX - a
      underflow == a < 0 /\ b < INT_MIN - a
  IN OnIntegers(x, y, IF overflow \/ underflow THEN Raised
                      ELSE Result(Integer(Long(a + b))))

(* The last line of Subtract adds. *)
Subtract(x, y) ==
  LET a == x.n b == y.n
      overflow == a < 0 /\ b > INT_MAX + a
      underflow == a > 0 /\ b < INT_MIN + a
  IN OnIntegers(x, y, IF overflow \/ underflow THEN Raised
                      ELSE Result(Integer(Long(a + b))))

(* An unsigned quotient; a BPF division by zero gives zero. *)
Quotient(a, b) ==
  IF Unsigned(b) = 0 THEN 0 ELSE Unsigned(a) \div Unsigned(b)

(* The quotient is negated as an unsigned and only then made a long. *)
Divide(x, y) ==
  LET a == x.n b == y.n
      sameSign == (a <= 0 /\ b < 0) \/ (a >= 0 /\ b > 0)
  IN OnIntegers(x, y,
       IF b = 0 \/ (a = INT_MIN /\ b = -1) THEN Raised
       ELSE Result(Integer(IF sameSign THEN Quotient(a, b)
                           ELSE (-Quotient(a, b)) % UNSIGNED)))

(* the largest magnitude of a product of integers with the signs of a and b *)
LimitOneSided(a, b) == INT_MAX
Limit(a, b) ==
  IF (a > 0 /\ b > 0) \/ (a < 0 /\ b < 0) THEN INT_MAX ELSE INT_MAX + 1

Multiply(x, y) ==
  LET a == x.n b == y.n
      atMinimum == (a = INT_MIN /\ b # 1) \/ (b = INT_MIN /\ a # 1)
      tooLarge == Unsigned(a) > Quotient(Limit(a, b), b)
  IN OnIntegers(x, y,
       IF a = 0 \/ b = 0 THEN Result(Integer(0))
       ELSE IF atMinimum \/ tooLarge THEN Raised
       ELSE Result(Integer(Long(a * b))))

Equals(x, y) ==
  IF x.type # y.type THEN Result(ATOM_FALSE)
  ELSE OnIntegers(x, y, Result(Truth(x.n = y.n)))

GreaterThan(x, y) == OnIntegers(x, y, Result(Truth(x.n > y.n)))
LessThan(x, y) == OnIntegers(x, y, Result(Truth(x.n < y.n)))

BinaryOperation(op, x, y) ==
  CASE op = "+" -> Sum(x, y)
    [] op = "-" -> Subtract(x, y)
    [] op = "*" -> Multiply(x, y)
    [] op = "/" -> Divide(x, y)
    [] op = "==" -> Equals(x, y)
    [] op = ">" -> GreaterThan(x, y)
    [] op = "<" -> LessThan(x, y)

(* Only nil and false are false. *)
ToBoolNil(v) == v # ATOM_NIL
ToBool(v) == v \notin {ATOM_NIL, ATOM_FALSE}

-----------------------------------------------------------------------------
(***************************************************************************)
(* What Elixir gives: the exact result, or none where Elixir or this       *)
(* subset raises.  `/` is read as integer division, since the subset has   *)
(* no floats.                                                              *)
(***************************************************************************)
Truncated(a, b) ==
  LET q == Magnitude(a) \div Magnitude(b)
  IN IF (a < 0) = (b < 0) THEN q ELSE -q

Exact(op, a, b) ==
  CASE op = "+" -> Integer(a + b)
    [] op = "-" -> Integer(a - b)
    [] op = "*" -> Integer(a * b)
    [] op = "/" -> Integer(Truncated(a, b))
    [] op = "==" -> Truth(a = b)
    [] op = ">" -> Truth(a > b)
    [] op = "<" -> Truth(a < b)

Defined(op, x, y) ==
  /\ x.type = "INTEGER" /\ y.type = "INTEGER"
  /\ op = "/" => y.n # 0

(* y == x of an integer and an atom is the one other case supported *)
Meaning(op, x, y) ==
  IF Defined(op, x, y) THEN Exact(op, x.n, y.n) ELSE ATOM_FALSE

-----------------------------------------------------------------------------
NoOperation == [op |-> "none", args |-> <<>>, taken |-> FALSE]

Init ==
  /\ pc = "run"
  /\ values = <<>> /\ meaning = <<>> /\ last = NoOperation /\ exact = TRUE

Variable(static, v) == [static |-> static, v |-> v]
Operand == 1..Len(values)
Room == Len(values) < MaxValues

Bind(static, v, m) ==
  /\ values' = Append(values, Variable(static, v))
  /\ meaning' = Append(meaning, m)
  /\ UNCHANGED pc
GotoCatch == pc' = "CATCH" /\ UNCHANGED <<values, meaning>>

(* a constant, a context field, the result of a helper *)
Input(static, n) ==
  /\ pc = "run" /\ Room
  /\ Bind(static, Integer(n), Integer(n))
  /\ last' = NoOperation /\ exact' = (exact /\ static = "any")

BothTyped(i, j) == values[i].static = "int" /\ values[j].static = "int"

(***************************************************************************)
(* BINARY_OPERATION: an operand that is a C int is made a Generic first.   *)
(***************************************************************************)
GenericOperation(op, i, j) ==
  LET r == BinaryOperation(op, values[i].v, values[j].v)
  IN /\ pc = "run" /\ Room /\ ~BothTyped(i, j)
     /\ last' = [op |-> op, args |-> <<i, j>>, taken |-> FALSE]
     /\ exact' = (exact /\ op \in ExactOperators)
     /\ IF r.exception THEN GotoCatch
        ELSE Bind("any", r.value, Meaning(op, meaning[i], meaning[j]))

(***************************************************************************)
(* Two C ints.  `==` gives an atom, every other operator a C int; signed   *)
(* overflow is undefined, the result being the exact or the wrapped one.   *)
(* The BPF back end has no signed division, so `/` does not get here.      *)
(***************************************************************************)
EqualityType == "any"
Comparison(op, a, b) == IF Exact(op, a, b) = ATOM_TRUE THEN 1 ELSE 0

TypedOperation(op, i, j) ==
  LET a == values[i].v.n b == values[j].v.n
      m == Meaning(op, meaning[i], meaning[j])
  IN /\ pc = "run" /\ Room /\ BothTyped(i, j) /\ op # "/"
     /\ last' = [op |-> op, args |-> <<i, j>>, taken |-> FALSE] /\ exact' = FALSE
     /\ \/ op = "==" /\ Bind(EqualityType, Truth(a = b), m)
        \/ op \in {">", "<"} /\ Bind("int", Integer(Comparison(op, a, b)), m)
        \/ /\ op \in {"+", "-", "*"}
           /\ \E n \in {Exact(op, a, b).n, Wrap(Exact(op, a, b).n, INT_MAX)} :
                Bind("int", Integer(n), m)

(* One condition of a cond. *)
Condition(i) ==
  LET c == values[i]
  IN /\ pc = "run"
     /\ last' = [op |-> "cond", args |-> <<i>>,
                 taken |-> IF c.static = "int" THEN c.v.n # 0 ELSE ToBool(c.v)]
     /\ UNCHANGED <<pc, values, meaning, exact>>

(***************************************************************************)
(* `if` on the comparison just made: Elixir has made of it a               *)
(* case ... do false -> ...; true -> ... end.                              *)
(***************************************************************************)
IfStatement ==
  LET i == Len(values)
      c == values[i].v
  IN /\ pc = "run" /\ last.op \in Comparisons
     /\ last' = [op |-> "if", args |-> <<i>>, taken |-> c = ATOM_TRUE]
     /\ UNCHANGED exact
     /\ IF c \in {ATOM_TRUE, ATOM_FALSE} THEN UNCHANGED <<pc, values, meaning>>
        ELSE GotoCatch

(* The invocation ends; the next one starts with nothing computed. *)
EndMain ==
  /\ pc' = "run" /\ values' = <<>> /\ meaning' = <<>> /\ last' = NoOperation
  /\ exact' = TRUE

Operate ==
  \E op \in Operators, i, j \in Operand :
    GenericOperation(op, i, j) \/ TypedOperation(op, i, j)

Branch == IfStatement \/ \E i \in Operand : Condition(i)

Next ==
  \/ \E static \in StaticTypes, n \in Inputs : Input(static, n)
  \/ Operate \/ Branch \/ EndMain

Spec == Init /\ [][Next]_vars

-----------------------------------------------------------------------------
(***************************************************************************)
(* Integers do not wrap silently: whatever chain of operations led there,  *)
(* a Generic integer is the one Elixir computes, and fits an int, as long  *)
(* as only +, *, ==, < and > on Generics led there.  It fails for -,       *)
(* because Subtract adds, for /, whose negated unsigned quotient becomes a *)
(* large long, and for operands of static type integer, which wrap.        *)
(***************************************************************************)
Agrees ==
  exact => \A i \in Operand :
             /\ values[i].v = meaning[i]
             /\ values[i].v.type = "INTEGER" => values[i].v.n \in Int32

(***************************************************************************)
(* Sum and Multiply raise only when they must: when the exact result does  *)
(* not fit an int, or an operand is not an integer (on the values Agrees   *)
(* speaks of).                                                             *)
(***************************************************************************)
Fits(v) == v.type = "ATOM" \/ v.n \in Int32
RaisesStep ==
  pc = "run" /\ pc' = "CATCH" /\ exact' =>
    LET x == meaning[last'.args[1]]
        y == meaning[last'.args[2]]
    IN Defined(last'.op, x, y) => ~Fits(Exact(last'.op, x.n, y.n))
RaisesOnlyOutOfRange == [][RaisesStep]_vars

(***************************************************************************)
(* A cond takes a branch exactly when Elixir finds its condition true, and *)
(* an if takes the branch Elixir takes, whichever of the operations that   *)
(* Agrees speaks of computed it.                                           *)
(***************************************************************************)
BranchesAgree ==
  exact /\ last.op \in {"cond", "if"} => last.taken = ToBool(meaning[last.args[1]])

(***************************************************************************)
(* What is known at compile time does not change what a program computes:  *)
(* a +, * or == of two C ints gives what the runtime's function gives on   *)
(* the same operands, unless that raises.  Not so for - (Subtract adds)    *)
(* nor for < and > (a C int is not a boolean).                             *)
(***************************************************************************)
TypingIsTransparent ==
  pc = "run" /\ last.op \in {"+", "*", "=="} =>
    LET x == values[last.args[1]].v
        y == values[last.args[2]].v
        r == BinaryOperation(last.op, x, y)
    IN BothTyped(last.args[1], last.args[2]) /\ {x.n, y.n} \subseteq Int32 =>
         r.exception \/ values[Len(values)].v = r.value

(***************************************************************************)
(* An if on a comparison takes one of its two branches.                    *)
(***************************************************************************)
IfFindsItsClause == last.op = "if" => pc = "run"
=============================================================================
