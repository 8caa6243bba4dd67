----------------------- MODULE RuntimeOperatorsProofs -----------------------
(***************************************************************************)
(* Proofs about RuntimeOperators for every width of the integers.          *)
(***************************************************************************)
EXTENDS RuntimeOperators, SequenceTheorems, TLAPS

-----------------------------------------------------------------------------
(***************************************************************************)
(* Division and products of naturals.                                      *)
(***************************************************************************)
LEMMA ProductNat == \A u, v \in Nat : u * v \in Nat
OBVIOUS

LEMMA DivisionBounds ==
  ASSUME NEW L \in Nat, NEW b \in Nat \ {0}
  PROVE  /\ L \div b \in Nat
         /\ (L \div b) * b <= L
         /\ L < (L \div b + 1) * b
OBVIOUS

LEMMA Monotonic ==
  ASSUME NEW u \in Nat, NEW v \in Nat, NEW b \in Nat, u <= v
  PROVE  u * b <= v * b
<1>1. (v - u) * b \in Nat
  BY ProductNat
<1>2. (v - u) * b = v * b - u * b
  OBVIOUS
<1>3. u * b \in Int /\ v * b \in Int
  OBVIOUS
<1>4. QED
  BY <1>1, <1>2, <1>3

(***************************************************************************)
(* Comparing a with a limit divided by b is comparing their product.       *)
(***************************************************************************)
LEMMA CompareByDivision ==
  ASSUME NEW L \in Nat, NEW a \in Nat, NEW b \in Nat \ {0}
  PROVE  (a > L \div b) <=> (a * b > L)
<1> DEFINE q == L \div b
<1>1. q \in Nat /\ q * b <= L /\ L < (q + 1) * b
  BY DivisionBounds
<1> HIDE DEF q
<1>2. q * b \in Nat /\ a * b \in Nat /\ (q + 1) * b \in Nat
  BY <1>1, ProductNat
<1>3. CASE a <= q
  <2>1. a * b <= q * b
    BY <1>1, <1>3, Monotonic
  <2>2. QED
    BY <1>1, <1>2, <1>3, <2>1 DEF q
<1>4. CASE a > q
  <2>1. (q + 1) * b <= a * b
    BY <1>1, <1>4, Monotonic
  <2>2. QED
    BY <1>1, <1>2, <1>4, <2>1 DEF q
<1>5. QED
  BY <1>1, <1>3, <1>4

-----------------------------------------------------------------------------
(***************************************************************************)
(* The runtime's functions on integers that fit an int: each raises        *)
(* exactly when the exact result does not fit, and is exact otherwise.     *)
(***************************************************************************)
ExactOrRaised(r, n) ==
  IF n \in Int32 THEN r = Result(Integer(n)) ELSE r = Raised

LEMMA MagnitudeSmall ==
  ASSUME NEW n \in Int, Magnitude(n) < UNSIGNED
  PROVE  Unsigned(n) = Magnitude(n) /\ Magnitude(n) \in Nat
<1>1. Magnitude(n) \in Nat /\ UNSIGNED \in Nat
  BY WidthAssumption DEF Magnitude, UNSIGNED
<1>2. QED
  BY <1>1 DEF Unsigned

LEMMA Int32Magnitude ==
  ASSUME NEW n \in Int32
  PROVE  /\ Magnitude(n) \in Nat /\ Magnitude(n) <= INT_MAX + 1
         /\ Unsigned(n) = Magnitude(n)
<1>1. Magnitude(n) <= INT_MAX + 1 /\ INT_MAX + 1 < UNSIGNED /\ n \in Int
  BY WidthAssumption DEF Magnitude, Int32, INT_MIN, UNSIGNED
<1>2. Magnitude(n) < UNSIGNED /\ Magnitude(n) \in Nat
  BY <1>1, WidthAssumption DEF Magnitude, UNSIGNED
<1>3. QED
  BY <1>1, <1>2, MagnitudeSmall

LEMMA LongKeeps == \A n \in Int32 : Long(n) = n
BY WidthAssumption DEF Long, Int32, INT_MIN, UNSIGNED

LEMMA SumExact ==
  ASSUME NEW x \in Generic, NEW y \in Generic, x.type = "INTEGER", y.type = "INTEGER",
         x.n \in Int32, y.n \in Int32
  PROVE  ExactOrRaised(Sum(x, y), x.n + y.n)
<1>1. x.n \in Int /\ y.n \in Int /\ INT_MAX \in Int
  BY WidthAssumption DEF Generic
<1>2. \/ (x.n > 0 /\ y.n > INT_MAX - x.n) \/ (x.n < 0 /\ y.n < INT_MIN - x.n)
      <=> x.n + y.n \notin Int32
  BY <1>1 DEF Int32, INT_MIN
<1>3. QED
  BY <1>2, LongKeeps DEF Sum, OnIntegers, ExactOrRaised

(***************************************************************************)
(* The product in terms of the magnitudes.                                 *)
(***************************************************************************)
LEMMA ProductFits ==
  ASSUME NEW a \in Int32 \ {0}, NEW b \in Int32 \ {0}
  PROVE  a * b \in Int32 <=> Magnitude(a) * Magnitude(b) <= Limit(a, b)
<1>1. a \in Int /\ b \in Int /\ INT_MAX \in Nat
  BY WidthAssumption DEF Int32, INT_MIN
<1> DEFINE p == Magnitude(a) * Magnitude(b)
<1>2. CASE (a > 0 /\ b > 0) \/ (a < 0 /\ b < 0)
  <2>1. a * b = p /\ p \in Nat
    <3>1. CASE a > 0 /\ b > 0
      BY <1>1, <3>1, ProductNat DEF Magnitude
    <3>2. CASE a < 0 /\ b < 0
      <4>1. p = (-a) * (-b) /\ -a \in Nat /\ -b \in Nat
        BY <1>1, <3>2 DEF Magnitude
      <4>2. (-a) * (-b) = a * b
        BY <1>1
      <4>3. QED
        BY <4>1, <4>2, ProductNat
    <3>3. QED
      BY <1>2, <3>1, <3>2
  <2>2. Limit(a, b) = INT_MAX
    BY <1>2 DEF Limit
  <2> HIDE DEF p
  <2>3. a * b \in Int32 <=> p <= INT_MAX
    BY <1>1, <2>1 DEF Int32, INT_MIN
  <2>4. QED
    BY <2>2, <2>3 DEF p
<1>3. CASE ~((a > 0 /\ b > 0) \/ (a < 0 /\ b < 0))
  <2>1. a * b = -p /\ p \in Nat
    <3>1. CASE a > 0 /\ b < 0
      <4>1. p = a * (-b) /\ a \in Nat /\ -b \in Nat
        BY <1>1, <3>1 DEF Magnitude
      <4>2. a * (-b) = -(a * b)
        BY <1>1
      <4>3. p \in Nat
        BY <4>1, ProductNat
      <4>4. a * b \in Int
        BY <1>1
      <4> HIDE DEF p
      <4>5. QED
        BY <4>1, <4>2, <4>3, <4>4
    <3>2. CASE a < 0 /\ b > 0
      <4>1. p = (-a) * b /\ -a \in Nat /\ b \in Nat
        BY <1>1, <3>2 DEF Magnitude
      <4>2. (-a) * b = -(a * b)
        BY <1>1
      <4>3. p \in Nat
        BY <4>1, ProductNat
      <4>4. a * b \in Int
        BY <1>1
      <4> HIDE DEF p
      <4>5. QED
        BY <4>1, <4>2, <4>3, <4>4
    <3>3. QED
      BY <1>1, <1>3, <3>1, <3>2
  <2>2. Limit(a, b) = INT_MAX + 1
    BY <1>3 DEF Limit
  <2> HIDE DEF p
  <2>3. a * b \in Int32 <=> p <= INT_MAX + 1
    BY <1>1, <2>1 DEF Int32, INT_MIN
  <2>4. QED
    BY <2>2, <2>3 DEF p
<1>4. QED
  BY <1>2, <1>3

(***************************************************************************)
(* INT_MIN times anything but 0 and 1 does not fit.                        *)
(***************************************************************************)
LEMMA MinimumOverflows ==
  ASSUME NEW b \in Int32 \ {0, 1}
  PROVE  INT_MIN * b \notin Int32
<1>1. b \in Int /\ INT_MAX \in Nat /\ INT_MAX >= 1
  BY WidthAssumption DEF Int32, INT_MIN
<1>2. INT_MIN * b = -((INT_MAX + 1) * b)
  BY <1>1 DEF INT_MIN
<1>3. CASE b < 0
  <2>1. 1 * (INT_MAX + 1) <= (-b) * (INT_MAX + 1)
    BY <1>1, <1>3, Monotonic
  <2>2. (-b) * (INT_MAX + 1) = -((INT_MAX + 1) * b)
    BY <1>1
  <2>3. INT_MIN * b >= INT_MAX + 1
    BY <1>1, <1>2, <2>1, <2>2
  <2>4. QED
    BY <1>1, <2>3 DEF Int32
<1>4. CASE b > 0
  <2>1. 2 * (INT_MAX + 1) <= b * (INT_MAX + 1)
    BY <1>1, <1>4, Monotonic
  <2>2. b * (INT_MAX + 1) = (INT_MAX + 1) * b /\ (INT_MAX + 1) * b \in Int
    BY <1>1
  <2>3. INT_MIN * b <= -(2 * (INT_MAX + 1))
    BY <1>1, <1>2, <2>1, <2>2
  <2>4. QED
    BY <1>1, <2>3 DEF Int32, INT_MIN
<1>5. QED
  BY <1>1, <1>3, <1>4

LEMMA MultiplyExact ==
  ASSUME NEW x \in Generic, NEW y \in Generic, x.type = "INTEGER", y.type = "INTEGER",
         x.n \in Int32, y.n \in Int32
  PROVE  ExactOrRaised(Multiply(x, y), x.n * y.n)
<1> DEFINE a == x.n
<1> DEFINE b == y.n
<1>1. a \in Int /\ b \in Int /\ INT_MAX \in Nat /\ 0 \in Int32
  BY WidthAssumption DEF Generic, Int32, INT_MIN
<1>2. CASE a = 0 \/ b = 0
  <2>1. a * b = 0
    BY <1>1, <1>2
  <2>2. QED
    BY <1>1, <1>2, <2>1 DEF Multiply, OnIntegers, ExactOrRaised
<1>3. CASE ~(a = 0 \/ b = 0)
  <2> DEFINE atMinimum == (a = INT_MIN /\ b # 1) \/ (b = INT_MIN /\ a # 1)
  <2> DEFINE tooLarge == Unsigned(a) > Quotient(Limit(a, b), b)
  <2>1. atMinimum => a * b \notin Int32
    <3>1. a = INT_MIN /\ b # 1 => a * b \notin Int32
      BY <1>3, MinimumOverflows
    <3>2. b = INT_MIN /\ a # 1 => b * a \notin Int32
      BY <1>3, MinimumOverflows
    <3>3. b * a = a * b
      BY <1>1
    <3>4. QED
      BY <3>1, <3>2, <3>3
  <2>2. tooLarge <=> a * b \notin Int32
    <3>1. /\ Magnitude(a) \in Nat /\ Unsigned(a) = Magnitude(a)
          /\ Magnitude(b) \in Nat \ {0} /\ Unsigned(b) = Magnitude(b)
      BY <1>1, <1>3, Int32Magnitude DEF Magnitude
    <3>2. Limit(a, b) \in Nat /\ Unsigned(Limit(a, b)) = Limit(a, b)
      <4>1. Limit(a, b) \in 0..(INT_MAX + 1) /\ Magnitude(Limit(a, b)) = Limit(a, b)
        BY <1>1 DEF Limit, Magnitude
      <4>2. Magnitude(Limit(a, b)) < UNSIGNED
        BY <1>1, <4>1 DEF UNSIGNED
      <4>3. QED
        BY <4>1, <4>2, MagnitudeSmall
    <3>3. Quotient(Limit(a, b), b) = Limit(a, b) \div Magnitude(b)
      BY <3>1, <3>2 DEF Quotient
    <3>4. tooLarge <=> Magnitude(a) * Magnitude(b) > Limit(a, b)
      BY <3>1, <3>2, <3>3, CompareByDivision
    <3>5. a * b \in Int32 <=> Magnitude(a) * Magnitude(b) <= Limit(a, b)
      BY <1>3, ProductFits
    <3>6. Magnitude(a) * Magnitude(b) \in Nat
      BY <3>1, ProductNat
    <3>7. QED
      BY <3>2, <3>4, <3>5, <3>6
  <2>3. Multiply(x, y) = IF atMinimum \/ tooLarge THEN Raised
                         ELSE Result(Integer(Long(a * b)))
    BY <1>3 DEF Multiply, OnIntegers
  <2>4. QED
    BY <2>1, <2>2, <2>3, LongKeeps DEF ExactOrRaised
<1>4. QED
  BY <1>2, <1>3

-----------------------------------------------------------------------------
Booleans == {ATOM_TRUE, ATOM_FALSE}
SafeValue == {v \in Generic : IF v.type = "INTEGER" THEN v.n \in Int32 ELSE v \in Booleans}

(***************************************************************************)
(* What holds while a program keeps to ExactOperators on Generics.         *)
(***************************************************************************)
Exactly ==
  /\ pc \in {"run", "CATCH"}
  /\ values \in Seq([static : {"any"}, v : SafeValue])
  /\ meaning \in Seq(SafeValue) /\ Len(meaning) = Len(values)
  /\ \A i \in 1..Len(values) : values[i].v = meaning[i]
  /\ last.op \in Comparisons /\ pc = "run" =>
       Len(values) > 0 /\ values[Len(values)].v \in Booleans
  /\ last.op \in {"cond", "if"} =>
       last.args[1] \in 1..Len(values) /\ last.taken = ToBool(meaning[last.args[1]])

IInv == exact \in BOOLEAN /\ (exact => Exactly)

LEMMA SafeIntegers ==
  ASSUME NEW n \in Int32
  PROVE  Integer(n) \in SafeValue
BY WidthAssumption DEF SafeValue, Integer, Generic, Int32, INT_MIN

LEMMA SafeBooleans == Booleans \subseteq SafeValue
BY DEF SafeValue, Booleans, ATOM_TRUE, ATOM_FALSE, Atom, Generic

LEMMA TruthIsBoolean == \A b : Truth(b) \in Booleans
BY DEF Truth, Booleans

(***************************************************************************)
(* One operation of the runtime on two values that agree with Elixir's.    *)
(***************************************************************************)
LEMMA OperationExact ==
  ASSUME NEW op \in ExactOperators, NEW x \in SafeValue, NEW y \in SafeValue
  PROVE  LET r == BinaryOperation(op, x, y) IN
         /\ ~r.exception => /\ r.value = Meaning(op, x, y) /\ r.value \in SafeValue
                            /\ op \in Comparisons => r.value \in Booleans
         /\ r.exception /\ Defined(op, x, y) => ~Fits(Exact(op, x.n, y.n))
<1> DEFINE r == BinaryOperation(op, x, y)
<1> DEFINE e == Exact(op, x.n, y.n)
<1>1. x \in Generic /\ y \in Generic /\ op \in {"+", "*", "==", ">", "<"}
  BY DEF SafeValue, ExactOperators, Comparisons
<1>2. CASE x.type = "INTEGER" /\ y.type = "INTEGER"
  <2>1. x.n \in Int32 /\ y.n \in Int32 /\ x.n \in Int /\ y.n \in Int
    BY <1>1, <1>2 DEF SafeValue, Generic
  <2>2. Meaning(op, x, y) = e
    BY <1>1, <1>2 DEF Meaning, Defined
  <2>3. CASE op \in {"+", "*"}
    <3>1. PICK n \in Int : ExactOrRaised(r, n) /\ e = Integer(n)
      <4>1. op = "+" => r = Sum(x, y) /\ e = Integer(x.n + y.n)
        BY DEF BinaryOperation, Exact
      <4>2. op = "*" => r = Multiply(x, y) /\ e = Integer(x.n * y.n)
        BY DEF BinaryOperation, Exact
      <4>3. x.n + y.n \in Int /\ x.n * y.n \in Int
        BY <2>1
      <4> HIDE DEF r, e
      <4>4. QED
        BY <1>1, <1>2, <2>1, <2>3, <4>1, <4>2, <4>3, SumExact, MultiplyExact
    <3>2. op \notin Comparisons
      BY <2>3 DEF Comparisons
    <3> HIDE DEF r, e
    <3>3. CASE n \in Int32
      <4>1. r = Result(Integer(n)) /\ Integer(n) \in SafeValue
        BY <3>1, <3>3, SafeIntegers DEF ExactOrRaised
      <4>2. QED
        BY <2>2, <3>1, <3>2, <4>1 DEF Result, r, e
    <3>4. CASE n \notin Int32
      <4>1. r = Raised /\ ~Fits(Integer(n))
        BY <3>1, <3>4 DEF ExactOrRaised, Fits, Integer
      <4>2. QED
        BY <3>1, <3>2, <4>1 DEF Raised, r, e
    <3>5. QED
      BY <3>3, <3>4
  <2>4. CASE op \in Comparisons
    <3>1. r = Result(e)
      BY <1>1, <1>2, <2>1, <2>4 DEF BinaryOperation, Exact, Equals, GreaterThan, LessThan,
         OnIntegers, Comparisons
    <3>2. e \in Booleans
      BY <2>4, TruthIsBoolean DEF Exact, Comparisons
    <3> HIDE DEF r, e
    <3>3. QED
      BY <2>2, <3>1, <3>2, SafeBooleans DEF Result, r, e
  <2>5. QED
    BY <1>1, <2>3, <2>4 DEF Comparisons
<1>3. CASE ~(x.type = "INTEGER" /\ y.type = "INTEGER")
  <2>1. ~Defined(op, x, y) /\ Meaning(op, x, y) = ATOM_FALSE
    BY <1>3 DEF Defined, Meaning
  <2>2. r = Raised \/ r = Result(ATOM_FALSE)
    BY <1>1, <1>3 DEF BinaryOperation, Sum, Multiply, Equals, GreaterThan, LessThan, OnIntegers
  <2>3. ATOM_FALSE \in Booleans
    BY DEF Booleans
  <2> HIDE DEF r
  <2>4. QED
    BY <2>1, <2>2, <2>3, SafeBooleans DEF Raised, Result, r
<1>4. QED
  BY <1>2, <1>3

-----------------------------------------------------------------------------
(***************************************************************************)
(* The invariant is preserved.                                             *)
(***************************************************************************)
LEMMA BindKeeps ==
  ASSUME Exactly, NEW u \in SafeValue, Bind("any", u, u),
         last'.op \in Comparisons => u \in Booleans,
         last'.op \notin {"cond", "if"}
  PROVE  Exactly'
<1> DEFINE w == Variable("any", u)
<1>1. w \in [static : {"any"}, v : SafeValue] /\ w.v = u
  BY DEF Variable
<1>2. /\ values' = Append(values, w) /\ meaning' = Append(meaning, u) /\ UNCHANGED pc
  BY DEF Bind
<1>3. /\ values \in Seq([static : {"any"}, v : SafeValue]) /\ meaning \in Seq(SafeValue)
      /\ Len(meaning) = Len(values) /\ Len(values) \in Nat
  BY LenProperties DEF Exactly
<1> HIDE DEF w
<1>4. /\ values' \in Seq([static : {"any"}, v : SafeValue])
      /\ Len(values') = Len(values) + 1 /\ values'[Len(values) + 1] = w
      /\ \A i \in 1..Len(values) : values'[i] = values[i]
  BY <1>1, <1>2, <1>3, AppendProperties
<1>5. /\ meaning' \in Seq(SafeValue)
      /\ Len(meaning') = Len(values) + 1 /\ meaning'[Len(values) + 1] = u
      /\ \A i \in 1..Len(values) : meaning'[i] = meaning[i]
  BY <1>2, <1>3, AppendProperties
<1>6. \A i \in 1..Len(values') : values'[i].v = meaning'[i]
  <2>1. \A i \in 1..Len(values) : values[i].v = meaning[i]
    BY DEF Exactly
  <2>2. \A i \in 1..Len(values') : i \in 1..Len(values) \/ i = Len(values) + 1
    BY <1>3, <1>4
  <2>3. QED
    BY <1>1, <1>4, <1>5, <2>1, <2>2
<1>7. values'[Len(values')].v = u /\ Len(values') > 0
  BY <1>1, <1>3, <1>4
<1>8. pc' \in {"run", "CATCH"}
  BY <1>2 DEF Exactly
<1>9. QED
  BY <1>4, <1>5, <1>6, <1>7, <1>8 DEF Exactly

LEMMA OperandSafe ==
  ASSUME Exactly, NEW i \in Operand
  PROVE  /\ values[i].v \in SafeValue /\ meaning[i] = values[i].v
         /\ values[i].static = "any"
<1>1. values \in Seq([static : {"any"}, v : SafeValue]) /\ i \in 1..Len(values)
  BY DEF Exactly, Operand
<1>2. values[i] \in [static : {"any"}, v : SafeValue]
  BY <1>1, ElementOfSeq
<1>3. meaning[i] = values[i].v
  BY <1>1 DEF Exactly
<1>4. QED
  BY <1>2, <1>3

(* Exactly does not depend on `last` when it holds no condition. *)
LEMMA CatchKeeps ==
  ASSUME Exactly, GotoCatch, last'.op \notin {"cond", "if"}
  PROVE  Exactly'
BY DEF Exactly, GotoCatch

LEMMA InputKeeps ==
  ASSUME Exactly, NEW n \in Inputs, Input("any", n)
  PROVE  Exactly'
<1>1. n \in Int32
  BY ProgramAssumption
<1>2. Integer(n) \in SafeValue
  BY <1>1, SafeIntegers
<1>3. last'.op = "none"
  BY DEF Input, NoOperation
<1>4. QED
  BY <1>1, <1>2, <1>3, BindKeeps DEF Input, Comparisons

LEMMA OperateKeeps ==
  ASSUME Exactly, NEW op \in ExactOperators, NEW i \in Operand, NEW j \in Operand,
         GenericOperation(op, i, j)
  PROVE  Exactly'
<1> DEFINE x == values[i].v
<1> DEFINE y == values[j].v
<1> DEFINE r == BinaryOperation(op, x, y)
<1>1. x \in SafeValue /\ y \in SafeValue /\ meaning[i] = x /\ meaning[j] = y
  BY OperandSafe
<1>2. last'.op = op /\ op \notin {"cond", "if"}
  BY DEF GenericOperation, ExactOperators, Comparisons
<1>3. ~r.exception => /\ r.value = Meaning(op, x, y) /\ r.value \in SafeValue
                      /\ op \in Comparisons => r.value \in Booleans
  BY <1>1, OperationExact
<1>4. CASE r.exception
  BY <1>2, <1>4, CatchKeeps DEF GenericOperation
<1>5. CASE ~r.exception
  <2>1. Bind("any", r.value, Meaning(op, x, y))
    BY <1>1, <1>5 DEF GenericOperation
  <2>2. QED
    BY <1>2, <1>3, <1>5, <2>1, BindKeeps
<1>6. QED
  BY <1>4, <1>5

LEMMA ConditionKeeps ==
  ASSUME Exactly, NEW i \in Operand, Condition(i)
  PROVE  Exactly'
<1>1. /\ last'.op = "cond" /\ last'.args[1] = i
      /\ last'.taken = ToBool(values[i].v)
      /\ UNCHANGED <<pc, values, meaning>>
  BY OperandSafe DEF Condition
<1>2. "cond" \notin Comparisons /\ i \in 1..Len(values)
  BY DEF Comparisons, Operand
<1>3. QED
  BY <1>1, <1>2, OperandSafe DEF Exactly

LEMMA IfKeeps == Exactly /\ IfStatement => Exactly'
<1> SUFFICES ASSUME Exactly, IfStatement PROVE Exactly'
  OBVIOUS
<1> DEFINE i == Len(values)
<1> DEFINE c == values[i].v
<1>1. i > 0 /\ c \in Booleans /\ i \in Nat
  BY LenProperties DEF IfStatement, Exactly
<1>2. i \in 1..Len(values) /\ meaning[i] = c
  BY <1>1 DEF Exactly
<1>3. /\ last'.op = "if" /\ last'.args[1] = i /\ last'.taken = (c = ATOM_TRUE)
      /\ UNCHANGED <<pc, values, meaning>>
  BY <1>1 DEF IfStatement, Booleans
<1>4. (c = ATOM_TRUE) = ToBool(c)
  BY <1>1 DEF Booleans, ToBool, ATOM_TRUE, ATOM_FALSE, ATOM_NIL, Atom
<1>5. "if" \notin Comparisons
  BY DEF Comparisons
<1> HIDE DEF i, c
<1>6. QED
  BY <1>2, <1>3, <1>4, <1>5 DEF Exactly, i

LEMMA EndKeeps == EndMain => IInv'
BY EmptySeq DEF EndMain, IInv, Exactly, NoOperation, Comparisons

LEMMA InitKeeps == Init => IInv
BY EmptySeq DEF Init, IInv, Exactly, NoOperation, Comparisons

LEMMA NextKeeps == IInv /\ [Next]_vars => IInv'
<1> SUFFICES ASSUME IInv, [Next]_vars PROVE IInv'
  OBVIOUS
<1>1. CASE \E static \in StaticTypes, n \in Inputs : Input(static, n)
  <2>1. PICK static \in StaticTypes, n \in Inputs : Input(static, n)
    BY <1>1
  <2>2. exact' = (exact /\ static = "any")
    BY <2>1 DEF Input
  <2>3. exact' => Exactly'
    BY <2>1, <2>2, InputKeeps DEF IInv
  <2>4. QED
    BY <2>2, <2>3 DEF IInv
<1>2. CASE Operate
  <2>1. PICK op \in Operators, i \in Operand, j \in Operand :
          GenericOperation(op, i, j) \/ TypedOperation(op, i, j)
    BY <1>2 DEF Operate
  <2>2. CASE GenericOperation(op, i, j)
    <3>1. exact' = (exact /\ op \in ExactOperators)
      BY <2>2 DEF GenericOperation
    <3>2. exact' => Exactly'
      BY <2>2, <3>1, OperateKeeps DEF IInv
    <3>3. QED
      BY <3>1, <3>2 DEF IInv
  <2>3. CASE TypedOperation(op, i, j)
    BY <2>3 DEF TypedOperation, IInv
  <2>4. QED
    BY <2>1, <2>2, <2>3
<1>3. CASE Branch
  <2>1. exact' = exact
    BY <1>3 DEF Branch, IfStatement, Condition
  <2>2. exact => Exactly'
    BY <1>3, ConditionKeeps, IfKeeps DEF Branch, IInv
  <2>3. QED
    BY <2>1, <2>2 DEF IInv
<1>4. CASE EndMain
  BY <1>4, EndKeeps
<1>5. CASE UNCHANGED vars
  BY <1>5 DEF vars, IInv, Exactly
<1>6. QED
  BY <1>1, <1>2, <1>3, <1>4, <1>5 DEF Next

LEMMA Invariance == Spec => []IInv
<1>1. IInv /\ [Next]_vars => IInv'
  BY NextKeeps
<1>2. QED
  BY <1>1, InitKeeps, PTL DEF Spec

(***************************************************************************)
(* For every width and every program: as long as it has used only +, *,    *)
(* ==, < and > on Generics, it has computed what Elixir computes, in       *)
(* integers that fit an int.                                               *)
(***************************************************************************)
THEOREM GenericsAreExact == Spec => []Agrees
<1>1. IInv => Agrees
  <2> SUFFICES ASSUME Exactly PROVE Agrees
    BY DEF IInv, Agrees
  <2>1. \A i \in Operand : values[i].v \in SafeValue /\ values[i].v = meaning[i]
    BY OperandSafe
  <2>2. QED
    BY <2>1 DEF Agrees, SafeValue
<1>2. QED
  BY <1>1, Invariance, PTL

(***************************************************************************)
(* For every width: the conds and ifs on what it has so computed take the  *)
(* branches Elixir takes.                                                  *)
(***************************************************************************)
THEOREM BranchesFollowTruth == Spec => []BranchesAgree
<1>1. IInv => BranchesAgree
  BY DEF IInv, Exactly, BranchesAgree
<1>2. QED
  BY <1>1, Invariance, PTL

(***************************************************************************)
(* For every width: it raises an arithmetic exception only where the exact *)
(* result does not fit an int.                                             *)
(***************************************************************************)
THEOREM NoSpuriousRaise == Spec => RaisesOnlyOutOfRange
<1>1. IInv /\ [Next]_vars => [RaisesStep]_vars
  <2> SUFFICES ASSUME IInv, Next, pc = "run", pc' = "CATCH", exact' PROVE RaisesStep
    BY DEF RaisesStep
  <2>1. CASE Operate
    <3>1. PICK op \in Operators, i \in Operand, j \in Operand :
            GenericOperation(op, i, j) \/ TypedOperation(op, i, j)
      BY <2>1 DEF Operate
    <3>2. GenericOperation(op, i, j) /\ op \in ExactOperators /\ Exactly
      BY <3>1 DEF GenericOperation, TypedOperation, IInv
    <3> DEFINE r == BinaryOperation(op, values[i].v, values[j].v)
    <3>3. r.exception
      BY <3>2 DEF GenericOperation, Bind
    <3>4. last'.op = op /\ last'.args[1] = i /\ last'.args[2] = j
      BY <3>2 DEF GenericOperation
    <3>5. Defined(op, values[i].v, values[j].v) =>
            ~Fits(Exact(op, values[i].v.n, values[j].v.n))
      BY <3>2, <3>3, OperandSafe, OperationExact
    <3>6. meaning[i] = values[i].v /\ meaning[j] = values[j].v
      BY <3>2, OperandSafe
    <3>7. QED
      BY <3>4, <3>5, <3>6 DEF RaisesStep
  <2>2. CASE Branch
    <3>1. CASE IfStatement
      <4>1. values[Len(values)].v \in Booleans
        BY <3>1 DEF IfStatement, IInv, Exactly
      <4>2. pc' = pc
        BY <3>1, <4>1 DEF IfStatement, Booleans
      <4>3. QED
        BY <4>2
    <3>2. CASE \E i \in Operand : Condition(i)
      BY <3>2 DEF Condition
    <3>3. QED
      BY <2>2, <3>1, <3>2 DEF Branch
  <2>3. CASE EndMain \/ \E static \in StaticTypes, n \in Inputs : Input(static, n)
    BY <2>3 DEF EndMain, Input, Bind
  <2>4. QED
    BY <2>1, <2>2, <2>3 DEF Next
<1>2. QED
  BY <1>1, Invariance, PTL DEF Spec, RaisesOnlyOutOfRange

-----------------------------------------------------------------------------
(***************************************************************************)
(* Static types.  What is statically an integer is one at run time, and a  *)
(* C int that does not overflow is what the runtime's function returns.    *)
(***************************************************************************)
Value == [static : {"int", "any"}, v : Generic]

Typed ==
  /\ values \in Seq(Value)
  /\ \A i \in Operand : values[i].static = "int" => values[i].v.type = "INTEGER"

TransparentInv == Typed /\ TypingIsTransparent

LEMMA WrapKeeps == \A n \in Int32 : Wrap(n, INT_MAX) = n
<1> SUFFICES ASSUME NEW n \in Int32 PROVE Wrap(n, INT_MAX) = n
  OBVIOUS
<1> DEFINE m == n + INT_MAX + 1
<1> DEFINE w == 2 * (INT_MAX + 1)
<1>1. m \in Nat /\ w \in Nat \ {0} /\ m < w /\ n \in Int /\ INT_MAX \in Nat
  BY WidthAssumption DEF Int32, INT_MIN
<1>2. m % w = m
  <2> HIDE DEF m, w
  <2>1. QED
    BY <1>1
<1>3. Wrap(n, INT_MAX) = m - INT_MAX - 1
  BY <1>2 DEF Wrap
<1>4. QED
  BY <1>1, <1>3

LEMMA WrapTyped == \A n \in Int, max \in Nat : Wrap(n, max) \in Int
<1> SUFFICES ASSUME NEW n \in Int, NEW max \in Nat PROVE Wrap(n, max) \in Int
  OBVIOUS
<1> DEFINE w == 2 * (max + 1)
<1>1. w \in Nat \ {0}
  OBVIOUS
<1> HIDE DEF w
<1>2. (n + max + 1) % w \in Int
  BY <1>1
<1>3. QED
  BY <1>2 DEF Wrap, w

LEMMA LongTyped == \A n \in Int : Long(n) \in Int
BY WrapTyped, WidthAssumption DEF Long, UNSIGNED

LEMMA QuotientTyped == \A a, b \in Int : Quotient(a, b) \in Nat
<1> SUFFICES ASSUME NEW a \in Int, NEW b \in Int PROVE Quotient(a, b) \in Nat
  OBVIOUS
<1>1. UNSIGNED \in Nat \ {0} /\ Magnitude(a) \in Nat /\ Magnitude(b) \in Nat
  BY WidthAssumption DEF UNSIGNED, Magnitude
<1>2. Unsigned(a) \in Nat /\ Unsigned(b) \in Nat
  BY <1>1 DEF Unsigned
<1>3. QED
  BY <1>2, DivisionBounds DEF Quotient

LEMMA IntegerTyped == \A n \in Int : Integer(n) \in Generic /\ Integer(n).type = "INTEGER"
BY DEF Integer, Generic

LEMMA TruthTyped == \A b : Truth(b) \in Generic
BY DEF Truth, ATOM_TRUE, ATOM_FALSE, Atom, Generic

LEMMA OperationTyped ==
  ASSUME NEW op \in Arithmetic \cup Comparisons, NEW x \in Generic, NEW y \in Generic
  PROVE  ~BinaryOperation(op, x, y).exception => BinaryOperation(op, x, y).value \in Generic
<1>1. x.n \in Int /\ y.n \in Int /\ 0 \in Int
  BY DEF Generic
<1>2. \A n \in Int : Integer(Long(n)) \in Generic
  BY LongTyped, IntegerTyped
<1>3. ATOM_FALSE \in Generic
  BY DEF ATOM_FALSE, Atom, Generic
<1>4. CASE op = "+"
  <2>1. x.n + y.n \in Int
    BY <1>1
  <2>2. QED
    BY <1>2, <1>4, <2>1 DEF BinaryOperation, Sum, OnIntegers, Raised, Result
<1>5. CASE op = "-"
  <2>1. x.n + y.n \in Int
    BY <1>1
  <2>2. QED
    BY <1>2, <1>5, <2>1 DEF BinaryOperation, Subtract, OnIntegers, Raised, Result
<1>6. CASE op = "*"
  <2>1. x.n * y.n \in Int
    BY <1>1
  <2>2. Integer(Long(x.n * y.n)) \in Generic /\ Integer(0) \in Generic
    BY <1>1, <1>2, <2>1, IntegerTyped
  <2>3. QED
    BY <1>6, <2>2 DEF BinaryOperation, Multiply, OnIntegers, Raised, Result
<1>7. CASE op = "/"
  <2>1. Quotient(x.n, y.n) \in Nat
    BY <1>1, QuotientTyped
  <2>2. UNSIGNED \in Nat \ {0}
    BY WidthAssumption DEF UNSIGNED
  <2>3. (-Quotient(x.n, y.n)) % UNSIGNED \in Int
    BY <2>1, <2>2
  <2>4. Integer(Quotient(x.n, y.n)) \in Generic
        /\ Integer((-Quotient(x.n, y.n)) % UNSIGNED) \in Generic
    BY <2>1, <2>3, IntegerTyped
  <2>5. QED
    BY <1>7, <2>4 DEF BinaryOperation, Divide, OnIntegers, Raised, Result
<1>8. CASE op \in Comparisons
  BY <1>3, <1>8, TruthTyped
     DEF Comparisons, BinaryOperation, Equals, GreaterThan, LessThan, OnIntegers, Raised, Result
<1>9. QED
  BY <1>4, <1>5, <1>6, <1>7, <1>8 DEF Arithmetic

(***************************************************************************)
(* Binding appends a value and keeps the others.                           *)
(***************************************************************************)
LEMMA BindTyped ==
  ASSUME Typed, NEW static \in {"int", "any"}, NEW u \in Generic, NEW m, Bind(static, u, m),
         static = "int" => u.type = "INTEGER"
  PROVE  /\ Typed' /\ Len(values') = Len(values) + 1
         /\ \A i \in Operand : i \in Operand' /\ i # Len(values') /\ values'[i] = values[i]
         /\ values'[Len(values')].v = u
<1> DEFINE w == Variable(static, u)
<1>1. w \in Value /\ w.v = u /\ w.static = static
  BY DEF Variable, Value
<1>2. values' = Append(values, w) /\ values \in Seq(Value) /\ Len(values) \in Nat
  BY LenProperties DEF Bind, Typed
<1> HIDE DEF w
<1>3. /\ values' \in Seq(Value) /\ Len(values') = Len(values) + 1
      /\ values'[Len(values) + 1] = w
      /\ \A i \in 1..Len(values) : values'[i] = values[i]
  BY <1>1, <1>2, AppendProperties
<1>4. \A i \in Operand' : i \in Operand \/ i = Len(values) + 1
  BY <1>2, <1>3 DEF Operand
<1>5. \A i \in Operand' : values'[i].static = "int" => values'[i].v.type = "INTEGER"
  BY <1>1, <1>3, <1>4 DEF Operand, Typed
<1>6. QED
  BY <1>1, <1>2, <1>3, <1>5 DEF Typed, Operand

LEMMA OperandTyped ==
  ASSUME Typed, NEW i \in Operand
  PROVE  values[i].v \in Generic /\ values[i].static \in {"int", "any"}
<1>1. values[i] \in Value
  BY ElementOfSeq DEF Typed, Operand
<1>2. QED
  BY <1>1 DEF Value

(* On a C int each of +, * and == does what the function does, or it raises. *)
LEMMA TypedIsRuntime ==
  ASSUME NEW op \in {"+", "*", "=="}, NEW x \in Generic, NEW y \in Generic,
         x.type = "INTEGER", y.type = "INTEGER", x.n \in Int32, y.n \in Int32
  PROVE  LET r == BinaryOperation(op, x, y)
             e == Exact(op, x.n, y.n)
         IN \/ r.exception
            \/ op = "==" /\ r.value = Truth(x.n = y.n)
            \/ op # "==" /\ r.value = Integer(e.n) /\ Wrap(e.n, INT_MAX) = e.n
<1> DEFINE r == BinaryOperation(op, x, y)
<1> DEFINE e == Exact(op, x.n, y.n)
<1>1. CASE op = "=="
  BY <1>1 DEF BinaryOperation, Equals, OnIntegers, Result
<1>2. CASE op \in {"+", "*"}
  <2>1. PICK n : ExactOrRaised(r, n) /\ e = Integer(n)
    <3>1. op = "+" => r = Sum(x, y) /\ e = Integer(x.n + y.n)
      BY DEF BinaryOperation, Exact
    <3>2. op = "*" => r = Multiply(x, y) /\ e = Integer(x.n * y.n)
      BY DEF BinaryOperation, Exact
    <3> HIDE DEF r, e
    <3>3. QED
      BY <1>2, <3>1, <3>2, SumExact, MultiplyExact
  <2> HIDE DEF r, e
  <2>2. r = Raised \/ (n \in Int32 /\ r = Result(Integer(n)))
    BY <2>1 DEF ExactOrRaised
  <2>3. e.n = n
    BY <2>1 DEF Integer
  <2>4. QED
    BY <1>2, <2>2, <2>3, WrapKeeps DEF Raised, Result, r, e
<1>3. QED
  BY <1>1, <1>2

(* A sum, a difference and a product of numbers are one. *)
LEMMA ExactIsNumber ==
  ASSUME NEW op \in {"+", "-", "*"}, NEW a \in Int, NEW b \in Int
  PROVE  Exact(op, a, b).n \in Int
<1>1. CASE op = "+"
  <2>1. Exact(op, a, b) = Integer(a + b)
    BY <1>1 DEF Exact
  <2> QED
    BY <2>1 DEF Integer
<1>2. CASE op = "-"
  <2>1. Exact(op, a, b) = Integer(a - b)
    BY <1>2 DEF Exact
  <2> QED
    BY <2>1 DEF Integer
<1>3. CASE op = "*"
  <2>1. Exact(op, a, b) = Integer(a * b)
    BY <1>3 DEF Exact
  <2>2. a * b \in Int
    OBVIOUS
  <2> QED
    BY <2>1, <2>2 DEF Integer
<1> QED
  BY <1>1, <1>2, <1>3

LEMMA OperationTransparent ==
  ASSUME Typed, NEW op \in Operators, NEW i \in Operand, NEW j \in Operand,
         TypedOperation(op, i, j)
  PROVE  Typed' /\ TypingIsTransparent'
<1> DEFINE x == values[i].v
<1> DEFINE y == values[j].v
<1> DEFINE e == Exact(op, x.n, y.n)
<1> DEFINE m == Meaning(op, meaning[i], meaning[j])
<1>1. /\ x \in Generic /\ y \in Generic /\ x.n \in Int /\ y.n \in Int
      /\ x.type = "INTEGER" /\ y.type = "INTEGER"
  BY OperandTyped DEF TypedOperation, BothTyped, Typed, Generic
<1>2. PICK static \in {"int", "any"}, u \in Generic :
        /\ Bind(static, u, m) /\ (static = "int" => u.type = "INTEGER")
        /\ op = "==" => u = Truth(x.n = y.n)
        /\ op \in {"+", "*"} => u \in {Integer(e.n), Integer(Wrap(e.n, INT_MAX))}
  <2>1. CASE op = "==" /\ Bind(EqualityType, Truth(x.n = y.n), m)
    BY <2>1, TruthTyped DEF EqualityType
  <2>2. CASE op \in {">", "<"} /\ Bind("int", Integer(Comparison(op, x.n, y.n)), m)
    BY <2>2, IntegerTyped DEF Comparison
  <2>3. ASSUME op \in {"+", "-", "*"},
               NEW n \in {e.n, Wrap(e.n, INT_MAX)}, Bind("int", Integer(n), m)
        PROVE  \E static \in {"int", "any"}, u \in Generic :
                 /\ Bind(static, u, m) /\ (static = "int" => u.type = "INTEGER")
                 /\ op = "==" => u = Truth(x.n = y.n)
                 /\ op \in {"+", "*"} => u \in {Integer(e.n), Integer(Wrap(e.n, INT_MAX))}
    <3>1. e.n \in Int
      BY <1>1, <2>3, ExactIsNumber
    <3>2. Wrap(e.n, INT_MAX) \in Int
      BY <3>1, WrapTyped, WidthAssumption
    <3> HIDE DEF e, m, x, y
    <3>3. n \in Int
      BY <2>3, <3>1, <3>2
    <3>4. QED
      BY <2>3, <3>3, IntegerTyped
  <2> HIDE DEF m
  <2>4. QED
    BY <2>1, <2>2, <2>3 DEF TypedOperation, m
<1>3. /\ Typed' /\ values'[i] = values[i] /\ values'[j] = values[j]
      /\ values'[Len(values')].v = u
  BY <1>2, BindTyped
<1>4. last'.op = op /\ last'.args[1] = i /\ last'.args[2] = j
  BY DEF TypedOperation
<1>5. ASSUME op \in {"+", "*", "=="}, x.n \in Int32, y.n \in Int32
      PROVE  BinaryOperation(op, x, y).exception \/ u = BinaryOperation(op, x, y).value
  BY <1>1, <1>2, <1>5, TypedIsRuntime
<1>6. TypingIsTransparent'
  BY <1>3, <1>4, <1>5 DEF TypingIsTransparent
<1>7. QED
  BY <1>3, <1>6

LEMMA NextTransparent == TransparentInv /\ [Next]_vars => TransparentInv'
<1> SUFFICES ASSUME TransparentInv, [Next]_vars PROVE TransparentInv'
  OBVIOUS
<1>1. CASE \E static \in StaticTypes, n \in Inputs : Input(static, n)
  <2>1. PICK static \in StaticTypes, n \in Inputs : Input(static, n)
    BY <1>1
  <2>2. static \in {"int", "any"} /\ n \in Int
    BY ProgramAssumption, WidthAssumption DEF Int32, INT_MIN
  <2>3. Typed'
    BY <2>1, <2>2, IntegerTyped, BindTyped DEF Input, TransparentInv
  <2>4. last'.op = "none"
    BY <2>1 DEF Input, NoOperation
  <2>5. QED
    BY <2>3, <2>4 DEF TransparentInv, TypingIsTransparent
<1>2. ASSUME NEW op \in Operators, NEW i \in Operand, NEW j \in Operand,
             GenericOperation(op, i, j)
      PROVE  TransparentInv'
  <2> DEFINE r == BinaryOperation(op, values[i].v, values[j].v)
  <2>1. op \in Arithmetic \cup Comparisons
    BY ProgramAssumption
  <2>2. CASE GotoCatch
    BY <2>2 DEF GotoCatch, TransparentInv, Typed, Operand, TypingIsTransparent
  <2>3. CASE ~r.exception
    <3>1. r.value \in Generic
      BY <2>1, <2>3, OperandTyped, OperationTyped DEF TransparentInv
    <3>2. Bind("any", r.value, Meaning(op, meaning[i], meaning[j]))
      BY <1>2, <2>3 DEF GenericOperation
    <3>3. Typed' /\ values'[i] = values[i] /\ values'[j] = values[j]
      BY <3>1, <3>2, BindTyped DEF TransparentInv
    <3>4. last'.args[1] = i /\ last'.args[2] = j /\ ~BothTyped(i, j)
      BY <1>2 DEF GenericOperation
    <3>5. TypingIsTransparent'
      BY <3>3, <3>4 DEF TypingIsTransparent, BothTyped
    <3>6. QED
      BY <3>3, <3>5 DEF TransparentInv
  <2>4. QED
    BY <1>2, <2>2, <2>3 DEF GenericOperation
<1>3. ASSUME NEW op \in Operators, NEW i \in Operand, NEW j \in Operand,
             TypedOperation(op, i, j)
      PROVE  TransparentInv'
  BY <1>3, OperationTransparent DEF TransparentInv
<1>4. CASE Branch
  <2>1. values' = values /\ last'.op \in {"cond", "if"}
    BY <1>4 DEF Branch, IfStatement, Condition, GotoCatch
  <2>2. QED
    BY <2>1 DEF TransparentInv, Typed, Operand, TypingIsTransparent
<1>5. CASE EndMain
  BY <1>5, EmptySeq DEF EndMain, NoOperation, TransparentInv, Typed, Operand, TypingIsTransparent
<1>6. CASE UNCHANGED vars
  BY <1>6 DEF vars, TransparentInv, Typed, Operand, TypingIsTransparent, BothTyped
<1>7. QED
  BY <1>1, <1>2, <1>3, <1>4, <1>5, <1>6 DEF Next, Operate

(***************************************************************************)
(* For every width and every program: typing two operands statically as    *)
(* integers leaves the results of +, * and == what the runtime's functions *)
(* return on them, unless those raise.                                     *)
(***************************************************************************)
THEOREM StaticTypesAreTransparent == Spec => []TypingIsTransparent
<1>1. Init => TransparentInv
  BY EmptySeq DEF Init, NoOperation, TransparentInv, Typed, Operand, TypingIsTransparent
<1>2. TransparentInv => TypingIsTransparent
  BY DEF TransparentInv
<1>3. QED
  BY <1>1, <1>2, NextTransparent, PTL DEF Spec
=============================================================================
