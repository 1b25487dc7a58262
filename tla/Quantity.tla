------------------------------- MODULE Quantity -------------------------------
(***************************************************************************)
(* The arithmetic of resource limits (recovery/quantity.go): exact         *)
(* rationals with units, and one explicit rounding at the end into a       *)
(* signed integer of bounded range.                                        *)
(***************************************************************************)
EXTENDS Integers, Sequences, FiniteSets

CONSTANTS
  Units,            \* the units in use
  Decimals,         \* the numbers written, as numerator and power of ten
  Limit             \* the range of the result: -Limit - 1 .. Limit, in place of 64 bits

ASSUME QuantityAssumption ==
  /\ Units \subseteq {"count", "%", "B", "kB", "KiB", "s"}
  /\ Decimals \subseteq [n : Int, d : Nat \ {0}]
  /\ Limit \in Nat

VARIABLES
  request,          \* the calculation asked for, once there is one
  result            \* its answer, or nothing when it is refused

quantityVars == <<request, result>>

\* unitDefinition: the units whose factors stay small.
Unit(u) ==
  CASE u = "count" -> [dimension |-> "scalar", n |-> 1, d |-> 1]
    [] u = "%" -> [dimension |-> "scalar", n |-> 1, d |-> 100]
    [] u = "B" -> [dimension |-> "bytes", n |-> 1, d |-> 1]
    [] u = "kB" -> [dimension |-> "bytes", n |-> 1000, d |-> 1]
    [] u = "KiB" -> [dimension |-> "bytes", n |-> 1024, d |-> 1]
    [] u = "s" -> [dimension |-> "time", n |-> 1, d |-> 1]

\* Rationals, with a positive denominator.
Rat(n, d) == IF d < 0 THEN [n |-> -n, d |-> -d] ELSE [n |-> n, d |-> d]
Times(a, b) == Rat(a.n * b.n, a.d * b.d)
Over(a, b) == Rat(a.n * b.d, a.d * b.n)
Plus(a, b) == Rat(a.n * b.d + b.n * a.d, a.d * b.d)
Minus(a, b) == Plus(a, Rat(-b.n, b.d))

InBase(q) == Times(Rat(q.value.n, q.value.d), Rat(Unit(q.unit).n, Unit(q.unit).d))
Dimension(q) == Unit(q.unit).dimension

Abs(n) == IF n < 0 THEN -n ELSE n
Sign(n) == IF n < 0 THEN -1 ELSE IF n = 0 THEN 0 ELSE 1
\* QuoRem: the quotient towards zero, the remainder with the sign of n.
Quo(n, d) == Sign(n) * (Abs(n) \div d)
Rem(n, d) == n - Quo(n, d) * d

\* Variant: the remainder is taken to be positive.
RoundUnsigned(x, mode) ==
  LET q == Quo(x.n, x.d)
      r == Abs(Rem(x.n, x.d))
  IN  CASE mode = "exact" -> IF r = 0 THEN {q} ELSE {}
        [] mode = "floor" -> {q}
        [] mode = "ceil" -> {IF r > 0 THEN q + 1 ELSE q}
        [] mode = "nearest_even" -> {IF 2 * r > x.d \/ (2 * r = x.d /\ q % 2 # 0) THEN q + 1 ELSE q}

\* The integer, or nothing where a fraction has to be exact.
RoundRational(x, mode) ==
  LET q == Quo(x.n, x.d)
      r == Rem(x.n, x.d)
  IN  CASE mode = "exact" -> IF r = 0 THEN {q} ELSE {}
        [] mode = "floor" -> {IF r < 0 THEN q - 1 ELSE q}
        [] mode = "ceil" -> {IF r > 0 THEN q + 1 ELSE q}
        [] mode = "nearest_even" ->
             {IF 2 * Abs(r) > x.d \/ (2 * Abs(r) = x.d /\ q % 2 # 0) THEN q + Sign(x.n) ELSE q}

\* The exact value and its dimension, or nothing for an operation that is refused.
Operate(c) ==
  LET a == InBase(c.left) b == InBase(c.right) ad == Dimension(c.left) bd == Dimension(c.right)
      Gives(x, dimension) == {[x |-> x, dimension |-> dimension]}
  IN  CASE c.operation \in {"add", "subtract"} ->
             IF ad # bd THEN {} ELSE Gives(IF c.operation = "add" THEN Plus(a, b) ELSE Minus(a, b), ad)
        [] c.operation = "multiply" ->
             IF "scalar" \notin {ad, bd} THEN {} ELSE Gives(Times(a, b), IF ad = "scalar" THEN bd ELSE ad)
        [] c.operation = "divide" ->
             IF b.n = 0 \/ (ad # bd /\ bd # "scalar") THEN {}
             ELSE Gives(Over(a, b), IF ad = bd THEN "scalar" ELSE ad)

InUnit(x, unit) == Over(x, Rat(Unit(unit).n, Unit(unit).d))
Answers(c) == {done \in Operate(c) : done.dimension = Unit(c.output).dimension}

Calculate(c) ==
  {v \in UNION {RoundRational(InUnit(done.x, c.output), c.rounding) : done \in Answers(c)} :
     v \in (-Limit - 1)..Limit}

Ask(c) == request = <<>> /\ request' = <<c>> /\ result' = Calculate(c)

Requests ==
  [operation : {"add", "subtract", "multiply", "divide"},
   left : [value : Decimals, unit : Units], right : [value : Decimals, unit : Units],
   output : Units, rounding : {"exact", "floor", "ceil", "nearest_even"}]

QuantityInit == request = <<>> /\ result = {}
QuantityNext == \E c \in Requests : Ask(c)
QuantitySpec == QuantityInit /\ [][QuantityNext]_quantityVars

Right(v, x, mode) ==
  CASE mode = "exact" -> v * x.d = x.n
    [] mode = "floor" -> v * x.d <= x.n /\ x.n < (v + 1) * x.d
    [] mode = "ceil" -> (v - 1) * x.d < x.n /\ x.n <= v * x.d
    [] mode = "nearest_even" ->
         /\ 2 * Abs(x.n - v * x.d) <= x.d
         /\ 2 * Abs(x.n - v * x.d) = x.d => v % 2 = 0

\* The answer is the integer the rounding mode asks for: with the exact value
\* of the operation, of either sign, it is below it, above it, nearest to it
\* with ties to even, or equal to it; and there is no answer only when the
\* dimensions do not fit, no integer is exact, or it is out of range
\* (Calculate, roundRational).
RoundsAsAsked ==
  request # <<>> =>
    LET c == request[1]
    IN  result = {v \in (-Limit - 1)..Limit :
                    \E done \in Answers(c) : Right(v, InUnit(done.x, c.output), c.rounding)}
=============================================================================
