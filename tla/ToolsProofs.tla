----------------------------- MODULE ToolsProofs -----------------------------
(***************************************************************************)
(* What holds of the pure algorithms behind the tools for every input:     *)
(* the rounding of calculations, the cron fields, the policy decision and  *)
(* the splitting of a command line into segments; and of the edits of any  *)
(* crontab, by any number of callers.                                      *)
(* A loop is a recursive function here; what it computes is proved by      *)
(* taking the least number on which it and its closed form would differ.   *)
(* An edit of the crontab is proved by where each line goes (Shift).       *)
(* A command line is split as it should be because the parser of the line  *)
(* stands, at each character, where a parser of the current segment alone  *)
(* would stand (Follows), and has written what it has read (Said).         *)
(* The normal form of a segment keeps its words because the tokenizer      *)
(* stands, behind what the normalizer has written, where it would stand    *)
(* behind the text (SameWords); so whatever runs unasked was agreed to.    *)
(***************************************************************************)
EXTENDS Quantity, CronExpression, ShellPolicy, ShellSyntax, SystemCron,
        WellFoundedInduction, FiniteSetTheorems, SequenceTheorems, TLAPS

-----------------------------------------------------------------------------
(* Numbers. *)

\* A set of naturals that is not empty has a least member.
LEMMA Least ==
  ASSUME NEW T \in SUBSET Nat, T # {}
  PROVE  \E m \in T : \A k \in T : m <= k
<1> DEFINE R == {s \in Nat \X Nat : s[1] < s[2]}
<1>1. IsWellFoundedOn(R, Nat)
  BY NatLessThanWellFounded DEF OpToRel
<1>2. \A k, m \in Nat : k < m => <<k, m>> \in R
  OBVIOUS
<1> HIDE DEF R
<1>3. PICK m \in T : \A k \in T : ~ (<<k, m>> \in R)
  BY <1>1, WFMin
<1>4. \A k \in T : ~ (k < m)
  BY <1>2, <1>3
<1> QED
  BY <1>4

\* A set of naturals with a bound has a greatest member.
LEMMA Greatest ==
  ASSUME NEW n \in Nat, NEW T \in SUBSET (0..n), T # {}
  PROVE  Max(T) \in T /\ \A k \in T : k <= Max(T)
<1> DEFINE U == {n - k : k \in T}
<1>1. U \in SUBSET Nat /\ U # {}
  <2>1. \A k \in T : n - k \in Nat
    OBVIOUS
  <2> QED
    BY <2>1
<1>2. PICK m \in U : \A k \in U : m <= k
  <2> HIDE DEF U
  <2> QED
    BY <1>1, Least
<1>3. \A k \in T : n - k \in U
  OBVIOUS
<1>4. PICK t \in T : m = n - t
  OBVIOUS
<1>5. \A k \in T : t >= k
  <2> TAKE k \in T
  <2>1. n - t <= n - k
    BY <1>2, <1>3, <1>4
  <2>2. k \in Nat /\ t \in Nat
    OBVIOUS
  <2> HIDE DEF U
  <2> QED
    BY <2>1, <2>2
<1>6. Max(T) \in T /\ \A k \in T : Max(T) >= k
  BY <1>5 DEF Max
<1>7. T \subseteq Nat
  OBVIOUS
<1> QED
  BY <1>6, <1>7

\* Products of integers with a positive one, as far as their order goes.
LEMMA Multiples ==
  ASSUME NEW a \in Int, NEW b \in Int, NEW d \in Nat \ {0}
  PROVE  /\ a * d \in Int /\ b * d \in Int
         /\ (a + 1) * d = a * d + d /\ (a - 1) * d = a * d - d
         /\ a < b => a * d + d <= b * d
         /\ b < a => b * d + d <= a * d
  OBVIOUS

-----------------------------------------------------------------------------
(* Quantity: the value that is rounded and the one that was asked for. *)

\* The quotient truncates towards zero and the remainder has the sign of the number (big.Int.QuoRem).
LEMMA Quotient ==
  ASSUME NEW n \in Int, NEW d \in Nat \ {0}
  PROVE  /\ Quo(n, d) \in Int /\ Rem(n, d) \in Int
         /\ n = Quo(n, d) * d + Rem(n, d)
         /\ n >= 0 => Rem(n, d) >= 0 /\ Rem(n, d) < d
         /\ n < 0 => Rem(n, d) <= 0 /\ -d < Rem(n, d)
<1>1. \A a \in Nat : a \div d \in Nat /\ d * (a \div d) <= a /\ a < d * (a \div d) + d
  OBVIOUS
<1>2. CASE n > 0
  <2>1. Quo(n, d) = n \div d
    BY <1>1, <1>2 DEF Quo, Sign, Abs
  <2> QED
    BY <1>1, <1>2, <2>1 DEF Rem
<1>3. CASE n = 0
  BY <1>1, <1>3 DEF Quo, Sign, Abs, Rem
<1>4. CASE n < 0
  <2> DEFINE q == (-n) \div d
  <2>1. q \in Nat /\ d * q <= -n /\ -n < d * q + d
    BY <1>1, <1>4
  <2>2. Quo(n, d) = -q
    BY <2>1, <1>4 DEF Quo, Sign, Abs
  <2> HIDE DEF q
  <2>3. (-q) * d = -(d * q)
    BY <2>1
  <2> QED
    BY <1>4, <2>1, <2>2, <2>3 DEF Rem
<1> QED
  BY <1>2, <1>3, <1>4

Modes == {"exact", "floor", "ceil", "nearest_even"}

\* Truncation, moved by one where the mode and the remainder say so, is the integer the mode asks for.
LEMMA Rounded ==
  ASSUME NEW n \in Int, NEW d \in Nat \ {0}, NEW mode \in Modes, NEW v \in Int
  PROVE  v \in RoundRational([n |-> n, d |-> d], mode) <=> Right(v, [n |-> n, d |-> d], mode)
<1> DEFINE q == Quo(n, d)
           r == Rem(n, d)
           V == v * d
           Q == q * d
<1>1. /\ q \in Int /\ r \in Int /\ n = Q + r
      /\ n >= 0 => r >= 0 /\ r < d
      /\ n < 0 => r <= 0 /\ -d < r
  BY Quotient
<1>2. /\ V \in Int /\ Q \in Int
      /\ (v + 1) * d = V + d /\ (v - 1) * d = V - d
      /\ v < q => V + d <= Q
      /\ q < v => Q + d <= V
      /\ v < q - 1 => V + d <= Q - d
      /\ v > q + 1 => Q + d + d <= V
  <2>1. q - 1 \in Int /\ q + 1 \in Int
    BY <1>1
  <2> HIDE DEF q
  <2>2. /\ v < q - 1 => v * d + d <= (q - 1) * d 
        /\ v > q + 1 => (q + 1) * d + d <= v * d
    BY <2>1, Multiples
  <2> QED
    BY <1>1, <2>2, Multiples
<1>5. v = q => V = Q
  OBVIOUS
<1>6. v = q + 1 => V = Q + d
  BY <1>1, Multiples
<1>7. v = q - 1 => V = Q - d
  BY <1>1, Multiples
<1>8. v < q - 1 \/ v = q - 1 \/ v = q \/ v = q + 1 \/ v > q + 1
  BY <1>1
<1>10. Quo([n |-> n, d |-> d].n, [n |-> n, d |-> d].d) = q /\ Rem([n |-> n, d |-> d].n, [n |-> n, d |-> d].d) = r
  OBVIOUS
<1> HIDE DEF q, r, V, Q
<1>11. CASE mode = "exact"
  <2>1. v \in RoundRational([n |-> n, d |-> d], mode) <=> r = 0 /\ v = q
    BY <1>10, <1>11 DEF RoundRational
  <2>2. Right(v, [n |-> n, d |-> d], mode) <=> V = n
    BY <1>11 DEF Right, V
  <2> QED
    BY <1>1, <1>2, <1>5, <1>6, <1>7, <1>8, <2>1, <2>2
<1>12. CASE mode = "floor"
  <2>1. v \in RoundRational([n |-> n, d |-> d], mode) <=> v = IF r < 0 THEN q - 1 ELSE q
    BY <1>10, <1>12 DEF RoundRational
  <2>2. Right(v, [n |-> n, d |-> d], mode) <=> V <= n /\ n < V + d
    BY <1>2, <1>12 DEF Right, V
  <2> QED
    BY <1>1, <1>2, <1>5, <1>6, <1>7, <1>8, <2>1, <2>2
<1>13. CASE mode = "ceil"
  <2>1. v \in RoundRational([n |-> n, d |-> d], mode) <=> v = IF r > 0 THEN q + 1 ELSE q
    BY <1>10, <1>13 DEF RoundRational
  <2>2. Right(v, [n |-> n, d |-> d], mode) <=> V - d < n /\ n <= V
    BY <1>2, <1>13 DEF Right, V
  <2> QED
    BY <1>1, <1>2, <1>5, <1>6, <1>7, <1>8, <2>1, <2>2
<1>14. CASE mode = "nearest_even"
  <2>1. v \in RoundRational([n |-> n, d |-> d], mode) <=>
          v = IF 2 * Abs(r) > d \/ (2 * Abs(r) = d /\ q % 2 # 0) THEN q + Sign(n) ELSE q
    BY <1>10, <1>14 DEF RoundRational
  <2>2. Right(v, [n |-> n, d |-> d], mode) <=>
          /\ 2 * Abs(n - V) <= d
          /\ 2 * Abs(n - V) = d => v % 2 = 0
    BY <1>2, <1>14 DEF Right, V
  <2>3. q % 2 # 0 <=> (q + 1) % 2 = 0
    BY <1>1
  <2>4. q % 2 # 0 <=> (q - 1) % 2 = 0
    BY <1>1
  <2> QED
    BY <1>1, <1>2, <1>5, <1>6, <1>7, <1>8, <2>1, <2>2, <2>3, <2>4 DEF Abs, Sign
<1> QED
  BY <1>11, <1>12, <1>13, <1>14 DEF Modes

Rationals == [n : Int, d : Nat \ {0}]

\* Denominators are positive, of a value, of a factor and of every result.
LEMMA RatIsRational == \A n \in Int, d \in Int \ {0} : Rat(n, d) \in Rationals
  BY DEF Rat, Rationals

\* A unit is a positive multiple of its base.
LEMMA UnitFactor ==
  ASSUME NEW u \in Units
  PROVE  Unit(u).n \in Nat \ {0} /\ Unit(u).d \in Nat \ {0}
  BY QuantityAssumption DEF Unit

\* The four operations stay within the rationals.
LEMMA Arithmetic ==
  ASSUME NEW a \in Rationals, NEW b \in Rationals
  PROVE  /\ Plus(a, b) \in Rationals /\ Minus(a, b) \in Rationals /\ Times(a, b) \in Rationals
         /\ b.n # 0 => Over(a, b) \in Rationals
<1>1. a.n \in Int /\ b.n \in Int /\ a.d \in Nat \ {0} /\ b.d \in Nat \ {0} /\ -b.n \in Int
  BY DEF Rationals
<1>2. /\ a.n * b.n \in Int /\ a.n * b.d \in Int /\ b.n * a.d \in Int /\ (-b.n) * a.d \in Int
      /\ a.d * b.d \in Nat \ {0} /\ a.d * b.n \in Int /\ (b.n # 0 => a.d * b.n # 0)
  BY <1>1
<1>3. Rat(-b.n, b.d) = [n |-> -b.n, d |-> b.d]
  BY <1>1 DEF Rat
<1>4. Plus(a, b) \in Rationals
  BY <1>2, RatIsRational DEF Plus
<1>5. Minus(a, b) \in Rationals
  <2>1. Minus(a, b) = Rat(a.n * b.d + (-b.n) * a.d, a.d * b.d)
    BY <1>3 DEF Minus, Plus
  <2> QED
    BY <1>2, <2>1, RatIsRational
<1>6. Times(a, b) \in Rationals
  BY <1>2, RatIsRational DEF Times
<1>7. b.n # 0 => Over(a, b) \in Rationals
  BY <1>2, RatIsRational DEF Over
<1> QED
  BY <1>4, <1>5, <1>6, <1>7

\* An amount in the base unit is a rational.
LEMMA Amount ==
  ASSUME NEW q \in [value : Decimals, unit : Units]
  PROVE  InBase(q) \in Rationals
<1>1. q.value \in Decimals /\ q.unit \in Units
  OBVIOUS
<1>2. q.value.n \in Int /\ q.value.d \in Nat \ {0}
  BY <1>1, QuantityAssumption
<1> QED
  BY <1>1, <1>2, UnitFactor, RatIsRational, Arithmetic DEF InBase

\* Whatever is calculated has a value that can be rounded.
LEMMA Calculated ==
  ASSUME NEW c \in Requests, NEW done \in Answers(c)
  PROVE  InUnit(done.x, c.output) \in Rationals
<1>1. c.output \in Units /\ InBase(c.left) \in Rationals /\ InBase(c.right) \in Rationals
  BY Amount DEF Requests
<1> DEFINE a == InBase(c.left)
           b == InBase(c.right)
<1>2. c.operation \in {"add", "subtract", "multiply", "divide"}
  BY DEF Requests
<1>3. done \in Operate(c)
  BY DEF Answers
<1>4. \/ done.x \in {Plus(a, b), Minus(a, b), Times(a, b)}
      \/ b.n # 0 /\ done.x = Over(a, b)
  BY <1>2, <1>3 DEF Operate
<1> HIDE DEF a, b
<1>5. done.x \in Rationals
  BY <1>1, <1>4, Arithmetic DEF a, b
<1>6. Rat(Unit(c.output).n, Unit(c.output).d) \in Rationals /\ Rat(Unit(c.output).n, Unit(c.output).d).n # 0
  BY <1>1, UnitFactor DEF Rat, Rationals
<1> QED
  BY <1>5, <1>6, Arithmetic DEF InUnit

\* What Calculate answers, by the reference definition of its rounding.
LEMMA CalculateRounds ==
  ASSUME NEW c \in Requests
  PROVE  Calculate(c) = {v \in (-Limit - 1)..Limit :
                           \E done \in Answers(c) : Right(v, InUnit(done.x, c.output), c.rounding)}
<1>1. ASSUME NEW done \in Answers(c), NEW v \in (-Limit - 1)..Limit
      PROVE  v \in RoundRational(InUnit(done.x, c.output), c.rounding)
               <=> Right(v, InUnit(done.x, c.output), c.rounding)
  <2>1. PICK n \in Int, d \in Nat \ {0} : InUnit(done.x, c.output) = [n |-> n, d |-> d]
    BY Calculated DEF Rationals
  <2>2. c.rounding \in Modes /\ v \in Int
    BY QuantityAssumption DEF Requests, Modes
  <2> QED
    BY <2>1, <2>2, Rounded
<1> QED
  BY <1>1 DEF Calculate

QuantityInv == request = <<>> \/ \E c \in Requests : request = <<c>> /\ result = Calculate(c)

\* Whatever is asked of the calculator, its answer is the integer its rounding
\* mode asks for, or there is none for one of the reasons it may refuse
\* (Calculate, roundRational).
THEOREM RoundingIsRight == QuantitySpec => []RoundsAsAsked
<1>1. QuantityInit => QuantityInv
  BY DEF QuantityInit, QuantityInv
<1>2. QuantityInv /\ [QuantityNext]_quantityVars => QuantityInv'
  BY DEF QuantityInv, QuantityNext, Ask, quantityVars
<1>3. QuantityInv => RoundsAsAsked
  <2> SUFFICES ASSUME NEW c \in Requests, request = <<c>>, result = Calculate(c)
               PROVE  RoundsAsAsked
    BY DEF QuantityInv, RoundsAsAsked
  <2> QED
    BY CalculateRounds DEF RoundsAsAsked
<1> QED
  BY <1>1, <1>2, <1>3, PTL DEF QuantitySpec

-----------------------------------------------------------------------------
(* CronExpression: the two parsers, and the loop over the values. *)

\* Division with remainder, stated for the products it is used with.
LEMMA Division ==
  ASSUME NEW x \in Int, NEW s \in Nat \ {0}
  PROVE  /\ x \div s \in Int /\ x % s \in Int
         /\ x = (x \div s) * s + (x % s) /\ 0 <= x % s /\ x % s < s
  OBVIOUS

\* Subtracting the divisor keeps the remainder, and a positive multiple is no smaller than it.
LEMMA Multiple ==
  ASSUME NEW x \in Int, NEW s \in Nat \ {0}
  PROVE  /\ (x - s) % s = x % s
         /\ x > 0 /\ x % s = 0 => x >= s
<1> DEFINE q == x \div s
           r == x % s
           p == (x - s) \div s
           t == (x - s) % s
<1>1. /\ q \in Int /\ r \in Int /\ x = q * s + r /\ 0 <= r /\ r < s
      /\ p \in Int /\ t \in Int /\ x - s = p * s + t /\ 0 <= t /\ t < s
  BY Division
<1> HIDE DEF q, r, p, t
<1>2. r = t
  <2>1. (q - 1) \in Int /\ (q - 1) * s = q * s - s
    BY <1>1, Multiples
  <2>2. (q - 1) * s \in Int /\ p * s \in Int
        /\ (q - 1 < p => (q - 1) * s + s <= p * s)
        /\ (p < q - 1 => p * s + s <= (q - 1) * s)
    BY <1>1, <2>1, Multiples
  <2>3. q - 1 = p \/ q - 1 < p \/ p < q - 1
    BY <1>1
  <2> QED
    BY <1>1, <2>1, <2>2, <2>3
<1>3. x > 0 /\ r = 0 => x >= s
  <2>1. q * s \in Int /\ 0 * s = 0 /\ (q < 0 => q * s + s <= 0 * s) /\ (0 < q => 0 * s + s <= q * s)
    BY <1>1, Multiples
  <2> QED
    BY <1>1, <2>1
<1> QED
  BY <1>2, <1>3 DEF r, t

\* A function is what the loop in steps of s up to b collects from each number on.
Loops(f, b, s, r) == f = [n \in Int |-> IF n > b THEN {} ELSE Values(n, r) \cup f[Stepped(n, s)]]

\* The loop in steps of s up to b has a meaning, wherever it starts: the numbers it
\* comes by are the least set that it does not leave.
LEMMA LoopExists ==
  ASSUME NEW b \in Int, NEW s \in Nat \ {0}, NEW r
  PROVE  \E f : Loops(f, b, s, r)
<1> DEFINE Closed(S) == \A m \in S : m <= b => Stepped(m, s) \in S
           Within(n, S) == n \in S /\ Closed(S)
           Orbit(n) == {m \in Int : \A S \in SUBSET Int : Within(n, S) => m \in S}
           G(n) == UNION {Values(m, r) : m \in {k \in Orbit(n) : k <= b}}
           g == [n \in Int |-> G(n)]
<1>1. \A n \in Int : Stepped(n, s) \in Int
  BY FieldAssumption DEF Stepped
<1>2. \A n \in Int : Within(n, Orbit(n)) /\ Orbit(n) \in SUBSET Int
  BY <1>1
<1>3. \A n \in Int : n > b => Orbit(n) = {n}
  <2> TAKE n \in Int
  <2> HAVE n > b
  <2>1. Within(n, {n}) /\ {n} \in SUBSET Int
    OBVIOUS
  <2>2. n \in Orbit(n)
    OBVIOUS
  <2> HIDE DEF Within
  <2>3. \A m \in Orbit(n) : m \in {n}
    BY <2>1
  <2> HIDE DEF Orbit
  <2> QED
    BY <2>2, <2>3
<1>4. \A n \in Int : n <= b => Orbit(n) = {n} \cup Orbit(Stepped(n, s))
  <2> SUFFICES ASSUME NEW n \in Int, n <= b PROVE Orbit(n) = {n} \cup Orbit(Stepped(n, s))
    OBVIOUS
  <2> DEFINE t == Stepped(n, s)
             U == {n} \cup Orbit(t)
  <2>1. t \in Int /\ Within(t, Orbit(t)) /\ Orbit(t) \in SUBSET Int
    BY <1>1, <1>2
  <2>2. Within(n, U) /\ U \in SUBSET Int
    <3> HIDE DEF Orbit
    <3> QED
      BY <2>1
  <2>3. Orbit(n) \subseteq U
    <3> HIDE DEF U, Within
    <3> QED
      BY <2>2
  <2>4. \A S \in SUBSET Int : Within(n, S) => Within(t, S)
    OBVIOUS
  <2>5. U \subseteq Orbit(n)
    <3>1. n \in Orbit(n)
      OBVIOUS
    <3>2. Orbit(t) \subseteq Orbit(n)
      <4> HIDE DEF Within, t
      <4> QED
        BY <2>4
    <3> QED
      BY <3>1, <3>2
  <2> QED
    BY <2>3, <2>5
<1>5. \A n \in Int : G(n) = IF n > b THEN {} ELSE Values(n, r) \cup G(Stepped(n, s))
  <2> SUFFICES ASSUME NEW n \in Int PROVE G(n) = IF n > b THEN {} ELSE Values(n, r) \cup G(Stepped(n, s))
    OBVIOUS
  <2> HIDE DEF Orbit
  <2>1. CASE n > b
    BY <1>3, <2>1
  <2>2. CASE n <= b
    BY <1>4, <2>2
  <2> HIDE DEF G
  <2> QED
    BY <2>1, <2>2
<1>6. g = [n \in Int |-> IF n > b THEN {} ELSE Values(n, r) \cup g[Stepped(n, s)]]
  <2> HIDE DEF G
  <2> QED
    BY <1>1, <1>5
<1>7. Loops(g, b, s, r)
  <2> HIDE DEF g
  <2> QED
    BY <1>6 DEF Loops
<1> HIDE DEF g
<1> QED
  BY <1>7

\* What the loop collects first is what its start stands for.
LEMMA CountStart ==
  ASSUME NEW b \in Int, NEW s \in Nat \ {0}, NEW r, NEW lo \in Int, lo <= b
  PROVE  Values(lo, r) \subseteq CountFrom(lo, b, s, r)
<1> DEFINE at == CHOOSE f : Loops(f, b, s, r)
<1>1. Loops(at, b, s, r)
  BY LoopExists
<1>2. CountFrom(lo, b, s, r) = at[lo]
  BY DEF CountFrom, Loops
<1> HIDE DEF at
<1>3. at[lo] = IF lo > b THEN {} ELSE Values(lo, r) \cup at[Stepped(lo, s)]
  BY <1>1 DEF Loops
<1>4. ~ (lo > b)
  OBVIOUS
<1> QED
  BY <1>2, <1>3, <1>4

\* The loop from lo to b in steps of s meets exactly the numbers a multiple of s
\* above lo, unless it wraps around.
LEMMA CountUp ==
  ASSUME NEW b \in Int, NEW s \in Nat \ {0}, b + s <= MaxInt, NEW r, NEW lo \in Nat
  PROVE  CountFrom(lo, b, s, r) = UNION {Values(m, r) : m \in {k \in lo..b : (k - lo) % s = 0}}
<1> DEFINE at == CHOOSE f : Loops(f, b, s, r)
           Hit(n) == {k \in n..b : (k - n) % s = 0}
           G(n) == UNION {Values(m, r) : m \in Hit(n)}
<1>1. ASSUME NEW n \in Nat PROVE G(n) = IF n > b THEN {} ELSE Values(n, r) \cup G(n + s)
  <2>1. CASE n > b
    BY <2>1
  <2>2. CASE n <= b
    <3>1. \A k \in Int : (k - n) % s = (k - (n + s)) % s
      <4>1. \A k \in Int : k - n \in Int /\ k - (n + s) = (k - n) - s
        OBVIOUS
      <4> QED
        BY <4>1, Multiple
    <3>2. \A k \in n..b : (k - n) % s = 0 => k = n \/ k >= n + s
      <4>1. \A k \in n..b : k - n \in Int /\ (k = n \/ k - n > 0) /\ (k - n >= s => k >= n + s)
        OBVIOUS
      <4> QED
        BY <4>1, Multiple
    <3>3. 0 % s = 0 /\ n - n = 0
      OBVIOUS
    <3>4. Hit(n) = {n} \cup Hit(n + s)
      <4>1. \A k \in Hit(n) : k = n \/ k \in Hit(n + s)
        BY <3>1, <3>2
      <4>2. \A k \in Hit(n + s) : k \in n..b /\ k \in Int /\ (k - (n + s)) % s = 0
        OBVIOUS
      <4>3. \A k \in Hit(n + s) : k \in Hit(n)
        <5> TAKE k \in Hit(n + s)
        <5>1. (k - n) % s = 0 /\ k \in n..b
          BY <3>1, <4>2
        <5> QED
          BY <5>1
      <4>4. n \in Hit(n)
        BY <2>2, <3>3
      <4> HIDE DEF Hit
      <4> QED
        BY <4>1, <4>3, <4>4
    <3> HIDE DEF Hit
    <3> QED
      BY <2>2, <3>4
  <2> HIDE DEF G
  <2> QED
    BY <2>1, <2>2
<1>2. \A n \in Nat : n + s \in Nat
  OBVIOUS
<1>3. \A n \in Int : n <= b => Stepped(n, s) = n + s
  BY FieldAssumption DEF Stepped
<1>4. Loops(at, b, s, r)
  BY LoopExists
<1>8. CountFrom(lo, b, s, r) = at[lo]
  BY DEF CountFrom, Loops
<1> HIDE DEF at
<1>5. \A n \in Nat : at[n] = IF n > b THEN {} ELSE Values(n, r) \cup at[n + s]
  <2> TAKE n \in Nat
  <2>1. at[n] = IF n > b THEN {} ELSE Values(n, r) \cup at[Stepped(n, s)]
    <3>1. n \in Int
      OBVIOUS
    <3> QED
      BY <1>4, <3>1 DEF Loops
  <2>2. CASE n > b
    BY <2>1, <2>2
  <2>3. CASE ~(n > b)
    BY <1>3, <2>1, <2>3
  <2> QED
    BY <2>2, <2>3
<1> HIDE DEF G
<1> DEFINE T == {k \in Nat : k <= b /\ at[b - k] # G(b - k)}
<1>6. T = {}
  <2> SUFFICES ASSUME T # {} PROVE FALSE
    OBVIOUS
  <2>1. PICK m \in T : \A k \in T : m <= k
    BY Least
  <2>2. m \in Nat /\ b - m \in Nat /\ at[b - m] # G(b - m) /\ ~(b - m > b)
    BY <2>1
  <2>3. at[b - m] = Values(b - m, r) \cup at[(b - m) + s] /\ G(b - m) = Values(b - m, r) \cup G((b - m) + s)
    BY <1>1, <1>5, <2>2
  <2>4. CASE (b - m) + s > b
    BY <1>1, <1>5, <1>2, <2>2, <2>3, <2>4
  <2>5. CASE (b - m) + s <= b
    <3>1. m - s \in Nat /\ m - s < m /\ b - (m - s) = (b - m) + s /\ m - s <= b
      BY <2>2, <2>5
    <3>2. m - s \notin T
      BY <2>1, <3>1
    <3> QED
      BY <2>2, <2>3, <3>1, <3>2
  <2> QED
    BY <2>2, <2>4, <2>5
<1>7. at[lo] = G(lo)
  <2>1. CASE lo > b
    BY <1>1, <1>5, <2>1
  <2>2. CASE lo <= b
    <3>1. b - lo \in Nat /\ b - (b - lo) = lo /\ b - lo <= b
      BY <2>2
    <3> QED
      BY <1>6, <3>1
  <2> QED
    BY <2>1, <2>2
<1> QED
  BY <1>7, <1>8 DEF G

\* The loop over an item of a field collects the values the item names, and no
\* others unless it wraps around.
LEMMA CountedValues ==
  ASSUME NEW item \in Items, NEW r \in Ranges, StepOk(item), ParseRange(item, r) # <<>>, NEW n
  PROVE  LET named == \E m \in Int : Named(item, r, m) /\ n \in Values(m, r)
         IN  /\ named => n \in Counted(item, r)
             /\ n \in Counted(item, r) => named \/ Overflows(item, r)
<1> DEFINE b == ParseRange(item, r)
           s == StepOf(item)
<1>1. r \in Nat \X Nat /\ r[1] \in Nat /\ r[2] \in Nat /\ MaxInt \in Nat /\ 2 * r[2] < MaxInt
  BY FieldAssumption
<1>2. s \in Nat \ {0}
  BY FieldAssumption DEF StepOf, StepOk, NoStep
<1>3. /\ item.kind \in {"any", "number", "range", "text"} /\ item.low \in Int /\ item.high \in Int
  BY FieldAssumption
<1>4. /\ b[1] \in Nat /\ b[2] \in Nat /\ b[1] <= b[2] /\ b[2] <= r[2]
      /\ b[1] = IF item.kind = "any" THEN r[1] ELSE item.low
      /\ b[2] = IF item.kind = "range" THEN item.high ELSE IF item.kind = "any" THEN r[2] ELSE b[1]
  BY <1>1, <1>3, FieldAssumption DEF ParseRange
<1>5. \A m : Named(item, r, m) <=> m \in b[1]..b[2] /\ (m - b[1]) % s = 0
  BY <1>4 DEF Named
<1>6. Counted(item, r) = CountFrom(b[1], b[2], s, r)
  BY DEF Counted
<1> HIDE DEF b, s
<1>7. CASE ~Overflows(item, r)
  <2>1. b[2] + s <= MaxInt
    <3>1. ~ (s > MaxInt - r[2])
      BY <1>7 DEF Overflows, s
    <3> QED
      BY <1>1, <1>2, <1>4, <3>1
  <2>2. Counted(item, r) = UNION {Values(m, r) : m \in {k \in b[1]..b[2] : (k - b[1]) % s = 0}}
    BY <1>2, <1>4, <1>6, <2>1, CountUp
  <2> QED
    BY <1>4, <1>5, <1>7, <2>2
<1>8. CASE Overflows(item, r)
  <2>1. s > r[2]
    BY <1>1, <1>2, <1>8 DEF Overflows, s
  <2>2. \A m \in Int : Named(item, r, m) => m = b[1]
    <3> SUFFICES ASSUME NEW m \in Int, m \in b[1]..b[2], (m - b[1]) % s = 0 PROVE m = b[1]
      BY <1>5
    <3> DEFINE d == m - b[1]
    <3>1. d \in Int /\ d >= 0 /\ d <= r[2]
      <4>1. b[1] \in Nat /\ b[2] \in Nat /\ b[2] <= r[2] /\ r[2] \in Nat
        BY <1>1, <1>4
      <4>2. m >= b[1] /\ m <= b[2]
        BY <4>1
      <4> QED
        BY <4>1, <4>2
    <3>2. d % s = 0
      OBVIOUS
    <3>3. d > 0 => d >= s
      <4> HIDE DEF d
      <4> QED
        BY <1>2, <3>1, <3>2, Multiple
    <3>4. d = 0
      <4> HIDE DEF d
      <4> QED
        BY <1>1, <1>2, <2>1, <3>1, <3>3
    <3> QED
      BY <1>4, <3>4
  <2>3. Values(b[1], r) \subseteq Counted(item, r)
    BY <1>2, <1>4, <1>6, CountStart
  <2> QED
    BY <1>8, <2>2, <2>3
<1> QED
  BY <1>7, <1>8

FieldInv == range \in Ranges /\ field \in Seq(Items)

\* Both parsers accept the same items.
LEMMA SameItems ==
  ASSUME NEW item \in Items, NEW r \in Ranges
  PROVE  StepOk(item) /\ ParseRange(item, r) # <<>> <=> ValidItem(item, r)
<1>1. r \in Nat \X Nat /\ r[1] \in Nat /\ r[2] \in Nat /\ r # <<>>
  BY FieldAssumption
<1>2. /\ item.kind \in {"any", "number", "range", "text"} /\ item.low \in Int /\ item.high \in Int
      /\ item.step \in Seq(Nat)
  BY FieldAssumption
<1>3. StepOk(item) <=> (item.step # NoStep => item.step[1] > 0)
  BY <1>2 DEF StepOk, NoStep
<1>4. \A a \in Int, c \in Int : <<a, c>> # <<>>
  OBVIOUS
<1>5. ParseRange(item, r) # <<>> <=>
         \/ item.kind = "any"
         \/ item.kind = "range" /\ item.low <= item.high /\ item.low >= r[1] /\ item.high <= r[2]
         \/ item.kind = "number" /\ item.low >= r[1] /\ item.low <= r[2]
  BY <1>1, <1>2, <1>4 DEF ParseRange
<1> QED
  BY <1>3, <1>5 DEF ValidItem

\* A number is matched when it is named, or is the other Sunday.
LEMMA Matched ==
  ASSUME NEW item \in Items, NEW r \in Ranges, StepOk(item), ParseRange(item, r) # <<>>,
         NEW n \in r[1]..(IF r[2] = 7 THEN 6 ELSE r[2])
  PROVE  LET named == Named(item, r, n) \/ (r[2] = 7 /\ n = 0 /\ Named(item, r, 7))
         IN  /\ named => n \in Counted(item, r)
             /\ n \in Counted(item, r) => named \/ Overflows(item, r)
<1>1. r[1] \in Nat /\ r[2] \in Nat
  BY FieldAssumption
<1>2. n \in Int /\ (r[2] = 7 => n # 7)
  BY <1>1
<1>3. \A m \in Int : n \in Values(m, r) <=> n = m \/ (r[2] = 7 /\ m = 7 /\ n = 0)
  BY <1>2 DEF Values
<1>4. LET named == \E m \in Int : Named(item, r, m) /\ n \in Values(m, r)
      IN  /\ named => n \in Counted(item, r)
          /\ n \in Counted(item, r) => named \/ Overflows(item, r)
  BY CountedValues
<1> QED
  BY <1>2, <1>3, <1>4

\* Of every field, of any number of items, the scheduler and the crontab client
\* agree whether it is valid, and the scheduler matches the values its items
\* name (parseCronField, validCronField), and others only where its loop wraps
\* around.
THEOREM ParsersAgree == FieldSpec => []FieldsAgree
<1>1. FieldInit => FieldInv
  BY DEF FieldInit, FieldInv
<1>2. FieldInv /\ [FieldNext]_fieldVars => FieldInv'
  BY DEF FieldInv, FieldNext, WriteItem, fieldVars
<1>3. FieldInv => FieldsAgree
  <2> DEFINE Means(i, n) == Named(field[i], range, n) \/ (range[2] = 7 /\ n = 0 /\ Named(field[i], range, 7))
             Days == range[1]..(IF range[2] = 7 THEN 6 ELSE range[2])
             parsed == ParseField(field, range)
             named(n) == \E i \in 1..Len(field) : Means(i, n)
             loose == \E i \in 1..Len(field) : Overflows(field[i], range)
  <2> SUFFICES ASSUME FieldInv, field # <<>>
               PROVE  /\ parsed.ok = ValidField(field, range)
                      /\ parsed.ok =>
                           \A n \in Days : /\ named(n) => n \in parsed.values
                                           /\ n \in parsed.values => named(n) \/ loose
    BY DEF FieldsAgree
  <2>1. /\ range \in Ranges /\ range[1] \in Nat /\ range[2] \in Nat /\ Len(field) \in Nat
        /\ \A i \in 1..Len(field) : field[i] \in Items
    BY FieldAssumption DEF FieldInv
  <2>2. CASE IsAny(field)
    <3>1. ParseField(field, range).ok = TRUE /\ ParseField(field, range).values = range[1]..range[2]
      BY <2>2 DEF ParseField
    <3>2. ValidField(field, range)
      BY <2>2 DEF ValidField
    <3>3. \A n \in range[1]..range[2] : Named(field[1], range, n)
      <4>1. \A n \in Int : n % 1 = 0
        OBVIOUS
      <4> QED
        BY <2>1, <2>2, <4>1 DEF IsAny, Named, StepOf
    <3>4. \A n \in range[1]..(IF range[2] = 7 THEN 6 ELSE range[2]) : n \in range[1]..range[2]
      BY <2>1
    <3>5. 1 \in 1..Len(field)
      BY <2>2 DEF IsAny
    <3> QED
      BY <3>1, <3>2, <3>3, <3>4, <3>5
  <2>3. CASE ~IsAny(field) /\ \A i \in 1..Len(field) : StepOk(field[i]) /\ ParseRange(field[i], range) # <<>>
    <3>1. /\ ParseField(field, range).ok = TRUE
          /\ ParseField(field, range).values = UNION {Counted(field[i], range) : i \in 1..Len(field)}
      BY <2>3 DEF ParseField
    <3>2. ValidField(field, range)
      BY <2>1, <2>3, SameItems DEF ValidField
    <3>3. \A i \in 1..Len(field) : \A n \in Days :
             /\ Means(i, n) => n \in Counted(field[i], range)
             /\ n \in Counted(field[i], range) => Means(i, n) \/ Overflows(field[i], range)
      BY <2>1, <2>3, Matched
    <3>4. ValidField(field, range) \in BOOLEAN
      BY DEF ValidField, IsAny
    <3>5. \A n : n \in ParseField(field, range).values
                  <=> \E i \in 1..Len(field) : n \in Counted(field[i], range)
      BY <3>1
    <3> QED
      BY <3>1, <3>2, <3>3, <3>4, <3>5
  <2>4. CASE ~IsAny(field) /\ ~ \A i \in 1..Len(field) : StepOk(field[i]) /\ ParseRange(field[i], range) # <<>>
    <3>1. ParseField(field, range).ok = FALSE
      BY <2>4 DEF ParseField
    <3>2. ~ValidField(field, range)
      BY <2>1, <2>4, SameItems DEF ValidField
    <3>3. ValidField(field, range) \in BOOLEAN
      BY DEF ValidField, IsAny
    <3> QED
      BY <3>1, <3>2, <3>3
  <2> QED
    BY <2>2, <2>3, <2>4
<1> QED
  BY <1>1, <1>2, <1>3, PTL DEF FieldSpec

-----------------------------------------------------------------------------
(* ShellPolicy: more effects, no laxer decision. *)

Names == {"read", "unknown", "scripts", "create", "overwrite", "append", "delete",
          "privilege", "service", "packages", "devices", "network", "remote", "cloud",
          "containers", "database", "scheduled", "credentials"}
Four == {"allow", "llm_review", "ask", "deny"}

\* The names of the settings, as a set.
LEMMA SettingNames == Range(Settings) = Names
<1>1. DOMAIN Settings = 1..18
  BY DEF Settings
<1>2. \A n \in 1..18 : Settings[n] \in Names
  BY DEF Settings, Names
<1>3. \A s \in Names : \E n \in 1..18 : Settings[n] = s
  BY DEF Settings, Names
<1> QED
  BY <1>1, <1>2, <1>3 DEF Range

\* The four decisions by strictness.
LEMMA Ranks ==
  /\ Range(Decisions) = Four
  /\ DecisionRank("allow") = 1 /\ DecisionRank("llm_review") = 2
  /\ DecisionRank("ask") = 3 /\ DecisionRank("deny") = 4
<1>1. DOMAIN Decisions = 1..4
  BY DEF Decisions
<1>2. /\ Decisions[1] = "allow" /\ Decisions[2] = "llm_review"
      /\ Decisions[3] = "ask" /\ Decisions[4] = "deny"
  BY DEF Decisions
<1>3. \A i \in 1..4 : i \in {1, 2, 3, 4}
  OBVIOUS
<1>4. Range(Decisions) = Four
  BY <1>1, <1>2, <1>3 DEF Range, Four
<1>5. \A d \in Four : DecisionRank(d) \in 1..4 /\ Decisions[DecisionRank(d)] = d
  BY <1>2 DEF DecisionRank, Four
<1> QED
  BY <1>2, <1>3, <1>4, <1>5 DEF Four

\* The strictest of more decisions is no laxer.
LEMMA StrictestGrows ==
  ASSUME NEW A \in SUBSET Four, NEW B \in SUBSET A, B # {}
  PROVE  Strictest(A) \in Four /\ DecisionRank(Strictest(A)) >= DecisionRank(Strictest(B))
<1>1. \A S \in SUBSET Four : S # {} => \E d \in S : \A e \in S : DecisionRank(e) <= DecisionRank(d)
  <2> TAKE S \in SUBSET Four
  <2>1. \A e \in S : e = "allow" \/ e = "llm_review" \/ e = "ask" \/ e = "deny"
    BY DEF Four
  <2>2. CASE "deny" \in S
    BY <2>1, <2>2, Ranks
  <2>3. CASE "deny" \notin S /\ "ask" \in S
    BY <2>1, <2>3, Ranks
  <2>4. CASE "deny" \notin S /\ "ask" \notin S /\ "llm_review" \in S
    BY <2>1, <2>4, Ranks
  <2>5. CASE "deny" \notin S /\ "ask" \notin S /\ "llm_review" \notin S
    BY <2>1, <2>5, Ranks
  <2> QED
    BY <2>2, <2>3, <2>4, <2>5
<1>2. \A S \in SUBSET Four : S # {} =>
         /\ Strictest(S) \in S
         /\ \A e \in S : DecisionRank(e) <= DecisionRank(Strictest(S))
  BY <1>1 DEF Strictest
<1> QED
  BY <1>2

\* The bundles hold decisions.
LEMMA Rows ==
  ASSUME NEW p \in DOMAIN Segments, NEW n \in 1..18
  PROVE  BundleRow(p)[n] \in Four
<1>1. p \in {"extra_strict", "reasonable", "llm_advisor", "llm_judge", "less_strict", "minimal", "yolo"}
  BY DEF Segments
<1> QED
  BY <1>1 DEF BundleRow, Four

\* A resolved policy decides on every setting and admits at least four segments.
LEMMA Resolved ==
  ASSUME NEW sel \in Selections
  PROVE  /\ \A s \in Names : Resolve(sel).decide[s] \in Four
         /\ Resolve(sel).segments \in Nat /\ Resolve(sel).segments >= 4
<1>1. sel.profile \in DOMAIN Segments
  BY PolicyAssumption
<1> DEFINE b == Bundle(sel.profile)
<1>2. /\ DOMAIN b.decide = Names
      /\ \A s \in Names : b.decide[s] = BundleRow(sel.profile)[CHOOSE n \in 1..18 : Settings[n] = s]
      /\ b.segments = Segments[sel.profile]
      /\ b = [decide |-> b.decide, protects |-> b.protects, segments |-> b.segments]
  BY SettingNames DEF Bundle
<1>3. \A s \in Names : (CHOOSE n \in 1..18 : Settings[n] = s) \in 1..18
  BY SettingNames DEF Settings, Names
<1>4. \A s \in Names : b.decide[s] \in Four
  BY <1>1, <1>2, <1>3, Rows
<1>5. \A s \in DOMAIN sel.overrides : sel.overrides[s] \in Four
  BY PolicyAssumption, Ranks
<1>6. Segments[sel.profile] \in Nat /\ Segments[sel.profile] >= 4
  BY <1>1 DEF Segments
<1> HIDE DEF b
<1>7. /\ Resolve(sel).decide = [s \in Names |-> IF s \in DOMAIN sel.overrides THEN sel.overrides[s] ELSE b.decide[s]]
      /\ Resolve(sel).segments = b.segments
  BY <1>2 DEF Resolve, b
<1> QED
  BY <1>2, <1>4, <1>5, <1>6, <1>7

\* A set of effects the policy decides on.
Decidable(E) == \A e \in E : e.setting \in Names

\* What the effects of the classifier are made of.
LEMMA Kinds ==
  /\ \A s \in Names : \A t : Decidable({Effect(s, t)}) /\ Decidable(Writes(s, t))
  /\ \A S \in SUBSET Names : Decidable(These(S))
  /\ \A E, F : Decidable(E) /\ Decidable(F) => Decidable(E \cup F)
  /\ \A E, F : Decidable(E) => Decidable(E \ F)
  /\ Decidable({})
<1>1. \A s, t : Effect(s, t).setting = s
  BY DEF Effect
<1>2. "unknown" \in Names /\ "devices" \in Names
  BY DEF Names
<1>3. \A s, t : \A e \in Writes(s, t) : e \in {Effect(s, t), Effect("unknown", t), Effect("devices", t)}
  BY DEF Writes
<1> QED
  BY <1>1, <1>2, <1>3 DEF Decidable, These

\* The policy decides on all a program does.
LEMMA ProgramIsDecidable == \A c : Decidable(ProgramEffects(c))
<1> SUFFICES ASSUME NEW c PROVE Decidable(ProgramEffects(c))
  OBVIOUS
<1>1. \A s \in {"read", "unknown", "scripts", "create", "overwrite", "append", "delete", "privilege", "service",
               "packages", "devices", "network", "remote", "cloud", "containers", "database", "scheduled"} :
        s \in Names
  BY DEF Names
<1>2. Decidable(GitEffects(c))
  BY ZenonT(40), Kinds DEF GitEffects, Names
<1>3. Mutation(c) \in Names
  BY DEF Mutation, Names
<1>4. (CASE c.verb = "delete" -> "delete" [] c.verb = "exec" -> "unknown" [] OTHER -> "overwrite") \in Names
  BY <1>1
<1>5. \A P \in BOOLEAN :
         /\ Decidable(These({"containers"} \cup IF P THEN {"delete"} ELSE {}))
         /\ Decidable(These({"network"} \cup IF P THEN {} ELSE {"packages"}))
         /\ Decidable(These({"network"} \cup IF P THEN {} ELSE {"remote"}))
         /\ Decidable(These({"network"} \cup IF P THEN {"read"} ELSE {"cloud", "remote"}))
         /\ Decidable(These({"network"} \cup IF P THEN {"read"} ELSE {"cloud", "remote", "containers"}))
         /\ Decidable(These(IF P THEN {"database", "remote"} ELSE {"unknown"}))
         /\ Decidable(These({"scripts", "unknown"} \cup IF P THEN {"delete"} ELSE {}))
  BY <1>1, Kinds
<1>6. /\ Decidable(These({"read"})) /\ Decidable(These({"unknown"})) /\ Decidable(These({"service"}))
      /\ Decidable(These({"service", "delete"})) /\ Decidable(These({"network", "remote"}))
  BY <1>1, Kinds
<1>7. \A t :
         /\ \A s \in Names : Decidable({Effect(s, t)}) /\ Decidable(Writes(s, t))
         /\ Decidable(Writes("overwrite", t) \ {Effect("devices", t)})
         /\ \A u, s : \A P \in BOOLEAN :
              s \in Names => Decidable(Writes(s, t) \cup IF P THEN {} ELSE {Effect("delete", u)})
         /\ \A P \in BOOLEAN :
              Decidable(These({"network", "remote"}) \cup (IF P THEN {Effect("delete", t)} ELSE {}))
  BY <1>1, <1>6, Kinds
<1> QED
  BY <1>1, <1>2, <1>3, <1>4, <1>5, <1>6, <1>7, Kinds DEF ProgramEffects

Chained == [wrappers : Wrappers, inner : Simple]

PolicyInv == selection \in Selections /\ chain \in Seq(Chained)

\* So it does on all a command does.
LEMMA EffectsAreDecidable ==
  ASSUME NEW c \in Chained
  PROVE  Decidable(Effects(c))
<1>1. \A w : Decidable(WrapperEffects(w))
  BY Kinds DEF WrapperEffects, Names
<1>2. Decidable(RedirectEffects(c.inner.redirect))
  <2>1. c.inner.redirect.mode \in {"none", "read", "append", "write"}
    BY PolicyAssumption DEF Chained
  <2>2. \A t : \A s \in {"read", "credentials", "append", "overwrite", "create"} :
           /\ Decidable({Effect(s, t)}) /\ Decidable(Writes(s, t))
           /\ Decidable(Writes(s, t) \ {Effect("unknown", t)})
    BY Kinds DEF Names
  <2> QED
    BY <2>1, <2>2, Kinds DEF RedirectEffects
<1>3. Decidable(ScriptEffects(c.inner))
  BY <1>2, Kinds DEF ScriptEffects, Names
<1>4. Decidable(ArgumentEffects(c))
  BY Kinds DEF ArgumentEffects, Names
<1>5. Decidable(CommandEffects(c.inner)) /\ Decidable(These({"unknown"}))
  BY Kinds, ProgramIsDecidable DEF CommandEffects, Names
<1>6. \A i : Decidable(LayerEffects(c, i))
  BY <1>1, <1>3, <1>5, Kinds DEF LayerEffects
<1> QED
  BY <1>4, <1>6 DEF Effects, Decidable

\* Behind wrappers that are seen through, a command does what it does by itself.
LEMMA SeenInside ==
  ASSUME NEW c \in Chained, SeenThrough(c.wrappers)
  PROVE  Effects([c EXCEPT !.wrappers = <<>>]) \subseteq Effects(c)
<1> DEFINE b == [c EXCEPT !.wrappers = <<>>]
           n == Len(c.wrappers)
           S == {i \in 1..n : Scripted(c.wrappers[i])}
<1>1. b.wrappers = <<>> /\ b.inner = c.inner /\ Len(b.wrappers) = 0
  BY DEF Chained
<1>2. n \in Nat /\ n <= MaxDepth
  BY PolicyAssumption DEF Chained, SeenThrough
<1>3. Scripts(c.wrappers) \in 0..n
  <2>1. S \in SUBSET (1..n)
    OBVIOUS
  <2>2. Cardinality(S) \in 0..n
    <3> HIDE DEF n, S
    <3>1. IsFiniteSet(1..n) /\ Cardinality(1..n) = n
      BY <1>2, FS_Interval
    <3>2. Cardinality(S) <= Cardinality(1..n) /\ IsFiniteSet(S)
      BY <2>1, <3>1, FS_Subset
    <3>3. Cardinality(S) \in Nat
      BY <3>2, FS_CardinalityType
    <3> QED
      BY <1>2, <3>1, <3>2, <3>3
  <2> QED
    BY <2>2 DEF Scripts
<1>4. Scripts(<<>>) = 0
  <2>1. {i \in 1..Len(<<>>) : Scripted(<<>>[i])} = {}
    OBVIOUS
  <2> QED
    BY <2>1, FS_EmptySet DEF Scripts
<1>5. \A i \in 1..(n + 1) : LayerEffects(c, i) \subseteq Effects(c)
  BY <1>2 DEF Effects, SeenThrough
<1>6. ScriptEffects(c.inner) \subseteq LayerEffects(c, Scripts(c.wrappers) + 1)
  BY <1>2, <1>3 DEF LayerEffects, MaxDepth
<1>7. CommandEffects(c.inner) \subseteq LayerEffects(c, n + 1)
  BY <1>2 DEF LayerEffects, MaxDepth
<1>8. ArgumentEffects(b) \subseteq ArgumentEffects(c) /\ ArgumentEffects(c) \subseteq Effects(c)
  BY <1>1 DEF ArgumentEffects, Effects
<1>9. LayerEffects(b, 1) = ScriptEffects(c.inner) \cup CommandEffects(c.inner)
  BY <1>1, <1>4 DEF LayerEffects, MaxDepth
<1> HIDE DEF b, n, S
<1>10. Scripts(c.wrappers) + 1 \in 1..(n + 1) /\ n + 1 \in 1..(n + 1)
  BY <1>2, <1>3
<1>11. Effects(b) = ArgumentEffects(b) \cup LayerEffects(b, 1)
  <2>1. {i \in 1..(0 + 1) : \A k \in 1..(i - 1) : b.wrappers[k].trusted} = {1}
    OBVIOUS
  <2> QED
    BY <1>1, <2>1 DEF Effects
<1>12. Effects(b) \subseteq Effects(c)
  BY <1>5, <1>6, <1>7, <1>8, <1>9, <1>10, <1>11
<1> QED
  BY <1>12 DEF b

\* Behind others, it is unknown what it does.
LEMMA UnseenInside ==
  ASSUME NEW c \in Chained, ~ SeenThrough(c.wrappers)
  PROVE  These({"unknown"}) \subseteq Effects(c)
<1> DEFINE ws == c.wrappers
           n == Len(ws)
           Away == {i \in 1..n : ~ ws[i].trusted}
           Shows(i) == i \in 1..(n + 1) /\ \A k \in 1..(i - 1) : ws[k].trusted
<1>1. n \in Nat
  BY PolicyAssumption DEF Chained
<1>2. \A i : Shows(i) => LayerEffects(c, i) \subseteq Effects(c)
  BY DEF Effects
<1>3. \A i : i > MaxDepth + 1 => LayerEffects(c, i) = These({"unknown"})
  BY DEF LayerEffects
<1>4. \A i \in Away : i <= MaxDepth + 1 => These({"unknown"}) \subseteq LayerEffects(c, i)
  BY <1>1 DEF LayerEffects, WrapperEffects, MaxDepth
<1>5. n > MaxDepth \/ Away # {}
  BY <1>1 DEF SeenThrough, MaxDepth
<1> HIDE DEF n
<1>6. CASE Away # {}
  <2>1. PICK m \in Away : \A k \in Away : m <= k
    <3>1. Away \in SUBSET Nat
      BY <1>1
    <3> HIDE DEF Away
    <3> QED
      BY <1>6, <3>1, Least
  <2>2. m \in 1..n /\ \A k \in 1..(m - 1) : k \in 1..n /\ k \notin Away
    BY <1>1, <2>1
  <2>3. Shows(m)
    BY <1>1, <2>2
  <2>4. m > MaxDepth + 1 \/ m <= MaxDepth + 1
    BY <1>1, <2>2 DEF MaxDepth
  <2> QED
    BY <1>2, <1>3, <1>4, <2>1, <2>3, <2>4
<1>7. CASE Away = {}
  <2>1. Shows(n + 1) /\ n + 1 > MaxDepth + 1
    BY <1>1, <1>5, <1>7 DEF MaxDepth
  <2> QED
    BY <1>2, <1>3, <2>1
<1> QED
  BY <1>6, <1>7

\* What is decided on an effect is one of the four decisions.
LEMMA Decided ==
  ASSUME NEW sel \in Selections, NEW e, e.setting \in Names
  PROVE  Decide(e, Resolve(sel)) \in Four
<1> DEFINE policy == Resolve(sel)
           ds == {policy.decide[e.setting]}
                   \cup (IF policy.protects /\ IsPersistentMutation(e.setting) /\ IsCritical(e.target)
                         THEN {"ask"} ELSE {})
                   \cup (IF policy.protects /\ IsCredential(e.target) THEN {policy.decide["credentials"]} ELSE {})
<1>1. policy.decide[e.setting] \in Four /\ policy.decide["credentials"] \in Four
  BY Resolved DEF Names
<1>2. ds \in SUBSET Four /\ ds # {}
  BY <1>1 DEF Four
<1>3. Strictest(ds) \in Four
  <2> HIDE DEF ds
  <2> QED
    BY <1>2, StrictestGrows
<1> QED
  BY <1>3 DEF Decide

On(E, policy) == Strictest({"allow"} \cup {Decide(e, policy) : e \in E})

\* The strictest decision on more effects is no laxer.
LEMMA MoreEffects ==
  ASSUME NEW sel \in Selections, NEW E, NEW F, Decidable(F), E \subseteq F
  PROVE  On(F, Resolve(sel)) \in Four /\ DecisionRank(On(F, Resolve(sel))) >= DecisionRank(On(E, Resolve(sel)))
<1> DEFINE A == {"allow"} \cup {Decide(e, Resolve(sel)) : e \in F}
           B == {"allow"} \cup {Decide(e, Resolve(sel)) : e \in E}
<1>1. A \in SUBSET Four
  BY Decided DEF Decidable, Four
<1>2. B \in SUBSET A /\ B # {}
  OBVIOUS
<1>3. Strictest(A) \in Four /\ DecisionRank(Strictest(A)) >= DecisionRank(Strictest(B))
  <2> HIDE DEF A, B
  <2> QED
    BY <1>1, <1>2, StrictestGrows
<1> QED
  BY <1>3 DEF On

\* On an unknown command it is what the policy says of unknown commands, at least.
LEMMA OnUnknown ==
  ASSUME NEW sel \in Selections
  PROVE  LET d == On(These({"unknown"}), Resolve(sel))
         IN  d \in Four /\ DecisionRank(d) >= DecisionRank(Resolve(sel).decide["unknown"])
<1> DEFINE policy == Resolve(sel)
           u == policy.decide["unknown"]
<1>1. u \in Four
  BY Resolved DEF Names
<1> HIDE DEF u
<1>2. Strictest({u}) = u
  BY <1>1, StrictestGrows, Ranks DEF Strictest
<1>3. Decide(Effect("unknown", "none"), policy) = u
  <2>1. ~ IsPersistentMutation("unknown") /\ ~ IsCredential("none")
    BY DEF IsPersistentMutation, IsCredential
  <2>2. Decide(Effect("unknown", "none"), policy) = Strictest({u})
    BY <2>1 DEF Decide, Effect, u
  <2> QED
    BY <1>2, <2>2
<1>4. On(These({"unknown"}), policy) = Strictest({"allow", u})
  <2>1. {"allow"} \cup {Decide(e, policy) : e \in These({"unknown"})} = {"allow", u}
    BY <1>3 DEF These
  <2> QED
    BY <2>1 DEF On
<1>5. Strictest({"allow", u}) \in Four /\ DecisionRank(Strictest({"allow", u})) >= DecisionRank(Strictest({u}))
  BY <1>1, StrictestGrows DEF Four
<1> QED
  BY <1>2, <1>4, <1>5 DEF u

\* A chain is refused, or decided by the strictest decision on its effects.
LEMMA Assessed ==
  ASSUME NEW cmds, NEW policy, NEW F, F = UNION {Effects(cmds[i]) : i \in 1..Len(cmds)}, F # {}
  PROVE  LET refused == Len(cmds) > policy.segments \/ \E i \in 1..Len(cmds) : NestsTooDeep(cmds[i])
         IN  AssessShellCommand(cmds, policy) = IF refused THEN "deny" ELSE On(F, policy)
BY DEF AssessShellCommand, On

\* Of every resolved policy and every chain: putting a command that has effects
\* behind wrappers the classifier looks through, or others around it, is never
\* decided more laxly than the command alone; behind others it is decided as an
\* unknown command at least (classifySyntheticSegment, nestedAfterWrapper,
\* executableNeedsReview, AssessShellCommand).
THEOREM WrappersTightenOnly == PolicySpec => []WrappedIsNoLaxer
<1>1. PolicyInit => PolicyInv
  BY DEF PolicyInit, PolicyInv
<1>2. PolicyInv /\ [PolicyNext]_policyVars => PolicyInv'
  <2>1. \A c \in Simple, w \in Wrappers : [wrappers |-> w, inner |-> c] \in Chained
    BY DEF Chained
  <2>2. ASSUME PolicyInv, NEW c \in Simple, NEW w \in Wrappers, Chain([wrappers |-> w, inner |-> c])
        PROVE  PolicyInv'
    BY <2>1, <2>2 DEF PolicyInv, Chain
  <2>3. PolicyInv /\ UNCHANGED policyVars => PolicyInv'
    BY DEF PolicyInv, policyVars
  <2> QED
    BY <2>2, <2>3 DEF PolicyNext
<1>3. PolicyInv => WrappedIsNoLaxer
  <2> SUFFICES ASSUME PolicyInv, NEW i \in 1..Len(chain)
               PROVE  LET policy == Resolve(selection)
                          decision == AssessShellCommand(chain, policy)
                          alone == [chain[i] EXCEPT !.wrappers = <<>>]
                      IN  IF SeenThrough(chain[i].wrappers)
                          THEN Effects(alone) # {} => NoLaxer(decision, AssessShellCommand(<<alone>>, policy))
                          ELSE NoLaxer(decision, policy.decide["unknown"])
    BY DEF WrappedIsNoLaxer
  <2> DEFINE policy == Resolve(selection)
             decision == AssessShellCommand(chain, policy)
             bare == [chain[i] EXCEPT !.wrappers = <<>>]
             E == Effects(bare)
             F == UNION {Effects(chain[k]) : k \in 1..Len(chain)}
  <2>1. /\ selection \in Selections /\ Len(chain) \in Nat
        /\ \A k \in 1..Len(chain) : chain[k] \in Chained
    BY DEF PolicyInv
  <2>2. Decidable(F) /\ Effects(chain[i]) \subseteq F
    BY <2>1, EffectsAreDecidable DEF Decidable
  <2>3. F # {} => decision \in {"deny", On(F, policy)}
    <3> HIDE DEF policy, F
    <3> QED
      BY Assessed DEF F
  <2>4. \A d \in Four : NoLaxer("deny", d) /\ d \in Four
    BY Ranks DEF Four, NoLaxer
  <2>5. ASSUME NEW G, G # {}, G \subseteq F
        PROVE  /\ On(G, policy) \in Four
               /\ NoLaxer(decision, On(G, policy))
               /\ DecisionRank(decision) \in 1..4
    <3> HIDE DEF policy, F, decision
    <3>1. Decidable(G)
      BY <2>2, <2>5 DEF Decidable
    <3>2. On(G, policy) \in Four /\ On(F, policy) \in Four /\ NoLaxer(On(F, policy), On(G, policy))
      BY <2>1, <2>2, <2>5, <3>1, MoreEffects DEF policy, NoLaxer
    <3>3. decision \in {"deny", On(F, policy)}
      BY <2>3, <2>5
    <3> QED
      BY <2>4, <3>2, <3>3, Ranks DEF Four
  <2>6. CASE SeenThrough(chain[i].wrappers)
    <3>1. E \subseteq F
      BY <2>1, <2>2, <2>6, SeenInside
    <3>2. ASSUME E # {} PROVE AssessShellCommand(<<bare>>, policy) = On(E, policy)
      <4> DEFINE alone == <<bare>>
      <4>1. Len(alone) = 1 /\ alone[1] = bare
        OBVIOUS
      <4>2. ~ (1 > policy.segments)
        BY <2>1, Resolved
      <4>3. ~ NestsTooDeep(bare)
        BY <2>1 DEF NestsTooDeep, MaxDepth, Chained
      <4> HIDE DEF alone, bare, policy
      <4>4. E = UNION {Effects(alone[k]) : k \in 1..Len(alone)}
        BY <4>1
      <4> HIDE DEF E
      <4>5. AssessShellCommand(alone, policy) =
              IF Len(alone) > policy.segments \/ \E k \in 1..Len(alone) : NestsTooDeep(alone[k])
              THEN "deny" ELSE On(E, policy)
        BY <3>2, <4>4, Assessed
      <4> QED
        BY <4>1, <4>2, <4>3, <4>5 DEF alone
    <3>3. E # {} => NoLaxer(decision, On(E, policy))
      <4> HIDE DEF E, F, policy, decision
      <4> QED
        BY <2>5, <3>1
    <3> QED
      BY <2>6, <3>2, <3>3
  <2>7. CASE ~ SeenThrough(chain[i].wrappers)
    <3> DEFINE U == These({"unknown"})
    <3>1. U \subseteq F /\ U # {}
      BY <2>1, <2>2, <2>7, UnseenInside DEF These
    <3>2. NoLaxer(decision, On(U, policy)) /\ DecisionRank(decision) \in 1..4
      <4> HIDE DEF U, F, policy, decision
      <4> QED
        BY <2>5, <3>1
    <3>3. On(U, policy) \in Four /\ NoLaxer(On(U, policy), policy.decide["unknown"])
      BY <2>1, OnUnknown DEF NoLaxer
    <3>4. policy.decide["unknown"] \in Four
      BY <2>1, Resolved DEF Names
    <3>5. NoLaxer(decision, policy.decide["unknown"])
      <4> DEFINE on == On(U, policy)
                 u == policy.decide["unknown"]
      <4>1. DecisionRank(on) \in 1..4 /\ DecisionRank(u) \in 1..4
        <5>1. \A d \in Four : DecisionRank(d) \in 1..4
          BY Ranks DEF Four
        <5> HIDE DEF on, u
        <5> QED
          BY <3>3, <3>4, <5>1 DEF on, u
      <4>2. NoLaxer(decision, on) /\ NoLaxer(on, u)
        BY <3>2, <3>3
      <4> HIDE DEF on, u, decision
      <4>3. NoLaxer(decision, u)
        BY <3>2, <4>1, <4>2 DEF NoLaxer
      <4> QED
        BY <4>3 DEF u
    <3> QED
      BY <2>7, <3>5
  <2> QED
    BY <2>6, <2>7
<1> QED
  BY <1>1, <1>2, <1>3, PTL DEF PolicySpec

-----------------------------------------------------------------------------
(* SystemCron: lines, ids, and the edits of a sequence. *)

\* SplitLines cuts empty lines only.
LEMMA Split ==
  ASSUME NEW c \in Seq(TabLines)
  PROVE  \E k \in 0..Len(c) :
           /\ SplitLines(c) = SubSeq(c, 1, k)
           /\ \A i \in (k + 1)..Len(c) : c[i].kind = "blank"
<1> DEFINE full == {0} \cup {i \in 1..Len(c) : c[i].kind # "blank"}
<1>1. full \in SUBSET (0..Len(c)) /\ full # {} /\ Len(c) \in Nat
  OBVIOUS
<1>2. Max(full) \in full /\ \A i \in full : i <= Max(full)
  <2> HIDE DEF full
  <2> QED
    BY <1>1, Greatest
<1>3. \A i \in (Max(full) + 1)..Len(c) : i \notin full /\ i \in 1..Len(c)
  BY <1>1, <1>2
<1>4. \A i \in 1..Len(c) : i \notin full => c[i].kind = "blank"
  OBVIOUS
<1>5. SplitLines(c) = SubSeq(c, 1, Max(full))
  BY DEF SplitLines
<1> HIDE DEF full
<1> QED
  BY <1>1, <1>2, <1>3, <1>4, <1>5

\* The result is a sequence of lines, cut.
LEMMA SplitIs ==
  ASSUME NEW c \in Seq(TabLines)
  PROVE  /\ SplitLines(c) \in Seq(TabLines) /\ Len(SplitLines(c)) \in 0..Len(c)
         /\ \A i \in 1..Len(SplitLines(c)) : SplitLines(c)[i] = c[i]
         /\ \A i \in (Len(SplitLines(c)) + 1)..Len(c) : c[i].kind = "blank"
<1>1. PICK k \in 0..Len(c) :
           /\ SplitLines(c) = SubSeq(c, 1, k)
           /\ \A i \in (k + 1)..Len(c) : c[i].kind = "blank"
  BY Split
<1> QED
  BY <1>1

\* A tidy table stays tidy.
LEMMA SplitTidy ==
  ASSUME NEW c \in Seq(TabLines), Tidy(c)
  PROVE  Tidy(SplitLines(c))
<1> DEFINE d == SplitLines(c)
<1>1. d \in Seq(TabLines) /\ Len(d) \in 0..Len(c) /\ (\A i \in 1..Len(d) : d[i] = c[i])
        /\ \A i \in (Len(d) + 1)..Len(c) : c[i].kind = "blank"
  BY SplitIs
<1> HIDE DEF d
<1>2. Tidy(d)
  BY <1>1 DEF Tidy
<1> QED
  BY <1>2 DEF d

\* In a tidy table a command has the id of the line above it.
LEMMA IdAbove ==
  ASSUME NEW c \in Seq(TabLines), Tidy(c), NEW i \in 1..Len(c), c[i].kind = "cron"
  PROVE  IdAt(c, i) = IF i > 1 /\ c[i - 1].kind = "meta" THEN c[i - 1].id ELSE NoId
<1> DEFINE above == {j \in 1..(i - 1) : c[j].kind # "comment"}
           m == Max(above)
<1>1. CASE above = {}
  <2>1. i > 1 => c[i - 1].kind = "comment"
    BY <1>1
  <2> QED
    BY <1>1, <2>1 DEF IdAt
<1>2. CASE above # {}
  <2>1. m \in above /\ \A j \in above : j <= m
    <3>1. above \in SUBSET (0..(i - 1)) /\ i - 1 \in Nat
      OBVIOUS
    <3> HIDE DEF above
    <3> QED
      BY <1>2, <3>1, Greatest
  <2>2. IdAt(c, i) = IF c[m].kind = "meta" THEN c[m].id ELSE NoId
    BY <1>2 DEF IdAt
  <2>3. m \in 1..(i - 1) /\ (m < i - 1 => c[i - 1].kind = "comment" /\ c[m + 1].kind = "comment")
    <3>1. \A j \in 1..(i - 1) : j > m => c[j].kind = "comment"
      BY <2>1
    <3> HIDE DEF m
    <3>2. m \in 1..(i - 1)
      BY <2>1
    <3> HIDE DEF above
    <3> QED
      BY <3>1, <3>2
  <2> HIDE DEF m
  <2>4. CASE m = i - 1
    BY <2>2, <2>3, <2>4
  <2>5. CASE m < i - 1
    <3>1. c[m].kind = "meta" => c[m].id = NoId
      BY <2>3, <2>5 DEF Tidy
    <3> QED
      BY <2>2, <2>3, <2>5, <3>1
  <2> QED
    BY <2>3, <2>4, <2>5
<1> QED
  BY <1>1, <1>2

-----------------------------------------------------------------------------
(* The same lines in the same order. *)

\* Of lines of one set, equal rank means the same line.
LEMMA Ranked ==
  ASSUME NEW n \in Nat, NEW Q \in SUBSET (1..n), NEW i \in Q, NEW j \in Q, Rank(i, Q) = Rank(j, Q)
  PROVE  i = j
<1> DEFINE upto(k) == {q \in Q : q <= k}
<1>1. \A k \in Q : IsFiniteSet(upto(k))
  <2>1. IsFiniteSet(1..n)
    BY FS_Interval
  <2> TAKE k \in Q
  <2>2. upto(k) \in SUBSET (1..n)
    OBVIOUS
  <2> HIDE DEF upto
  <2> QED
    BY <2>1, <2>2, FS_Subset
<1>2. ASSUME NEW k \in Q, NEW m \in Q, k < m, Rank(k, Q) = Rank(m, Q)
      PROVE  FALSE
  <2> DEFINE A == upto(k)
             B == upto(m)
  <2>1. A \in SUBSET B /\ m \in B /\ m \notin A
    <3>1. Q \subseteq Nat
      OBVIOUS
    <3>2. \A q \in Nat : q <= k => q <= m
      BY <1>2, <3>1
    <3>3. ~ (m <= k) /\ m <= m
      BY <1>2, <3>1
    <3> QED
      BY <3>1, <3>2, <3>3
  <2>2. Cardinality(A) = Cardinality(B) /\ IsFiniteSet(B)
    BY <1>1, <1>2 DEF Rank
  <2> HIDE DEF A, B
  <2> QED
    BY <2>1, <2>2, FS_Subset
<1>3. ~ (i < j) /\ ~ (j < i)
  BY <1>2
<1> QED
  BY <1>3

\* The lines of R and those of Q correspond, in order.
Aligned(f, R, Q) ==
  /\ f \in [R -> Q]
  /\ \A j \in Q : \E i \in R : f[i] = j
  /\ \A i, j \in R : i < j => f[i] < f[j]

ByRank(f, R, Q) == \A i \in R, j \in Q : Rank(i, R) = Rank(j, Q) => j = f[i]

\* Lines that correspond have the same rank.
LEMMA SameOrder ==
  ASSUME NEW n \in Nat, NEW R \in SUBSET (1..n), NEW m \in Nat, NEW Q \in SUBSET (1..m),
         NEW f, Aligned(f, R, Q)
  PROVE  Cardinality(R) = Cardinality(Q) /\ ByRank(f, R, Q)
<1> USE DEF Aligned
<1>1. IsFiniteSet(1..n)
  BY FS_Interval
<1>2. \A i, j \in R : f[i] = f[j] => i = j
  <2> SUFFICES ASSUME NEW i \in R, NEW j \in R, f[i] = f[j], i # j
               PROVE  FALSE
    OBVIOUS
  <2>1. i \in Nat /\ j \in Nat /\ f[i] \in Nat /\ f[j] \in Nat
    <3>1. f[i] \in Q /\ f[j] \in Q
      OBVIOUS
    <3>2. R \subseteq Nat /\ Q \subseteq Nat
      OBVIOUS
    <3> QED
      BY <3>1, <3>2
  <2>2. i < j \/ j < i
    BY <2>1
  <2>3. f[i] < f[j] \/ f[j] < f[i]
    BY <2>2
  <2> QED
    BY <2>1, <2>3
<1>3. f \in Bijection(R, Q)
  <2>1. f \in Injection(R, Q)
    BY <1>2 DEF Injection, IsInjective
  <2>2. f \in Surjection(R, Q)
    BY DEF Surjection
  <2> QED
    BY <2>1, <2>2 DEF Bijection
<1>4. Cardinality(R) = Cardinality(Q)
  BY <1>1, <1>3, FS_Subset, FS_Bijection DEF ExistsBijection
<1>5. ASSUME NEW i \in R
      PROVE  Rank(i, R) = Rank(f[i], Q)
  <2> DEFINE A == {k \in R : k <= i}
             B == {k \in Q : k <= f[i]}
             g == [k \in A |-> f[k]]
  <2>1. \A k \in R : k <= i <=> f[k] <= f[i]
    <3> TAKE k \in R
    <3>1. i \in Nat /\ k \in Nat /\ f[i] \in Nat /\ f[k] \in Nat
      <4>1. f[i] \in Q /\ f[k] \in Q
        OBVIOUS
      <4>2. R \subseteq Nat /\ Q \subseteq Nat
        OBVIOUS
      <4> QED
        BY <4>1, <4>2
    <3>2. (k < i => f[k] < f[i]) /\ (i < k => f[i] < f[k]) /\ (i = k => f[i] = f[k])
      OBVIOUS
    <3> QED
      BY <3>1, <3>2
  <2>2. g \in [A -> B]
    BY <2>1
  <2>3. \A b \in B : \E a \in A : g[a] = b
    BY <2>1
  <2>4. \A a, b \in A : g[a] = g[b] => a = b
    BY <1>2
  <2>5. A \in SUBSET (1..n)
    OBVIOUS
  <2>6. Rank(i, R) = Cardinality(A) /\ Rank(f[i], Q) = Cardinality(B)
    BY DEF Rank
  <2> HIDE DEF A, B, g
  <2>7. g \in Bijection(A, B)
    <3>1. g \in Injection(A, B)
      BY <2>2, <2>4 DEF Injection, IsInjective
    <3>2. g \in Surjection(A, B)
      BY <2>2, <2>3 DEF Surjection
    <3> QED
      BY <3>1, <3>2 DEF Bijection
  <2>8. IsFiniteSet(A)
    BY <1>1, <2>5, FS_Subset
  <2> QED
    BY <2>6, <2>7, <2>8, FS_Bijection DEF ExistsBijection
<1>6. \A i \in R, j \in Q : Rank(i, R) = Rank(j, Q) => j = f[i]
  <2> SUFFICES ASSUME NEW i \in R, NEW j \in Q, Rank(i, R) = Rank(j, Q)
               PROVE  j = f[i]
    OBVIOUS
  <2>1. Rank(f[i], Q) = Rank(j, Q) /\ f[i] \in Q
    BY <1>5
  <2> QED
    BY <2>1, Ranked
<1> QED
  BY <1>4, <1>6 DEF ByRank

-----------------------------------------------------------------------------
(* SystemCron: what an edit leaves. *)

\* Lines after the first a up to line b are cut out.
CutOut(c, a, b) == SubSeq(c, 1, a) \o SubSeq(c, b + 1, Len(c))

\* Two tables, one after the other.
LEMMA Concatenated ==
  ASSUME NEW s \in Seq(TabLines), NEW t \in Seq(TabLines)
  PROVE  s \o t \in Seq(TabLines) /\ Len(s \o t) = Len(s) + Len(t)
OBVIOUS

\* What is left keeps its order and moves up.
LEMMA CutOutIs ==
  ASSUME NEW c \in Seq(TabLines), NEW b \in 1..Len(c), NEW a \in 0..b
  PROVE  /\ CutOut(c, a, b) \in Seq(TabLines)
         /\ Len(CutOut(c, a, b)) = Len(c) - (b - a)
         /\ \A i \in 1..Len(CutOut(c, a, b)) :
              CutOut(c, a, b)[i] = c[IF i <= a THEN i ELSE i + (b - a)]
<1> DEFINE s == SubSeq(c, 1, a)
           t == SubSeq(c, b + 1, Len(c))
<1>1. s \in Seq(TabLines) /\ Len(s) = a /\ \A i \in 1..a : s[i] = c[i]
  OBVIOUS
<1>2. t \in Seq(TabLines) /\ Len(t) = Len(c) - b /\ \A i \in 1..(Len(c) - b) : t[i] = c[b + i]
  OBVIOUS
<1>3. CutOut(c, a, b) = s \o t
  BY DEF CutOut
<1> HIDE DEF s, t
<1>4. CutOut(c, a, b) \in Seq(TabLines) /\ Len(CutOut(c, a, b)) = Len(c) - (b - a)
  <2>1. s \o t \in Seq(TabLines) /\ Len(s \o t) = Len(s) + Len(t)
    BY <1>1, <1>2, Concatenated
  <2>2. Len(c) \in Nat
    OBVIOUS
  <2> QED
    BY <1>1, <1>2, <1>3, <2>1, <2>2
<1>5. ASSUME NEW i \in 1..Len(CutOut(c, a, b))
      PROVE  CutOut(c, a, b)[i] = c[IF i <= a THEN i ELSE i + (b - a)]
  <2>1. i \in 1..(Len(c) - (b - a)) /\ Len(c) \in Nat
    BY <1>4
  <2>2. (s \o t)[i] = IF i <= a THEN s[i] ELSE t[i - a]
    BY <1>1, <1>2, <2>1
  <2>3. CASE i <= a
    BY <1>1, <1>3, <2>1, <2>2, <2>3
  <2>4. CASE i > a
    <3>1. i - a \in 1..(Len(c) - b) /\ b + (i - a) = i + (b - a)
      BY <2>1, <2>4
    <3> QED
      <4>1. ~ (i <= a) /\ t[i - a] = c[b + (i - a)]
        BY <1>2, <2>1, <2>4, <3>1
      <4>2. CutOut(c, a, b)[i] = c[i + (b - a)]
        BY <1>3, <2>2, <3>1, <4>1
      <4> QED
        BY <4>1, <4>2
  <2> QED
    BY <2>1, <2>3, <2>4
<1> QED
  BY <1>4, <1>5

\* It stays tidy when the last line before the cut names no id.
LEMMA CutOutTidy ==
  ASSUME NEW c \in Seq(TabLines), Tidy(c), NEW b \in 1..Len(c), NEW a \in 0..b,
         a > 0 => c[a].kind # "meta" \/ c[a].id = NoId
  PROVE  Tidy(CutOut(c, a, b))
<1> DEFINE d == CutOut(c, a, b)
<1>1. d \in Seq(TabLines) /\ Len(d) = Len(c) - (b - a)
        /\ \A i \in 1..Len(d) : d[i] = c[IF i <= a THEN i ELSE i + (b - a)]
  BY CutOutIs
<1> HIDE DEF d
<1>2. ASSUME NEW i \in 1..Len(d), d[i].kind = "meta", d[i].id # NoId
      PROVE  i < Len(d) /\ d[i + 1].kind = "cron"
  <2>0. Len(c) \in Nat
    OBVIOUS
  <2>1. CASE i < a
    <3>1. c[i].kind = "meta" /\ c[i].id # NoId /\ i \in 1..Len(c)
      BY <1>1, <1>2, <2>0, <2>1
    <3>2. c[i + 1].kind = "cron"
      BY <3>1 DEF Tidy
    <3>3. i + 1 \in 1..Len(d) /\ i + 1 <= a
      BY <1>1, <2>0, <2>1
    <3> QED
      BY <1>1, <3>2, <3>3
  <2>2. CASE i = a
    BY <1>1, <1>2, <2>0, <2>2
  <2>3. CASE i > a
    <3> DEFINE k == i + (b - a)
    <3>0. d[i] = c[k]
      BY <1>1, <2>0, <2>3
    <3>1. c[k].kind = "meta" /\ c[k].id # NoId
      BY <1>2, <3>0
    <3>2. k \in 1..Len(c)
      BY <1>1, <2>0, <2>3
    <3>3. k < Len(c) /\ c[k + 1].kind = "cron"
      BY <3>1, <3>2 DEF Tidy
    <3>4. i + 1 \in 1..Len(d) /\ i + 1 > a /\ (i + 1) + (b - a) = k + 1
      BY <1>1, <2>0, <2>3, <3>3
    <3>5. d[i + 1] = c[k + 1]
      BY <1>1, <3>4
    <3> QED
      BY <3>3, <3>4, <3>5
  <2> QED
    BY <2>0, <2>1, <2>2, <2>3
<1>3. Tidy(d)
  BY <1>2 DEF Tidy
<1> QED
  BY <1>3 DEF d

\* Where line i goes when the d lines up to l are cut out, and the lines that go.
Shift(i, l, d) == IF i < l THEN i ELSE i - d
Stays(i, l, d) == i # l /\ (d = 2 => i # l - 1)

\* An edit at command l: the rest of the lines stays, but for blank ones at the end.
Edited(old, l, d, new, n) ==
  /\ \A i \in 1..Len(old) : Stays(i, l, d) =>
       IF Shift(i, l, d) <= Len(new) THEN new[Shift(i, l, d)] = old[i] ELSE old[i].kind = "blank"
  /\ \A j \in 1..Len(new) : j # n =>
       \E i \in 1..Len(old) : Stays(i, l, d) /\ Shift(i, l, d) = j
  /\ IF d = 0 THEN n = l /\ n <= Len(new) /\ new[n].kind = "cron" ELSE n = 0
  /\ d = 1 /\ l > 1 => old[l - 1].kind # "meta" \/ old[l - 1].id = NoId
  /\ d = 2 => l > 1 /\ old[l - 1].kind = "meta"

\* The ids of the other commands stay too.
LEMMA EditKeepsIds ==
  ASSUME NEW old \in Seq(TabLines), Tidy(old), NEW new \in Seq(TabLines), Tidy(new),
         NEW l \in 1..Len(old), old[l].kind = "cron", NEW d \in {0, 1, 2}, NEW n \in 0..Len(new),
         Edited(old, l, d, new, n),
         NEW i \in 1..Len(old), i # l, old[i].kind = "cron"
  PROVE  IdAt(new, Shift(i, l, d)) = IdAt(old, i)
<1> DEFINE j == Shift(i, l, d)
<1> SUFFICES IdAt(new, j) = IdAt(old, i)
  OBVIOUS
<1>0. Len(old) \in Nat /\ Len(new) \in Nat
  OBVIOUS
<1>1. Stays(i, l, d) /\ j \in 1..Len(new) /\ new[j] = old[i]
  <2>1. Stays(i, l, d)
    BY DEF Edited, Stays
  <2>2. j <= Len(new) /\ new[j] = old[i]
    BY <2>1 DEF Edited
  <2>3. j >= 1 /\ j \in Int
    BY <1>0 DEF Edited, Shift
  <2> QED
    BY <1>0, <2>1, <2>2, <2>3
<1>2. IdAt(old, i) = IF i > 1 /\ old[i - 1].kind = "meta" THEN old[i - 1].id ELSE NoId
  BY IdAbove
<1>3. IdAt(new, j) = IF j > 1 /\ new[j - 1].kind = "meta" THEN new[j - 1].id ELSE NoId
  <2> HIDE DEF j
  <2> QED
    BY <1>1, IdAbove
<1>4. CASE i = 1
  BY <1>0, <1>2, <1>3, <1>4 DEF Shift
<1>5. CASE i > 1 /\ Stays(i - 1, l, d)
  <2>1. i - 1 \in 1..Len(old)
    BY <1>0, <1>5
  <2>2. Shift(i - 1, l, d) = j - 1
    BY <1>0, <1>5 DEF Stays, Shift
  <2>3. j - 1 >= 1
    BY <1>0, <1>5, <2>2 DEF Stays, Shift, Edited
  <2>4. j - 1 <= Len(new)
    BY <1>0, <1>1
  <2>5. new[j - 1] = old[i - 1]
    BY <1>5, <2>1, <2>2, <2>4 DEF Edited
  <2> HIDE DEF j
  <2>6. j > 1
    BY <1>1, <2>3
  <2> QED
    BY <1>2, <1>3, <1>5, <2>5, <2>6
<1>6. CASE i = l + 1
  <2>1. IdAt(old, i) = NoId
    BY <1>0, <1>2, <1>6
  <2>2. CASE d = 0
    <3>1. j = l + 1 /\ new[l].kind = "cron"
      BY <1>0, <1>6, <2>2 DEF Shift, Edited
    <3> HIDE DEF j
    <3> QED
      BY <1>0, <1>3, <2>1, <3>1
  <2>3. CASE d = 1
    <3>1. j = l
      BY <1>0, <1>6, <2>3 DEF Shift
    <3>2. l > 1 => new[l - 1] = old[l - 1]
      <4> SUFFICES ASSUME l > 1 PROVE new[l - 1] = old[l - 1]
        OBVIOUS
      <4>1. l - 1 \in 1..Len(old) /\ Stays(l - 1, l, d) /\ Shift(l - 1, l, d) = l - 1
        BY <1>0, <2>3 DEF Stays, Shift
      <4>2. l - 1 <= Len(new)
        BY <1>0, <1>1, <3>1
      <4> QED
        BY <4>1, <4>2 DEF Edited
    <3>3. l > 1 => old[l - 1].kind # "meta" \/ old[l - 1].id = NoId
      BY <2>3 DEF Edited
    <3> HIDE DEF j
    <3> QED
      BY <1>3, <2>1, <3>1, <3>2, <3>3
  <2>4. CASE d = 2
    <3>1. j = l - 1 /\ l > 1 /\ old[l - 1].kind = "meta"
      BY <1>0, <1>6, <2>4 DEF Shift, Edited
    <3>2. l > 2 => new[l - 2] = old[l - 2]
      <4> SUFFICES ASSUME l > 2 PROVE new[l - 2] = old[l - 2]
        OBVIOUS
      <4>1. l - 2 \in 1..Len(old) /\ Stays(l - 2, l, d) /\ Shift(l - 2, l, d) = l - 2
        BY <1>0, <2>4 DEF Stays, Shift
      <4>2. l - 2 <= Len(new)
        BY <1>0, <1>1, <3>1
      <4> QED
        BY <4>1, <4>2 DEF Edited
    <3>3. l > 2 => old[l - 2].kind # "meta" \/ old[l - 2].id = NoId
      <4> SUFFICES ASSUME l > 2, old[l - 2].kind = "meta", old[l - 2].id # NoId PROVE FALSE
        OBVIOUS
      <4>1. l - 2 \in 1..Len(old)
        BY <1>0
      <4>2. old[(l - 2) + 1].kind = "cron"
        BY <4>1 DEF Tidy
      <4>3. (l - 2) + 1 = l - 1
        BY <1>0
      <4> QED
        BY <3>1, <4>2, <4>3
    <3>4. j > 1 => l > 2 /\ j - 1 = l - 2
      BY <1>0, <3>1
    <3> HIDE DEF j
    <3> QED
      BY <1>3, <2>1, <3>2, <3>3, <3>4
  <2> QED
    BY <2>2, <2>3, <2>4
<1>7. i = 1 \/ (i > 1 /\ Stays(i - 1, l, d)) \/ i = l + 1
  BY <1>0, <1>1 DEF Stays
<1> QED
  BY <1>4, <1>5, <1>6, <1>7

\* The rest is the same.
LEMMA EditKeepsRest ==
  ASSUME NEW old \in Seq(TabLines), Tidy(old), NEW new \in Seq(TabLines), Tidy(new),
         NEW l \in 1..Len(old), old[l].kind = "cron", NEW d \in {0, 1, 2}, NEW n \in 0..Len(new),
         Edited(old, l, d, new, n)
  PROVE  SameRest(old, l, new, n)
<1> DEFINE R == Rest(old, l)
           Q == Rest(new, n)
           f == [i \in R |-> Shift(i, l, d)]
<1>0. Len(old) \in Nat /\ Len(new) \in Nat /\ l \in Nat
  OBVIOUS
<1>1. R \in SUBSET (1..Len(old)) /\ Q \in SUBSET (1..Len(new))
  BY DEF Rest
<1>2. ASSUME NEW i \in R
      PROVE  /\ Stays(i, l, d) /\ Shift(i, l, d) \in Q
             /\ new[Shift(i, l, d)] = old[i]
  <2>1. i \in 1..Len(old) /\ i # l /\ old[i].kind # "meta" /\ old[i].kind # "blank"
    BY DEF Rest
  <2>2. Stays(i, l, d)
    BY <2>1 DEF Stays, Edited
  <2>3. Shift(i, l, d) <= Len(new) /\ new[Shift(i, l, d)] = old[i]
    BY <2>1, <2>2 DEF Edited
  <2>4. Shift(i, l, d) \in 1..Len(new)
    BY <1>0, <2>1, <2>2, <2>3 DEF Shift, Edited
  <2>5. Shift(i, l, d) # n
    BY <1>0, <2>1, <2>4 DEF Edited, Shift
  <2> QED
    BY <2>1, <2>2, <2>3, <2>4, <2>5 DEF Rest
<1>3. f \in [R -> Q]
  BY <1>2
<1>4. ASSUME NEW j \in Q
      PROVE  \E i \in R : f[i] = j
  <2>1. j \in 1..Len(new) /\ j # n /\ new[j].kind # "meta" /\ new[j].kind # "blank"
    BY DEF Rest
  <2>2. PICK i \in 1..Len(old) : Stays(i, l, d) /\ Shift(i, l, d) = j
    BY <2>1 DEF Edited
  <2>3. new[j] = old[i]
    BY <1>0, <2>1, <2>2 DEF Edited
  <2>4. i \in R
    BY <2>1, <2>2, <2>3 DEF Rest, Stays
  <2> QED
    BY <2>2, <2>4
<1>5. ASSUME NEW i \in R, NEW j \in R, i < j
      PROVE  f[i] < f[j]
  <2>1. i \in Nat /\ j \in Nat
    BY <1>1
  <2>2. Stays(i, l, d) /\ Stays(j, l, d)
    BY <1>2
  <2>3. Shift(i, l, d) < Shift(j, l, d)
    BY <1>0, <1>5, <2>1, <2>2 DEF Stays, Shift
  <2> QED
    BY <2>3
<1>6. ASSUME NEW i \in R
      PROVE  Says(old, i) = Says(new, f[i])
  <2>1. old[i].kind = "cron" => IdAt(new, Shift(i, l, d)) = IdAt(old, i)
    BY <1>1, <1>2, EditKeepsIds DEF Stays
  <2> QED
    BY <1>2, <2>1 DEF Says
<1>7. Cardinality(R) = Cardinality(Q) /\ ByRank(f, R, Q)
  <2>1. Aligned(f, R, Q)
    BY <1>3, <1>4, <1>5 DEF Aligned
  <2> HIDE DEF R, Q, f
  <2> QED
    BY <1>0, <1>1, <2>1, SameOrder
<1>8. \A i \in R, j \in Q : Rank(i, R) = Rank(j, Q) => Says(old, i) = Says(new, j)
  <2> HIDE DEF R, Q, f
  <2> QED
    BY <1>6, <1>7 DEF ByRank
<1> QED
  BY <1>7, <1>8 DEF SameRest

\* Cutting out a command, with the line above when it names the command.
LEMMA CutKeeps ==
  ASSUME NEW old \in Seq(TabLines), Tidy(old), NEW l \in 1..Len(old), old[l].kind = "cron",
         NEW d \in {1, 2},
         d = 1 /\ l > 1 => old[l - 1].kind # "meta" \/ old[l - 1].id = NoId,
         d = 2 => l > 1 /\ old[l - 1].kind = "meta"
  PROVE  LET new == SplitLines(CutOut(SplitLines(old), l - d, l))
         IN  new \in Seq(TabLines) /\ Tidy(new) /\ SameRest(old, l, new, 0)
<1> DEFINE s == SplitLines(old)
           r == CutOut(s, l - d, l)
           new == SplitLines(r)
<1>0. Len(old) \in Nat /\ l \in Nat
  OBVIOUS
<1>1. s \in Seq(TabLines) /\ Len(s) \in 0..Len(old) /\ Tidy(s)
        /\ (\A i \in 1..Len(s) : s[i] = old[i])
        /\ \A i \in (Len(s) + 1)..Len(old) : old[i].kind = "blank"
  BY SplitIs, SplitTidy
<1> HIDE DEF s
<1>2. l \in 1..Len(s)
  BY <1>0, <1>1
<1>3. l - d \in 0..l
  BY <1>0
<1>4. l - d > 0 => s[l - d].kind # "meta" \/ s[l - d].id = NoId
  <2> SUFFICES ASSUME l - d > 0 PROVE s[l - d].kind # "meta" \/ s[l - d].id = NoId
    OBVIOUS
  <2>1. l - d \in 1..Len(s) /\ s[l - d] = old[l - d] /\ l - d \in 1..Len(old)
    BY <1>0, <1>1, <1>2
  <2>2. CASE d = 1
    <3>1. l > 1 /\ l - d = l - 1
      BY <1>0, <2>2
    <3>2. old[l - 1].kind # "meta" \/ old[l - 1].id = NoId
      BY <2>2, <3>1
    <3> QED
      BY <2>1, <3>1, <3>2
  <2>3. CASE d = 2
    <3>1. old[l - 2].kind = "meta" /\ old[l - 2].id # NoId => old[(l - 2) + 1].kind = "cron"
      BY <2>1, <2>3 DEF Tidy
    <3>2. (l - 2) + 1 = l - 1
      BY <1>0
    <3> QED
      BY <2>1, <2>3, <3>1, <3>2
  <2> QED
    BY <2>2, <2>3
<1>5. r \in Seq(TabLines) /\ Len(r) = Len(s) - d /\ Tidy(r)
        /\ \A i \in 1..Len(r) : r[i] = s[IF i <= l - d THEN i ELSE i + d]
  <2> DEFINE a == l - d
  <2>1. l - a = d /\ a \in 0..l
    BY <1>0, <1>3
  <2>2. CutOut(s, a, l) \in Seq(TabLines) /\ Len(CutOut(s, a, l)) = Len(s) - (l - a)
          /\ \A i \in 1..Len(CutOut(s, a, l)) : CutOut(s, a, l)[i] = s[IF i <= a THEN i ELSE i + (l - a)]
    <3> HIDE DEF a
    <3> QED
      BY <1>1, <1>2, <2>1, CutOutIs
  <2>3. Tidy(CutOut(s, a, l))
    <3>1. a > 0 => s[a].kind # "meta" \/ s[a].id = NoId
      BY <1>4
    <3> HIDE DEF a
    <3> QED
      BY <1>1, <1>2, <2>1, <3>1, CutOutTidy
  <2> QED
    BY <2>1, <2>2, <2>3
<1> HIDE DEF r
<1>6. new \in Seq(TabLines) /\ Len(new) \in 0..Len(r) /\ Tidy(new)
        /\ (\A i \in 1..Len(new) : new[i] = r[i])
        /\ \A i \in (Len(new) + 1)..Len(r) : r[i].kind = "blank"
  BY <1>5, SplitIs, SplitTidy
<1> HIDE DEF new
<1>7. Len(s) \in Nat /\ Len(r) \in Nat /\ Len(new) \in Nat
  BY <1>1, <1>5, <1>6
<1>8. ASSUME NEW i \in 1..Len(old), Stays(i, l, d)
      PROVE  IF Shift(i, l, d) <= Len(new) THEN new[Shift(i, l, d)] = old[i] ELSE old[i].kind = "blank"
  <2> DEFINE k == Shift(i, l, d)
  <2>1. k \in Int /\ k >= 1 /\ (k <= l - d => k = i) /\ (k > l - d => k + d = i)
    BY <1>0, <1>8 DEF Shift, Stays
  <2> HIDE DEF k
  <2>2. k <= Len(r) => r[k] = s[i] /\ i \in 1..Len(s)
    <3> SUFFICES ASSUME k <= Len(r) PROVE r[k] = s[i] /\ i \in 1..Len(s)
      OBVIOUS
    <3>1. k \in 1..Len(r)
      BY <1>7, <2>1
    <3>2. r[k] = s[IF k <= l - d THEN k ELSE k + d]
      BY <1>5, <3>1
    <3>3. i = IF k <= l - d THEN k ELSE k + d
      BY <1>0, <2>1
    <3>4. i <= Len(s)
      BY <1>0, <1>2, <1>5, <1>7, <3>1, <3>3
    <3> QED
      BY <1>7, <3>2, <3>3, <3>4
  <2>3. k > Len(r) => i > Len(s)
    BY <1>0, <1>2, <1>5, <1>7, <2>1
  <2>4. CASE k <= Len(new)
    <3>1. k \in 1..Len(new) /\ k <= Len(r)
      BY <1>6, <1>7, <2>1, <2>4
    <3>2. new[k] = old[i]
      BY <1>1, <1>6, <2>2, <3>1
    <3> QED
      BY <2>4, <3>2 DEF k
  <2>5. CASE k > Len(new)
    <3>1. CASE k <= Len(r)
      <4>1. k \in (Len(new) + 1)..Len(r)
        BY <1>7, <2>1, <2>5, <3>1
      <4>2. old[i].kind = "blank"
        BY <1>1, <1>6, <2>2, <3>1, <4>1
      <4> QED
        BY <1>7, <2>1, <2>5, <4>2 DEF k
    <3>2. CASE k > Len(r)
      <4>1. i \in (Len(s) + 1)..Len(old)
        BY <1>0, <1>7, <2>3, <3>2
      <4> QED
        BY <1>1, <1>7, <2>1, <2>5, <4>1 DEF k
    <3> QED
      BY <1>7, <2>1, <3>1, <3>2
  <2> QED
    BY <1>7, <2>1, <2>4, <2>5
<1>9. ASSUME NEW j \in 1..Len(new)
      PROVE  \E i \in 1..Len(old) : Stays(i, l, d) /\ Shift(i, l, d) = j
  <2> DEFINE i == IF j <= l - d THEN j ELSE j + d
  <2>1. i \in 1..Len(old) /\ (IF j <= l - d THEN i = j /\ i < l ELSE i = j + d /\ i > l)
    BY <1>0, <1>1, <1>2, <1>5, <1>6, <1>7
  <2>2. Stays(i, l, d) /\ Shift(i, l, d) = j
    BY <1>0, <2>1 DEF Stays, Shift
  <2> HIDE DEF i
  <2> QED
    BY <2>1, <2>2
<1>10. Edited(old, l, d, new, 0)
  BY <1>8, <1>9 DEF Edited
<1>11. SameRest(old, l, new, 0)
  BY <1>6, <1>7, <1>10, EditKeepsRest
<1> QED
  BY <1>6, <1>11 DEF new, r, s

\* Replacing a command by another at the same line, which answers to the same id.
LEMMA ReplaceKeeps ==
  ASSUME NEW old \in Seq(TabLines), Tidy(old), NEW l \in 1..Len(old), old[l].kind = "cron",
         NEW line \in TabLines, line.kind = "cron"
  PROVE  LET new == SplitLines([SplitLines(old) EXCEPT ![l] = line])
         IN  /\ new \in Seq(TabLines) /\ Tidy(new) /\ l \in 1..Len(new)
             /\ new[l].kind = "cron" /\ IdAt(new, l) = IdAt(old, l)
             /\ SameRest(old, l, new, l)
<1> DEFINE s == SplitLines(old)
           r == [s EXCEPT ![l] = line]
           new == SplitLines(r)
<1>0. Len(old) \in Nat /\ l \in Nat
  OBVIOUS
<1>1. s \in Seq(TabLines) /\ Len(s) \in 0..Len(old) /\ Tidy(s)
        /\ (\A i \in 1..Len(s) : s[i] = old[i])
        /\ \A i \in (Len(s) + 1)..Len(old) : old[i].kind = "blank"
  BY SplitIs, SplitTidy
<1> HIDE DEF s
<1>2. l \in 1..Len(s) /\ s[l].kind = "cron"
  BY <1>0, <1>1
<1>3. r \in Seq(TabLines) /\ Len(r) = Len(s) /\ r[l] = line
        /\ \A i \in 1..Len(s) : i # l => r[i] = s[i]
  BY <1>1, <1>2
<1> HIDE DEF r
<1>4. \A i \in 1..Len(s) : r[i].kind = s[i].kind /\ (s[i].kind # "cron" => r[i] = s[i])
  BY <1>2, <1>3
<1>5. Tidy(r)
  <2> SUFFICES ASSUME NEW i \in 1..Len(s), r[i].kind = "meta", r[i].id # NoId
               PROVE  i < Len(s) /\ r[i + 1].kind = "cron"
    BY <1>3 DEF Tidy
  <2>1. s[i].kind = "meta" /\ s[i].id # NoId
    BY <1>4
  <2>2. i < Len(s) /\ s[i + 1].kind = "cron"
    BY <1>1, <2>1 DEF Tidy
  <2>3. i + 1 \in 1..Len(s)
    BY <1>1, <2>2
  <2> QED
    BY <1>4, <2>2, <2>3
<1>6. new \in Seq(TabLines) /\ Len(new) \in 0..Len(r) /\ Tidy(new)
        /\ (\A i \in 1..Len(new) : new[i] = r[i])
        /\ \A i \in (Len(new) + 1)..Len(r) : r[i].kind = "blank"
  BY <1>3, <1>5, SplitIs, SplitTidy
<1> HIDE DEF new
<1>7. Len(s) \in Nat /\ Len(r) \in Nat /\ Len(new) \in Nat
  BY <1>1, <1>3, <1>6
<1>8. l \in 1..Len(new) /\ new[l].kind = "cron"
  <2>1. r[l].kind = "cron" /\ l \in 1..Len(r)
    BY <1>2, <1>3
  <2>2. l <= Len(new)
    BY <1>6, <1>7, <2>1
  <2> QED
    BY <1>6, <1>7, <2>1, <2>2
<1>9. \A i \in 1..Len(old) : i # l =>
        IF i <= Len(new) THEN new[i] = old[i] ELSE old[i].kind = "blank"
  <2> SUFFICES ASSUME NEW i \in 1..Len(old), i # l
               PROVE  IF i <= Len(new) THEN new[i] = old[i] ELSE old[i].kind = "blank"
    OBVIOUS
  <2>1. CASE i <= Len(new)
    <3>1. i \in 1..Len(new) /\ i \in 1..Len(s)
      BY <1>0, <1>3, <1>6, <1>7, <2>1
    <3> QED
      BY <1>1, <1>3, <1>6, <2>1, <3>1
  <2>2. CASE i > Len(new) /\ i <= Len(s)
    <3>1. i \in (Len(new) + 1)..Len(r) /\ i \in 1..Len(s)
      BY <1>0, <1>3, <1>7, <2>2
    <3>2. r[i].kind = "blank" /\ r[i] = s[i] /\ s[i] = old[i]
      BY <1>1, <1>3, <1>6, <3>1
    <3> QED
      BY <1>7, <2>2, <3>2
  <2>3. CASE i > Len(new) /\ i > Len(s)
    <3>1. i \in (Len(s) + 1)..Len(old)
      BY <1>0, <1>7, <2>3
    <3> QED
      BY <1>1, <1>7, <2>3, <3>1
  <2> QED
    BY <1>0, <1>7, <2>1, <2>2, <2>3
<1>10. \A i \in Nat : Shift(i, l, 0) = i /\ (Stays(i, l, 0) <=> i # l)
  BY DEF Shift, Stays
<1>11. Edited(old, l, 0, new, l)
  <2>1. \A i \in 1..Len(old) : Stays(i, l, 0) =>
          IF Shift(i, l, 0) <= Len(new) THEN new[Shift(i, l, 0)] = old[i] ELSE old[i].kind = "blank"
    BY <1>0, <1>9, <1>10
  <2>2. \A j \in 1..Len(new) : j # l =>
          \E i \in 1..Len(old) : Stays(i, l, 0) /\ Shift(i, l, 0) = j
    <3>1. \A j \in 1..Len(new) : j \in 1..Len(old)
      BY <1>0, <1>1, <1>3, <1>6, <1>7
    <3> QED
      BY <1>10, <3>1
  <2> QED
    BY <1>7, <1>8, <2>1, <2>2 DEF Edited
<1>12. SameRest(old, l, new, l)
  <2>1. l \in 0..Len(new)
    BY <1>7, <1>8
  <2> QED
    BY <1>6, <1>11, <2>1, EditKeepsRest
<1>13. IdAt(new, l) = IdAt(old, l)
  <2>1. IdAt(old, l) = IF l > 1 /\ old[l - 1].kind = "meta" THEN old[l - 1].id ELSE NoId
    BY IdAbove
  <2>2. IdAt(new, l) = IF l > 1 /\ new[l - 1].kind = "meta" THEN new[l - 1].id ELSE NoId
    BY <1>6, <1>8, IdAbove
  <2>3. l > 1 => new[l - 1] = old[l - 1]
    <3> SUFFICES ASSUME l > 1 PROVE new[l - 1] = old[l - 1]
      OBVIOUS
    <3>1. l - 1 \in 1..Len(old) /\ l - 1 # l /\ l - 1 <= Len(new)
      BY <1>0, <1>7, <1>8
    <3> QED
      BY <1>9, <3>1
  <2> QED
    BY <2>1, <2>2, <2>3
<1> QED
  BY <1>6, <1>8, <1>12, <1>13 DEF new, r, s

-----------------------------------------------------------------------------
(* SystemCron: the specification. *)

\* The lines that the program writes are lines.
LEMMA NewLines ==
  /\ \A text \in Commands \cup {NoText} : CronLine(text) \in TabLines /\ CronLine(text).kind = "cron"
  /\ \A id \in CronIds : Metadata(id) \in TabLines /\ Metadata(id).kind = "meta"
  /\ Comment \in TabLines /\ Comment.kind = "comment"
  /\ \A kind \in {"env", "blank"} :
       Line(kind, NoId, NoText, FALSE) \in TabLines /\ Line(kind, NoId, NoText, FALSE).kind = kind
BY DEF CronLine, Metadata, Comment, Line, TabLines

\* A command that is switched on or off is a command.
LEMMA Switched ==
  ASSUME NEW line \in TabLines, NEW off \in BOOLEAN
  PROVE  [line EXCEPT !.off = off] \in TabLines /\ [line EXCEPT !.off = off].kind = line.kind
BY DEF TabLines

\* What was prepared keeps the rest of the table it was prepared from.
Sound(m) ==
  /\ m.new \in Seq(TabLines) /\ Tidy(m.new)
  /\ AsShown(m, m.new)

CronInv ==
  /\ crontab \in Seq(TabLines) /\ Tidy(crontab)
  /\ DOMAIN mutation = CronCallers
  /\ \A x \in CronCallers : mutation[x] = NoMutation \/ Sound(mutation[x])

\* Whatever entry is found, the change prepared of it keeps the rest.
LEMMA RewriteIsSound ==
  ASSUME NEW target, NEW entry \in Found(crontab, target), NEW text \in Commands \cup {NoText},
         NEW action \in {"update", "remove", "enable", "disable"},
         crontab \in Seq(TabLines), Tidy(crontab)
  PROVE  Sound(Prepared(action, entry, Rewrite(SplitLines(crontab), entry, action, text)))
<1> DEFINE l == entry.line
           s == SplitLines(crontab)
           new == SplitLines(Rewrite(s, entry, action, text))
<1>1. l \in 1..Len(crontab) /\ crontab[l].kind = "cron" /\ entry.id = IdAt(crontab, l)
  BY DEF Found, Parse
<1>2. s \in Seq(TabLines) /\ l \in 1..Len(s) /\ s[l] = crontab[l]
        /\ (l > 1 => s[l - 1] = crontab[l - 1])
  <2>1. s \in Seq(TabLines) /\ Len(s) \in 0..Len(crontab)
          /\ (\A i \in 1..Len(s) : s[i] = crontab[i])
          /\ \A i \in (Len(s) + 1)..Len(crontab) : crontab[i].kind = "blank"
    BY SplitIs
  <2> HIDE DEF s
  <2>2. Len(crontab) \in Nat /\ Len(s) \in Nat /\ l \in Nat
    BY <1>1, <2>1
  <2> HIDE DEF l
  <2>3. l <= Len(s)
    BY <1>1, <2>1, <2>2
  <2> QED
    BY <1>1, <2>1, <2>2, <2>3
<1>3. IdAt(crontab, l) = IF l > 1 /\ crontab[l - 1].kind = "meta" THEN crontab[l - 1].id ELSE NoId
  <2> HIDE DEF l
  <2> QED
    BY <1>1, IdAbove
<1>4. ASSUME action = "remove"
      PROVE  new \in Seq(TabLines) /\ Tidy(new) /\ SameRest(crontab, l, new, 0)
  <2>1. Rewrite(s, entry, action, text) = Without(s, entry)
    BY <1>4 DEF Rewrite
  <2>2. CASE entry.id # NoId /\ s[l - 1].kind = "meta"
    <3>1. l > 1 /\ crontab[l - 1].kind = "meta"
      BY <1>1, <1>3, <2>2
    <3>2. Without(s, entry) = CutOut(s, l - 2, l)
      BY <2>2 DEF Without, CutOut
    <3> HIDE DEF l, s
    <3> QED
      BY <1>1, <2>1, <3>1, <3>2, CutKeeps DEF s
  <2>3. CASE ~ (entry.id # NoId /\ s[l - 1].kind = "meta")
    <3>1. l > 1 => crontab[l - 1].kind # "meta" \/ crontab[l - 1].id = NoId
      BY <1>1, <1>2, <1>3, <2>3
    <3>2. Without(s, entry) = CutOut(s, l - 1, l)
      BY <2>3 DEF Without, CutOut, RemoveAt
    <3> HIDE DEF l, s
    <3> QED
      BY <1>1, <2>1, <3>1, <3>2, CutKeeps DEF s
  <2> QED
    BY <2>2, <2>3
<1>5. ASSUME action # "remove"
      PROVE  /\ new \in Seq(TabLines) /\ Tidy(new) /\ l \in 1..Len(new)
             /\ new[l].kind = "cron" /\ IdAt(new, l) = IdAt(crontab, l)
             /\ SameRest(crontab, l, new, l)
  <2>1. PICK line \in TabLines : line.kind = "cron" /\ Rewrite(s, entry, action, text) = [s EXCEPT ![l] = line]
    <3>1. CASE action = "update"
      <4>1. CronLine(text) \in TabLines /\ CronLine(text).kind = "cron"
        BY NewLines
      <4> QED
        BY <3>1, <4>1 DEF Rewrite
    <3>2. CASE action = "enable"
      <4> DEFINE line == [s[l] EXCEPT !.off = FALSE]
      <4>1. line \in TabLines /\ line.kind = "cron"
        <5>1. s[l] \in TabLines /\ s[l].kind = "cron"
          BY <1>1, <1>2
        <5> QED
          BY <5>1, Switched
      <4>2. Rewrite(s, entry, action, text) = [s EXCEPT ![l] = line]
        BY <3>2 DEF Rewrite
      <4> QED
        BY <4>1, <4>2
    <3>3. CASE action = "disable"
      <4> DEFINE line == [s[l] EXCEPT !.off = TRUE]
      <4>1. line \in TabLines /\ line.kind = "cron"
        <5>1. s[l] \in TabLines /\ s[l].kind = "cron"
          BY <1>1, <1>2
        <5> QED
          BY <5>1, Switched
      <4>2. Rewrite(s, entry, action, text) = [s EXCEPT ![l] = line]
        BY <3>3 DEF Rewrite
      <4> QED
        BY <4>1, <4>2
    <3> QED
      BY <1>5, <3>1, <3>2, <3>3
  <2>2. LET t == SplitLines([SplitLines(crontab) EXCEPT ![l] = line])
        IN  /\ t \in Seq(TabLines) /\ Tidy(t) /\ l \in 1..Len(t)
            /\ t[l].kind = "cron" /\ IdAt(t, l) = IdAt(crontab, l)
            /\ SameRest(crontab, l, t, l)
    <3> HIDE DEF l
    <3> QED
      BY <1>1, <2>1, ReplaceKeeps
  <2> QED
    BY <2>1, <2>2
<1>6. Kept(crontab, new, action, entry)
  <2>1. CASE action = "remove"
    <3>1. SameRest(crontab, entry.line, new, 0) /\ Len(new) \in Nat
      BY <1>4, <2>1
    <3> HIDE DEF new
    <3> QED
      BY <2>1, <3>1 DEF Kept
  <2>2. CASE action # "remove"
    <3>1. SameRest(crontab, entry.line, new, l) /\ l \in 1..Len(new) /\ Len(new) \in Nat
            /\ new[l].kind = "cron" /\ IdAt(new, l) = entry.id
      BY <1>1, <1>5, <2>2
    <3> HIDE DEF new, l
    <3>2. l \in 0..Len(new) /\ l # 0
      BY <3>1
    <3> QED
      BY <2>2, <3>1, <3>2 DEF Kept
  <2> QED
    BY <2>1, <2>2
<1>7. new \in Seq(TabLines) /\ Tidy(new)
  BY <1>4, <1>5
<1> QED
  BY <1>6, <1>7 DEF Sound, AsShown, Prepared

\* Lines are appended after a tidy table, with a command after each that names one.
LEMMA AppendedTidy ==
  ASSUME NEW c \in Seq(TabLines), Tidy(c), NEW t \in Seq(TabLines), Tidy(t)
  PROVE  c \o t \in Seq(TabLines) /\ Tidy(c \o t)
<1>1. c \o t \in Seq(TabLines) /\ Len(c \o t) = Len(c) + Len(t) /\ Len(c) \in Nat /\ Len(t) \in Nat
  BY Concatenated
<1>2. \A i \in 1..Len(c \o t) : (c \o t)[i] = IF i <= Len(c) THEN c[i] ELSE t[i - Len(c)]
  OBVIOUS
<1> DEFINE d == c \o t
<1>3. ASSUME NEW i \in 1..Len(d), d[i].kind = "meta", d[i].id # NoId
      PROVE  i < Len(d) /\ d[i + 1].kind = "cron"
  <2>1. CASE i <= Len(c)
    <3>1. c[i].kind = "meta" /\ c[i].id # NoId /\ i \in 1..Len(c)
      BY <1>1, <1>2, <1>3, <2>1
    <3>2. i < Len(c) /\ c[i + 1].kind = "cron"
      BY <3>1 DEF Tidy
    <3>3. i + 1 \in 1..Len(d) /\ i + 1 <= Len(c) /\ i < Len(d)
      BY <1>1, <3>2
    <3> QED
      BY <1>2, <3>2, <3>3
  <2>2. CASE i > Len(c)
    <3> DEFINE k == i - Len(c)
    <3>1. k \in 1..Len(t) /\ d[i] = t[k]
      BY <1>1, <1>2, <2>2
    <3>2. k < Len(t) /\ t[k + 1].kind = "cron"
      <4> HIDE DEF k
      <4> QED
        BY <1>3, <3>1 DEF Tidy
    <3>3. i + 1 \in 1..Len(d) /\ ~ (i + 1 <= Len(c)) /\ (i + 1) - Len(c) = k + 1 /\ i < Len(d)
      BY <1>1, <2>2, <3>2
    <3>4. d[i + 1] = t[k + 1]
      BY <1>2, <3>3
    <3> QED
      BY <3>2, <3>3, <3>4
  <2> QED
    BY <1>1, <2>1, <2>2
<1> QED
  BY <1>1, <1>3 DEF Tidy

\* A cut table that ends with a command is not cut further.
LEMMA SplitWhole ==
  ASSUME NEW c \in Seq(TabLines), c # <<>>, c[Len(c)].kind # "blank"
  PROVE  SplitLines(c) = c
<1>1. PICK k \in 0..Len(c) :
           /\ SplitLines(c) = SubSeq(c, 1, k)
           /\ \A i \in (k + 1)..Len(c) : c[i].kind = "blank"
  BY Split
<1>2. Len(c) \in Nat \ {0}
  OBVIOUS
<1>3. k = Len(c)
  BY <1>1, <1>2
<1> QED
  BY <1>1, <1>3

\* Where the lines of two tables stand, one table after the other.
LEMMA BothAppended ==
  ASSUME NEW a \in Seq(TabLines), NEW t \in Seq(TabLines)
  PROVE  /\ \A i \in 1..Len(a) : (a \o t)[i] = a[i]
         /\ \A k \in 1..Len(t) : (a \o t)[Len(a) + k] = t[k]
<1>1. a \o t \in Seq(TabLines) /\ Len(a \o t) = Len(a) + Len(t) /\ Len(a) \in Nat /\ Len(t) \in Nat
  BY Concatenated
<1>2. \A i \in 1..Len(a \o t) : (a \o t)[i] = IF i <= Len(a) THEN a[i] ELSE t[i - Len(a)]
  OBVIOUS
<1>3. ASSUME NEW k \in 1..Len(t)
      PROVE  Len(a) + k \in 1..Len(a \o t) /\ ~(Len(a) + k <= Len(a)) /\ (Len(a) + k) - Len(a) = k
  BY <1>1
<1>4. ASSUME NEW i \in 1..Len(a) PROVE i \in 1..Len(a \o t) /\ i <= Len(a)
  BY <1>1
<1> QED
  BY <1>2, <1>3, <1>4

\* A command that is added below its metadata line, at the end of the table.
LEMMA AddIsSound ==
  ASSUME NEW id \in CronIds, NEW text \in Commands, NEW head \in Seq(TabLines),
         Tidy(head), \A k \in 1..Len(head) : head[k].kind # "cron",
         crontab \in Seq(TabLines), Tidy(crontab)
  PROVE  Sound(Prepared("add", [id |-> id, line |-> 0, raw |-> CronLine(text)],
                        SplitLines(crontab) \o head \o <<Metadata(id), CronLine(text)>>))
<1> DEFINE s == SplitLines(crontab)
           tail == <<Metadata(id), CronLine(text)>>
           new == s \o head \o tail
           n == Len(s) + Len(head) + 2
           entry == [id |-> id, line |-> 0, raw |-> CronLine(text)]
<1>1. /\ s \in Seq(TabLines) /\ Len(s) \in 0..Len(crontab)
      /\ \A i \in 1..Len(s) : s[i] = crontab[i]
      /\ \A i \in (Len(s) + 1)..Len(crontab) : crontab[i].kind = "blank"
  BY SplitIs
<1>2. Tidy(s)
  BY SplitTidy
<1>3. tail \in Seq(TabLines) /\ Tidy(tail) /\ Len(tail) = 2 /\ tail[1] = Metadata(id) /\ tail[2] = CronLine(text)
  BY NewLines DEF Tidy
<1>4. new \in Seq(TabLines) /\ Tidy(new)
  <2> HIDE DEF s, tail
  <2> QED
    BY <1>1, <1>2, <1>3, AppendedTidy
<1>5. /\ Len(new) = n /\ Len(s) \in Nat /\ Len(head) \in Nat /\ Len(crontab) \in Nat
      /\ \A i \in 1..Len(s) : new[i] = s[i]
      /\ \A i \in (Len(s) + 1)..(Len(s) + Len(head)) : new[i] = head[i - Len(s)]
      /\ new[n - 1] = Metadata(id) /\ new[n] = CronLine(text)
  <2> HIDE DEF s, tail
  <2> DEFINE a == s \o head
  <2>1. a \in Seq(TabLines) /\ Len(a) = Len(s) + Len(head) /\ Len(s) \in Nat /\ Len(head) \in Nat
    BY <1>1, Concatenated
  <2>2. /\ \A i \in 1..Len(s) : i \in 1..Len(a) /\ a[i] = s[i]
        /\ \A i \in (Len(s) + 1)..(Len(s) + Len(head)) : i \in 1..Len(a) /\ a[i] = head[i - Len(s)]
    BY <1>1
  <2> HIDE DEF a
  <2>3. Len(a) \in Nat
    BY <2>1
  <2>4. Len(a \o tail) = Len(a) + Len(tail)
    BY <1>3, <2>1, Concatenated
  <2>5. /\ \A i \in 1..Len(a) : (a \o tail)[i] = a[i]
        /\ \A k \in 1..Len(tail) : (a \o tail)[Len(a) + k] = tail[k]
    BY <1>3, <2>1, BothAppended
  <2>6. (a \o tail)[Len(a) + 1] = tail[1] /\ (a \o tail)[Len(a) + 2] = tail[2] /\ Len(a \o tail) = Len(a) + 2
    BY <1>3, <2>3, <2>4, <2>5
  <2>7. new = a \o tail /\ Len(crontab) \in Nat
    BY DEF a
  <2>8. Len(a) + 2 = n /\ Len(a) + 1 = n - 1
    BY <2>1
  <2> QED
    BY <1>3, <2>1, <2>2, <2>5, <2>6, <2>7, <2>8
<1> HIDE DEF s, tail, new
<1>6. /\ Metadata(id).kind = "meta" /\ Metadata(id).id = id
      /\ CronLine(text).kind = "cron" /\ CronLine(text) \in TabLines
  <2>1. Metadata(id).id = id
    BY DEF Metadata, Line
  <2> QED
    BY <2>1, NewLines
<1>7. SplitLines(new) = new
  <2>1. new # <<>> /\ new[Len(new)].kind # "blank"
    BY <1>5, <1>6
  <2> QED
    BY <1>4, <2>1, SplitWhole
<1>8. IdAt(new, Len(new)) = id
  <2> DEFINE l == Len(new)
  <2>1. l \in 1..Len(new) /\ new[l].kind = "cron" /\ l > 1 /\ new[l - 1].kind = "meta" /\ new[l - 1].id = id
    BY <1>5, <1>6
  <2> HIDE DEF l
  <2>2. IdAt(new, l) = id
    BY <1>4, <2>1, IdAbove
  <2> QED
    BY <2>2 DEF l
<1>9. ASSUME NEW i \in 1..Len(crontab), crontab[i].kind # "blank"
      PROVE  i < Len(new) /\ Says(new, i) = Says(crontab, i)
  <2>1. i \in 1..Len(s) /\ i < n
    BY <1>1, <1>5, <1>9
  <2>2. new[i] = crontab[i] /\ (i > 1 => new[i - 1] = crontab[i - 1]) /\ i \in 1..Len(new)
    BY <1>1, <1>5, <2>1
  <2>3. ASSUME crontab[i].kind = "cron"
        PROVE  IdAt(new, i) = IdAt(crontab, i)
    <3>1. IdAt(crontab, i) = IF i > 1 /\ crontab[i - 1].kind = "meta" THEN crontab[i - 1].id ELSE NoId
      BY <2>3, IdAbove
    <3>2. IdAt(new, i) = IF i > 1 /\ new[i - 1].kind = "meta" THEN new[i - 1].id ELSE NoId
      BY <1>4, <2>2, <2>3, IdAbove
    <3> QED
      BY <2>2, <3>1, <3>2
  <2> QED
    BY <1>5, <2>1, <2>2, <2>3 DEF Says
<1>10. ASSUME NEW i \in 1..(Len(new) - 1), new[i].kind = "cron"
       PROVE  i <= Len(crontab)
  <2>1. CASE i <= Len(s)
    BY <1>1, <1>5, <2>1
  <2>2. CASE i > Len(s) /\ i <= Len(s) + Len(head)
    <3>1. i - Len(s) \in 1..Len(head) /\ new[i] = head[i - Len(s)]
      BY <1>5, <2>2
    <3> QED
      BY <1>10, <3>1
  <2>3. CASE i > Len(s) + Len(head)
    <3>1. i = n - 1
      BY <1>5, <2>3
    <3> QED
      BY <1>5, <1>6, <1>10, <3>1
  <2> QED
    BY <1>5, <2>1, <2>2, <2>3
<1>11. Added(crontab, new, entry)
  <2>1. new # <<>> /\ new[Len(new)] = CronLine(text)
    BY <1>5
  <2> QED
    BY <1>8, <1>9, <1>10, <2>1 DEF Added
<1>12. Sound(Prepared("add", entry, new))
  <2> HIDE DEF entry
  <2> QED
    BY <1>4, <1>7, <1>11 DEF Sound, AsShown, Prepared
<1> QED
  BY <1>12 DEF new, s, tail

\* The crontab that is found is tidy, and nothing is prepared.
LEMMA CronInitial == CronInit => CronInv
BY CronAssumption DEF CronInit, CronInv

\* A change of one caller's preparation.
LEMMA OnePrepared ==
  ASSUME CronInv, UNCHANGED crontab, NEW x \in CronCallers, NEW m,
         mutation' = [mutation EXCEPT ![x] = m], m = NoMutation \/ Sound(m)
  PROVE  CronInv'
<1>1. DOMAIN mutation' = CronCallers
  BY DEF CronInv
<1>2. \A y \in CronCallers : mutation'[y] = NoMutation \/ Sound(mutation'[y])
  BY DEF CronInv
<1> QED
  BY <1>1, <1>2 DEF CronInv

\* A new command goes below its metadata line, at the end (Client.Add).
LEMMA AddKeeps ==
  ASSUME CronInv, NEW x \in CronCallers, NEW id \in CronIds, NEW text \in Commands, NEW named \in BOOLEAN,
         PrepareAdd(x, id, text, named)
  PROVE  CronInv'
<1> DEFINE head == IF named THEN <<Comment>> ELSE <<>>
           m == Prepared("add", [id |-> id, line |-> 0, raw |-> CronLine(text)],
                         SplitLines(crontab) \o head \o <<Metadata(id), CronLine(text)>>)
<1>1. head \in Seq(TabLines) /\ Tidy(head) /\ \A k \in 1..Len(head) : head[k].kind # "cron"
  BY NewLines DEF Tidy
<1>2. mutation' = [mutation EXCEPT ![x] = m] /\ UNCHANGED crontab
  BY DEF PrepareAdd
<1>3. Sound(m)
  <2> HIDE DEF head
  <2> QED
    BY <1>1, AddIsSound DEF CronInv
<1> HIDE DEF m
<1> QED
  BY <1>2, <1>3, OnePrepared

\* An update, removal or switch is prepared of the entry found (Client.rewrite).
LEMMA RewriteKeeps ==
  ASSUME CronInv, NEW x \in CronCallers, NEW target, NEW text \in Commands \cup {NoText},
         NEW action \in {"update", "remove", "enable", "disable"},
         PrepareRewrite(x, action, target, text)
  PROVE  CronInv'
<1>1. PICK entry \in Found(crontab, target) :
        mutation' = [mutation EXCEPT ![x] =
          Prepared(action, entry, Rewrite(SplitLines(crontab), entry, action, text))]
  BY DEF PrepareRewrite
<1> DEFINE m == Prepared(action, entry, Rewrite(SplitLines(crontab), entry, action, text))
<1>2. Sound(m)
  BY RewriteIsSound DEF CronInv
<1>3. UNCHANGED crontab
  BY DEF PrepareRewrite
<1> HIDE DEF m
<1>4. mutation' = [mutation EXCEPT ![x] = m]
  BY <1>1 DEF m
<1> QED
  BY <1>2, <1>3, <1>4, OnePrepared

\* What was prepared is installed as a whole (Client.Apply).
LEMMA ApplyKeeps ==
  ASSUME CronInv, NEW x \in CronCallers, Apply(x)
  PROVE  CronInv'
<1>1. Sound(mutation[x])
  BY DEF Apply, CronInv
<1>2. crontab' \in Seq(TabLines) /\ Tidy(crontab)'
  BY <1>1 DEF Apply, Sound
<1>3. DOMAIN mutation' = CronCallers /\ \A y \in CronCallers : mutation'[y] = NoMutation \/ Sound(mutation'[y])
  BY DEF Apply, CronInv
<1> QED
  BY <1>2, <1>3 DEF CronInv

\* Other programs leave a metadata line with its command.
LEMMA ForeignKeeps ==
  ASSUME CronInv, Foreign
  PROVE  CronInv'
<1>0. crontab \in Seq(TabLines) /\ Tidy(crontab) /\ UNCHANGED mutation
  BY DEF CronInv, Foreign
<1>1. ASSUME NEW line \in TabLines, line.kind # "meta"
      PROVE  <<line>> \in Seq(TabLines) /\ Tidy(<<line>>) /\ Append(crontab, line) = crontab \o <<line>>
  BY <1>0, <1>1 DEF Tidy
<1>2. ASSUME NEW line \in TabLines, line.kind # "meta", crontab' = Append(crontab, line)
      PROVE  crontab' \in Seq(TabLines) /\ Tidy(crontab)'
  BY <1>0, <1>1, <1>2, AppendedTidy
<1> SUFFICES crontab' \in Seq(TabLines) /\ Tidy(crontab)'
  BY <1>0 DEF CronInv
<1>3. CASE \E text \in Commands : crontab' = Append(crontab, CronLine(text))
  BY <1>2, <1>3, NewLines
<1>4. CASE crontab' = crontab \o <<Comment, Line("env", NoId, NoText, FALSE)>>
  <2> DEFINE t == <<Comment, Line("env", NoId, NoText, FALSE)>>
  <2>1. t \in Seq(TabLines) /\ Tidy(t)
    <3> DEFINE env == Line("env", NoId, NoText, FALSE)
    <3>1. env \in TabLines /\ env.kind = "env" /\ Comment \in TabLines /\ Comment.kind = "comment"
      BY NewLines
    <3> HIDE DEF env
    <3>2. <<Comment, env>> \in Seq(TabLines) /\ Tidy(<<Comment, env>>)
      BY <3>1 DEF Tidy
    <3> QED
      BY <3>2 DEF env
  <2> HIDE DEF t
  <2> QED
    BY <1>0, <1>4, <2>1, AppendedTidy DEF t
<1>5. CASE crontab' = Append(crontab, Line("blank", NoId, NoText, FALSE))
  BY <1>2, <1>5, NewLines
<1>6. ASSUME NEW i \in 1..Len(crontab),
             crontab[i].kind # "meta", i > 1 => crontab[i - 1].kind # "meta",
             crontab' = RemoveAt(crontab, i)
      PROVE  crontab' \in Seq(TabLines) /\ Tidy(crontab)'
  <2> DEFINE a == i - 1
  <2>1. crontab' = CutOut(crontab, a, i)
    BY <1>6 DEF CutOut, RemoveAt
  <2>2. a \in 0..i /\ (a > 0 => crontab[a].kind # "meta")
    BY <1>6
  <2> HIDE DEF a
  <2> QED
    BY <1>0, <2>1, <2>2, CutOutIs, CutOutTidy
<1> QED
  BY <1>3, <1>4, <1>5, <1>6 DEF Foreign

\* Every step keeps the invariant.
LEMMA CronStep == CronInv /\ [CronNext]_cronVars => CronInv'
<1> SUFFICES ASSUME CronInv, [CronNext]_cronVars PROVE CronInv'
  OBVIOUS
<1>1. ASSUME NEW x \in CronCallers, NEW id \in CronIds, NEW text \in Commands, NEW named \in BOOLEAN,
             PrepareAdd(x, id, text, named)
      PROVE  CronInv'
  BY <1>1, AddKeeps
<1>2. ASSUME NEW x \in CronCallers, NEW target \in Targets, NEW text \in Commands,
             PrepareRewrite(x, "update", target, text)
      PROVE  CronInv'
  BY <1>2, RewriteKeeps
<1>3. ASSUME NEW x \in CronCallers, NEW target \in Targets, NEW action \in {"remove", "enable", "disable"},
             PrepareRewrite(x, action, target, NoText)
      PROVE  CronInv'
  BY <1>3, RewriteKeeps
<1>4. ASSUME NEW x \in CronCallers, Apply(x)
      PROVE  CronInv'
  BY <1>4, ApplyKeeps
<1>5. ASSUME NEW x \in CronCallers, Abandon(x)
      PROVE  CronInv'
  BY <1>5, OnePrepared DEF Abandon
<1>6. CASE Foreign
  BY <1>6, ForeignKeeps
<1>7. CASE UNCHANGED cronVars
  BY <1>7 DEF cronVars, CronInv
<1> QED
  BY <1>1, <1>2, <1>3, <1>4, <1>5, <1>6, <1>7 DEF CronNext

\* Of the steps that end a preparation, one that changes the table installs what
\* was prepared (Client.Apply).
LEMMA Installs ==
  ASSUME CronInv, [CronNext]_cronVars, crontab' # crontab,
         NEW x \in CronCallers, mutation[x] # NoMutation, mutation'[x] = NoMutation
  PROVE  crontab' = mutation[x].new
<1>1. CronNext
  BY DEF cronVars
<1>2. PICK y \in CronCallers : Apply(y)
  BY <1>1 DEF CronNext, PrepareAdd, PrepareRewrite, Abandon, Foreign
<1>3. x = y
  BY <1>2 DEF Apply, CronInv
<1> QED
  BY <1>2, <1>3 DEF Apply

\* Of any crontab, callers and commands, and whatever happened to the table since
\* it was listed: a confirmed change installs the listed table with the entry it
\* names added, changed or gone, and with every other command, the id it answers
\* to, every comment and every assignment (Client.Add, Client.rewrite).
THEOREM OthersStay == CronSpec => OthersAreKept
<1>1. CronInv /\ [CronNext]_cronVars =>
        [\A x \in CronCallers :
           mutation[x] # NoMutation /\ mutation'[x] = NoMutation => AsShown(mutation[x], crontab')]_crontab
  <2> SUFFICES ASSUME CronInv, [CronNext]_cronVars, crontab' # crontab,
                      NEW x \in CronCallers, mutation[x] # NoMutation, mutation'[x] = NoMutation
               PROVE  AsShown(mutation[x], crontab')
    OBVIOUS
  <2>1. crontab' = mutation[x].new
    BY Installs
  <2>2. Sound(mutation[x])
    BY DEF CronInv
  <2> QED
    BY <2>1, <2>2 DEF Sound
<1> QED
  BY <1>1, CronInitial, CronStep, PTL DEF CronSpec, OthersAreKept

-----------------------------------------------------------------------------
(* ShellSyntax: texts that are joined. *)

\* A sequence is what comes before its last item, and that item.
LEMMA Peeled ==
  ASSUME NEW S, NEW s \in Seq(S), Len(s) # 0
  PROVE  /\ SubSeq(s, 1, Len(s) - 1) \in Seq(S) /\ Len(SubSeq(s, 1, Len(s) - 1)) = Len(s) - 1
         /\ s[Len(s)] \in S
         /\ s = Append(SubSeq(s, 1, Len(s) - 1), s[Len(s)])
<1>1. Len(s) \in Nat /\ Len(s) - 1 \in Nat
  OBVIOUS
<1>2. \A i \in 1..(Len(s) - 1) : i \in 1..Len(s) /\ s[i] \in S
  BY <1>1
<1> DEFINE t == SubSeq(s, 1, Len(s) - 1)
           u == Append(t, s[Len(s)])
<1>3. t \in Seq(S) /\ Len(t) = Len(s) - 1 /\ \A i \in 1..(Len(s) - 1) : t[i] = s[i]
  <2>1. t \in Seq(S) /\ Len(t) = Len(s) - 1
    <3>1. 1 \in Int /\ Len(s) - 1 \in Int
      BY <1>1
    <3>2. /\ SubSeq(s, 1, Len(s) - 1) \in Seq(S)
          /\ Len(SubSeq(s, 1, Len(s) - 1)) = IF 1 <= Len(s) - 1 THEN (Len(s) - 1) - 1 + 1 ELSE 0
      BY <1>2, <3>1, SubSeqProperties
    <3>3. Len(t) = IF 1 <= Len(s) - 1 THEN (Len(s) - 1) - 1 + 1 ELSE 0
      BY <3>2
    <3>4. t \in Seq(S)
      BY <3>2
    <3>5. Len(t) = Len(s) - 1
      <4> HIDE DEF t
      <4> DEFINE n == Len(s) - 1
      <4>1. n \in Nat /\ Len(t) = IF 1 <= n THEN n - 1 + 1 ELSE 0
        BY <1>1, <3>3
      <4> HIDE DEF n
      <4>2. Len(t) = n
        BY <4>1
      <4> QED
        BY <4>2 DEF n
    <3> QED
      BY <3>4, <3>5
  <2>2. \A i \in 1..(Len(s) - 1) : t[i] = s[i]
    BY <1>1, <1>2
  <2> QED
    BY <2>1, <2>2
<1>4. s[Len(s)] \in S
  BY <1>1
<1> HIDE DEF t
<1>5. u \in Seq(S) /\ Len(u) = Len(s) /\ \A i \in 1..Len(s) : u[i] = s[i]
  BY <1>1, <1>3, <1>4
<1>6. s = u
  <2> HIDE DEF u
  <2> QED
    BY <1>5, SeqEqual
<1> QED
  BY <1>3, <1>4, <1>6 DEF t

\* What holds of the empty text and of a text with one more item holds of all.
LEMMA Grown ==
  ASSUME NEW S, NEW P, <<>> \in P, \A s \in Seq(S), c \in S : s \in P => Append(s, c) \in P
  PROVE  \A s \in Seq(S) : s \in P
<1> DEFINE T == {k \in Nat : \E s \in Seq(S) : Len(s) = k /\ s \notin P}
<1>1. T = {}
  <2> SUFFICES ASSUME T # {} PROVE FALSE
    OBVIOUS
  <2>1. PICK m \in T : \A k \in T : m <= k
    BY Least
  <2>2. PICK s \in Seq(S) : Len(s) = m /\ s \notin P
    OBVIOUS
  <2>3. m \in Nat /\ m # 0
    BY <2>2
  <2>4. /\ s = Append(SubSeq(s, 1, Len(s) - 1), s[Len(s)]) /\ s[Len(s)] \in S
        /\ SubSeq(s, 1, Len(s) - 1) \in Seq(S) /\ Len(SubSeq(s, 1, Len(s) - 1)) = m - 1
    BY <2>2, <2>3, Peeled
  <2>5. m - 1 \in Nat /\ ~ (m <= m - 1)
    BY <2>3
  <2>6. SubSeq(s, 1, Len(s) - 1) \in P
    BY <2>1, <2>4, <2>5
  <2> QED
    BY <2>2, <2>4, <2>6
<1> QED
  BY <1>1

\* Flattening as a recursion over the items.
Flattens(ss, g) ==
  g = [i \in 1..Len(ss) |-> IF i = 1 THEN ss[i] ELSE g[i - 1] \o ss[i]]

\* One more item is joined at the end.
LEMMA FlattensStep ==
  ASSUME NEW S, NEW ss \in Seq(S), NEW t, NEW g, Flattens(ss, g)
  PROVE  \E h : Flattens(Append(ss, t), h)
<1> DEFINE n == Len(ss)
           tt == Append(ss, t)
           h == [i \in 1..(n + 1) |-> IF i <= n THEN g[i] ELSE IF n = 0 THEN t ELSE g[n] \o t]
<1>0. n \in Nat /\ Len(tt) = n + 1 /\ tt[n + 1] = t /\ \A i \in 1..n : tt[i] = ss[i]
  OBVIOUS
<1>1. \A i \in 1..n : g[i] = IF i = 1 THEN ss[i] ELSE g[i - 1] \o ss[i]
  BY DEF Flattens
<1>g. SUFFICES Flattens(tt, h)
  OBVIOUS
<1> HIDE DEF n, tt
<1>2. \A i \in 1..(n + 1) : h[i] = IF i = 1 THEN tt[i] ELSE h[i - 1] \o tt[i]
  <2> TAKE i \in 1..(n + 1)
  <2>1. CASE i <= n
    <3>1. i \in 1..n /\ (i # 1 => i - 1 \in 1..(n + 1) /\ i - 1 <= n)
      BY <1>0, <2>1
    <3>2. h[i] = g[i] /\ (i # 1 => h[i - 1] = g[i - 1])
      BY <2>1, <3>1
    <3> QED
      BY <1>0, <1>1, <3>1, <3>2
  <2>2. CASE i = n + 1
    <3>1. ~ (i <= n) /\ (n = 0 <=> i = 1) /\ i - 1 = n
      BY <1>0, <2>2
    <3>2. n # 0 => n \in 1..(n + 1) /\ n <= n
      BY <1>0
    <3>3. h[i] = IF n = 0 THEN t ELSE g[n] \o t
      BY <3>1
    <3>4. n # 0 => h[n] = g[n]
      BY <3>2
    <3> QED
      BY <1>0, <2>2, <3>1, <3>3, <3>4
  <2> QED
    BY <1>0, <2>1, <2>2
<1>3. h = [i \in 1..Len(tt) |-> IF i = 1 THEN tt[i] ELSE h[i - 1] \o tt[i]]
  BY <1>0, <1>2
<1> HIDE DEF h
<1> QED
  BY <1>3 DEF Flattens

\* Every sequence can be flattened.
LEMMA FlattensExists ==
  ASSUME NEW S, NEW ss \in Seq(S)
  PROVE  \E g : Flattens(ss, g)
<1> DEFINE P == {s \in Seq(S) : \E g : Flattens(s, g)}
<1>1. <<>> \in P
  <2>1. Flattens(<<>>, <<>>)
    BY DEF Flattens
  <2> QED
    BY <2>1
<1>2. \A s \in Seq(S), c \in S : s \in P => Append(s, c) \in P
  BY FlattensStep
<1>3. \A s \in Seq(S) : s \in P
  <2> HIDE DEF P
  <2> QED
    BY <1>1, <1>2, Grown
<1> QED
  BY <1>3

\* Two sequences begin alike.
Alike(a, b, n) == \A i \in 1..n : a[i] = b[i]

\* Two flattenings agree as far as their items do.
LEMMA FlattensAlike ==
  ASSUME NEW ss, NEW tt, NEW g, NEW h, Flattens(ss, g), Flattens(tt, h), Len(ss) \in Nat, Len(tt) \in Nat,
         NEW n \in Nat, n <= Len(ss), n <= Len(tt), Alike(ss, tt, n)
  PROVE  Alike(g, h, n)
<1>0. \A i \in 1..n : ss[i] = tt[i]
  BY DEF Alike
<1> DEFINE T == {i \in 1..n : g[i] # h[i]}
<1> SUFFICES ASSUME T # {} PROVE FALSE
  BY DEF Alike
<1>1. PICK m \in T : \A k \in T : m <= k
  <2>1. T \in SUBSET Nat
    OBVIOUS
  <2> QED
    BY <2>1, Least
<1>2. /\ g[m] = IF m = 1 THEN ss[m] ELSE g[m - 1] \o ss[m]
      /\ h[m] = IF m = 1 THEN tt[m] ELSE h[m - 1] \o tt[m]
  <2>1. \A i \in 1..Len(ss) : g[i] = IF i = 1 THEN ss[i] ELSE g[i - 1] \o ss[i]
    BY DEF Flattens
  <2>2. \A i \in 1..Len(tt) : h[i] = IF i = 1 THEN tt[i] ELSE h[i - 1] \o tt[i]
    BY DEF Flattens
  <2>3. m \in 1..Len(ss) /\ m \in 1..Len(tt)
    OBVIOUS
  <2> QED
    BY <2>1, <2>2, <2>3
<1>3. m # 1 => m - 1 \in 1..n /\ ~ (m <= m - 1)
  OBVIOUS
<1>4. m # 1 => g[m - 1] = h[m - 1]
  BY <1>1, <1>3
<1> QED
  BY <1>0, <1>2, <1>4

\* What FlattenSeq computes.
LEMMA FlattenIs ==
  ASSUME NEW ss
  PROVE  FlattenSeq(ss) = IF Len(ss) = 0 THEN ss ELSE (CHOOSE g : Flattens(ss, g))[Len(ss)]
BY DEF FlattenSeq, Flattens

\* A flattening is what came before, joined with the last item.
LEMMA FlattenAppend ==
  ASSUME NEW S, NEW ss \in Seq(Seq(S)), NEW t \in Seq(S), FlattenSeq(ss) \in Seq(S)
  PROVE  FlattenSeq(Append(ss, t)) = FlattenSeq(ss) \o t
<1> DEFINE tt == Append(ss, t)
           n == Len(ss)
           g == CHOOSE f : Flattens(ss, f)
           h == CHOOSE f : Flattens(tt, f)
<1>1. tt \in Seq(Seq(S)) /\ Len(tt) = n + 1 /\ n \in Nat /\ tt[n + 1] = t
        /\ \A i \in 1..n : ss[i] = tt[i]
  OBVIOUS
<1>2. FlattenSeq(ss) = IF n = 0 THEN ss ELSE g[n]
  BY FlattenIs
<1>3. FlattenSeq(tt) = h[n + 1]
  <2>1. FlattenSeq(tt) = IF Len(tt) = 0 THEN tt ELSE h[Len(tt)]
    <3> HIDE DEF tt
    <3> QED
      BY FlattenIs
  <2> QED
    BY <1>1, <2>1
<1>4. Flattens(ss, g)
  BY FlattensExists
<1>5. Flattens(tt, h)
  <2> HIDE DEF tt
  <2> QED
    BY <1>1, FlattensExists
<1>g. SUFFICES FlattenSeq(tt) = FlattenSeq(ss) \o t
  OBVIOUS
<1> HIDE DEF g, h, tt, n
<1>6. h[n + 1] = IF n = 0 THEN tt[n + 1] ELSE h[n] \o tt[n + 1]
  <2>1. n + 1 \in 1..Len(tt) /\ (n + 1 = 1 <=> n = 0) /\ (n + 1) - 1 = n
    BY <1>1
  <2>2. \A i \in 1..Len(tt) : h[i] = IF i = 1 THEN tt[i] ELSE h[i - 1] \o tt[i]
    BY <1>5 DEF Flattens
  <2> QED
    BY <2>1, <2>2
<1>7. n # 0 => g[n] = h[n]
  <2>1. n <= Len(ss) /\ n <= Len(tt)
    BY <1>1 DEF n
  <2>2. Alike(g, h, n)
    <3>1. Len(ss) \in Nat /\ Len(tt) \in Nat /\ Alike(ss, tt, n)
      BY <1>1 DEF Alike
    <3> QED
      BY <1>1, <1>4, <1>5, <2>1, <3>1, FlattensAlike
  <2>3. n # 0 => n \in 1..n
    BY <1>1
  <2> QED
    BY <2>2, <2>3 DEF Alike
<1>8. CASE n = 0
  <2>1. ss = <<>>
    BY <1>8 DEF n
  <2> QED
    BY <1>1, <1>2, <1>3, <1>6, <1>8, <2>1
<1>9. CASE n # 0
  BY <1>1, <1>2, <1>3, <1>6, <1>7, <1>9
<1> QED
  BY <1>8, <1>9

\* Flattened texts are a text.
LEMMA Flattened ==
  ASSUME NEW S, NEW ss \in Seq(Seq(S))
  PROVE  FlattenSeq(ss) \in Seq(S)
<1> DEFINE P == {s \in Seq(Seq(S)) : FlattenSeq(s) \in Seq(S)}
<1>1. <<>> \in P
  BY DEF FlattenSeq
<1>2. \A s \in Seq(Seq(S)), c \in Seq(S) : s \in P => Append(s, c) \in P
  <2> SUFFICES ASSUME NEW s \in Seq(Seq(S)), NEW c \in Seq(S), FlattenSeq(s) \in Seq(S)
               PROVE  Append(s, c) \in Seq(Seq(S)) /\ FlattenSeq(Append(s, c)) \in Seq(S)
    OBVIOUS
  <2>1. FlattenSeq(Append(s, c)) = FlattenSeq(s) \o c
    BY FlattenAppend
  <2>2. FlattenSeq(s) \o c \in Seq(S)
    BY ConcatProperties
  <2> QED
    BY <2>1, <2>2
<1>3. \A s \in Seq(Seq(S)) : s \in P
  <2> HIDE DEF P
  <2> QED
    BY <1>1, <1>2, Grown
<1> QED
  BY <1>3

-----------------------------------------------------------------------------
(* ShellSyntax: a text without its blanks. *)

\* What is left of a character.
Inked(c) == IF c \in Blank THEN <<>> ELSE <<c>>

\* Joining one more character.
LEMMA ConcatAppend ==
  ASSUME NEW S, NEW a \in Seq(S), NEW b \in Seq(S), NEW c \in S
  PROVE  a \o Append(b, c) = Append(a \o b, c)
<1>1. Append(b, c) = b \o <<c>> /\ Append(a \o b, c) = (a \o b) \o <<c>> /\ <<c>> \in Seq(S)
  OBVIOUS
<1> QED
  BY <1>1, ConcatAssociative

\* The ink of a text is that of what comes before, joined with that of its last character.
LEMMA InkAppend ==
  ASSUME NEW S, NEW s \in Seq(S), NEW c \in S
  PROVE  /\ Ink(s) \in Seq(S) /\ Inked(c) \in Seq(S)
         /\ Ink(Append(s, c)) = Ink(s) \o Inked(c)
<1> DEFINE w == [i \in 1..Len(s) |-> Inked(s[i])]
           t == Append(s, c)
           v == [i \in 1..Len(t) |-> Inked(t[i])]
<1>1. \A d \in S : Inked(d) \in Seq(S)
  BY DEF Inked
<1>2. w \in Seq(Seq(S)) /\ Len(w) = Len(s)
  <2>1. Len(s) \in Nat /\ \A i \in 1..Len(s) : Inked(s[i]) \in Seq(S)
    BY <1>1
  <2> QED
    BY <2>1
<1>3. Ink(s) = FlattenSeq(w) /\ Ink(t) = FlattenSeq(v)
  BY DEF Ink, Inked
<1>4. v = Append(w, Inked(c))
  <2>1. /\ Len(t) = Len(s) + 1 /\ t[Len(s) + 1] = c /\ \A i \in 1..Len(s) : t[i] = s[i]
        /\ t \in Seq(S)
    OBVIOUS
  <2>2. Len(t) \in Nat /\ \A i \in 1..Len(t) : Inked(t[i]) \in Seq(S)
    BY <1>1, <2>1
  <2>3. v \in Seq(Seq(S)) /\ Len(v) = Len(s) + 1 /\ \A i \in 1..(Len(s) + 1) : v[i] = Inked(t[i])
    BY <2>1, <2>2
  <2>4. \A i \in 1..Len(s) : w[i] = Inked(s[i])
    OBVIOUS
  <2> DEFINE u == Append(w, Inked(c))
  <2>5. u \in Seq(Seq(S)) /\ Len(u) = Len(s) + 1 /\ u[Len(s) + 1] = Inked(c)
          /\ \A i \in 1..Len(s) : u[i] = w[i]
    <3> HIDE DEF w
    <3> QED
      BY <1>1, <1>2
  <2> HIDE DEF u, v, t, w
  <2>6. \A i \in 1..Len(v) : v[i] = u[i]
    <3> TAKE i \in 1..Len(v)
    <3>1. CASE i = Len(s) + 1
      BY <2>1, <2>3, <2>5, <3>1
    <3>2. CASE i \in 1..Len(s)
      <4>1. i \in 1..(Len(s) + 1)
        BY <2>3
      <4> QED
        BY <2>1, <2>3, <2>4, <2>5, <3>2, <4>1
    <3>3. Len(s) \in Nat
      OBVIOUS
    <3> QED
      BY <2>3, <3>1, <3>2, <3>3
  <2>7. v = u
    BY <2>3, <2>5, <2>6, SeqEqual
  <2> QED
    BY <2>7 DEF u
<1> HIDE DEF w, v, t
<1>5. FlattenSeq(w) \in Seq(S)
  BY <1>2, Flattened
<1>6. FlattenSeq(Append(w, Inked(c))) = FlattenSeq(w) \o Inked(c)
  BY <1>1, <1>2, <1>5, FlattenAppend
<1> QED
  BY <1>1, <1>3, <1>4, <1>5, <1>6 DEF t

\* Ink is a text.
LEMMA InkIs ==
  ASSUME NEW S, NEW s \in Seq(S)
  PROVE  Ink(s) \in Seq(S) /\ Ink(<<>>) = <<>>
<1>1. Ink(<<>>) = <<>>
  BY DEF Ink, FlattenSeq
<1>2. CASE S = {}
  <2>1. s = <<>>
    BY <1>2
  <2> QED
    BY <1>1, <2>1
<1>3. CASE S # {}
  BY <1>1, <1>3, InkAppend
<1> QED
  BY <1>2, <1>3

\* The ink of two texts joined is their ink joined.
LEMMA InkConcat ==
  ASSUME NEW S, NEW a \in Seq(S), NEW b \in Seq(S)
  PROVE  Ink(a \o b) = Ink(a) \o Ink(b)
<1> DEFINE P == {t \in Seq(S) : Ink(a \o t) = Ink(a) \o Ink(t)}
<1>1. <<>> \in P
  BY InkIs, ConcatEmptySeq, EmptySeq
<1>2. \A t \in Seq(S), c \in S : t \in P => Append(t, c) \in P
  <2> SUFFICES ASSUME NEW t \in Seq(S), NEW c \in S, Ink(a \o t) = Ink(a) \o Ink(t)
               PROVE  Append(t, c) \in Seq(S) /\ Ink(a \o Append(t, c)) = Ink(a) \o Ink(Append(t, c))
    OBVIOUS
  <2>1. a \o Append(t, c) = Append(a \o t, c) /\ a \o t \in Seq(S) /\ Append(t, c) \in Seq(S)
    BY ConcatAppend
  <2>2. Ink(Append(a \o t, c)) = Ink(a \o t) \o Inked(c) /\ Inked(c) \in Seq(S)
    BY <2>1, InkAppend
  <2>3. Ink(Append(t, c)) = Ink(t) \o Inked(c) /\ Ink(t) \in Seq(S) /\ Ink(a) \in Seq(S)
    BY InkAppend, InkIs
  <2>4. (Ink(a) \o Ink(t)) \o Inked(c) = Ink(a) \o (Ink(t) \o Inked(c))
    <3>1. Ink(a) \in Seq(S) /\ Ink(t) \in Seq(S) /\ Inked(c) \in Seq(S)
      BY <2>2, <2>3
    <3> DEFINE x == Ink(a)
               y == Ink(t)
               z == Inked(c)
    <3>2. x \in Seq(S) /\ y \in Seq(S) /\ z \in Seq(S)
      BY <3>1
    <3> HIDE DEF x, y, z
    <3>3. (x \o y) \o z = x \o (y \o z)
      BY SMTT(30), <3>2, ConcatAssociative
    <3> QED
      BY <3>3 DEF x, y, z
  <2> QED
    BY <2>1, <2>2, <2>3, <2>4
<1>3. \A t \in Seq(S) : t \in P
  <2> HIDE DEF P
  <2> QED
    BY <1>1, <1>2, Grown
<1> QED
  BY <1>3

\* Blanks leave no ink.
LEMMA InkBlank ==
  ASSUME NEW s \in Seq(Blank)
  PROVE  Ink(s) = <<>>
<1> DEFINE P == {t \in Seq(Blank) : Ink(t) = <<>>}
<1>1. <<>> \in P
  BY InkIs, EmptySeq
<1>2. \A t \in Seq(Blank), c \in Blank : t \in P => Append(t, c) \in P
  <2> SUFFICES ASSUME NEW t \in Seq(Blank), NEW c \in Blank, Ink(t) = <<>>
               PROVE  Append(t, c) \in Seq(Blank) /\ Ink(Append(t, c)) = <<>>
    OBVIOUS
  <2>1. Ink(Append(t, c)) = Ink(t) \o Inked(c) /\ Inked(c) = <<>>
    BY InkAppend DEF Inked
  <2>2. <<>> \o <<>> = <<>>
    BY ConcatEmptySeq, EmptySeq
  <2> QED
    BY <2>1, <2>2
<1>3. \A t \in Seq(Blank) : t \in P
  <2> HIDE DEF P
  <2> QED
    BY <1>1, <1>2, Grown
<1> QED
  BY <1>3
-----------------------------------------------------------------------------
(* ShellSyntax: the blanks at both ends of a text. *)

\* A text in two parts.
LEMMA TwoParts ==
  ASSUME NEW S, NEW s \in Seq(S), NEW k \in 0..Len(s)
  PROVE  /\ SubSeq(s, 1, k) \in Seq(S) /\ Len(SubSeq(s, 1, k)) = k
         /\ SubSeq(s, k + 1, Len(s)) \in Seq(S) /\ Len(SubSeq(s, k + 1, Len(s))) = Len(s) - k
         /\ \A i \in 1..k : SubSeq(s, 1, k)[i] = s[i]
         /\ \A i \in 1..(Len(s) - k) : SubSeq(s, k + 1, Len(s))[i] = s[k + i]
         /\ s = SubSeq(s, 1, k) \o SubSeq(s, k + 1, Len(s))
<1> DEFINE n == Len(s)
<1>1. n \in Nat /\ k \in 0..n /\ k \in Int /\ n \in Int /\ k + 1 \in Int /\ 1 \in Int
  OBVIOUS
<1>2. \A i \in 1..n : s[i] \in S
  OBVIOUS
<1>3. 1 \in 1..(n + 1) /\ k \in (1 - 1)..n /\ n \in k..n
  BY <1>1
<1>4. SubSeq(s, 1, k) \o SubSeq(s, k + 1, n) = SubSeq(s, 1, n)
  BY <1>3, ConcatAdjacentSubSeq
<1>5. SubSeq(s, 1, n) = s
  BY SubSeqFull
<1>g. SUFFICES
        /\ SubSeq(s, 1, k) \in Seq(S) /\ Len(SubSeq(s, 1, k)) = k
        /\ SubSeq(s, k + 1, n) \in Seq(S) /\ Len(SubSeq(s, k + 1, n)) = n - k
        /\ \A i \in 1..k : SubSeq(s, 1, k)[i] = s[i]
        /\ \A i \in 1..(n - k) : SubSeq(s, k + 1, n)[i] = s[k + i]
  BY <1>4, <1>5
<1> HIDE DEF n
<1>6. /\ SubSeq(s, 1, k) \in Seq(S)
      /\ Len(SubSeq(s, 1, k)) = IF 1 <= k THEN k - 1 + 1 ELSE 0
      /\ \A i \in 1..(k - 1 + 1) : SubSeq(s, 1, k)[i] = s[1 + i - 1]
  <2>1. \A i \in 1..k : s[i] \in S
    BY <1>1, <1>2
  <2> QED
    BY <1>1, <2>1, SubSeqProperties
<1>7. /\ SubSeq(s, k + 1, n) \in Seq(S)
      /\ Len(SubSeq(s, k + 1, n)) = IF k + 1 <= n THEN n - (k + 1) + 1 ELSE 0
      /\ \A i \in 1..(n - (k + 1) + 1) : SubSeq(s, k + 1, n)[i] = s[(k + 1) + i - 1]
  <2>1. \A i \in (k + 1)..n : s[i] \in S
    BY <1>1, <1>2
  <2> QED
    BY <1>1, <2>1, SubSeqProperties
<1>8. /\ k - 1 + 1 = k /\ n - (k + 1) + 1 = n - k
      /\ \A i \in Nat : 1 + i - 1 = i /\ (k + 1) + i - 1 = k + i
      /\ (IF 1 <= k THEN k - 1 + 1 ELSE 0) = k
      /\ (IF k + 1 <= n THEN n - (k + 1) + 1 ELSE 0) = n - k
  BY <1>1
<1>9. \A i \in 1..k : SubSeq(s, 1, k)[i] = s[i]
  <2> TAKE i \in 1..k
  <2>1. i \in Nat
    BY <1>1
  <2> QED
    BY <1>6, <1>8, <2>1
<1>10. \A i \in 1..(n - k) : SubSeq(s, k + 1, n)[i] = s[k + i]
  <2> TAKE i \in 1..(n - k)
  <2>1. i \in Nat
    BY <1>1
  <2> QED
    BY <1>7, <1>8, <2>1
<1> QED
  BY <1>6, <1>7, <1>8, <1>9, <1>10

\* Where the blanks at the front end.
LEMMA LeftCut ==
  ASSUME NEW S, NEW s \in Seq(S), NEW k \in 0..Len(s), \A i \in 1..k : s[i] \in Blank,
         k < Len(s) => s[k + 1] \notin Blank
  PROVE  TrimLeft(s) = SubSeq(s, k + 1, Len(s))
<1> DEFINE ink == {i \in 1..Len(s) : s[i] \notin Blank}
<1>1. Len(s) \in Nat
  OBVIOUS
<1>2. CASE k = Len(s)
  <2>1. ink = {}
    BY <1>2
  <2>2. SubSeq(s, k + 1, Len(s)) = <<>>
    BY <1>1, <1>2, SubSeqEmpty
  <2> QED
    BY <2>1, <2>2 DEF TrimLeft
<1>3. CASE k < Len(s)
  <2>1. k + 1 \in ink /\ \A i \in ink : k + 1 <= i
    BY <1>1, <1>3
  <2>2. TrimLeft(s) = SubSeq(s, Min(ink), Len(s))
    BY <2>1 DEF TrimLeft
  <2>3. ink \in SUBSET Nat
    OBVIOUS
  <2> HIDE DEF ink
  <2>4. Min(ink) \in ink /\ \A i \in ink : Min(ink) <= i
    BY <2>1 DEF Min
  <2>5. Min(ink) = k + 1
    <3>1. Min(ink) <= k + 1 /\ k + 1 <= Min(ink) /\ Min(ink) \in Nat /\ k + 1 \in Nat
      BY <2>1, <2>3, <2>4
    <3> QED
      BY <3>1
  <2> QED
    BY <2>2, <2>5
<1> QED
  BY <1>1, <1>2, <1>3

\* The blanks a text begins with.
LEMMA LeftExists ==
  ASSUME NEW S, NEW s \in Seq(S)
  PROVE  \E k \in 0..Len(s) : (\A i \in 1..k : s[i] \in Blank) /\ (k < Len(s) => s[k + 1] \notin Blank)
<1> DEFINE ink == {i \in 1..Len(s) : s[i] \notin Blank}
<1>1. Len(s) \in Nat /\ ink \in SUBSET Nat
  OBVIOUS
<1>2. CASE ink = {}
  <2>1. Len(s) \in 0..Len(s) /\ ~ (Len(s) < Len(s)) /\ \A i \in 1..Len(s) : s[i] \in Blank
    BY <1>1, <1>2
  <2> QED
    BY <2>1
<1>3. CASE ink # {}
  <2>1. PICK m \in ink : \A i \in ink : m <= i
    <3> HIDE DEF ink
    <3> QED
      BY <1>1, <1>3, Least
  <2>2. m - 1 \in 0..Len(s) /\ m - 1 + 1 = m /\ s[m] \notin Blank
    BY <1>1
  <2>3. \A i \in 1..(m - 1) : i \in 1..Len(s) /\ i \notin ink
    BY <1>1, <2>1
  <2> QED
    BY <2>2, <2>3
<1> QED
  BY <1>2, <1>3

\* What is cut at the end, and what is left.
LEMMA EndCut ==
  ASSUME NEW S, NEW s \in Seq(S), NEW k \in 0..Len(s), k = 0 \/ s[k] \notin Blank \/ Escaped(s, k),
         \A i \in (k + 1)..Len(s) : s[i] \in Blank /\ ~Escaped(s, i)
  PROVE  TrimEnd(s) = SubSeq(s, 1, k)
<1> DEFINE kept == {0} \cup {i \in 1..Len(s) : s[i] \notin Blank \/ Escaped(s, i)}
<1>1. k \in kept /\ \A i \in kept : i <= k
  OBVIOUS
<1>2. kept \in SUBSET Nat
  OBVIOUS
<1>3. TrimEnd(s) = SubSeq(s, 1, Max(kept))
  BY DEF TrimEnd
<1> HIDE DEF kept
<1>4. Max(kept) \in kept /\ \A i \in kept : Max(kept) >= i
  BY <1>1, <1>2 DEF Max
<1>5. Max(kept) = k
  <2>1. Max(kept) <= k /\ k <= Max(kept) /\ Max(kept) \in Nat /\ k \in Nat
    BY <1>1, <1>2, <1>4
  <2> QED
    BY <2>1
<1> QED
  BY <1>3, <1>5

\* The blanks a text ends with, none of them escaped.
LEMMA EndExists ==
  ASSUME NEW S, NEW s \in Seq(S)
  PROVE  \E k \in 0..Len(s) :
           /\ k = 0 \/ s[k] \notin Blank \/ Escaped(s, k)
           /\ \A i \in (k + 1)..Len(s) : s[i] \in Blank /\ ~Escaped(s, i)
<1> DEFINE kept == {0} \cup {i \in 1..Len(s) : s[i] \notin Blank \/ Escaped(s, i)}
<1>1. kept \in SUBSET (0..Len(s)) /\ kept # {} /\ Len(s) \in Nat
  OBVIOUS
<1>2. Max(kept) \in kept /\ \A i \in kept : i <= Max(kept)
  <2> HIDE DEF kept
  <2> QED
    BY <1>1, Greatest
<1>3. \A i \in (Max(kept) + 1)..Len(s) : i \in 1..Len(s) /\ i \notin kept
  BY <1>1, <1>2
<1>4. \A i \in (Max(kept) + 1)..Len(s) : s[i] \in Blank /\ ~Escaped(s, i)
  BY <1>3
<1>5. Max(kept) = 0 \/ s[Max(kept)] \notin Blank \/ Escaped(s, Max(kept))
  BY <1>2
<1>6. Max(kept) \in 0..Len(s)
  BY <1>1, <1>2
<1> HIDE DEF kept
<1> QED
  BY <1>4, <1>5, <1>6
\* A text of other items.
LEMMA Narrowed ==
  ASSUME NEW S, NEW T, NEW s \in Seq(S), \A i \in 1..Len(s) : s[i] \in T
  PROVE  s \in Seq(T)
<1>1. Len(s) \in Nat /\ s \in [1..Len(s) -> S]
  BY LenProperties
<1>2. s \in [1..Len(s) -> T]
  BY <1>1
<1> QED
  BY <1>1, <1>2, SeqDef

\* Cutting the front takes blanks only.
LEMMA LeftInk ==
  ASSUME NEW S, NEW s \in Seq(S)
  PROVE  /\ TrimLeft(s) \in Seq(S) /\ Ink(TrimLeft(s)) = Ink(s)
         /\ TrimLeft(s) # <<>> => TrimLeft(s)[1] \notin Blank
<1>1. PICK k \in 0..Len(s) : (\A i \in 1..k : s[i] \in Blank) /\ (k < Len(s) => s[k + 1] \notin Blank)
  BY LeftExists
<1>2. TrimLeft(s) = SubSeq(s, k + 1, Len(s))
  BY <1>1, LeftCut
<1> DEFINE a == SubSeq(s, 1, k)
           b == SubSeq(s, k + 1, Len(s))
<1>3. /\ a \in Seq(S) /\ Len(a) = k /\ (\A i \in 1..k : a[i] = s[i]) /\ s = a \o b
      /\ b \in Seq(S) /\ Len(b) = Len(s) - k /\ \A i \in 1..(Len(s) - k) : b[i] = s[k + i]
  BY ZenonT(40), TwoParts
<1>4. b # <<>> => b[1] \notin Blank
  <2> HIDE DEF a, b
  <2> SUFFICES ASSUME b # <<>> PROVE b[1] \notin Blank
    OBVIOUS
  <2>1. Len(b) # 0 /\ Len(s) \in Nat /\ k \in Nat /\ Len(b) \in Nat
    BY <1>3
  <2>2. k < Len(s) /\ 1 \in 1..(Len(s) - k)
    BY <1>3, <2>1
  <2> QED
    BY <1>1, <1>3, <2>2
<1> HIDE DEF a, b
<1>5. a \in Seq(Blank)
  <2>1. \A i \in 1..Len(a) : a[i] \in Blank
    BY <1>1, <1>3
  <2> QED
    BY <1>3, <2>1, Narrowed
<1>6. Ink(s) = Ink(a) \o Ink(b) /\ Ink(a) = <<>> /\ Ink(b) \in Seq(S)
  BY <1>3, <1>5, InkConcat, InkBlank, InkIs
<1>7. Ink(s) = Ink(b)
  BY <1>6, ConcatEmptySeq
<1> QED
  BY <1>2, <1>3, <1>4, <1>7 DEF b

\* Cutting the end takes blanks only.
LEMMA EndInk ==
  ASSUME NEW S, NEW s \in Seq(S)
  PROVE  TrimEnd(s) \in Seq(S) /\ Ink(TrimEnd(s)) = Ink(s)
<1>1. PICK k \in 0..Len(s) :
           /\ k = 0 \/ s[k] \notin Blank \/ Escaped(s, k)
           /\ \A i \in (k + 1)..Len(s) : s[i] \in Blank /\ ~Escaped(s, i)
  BY EndExists
<1>2. TrimEnd(s) = SubSeq(s, 1, k)
  BY <1>1, EndCut
<1> DEFINE a == SubSeq(s, 1, k)
           b == SubSeq(s, k + 1, Len(s))
<1>3. /\ a \in Seq(S) /\ s = a \o b
      /\ b \in Seq(S) /\ Len(b) = Len(s) - k /\ \A i \in 1..(Len(s) - k) : b[i] = s[k + i]
  BY TwoParts
<1> HIDE DEF a, b
<1>5. b \in Seq(Blank)
  <2>1. \A i \in 1..Len(b) : b[i] \in Blank
    <3> TAKE i \in 1..Len(b)
    <3>1. k \in Nat /\ Len(s) \in Nat /\ i \in 1..(Len(s) - k)
      BY <1>3
    <3>2. k + i \in (k + 1)..Len(s)
      BY <3>1
    <3> QED
      BY <1>1, <1>3, <3>1, <3>2
  <2> QED
    BY <1>3, <2>1, Narrowed
<1>6. Ink(s) = Ink(a) \o Ink(b) /\ Ink(b) = <<>> /\ Ink(a) \in Seq(S)
  BY <1>3, <1>5, InkConcat, InkBlank, InkIs
<1>7. Ink(s) = Ink(a)
  BY <1>6, ConcatEmptySeq
<1> QED
  BY <1>2, <1>3, <1>7 DEF a

\* Trimming takes blanks only.
LEMMA TrimInk ==
  ASSUME NEW S, NEW s \in Seq(S)
  PROVE  Trim(s) \in Seq(S) /\ Ink(Trim(s)) = Ink(s)
<1>1. TrimLeft(s) \in Seq(S) /\ Ink(TrimLeft(s)) = Ink(s)
  BY LeftInk
<1>2. TrimEnd(TrimLeft(s)) \in Seq(S) /\ Ink(TrimEnd(TrimLeft(s))) = Ink(TrimLeft(s))
  BY <1>1, EndInk
<1> QED
  BY <1>1, <1>2 DEF Trim

\* Nothing is left of blanks.
LEMMA LeftEmpty ==
  ASSUME NEW S, NEW s \in Seq(S)
  PROVE  TrimLeft(s) = <<>> <=> \A i \in 1..Len(s) : s[i] \in Blank
<1>1. PICK k \in 0..Len(s) : (\A i \in 1..k : s[i] \in Blank) /\ (k < Len(s) => s[k + 1] \notin Blank)
  BY LeftExists
<1>2. TrimLeft(s) = SubSeq(s, k + 1, Len(s))
  BY <1>1, LeftCut
<1>3. Len(TrimLeft(s)) = Len(s) - k /\ TrimLeft(s) \in Seq(S) /\ Len(s) \in Nat /\ k \in Nat
  BY <1>2, TwoParts
<1>4. TrimLeft(s) = <<>> <=> Len(TrimLeft(s)) = 0
  BY <1>3, EmptySeq
<1>5. CASE k = Len(s)
  <2>1. Len(s) - k = 0
    BY <1>3, <1>5
  <2> QED
    BY <1>1, <1>3, <1>4, <1>5, <2>1
<1>6. CASE k < Len(s)
  <2>1. Len(s) - k # 0 /\ k + 1 \in 1..Len(s)
    BY <1>3, <1>6
  <2> QED
    BY <1>1, <1>3, <1>4, <1>6, <2>1
<1> QED
  BY <1>3, <1>5, <1>6

\* One more character, behind what is left so far.
LEMMA LeftAppend ==
  ASSUME NEW S, NEW s \in Seq(S), NEW c \in S
  PROVE  TrimLeft(Append(s, c)) = IF TrimLeft(s) = <<>> THEN IF c \in Blank THEN <<>> ELSE <<c>>
                                  ELSE Append(TrimLeft(s), c)
<1> DEFINE t == Append(s, c)
           n == Len(s)
<1>1. t \in Seq(S) /\ Len(t) = n + 1 /\ n \in Nat /\ t[n + 1] = c /\ \A i \in 1..n : t[i] = s[i]
  OBVIOUS
<1>2. PICK k \in 0..Len(s) : (\A i \in 1..k : s[i] \in Blank) /\ (k < Len(s) => s[k + 1] \notin Blank)
  BY LeftExists
<1>3. TrimLeft(s) = SubSeq(s, k + 1, n)
  BY <1>2, LeftCut
<1>4. /\ TrimLeft(s) \in Seq(S) /\ Len(TrimLeft(s)) = n - k
      /\ \A i \in 1..(n - k) : TrimLeft(s)[i] = s[k + i]
  BY <1>3, TwoParts
<1>5. TrimLeft(s) = <<>> <=> Len(TrimLeft(s)) = 0
  BY <1>4, EmptySeq
<1>6. k \in 0..n /\ k \in Nat
  BY <1>1 DEF n
<1>g. SUFFICES TrimLeft(t) = IF TrimLeft(s) = <<>> THEN IF c \in Blank THEN <<>> ELSE <<c>>
                             ELSE Append(TrimLeft(s), c)
  OBVIOUS
<1>7. k < n => s[k + 1] \notin Blank
  BY <1>2
<1> HIDE DEF t, n
<1>8. CASE k < n
  <2>1. k \in 0..Len(t) /\ k < Len(t) /\ k + 1 \in 1..n /\ n - k # 0 /\ \A i \in 1..k : i \in 1..n
    BY <1>1, <1>6, <1>8
  <2>2. (\A i \in 1..k : t[i] \in Blank) /\ t[k + 1] \notin Blank
    BY <1>1, <1>2, <1>7, <1>8, <2>1
  <2>3. TrimLeft(t) = SubSeq(t, k + 1, Len(t))
    BY <1>1, <2>1, <2>2, LeftCut
  <2> DEFINE u == TrimLeft(t)
             w == TrimLeft(s)
             v == Append(w, c)
  <2>4. u \in Seq(S) /\ Len(u) = Len(t) - k /\ \A i \in 1..(Len(t) - k) : u[i] = t[k + i]
    BY <1>1, <2>1, <2>3, TwoParts
  <2>5. w \in Seq(S) /\ Len(w) = n - k /\ \A i \in 1..(n - k) : w[i] = s[k + i]
    BY <1>4
  <2> HIDE DEF u, w
  <2>6. v \in Seq(S) /\ Len(v) = Len(w) + 1 /\ v[Len(w) + 1] = c /\ \A i \in 1..Len(w) : v[i] = w[i]
    BY <2>5
  <2> HIDE DEF v
  <2>7. \A i \in 1..Len(u) : u[i] = v[i]
    <3> TAKE i \in 1..Len(u)
    <3>1. i \in 1..(Len(t) - k) /\ i \in 1..(n + 1 - k) /\ i \in Nat
      BY <1>1, <1>6, <2>4
    <3>2. CASE i = n + 1 - k
      <4>1. k + i = n + 1 /\ i = Len(w) + 1
        BY <1>1, <1>6, <2>5, <3>2
      <4> QED
        BY <1>1, <2>4, <2>6, <3>1, <4>1
    <3>3. CASE i \in 1..(n - k)
      <4>1. k + i \in 1..n /\ i \in 1..Len(w)
        BY <1>1, <1>6, <2>5, <3>3
      <4> QED
        BY <1>1, <2>4, <2>5, <2>6, <3>1, <3>3, <4>1
    <3> QED
      BY <1>1, <1>6, <3>1, <3>2, <3>3
  <2>8. Len(u) = Len(v)
    BY <1>1, <1>6, <2>4, <2>5, <2>6
  <2>9. u = v
    BY <2>4, <2>6, <2>7, <2>8, SeqEqual
  <2> QED
    BY <1>4, <1>5, <2>1, <2>9 DEF u, v, w
<1>9. CASE k = n /\ c \in Blank
  <2>1. n + 1 \in 0..Len(t) /\ ~ (n + 1 < Len(t)) /\ n - k = 0
    BY <1>1, <1>9
  <2>2. \A i \in 1..(n + 1) : t[i] \in Blank
    BY <1>1, <1>2, <1>9
  <2>3. TrimLeft(t) = SubSeq(t, n + 1 + 1, Len(t))
    BY <1>1, <2>1, <2>2, LeftCut
  <2>4. SubSeq(t, n + 1 + 1, Len(t)) = <<>>
    <3>1. Len(t) < n + 1 + 1 /\ n + 1 + 1 \in Int /\ Len(t) \in Int
      BY <1>1
    <3> QED
      BY <3>1, SubSeqEmpty
  <2> QED
    BY <1>4, <1>5, <1>9, <2>1, <2>3, <2>4
<1>10. CASE k = n /\ c \notin Blank
  <2>1. n \in 0..Len(t) /\ n < Len(t) /\ n - k = 0 /\ Len(t) - n = 1
    BY <1>1, <1>10
  <2>2. (\A i \in 1..n : t[i] \in Blank) /\ t[n + 1] \notin Blank
    BY <1>1, <1>2, <1>10
  <2>3. TrimLeft(t) = SubSeq(t, n + 1, Len(t))
    BY <1>1, <2>1, <2>2, LeftCut
  <2>4. SubSeq(t, n + 1, Len(t)) = <<c>>
    <3> DEFINE u == SubSeq(t, n + 1, Len(t))
    <3>1. u \in Seq(S) /\ Len(u) = Len(t) - n /\ \A i \in 1..(Len(t) - n) : u[i] = t[n + i]
      BY <1>1, <2>1, TwoParts
    <3> HIDE DEF u
    <3>2. Len(u) = 1 /\ u[1] = c
      BY <1>1, <2>1, <3>1
    <3>3. u = <<c>>
      <4>1. <<c>> \in Seq(S) /\ Len(<<c>>) = 1 /\ <<c>>[1] = c
        OBVIOUS
      <4>2. \A i \in 1..Len(u) : u[i] = <<c>>[i]
        BY <3>2, <4>1
      <4> QED
        BY <3>1, <3>2, <4>1, <4>2, SeqEqual
    <3> QED
      BY <3>3 DEF u
  <2> QED
    BY <1>4, <1>5, <1>10, <2>1, <2>3, <2>4
<1> QED
  BY <1>1, <1>6, <1>8, <1>9, <1>10
\* A text that starts with ink has nothing to cut at the front.
LEMMA LeftTwice ==
  ASSUME NEW S, NEW s \in Seq(S), s # <<>> => s[1] \notin Blank
  PROVE  TrimLeft(s) = s
<1>1. 0 \in 0..Len(s) /\ (0 < Len(s) => s[0 + 1] \notin Blank) /\ \A i \in 1..0 : s[i] \in Blank
  OBVIOUS
<1>2. TrimLeft(s) = SubSeq(s, 0 + 1, Len(s))
  BY <1>1, LeftCut
<1> QED
  BY <1>2, SubSeqFull

\* Cutting the front leaves the last character.
LEMMA LeftLast ==
  ASSUME NEW S, NEW s \in Seq(S), TrimLeft(s) # <<>>
  PROVE  s # <<>> /\ Last(TrimLeft(s)) = Last(s)
<1>1. s # <<>>
  <2>1. TrimLeft(<<>>) = <<>>
    BY DEF TrimLeft
  <2> QED
    BY <2>1
<1> DEFINE t == SubSeq(s, 1, Len(s) - 1)
           c == s[Len(s)]
<1>2. t \in Seq(S) /\ c \in S /\ s = Append(t, c)
  <2>1. Len(s) # 0
    BY <1>1, EmptySeq
  <2> QED
    BY <2>1, Peeled
<1> HIDE DEF t, c
<1>3. TrimLeft(s) = IF TrimLeft(t) = <<>> THEN IF c \in Blank THEN <<>> ELSE <<c>>
                    ELSE Append(TrimLeft(t), c)
  BY <1>2, LeftAppend
<1>4. TrimLeft(t) \in Seq(S)
  BY <1>2, LeftInk
<1>5. Last(Append(t, c)) = c /\ Last(<<c>>) = c /\ Last(Append(TrimLeft(t), c)) = c
  BY <1>2, <1>4 DEF Last
<1> QED
  BY <1>1, <1>2, <1>3, <1>5

-----------------------------------------------------------------------------
(* ShellSyntax: what a backslash escapes. *)

\* The places at which a run of backslashes that reaches up to n may start.
Stops(s, n) == {m \in 0..(n - 1) : m = 0 \/ s[m] # "bs"}

\* The last character before position n that is no backslash.
LEMMA LastStop ==
  ASSUME NEW s, NEW n \in Nat \ {0}
  PROVE  /\ Max(Stops(s, n)) \in Stops(s, n) /\ \A m \in Stops(s, n) : m <= Max(Stops(s, n))
         /\ Escaped(s, n) <=> (n - 1 - Max(Stops(s, n))) % 2 = 1
<1>1. n - 1 \in Nat /\ Stops(s, n) \in SUBSET (0..(n - 1)) /\ 0 \in Stops(s, n)
  BY DEF Stops
<1>2. Max(Stops(s, n)) \in Stops(s, n) /\ \A m \in Stops(s, n) : m <= Max(Stops(s, n))
  BY <1>1, Greatest
<1> QED
  BY <1>2 DEF Escaped, Stops

\* The first character is not escaped.
LEMMA EscapedFirst ==
  ASSUME NEW s
  PROVE  ~Escaped(s, 1)
<1>1. Max(Stops(s, 1)) \in Stops(s, 1) /\ (Escaped(s, 1) <=> (1 - 1 - Max(Stops(s, 1))) % 2 = 1)
  BY LastStop
<1>2. Max(Stops(s, 1)) = 0
  BY <1>1 DEF Stops
<1> QED
  BY <1>1, <1>2

\* A character is escaped by a backslash that is not.
LEMMA EscapedNext ==
  ASSUME NEW s, NEW n \in Nat \ {0}
  PROVE  Escaped(s, n + 1) <=> s[n] = "bs" /\ ~Escaped(s, n)
<1> DEFINE k == n + 1
           a == Max(Stops(s, n))
           b == Max(Stops(s, k))
<1>0. k \in Nat \ {0} /\ k - 1 = n
  OBVIOUS
<1>g. SUFFICES Escaped(s, k) <=> s[n] = "bs" /\ ~Escaped(s, n)
  OBVIOUS
<1> HIDE DEF k
<1>1. a \in Stops(s, n) /\ (\A m \in Stops(s, n) : m <= a) /\ (Escaped(s, n) <=> (n - 1 - a) % 2 = 1)
  BY LastStop
<1>2. b \in Stops(s, k) /\ (\A m \in Stops(s, k) : m <= b) /\ (Escaped(s, k) <=> (k - 1 - b) % 2 = 1)
  BY <1>0, LastStop
<1> HIDE DEF a, b
<1>3. a \in 0..(n - 1) /\ b \in 0..n
  BY <1>0, <1>1, <1>2 DEF Stops
<1>4. CASE s[n] # "bs"
  <2>1. n \in Stops(s, k)
    BY <1>0, <1>4 DEF Stops
  <2>2. b = n
    BY <1>2, <1>3, <2>1
  <2>3. (k - 1 - b) % 2 = 0
    BY <1>0, <2>2
  <2> QED
    BY <1>2, <1>4, <2>3
<1>5. CASE s[n] = "bs"
  <2>1. a \in Stops(s, k)
    BY <1>0, <1>1, <1>3 DEF Stops
  <2>2. b # n
    BY <1>2, <1>5 DEF Stops
  <2>3. b \in Stops(s, n)
    BY <1>0, <1>2, <1>3, <2>2 DEF Stops
  <2>4. a = b
    BY <1>1, <1>2, <1>3, <2>1, <2>3
  <2>5. (k - 1 - a) % 2 = 1 <=> ~ ((n - 1 - a) % 2 = 1)
    BY <1>0, <1>3
  <2> QED
    BY <1>1, <1>2, <1>5, <2>4, <2>5
<1> QED
  BY <1>4, <1>5

\* What is escaped depends on what comes before.
LEMMA EscapedAlike ==
  ASSUME NEW s, NEW t, NEW n \in Nat \ {0}, Alike(s, t, n - 1)
  PROVE  Escaped(s, n) <=> Escaped(t, n)
<1>1. \A m \in 0..(n - 1) : m = 0 \/ s[m] = t[m]
  BY DEF Alike
<1>2. Stops(s, n) = Stops(t, n)
  BY <1>1 DEF Stops
<1> QED
  BY <1>2, LastStop
-----------------------------------------------------------------------------
(* ShellSyntax: the loop of the parser, one character at a time. *)

\* The states the loop goes through.
Passes(s, next, f) ==
  f = [n \in 0..Len(s) |->
         IF n = 0 THEN ScanStart
         ELSE ParseChar(f[n - 1], s[n], IF n < Len(s) THEN s[n + 1] ELSE next)]

\* Each state comes of the one before.
LEMMA PassesAt ==
  ASSUME NEW s, NEW next, NEW f, Passes(s, next, f), Len(s) \in Nat
  PROVE  /\ f[0] = ScanStart
         /\ \A n \in 1..Len(s) : f[n] = ParseChar(f[n - 1], s[n], IF n < Len(s) THEN s[n + 1] ELSE next)
<1>1. \A n \in 0..Len(s) :
        f[n] = IF n = 0 THEN ScanStart
               ELSE ParseChar(f[n - 1], s[n], IF n < Len(s) THEN s[n + 1] ELSE next)
  BY DEF Passes
<1>2. 0 \in 0..Len(s) /\ \A n \in 1..Len(s) : n \in 0..Len(s) /\ n # 0
  OBVIOUS
<1> QED
  BY <1>1, <1>2

\* One more character: so far the loop looked ahead to it.
LEMMA PassesStep ==
  ASSUME NEW S, NEW s \in Seq(S), NEW c, NEW next, NEW f, Passes(s, c, f)
  PROVE  \E h : Passes(Append(s, c), next, h)
<1> DEFINE k == Len(s)
           t == Append(s, c)
           h == [n \in 0..(k + 1) |-> IF n <= k THEN f[n] ELSE ParseChar(f[k], c, next)]
<1>1. k \in Nat /\ Len(t) = k + 1 /\ t[k + 1] = c /\ \A i \in 1..k : t[i] = s[i]
  OBVIOUS
<1>2. /\ f[0] = ScanStart
      /\ \A n \in 1..k : f[n] = ParseChar(f[n - 1], s[n], IF n < k THEN s[n + 1] ELSE c)
  BY <1>1, PassesAt
<1>g. SUFFICES Passes(t, next, h)
  OBVIOUS
<1> HIDE DEF k, t
<1>3. \A n \in 0..(k + 1) :
        h[n] = IF n = 0 THEN ScanStart
               ELSE ParseChar(h[n - 1], t[n], IF n < k + 1 THEN t[n + 1] ELSE next)
  <2> TAKE n \in 0..(k + 1)
  <2>1. CASE n = 0
    <3>1. n <= k
      BY <1>1, <2>1
    <3> QED
      BY <1>2, <2>1, <3>1
  <2>2. CASE n \in 1..k
    <3>1. n <= k /\ n # 0 /\ n < k + 1 /\ n - 1 <= k /\ n - 1 \in 0..(k + 1)
      BY <1>1, <2>2
    <3>2. h[n] = f[n] /\ h[n - 1] = f[n - 1]
      BY <3>1
    <3>3. (IF n < k THEN s[n + 1] ELSE c) = t[n + 1]
      <4>1. n < k => n + 1 \in 1..k
        BY <1>1, <2>2
      <4>2. ~ (n < k) => n = k
        BY <1>1, <2>2
      <4> QED
        BY <1>1, <4>1, <4>2
    <3>4. f[n] = ParseChar(f[n - 1], t[n], t[n + 1])
      BY <1>1, <1>2, <2>2, <3>3
    <3> HIDE DEF h
    <3> QED
      BY <3>1, <3>2, <3>4
  <2>3. CASE n = k + 1
    <3>1. ~ (n <= k) /\ n # 0 /\ ~ (n < k + 1) /\ n - 1 = k /\ k <= k /\ k \in 0..(k + 1)
      BY <1>1, <2>3
    <3>2. h[n] = ParseChar(f[k], c, next) /\ h[k] = f[k]
      BY <3>1
    <3> HIDE DEF h
    <3> QED
      BY <1>1, <2>3, <3>1, <3>2
  <2> QED
    BY <1>1, <2>1, <2>2, <2>3
<1>4. h = [n \in 0..Len(t) |->
             IF n = 0 THEN ScanStart
             ELSE ParseChar(h[n - 1], t[n], IF n < Len(t) THEN t[n + 1] ELSE next)]
  BY <1>1, <1>3
<1> HIDE DEF h
<1> QED
  BY <1>4 DEF Passes

\* The loop goes through every text.
LEMMA PassesExists ==
  ASSUME NEW S, NEW s \in Seq(S), NEW next
  PROVE  \E f : Passes(s, next, f)
<1> DEFINE P == {t \in Seq(S) : \A x : \E f : Passes(t, x, f)}
<1>1. <<>> \in P
  <2> SUFFICES ASSUME NEW x PROVE \E f : Passes(<<>>, x, f)
    OBVIOUS
  <2> DEFINE f == [n \in 0..0 |-> ScanStart]
  <2>1. Len(<<>>) = 0
    OBVIOUS
  <2>2. f = [n \in 0..Len(<<>>) |->
               IF n = 0 THEN ScanStart
               ELSE ParseChar(f[n - 1], <<>>[n], IF n < Len(<<>>) THEN <<>>[n + 1] ELSE x)]
    BY <2>1
  <2> HIDE DEF f
  <2>3. Passes(<<>>, x, f)
    BY <2>2 DEF Passes
  <2> QED
    BY <2>3
<1>2. \A t \in Seq(S), c \in S : t \in P => Append(t, c) \in P
  <2> SUFFICES ASSUME NEW t \in Seq(S), NEW c \in S, t \in P, NEW x
               PROVE  Append(t, c) \in Seq(S) /\ \E f : Passes(Append(t, c), x, f)
    OBVIOUS
  <2>1. PICK f : Passes(t, c, f)
    OBVIOUS
  <2> QED
    BY <2>1, PassesStep
<1>3. \A t \in Seq(S) : t \in P
  <2> HIDE DEF P
  <2> QED
    BY <1>1, <1>2, Grown
<1> QED
  BY <1>3

\* What Reads computes.
LEMMA ReadsIs ==
  ASSUME NEW s, NEW next
  PROVE  Reads(s, next) = (CHOOSE f : Passes(s, next, f))[Len(s)]
BY DEF Reads, Passes

\* Nothing is read of an empty text.
LEMMA ReadsNothing ==
  ASSUME NEW next
  PROVE  Reads(<<>>, next) = ScanStart
<1> DEFINE f == CHOOSE f : Passes(<<>>, next, f)
<1>1. Passes(<<>>, next, f)
  BY PassesExists, EmptySeq
<1>2. Reads(<<>>, next) = f[0] /\ Len(<<>>) = 0
  BY ReadsIs
<1> HIDE DEF f
<1>3. f[0] = ScanStart
  BY <1>1, <1>2, PassesAt
<1> QED
  BY <1>2, <1>3

\* Two passes over the same characters agree.
LEMMA PassesAlike ==
  ASSUME NEW S, NEW s \in Seq(S), NEW c, NEW next, NEW f, NEW h,
         Passes(s, c, f), Passes(Append(s, c), next, h)
  PROVE  f[Len(s)] = h[Len(s)]
<1> DEFINE k == Len(s)
           t == Append(s, c)
           T == {n \in 0..k : f[n] # h[n]}
<1>1. k \in Nat /\ Len(t) = k + 1 /\ t[k + 1] = c /\ \A i \in 1..k : t[i] = s[i]
  OBVIOUS
<1>2. /\ f[0] = ScanStart
      /\ \A n \in 1..k : f[n] = ParseChar(f[n - 1], s[n], IF n < k THEN s[n + 1] ELSE c)
  BY <1>1, PassesAt
<1>3. /\ h[0] = ScanStart
      /\ \A n \in 1..(k + 1) : h[n] = ParseChar(h[n - 1], t[n], IF n < k + 1 THEN t[n + 1] ELSE next)
  <2>1. Passes(t, next, h)
    OBVIOUS
  <2> HIDE DEF t
  <2> QED
    BY <1>1, <2>1, PassesAt
<1>g. SUFFICES f[k] = h[k]
  OBVIOUS
<1> HIDE DEF k, t
<1>4. T = {}
  <2> SUFFICES ASSUME T # {} PROVE FALSE
    OBVIOUS
  <2>1. T \in SUBSET Nat
    BY <1>1
  <2>2. PICK m \in T : \A n \in T : m <= n
    <3> HIDE DEF T
    <3> QED
      BY <2>1, Least
  <2>3. m \in 0..k /\ f[m] # h[m]
    OBVIOUS
  <2>4. m # 0
    BY <1>2, <1>3, <2>3
  <2>5. m \in 1..k /\ m \in 1..(k + 1) /\ m < k + 1 /\ m - 1 \in 0..k /\ ~ (m <= m - 1)
    BY <1>1, <2>3, <2>4
  <2>6. f[m - 1] = h[m - 1]
    BY <2>2, <2>5
  <2>7. (IF m < k THEN s[m + 1] ELSE c) = t[m + 1]
    <3>1. m < k => m + 1 \in 1..k
      BY <1>1, <2>5
    <3>2. ~ (m < k) => m = k
      BY <1>1, <2>5
    <3> QED
      BY <1>1, <3>1, <3>2
  <2>8. f[m] = ParseChar(f[m - 1], t[m], t[m + 1])
    BY <1>1, <1>2, <2>5, <2>7
  <2>9. h[m] = ParseChar(h[m - 1], t[m], t[m + 1])
    BY <1>3, <2>5
  <2> QED
    BY <2>3, <2>6, <2>8, <2>9
<1>5. k \in 0..k
  BY <1>1
<1> QED
  BY <1>4, <1>5

\* One more character is parsed after those before it.
LEMMA ReadsAppend ==
  ASSUME NEW S, NEW s \in Seq(S), NEW c \in S, NEW next
  PROVE  Reads(Append(s, c), next) = ParseChar(Reads(s, c), c, next)
<1> DEFINE t == Append(s, c)
           f == CHOOSE f : Passes(s, c, f)
           h == CHOOSE h : Passes(t, next, h)
<1>1. t \in Seq(S) /\ Len(t) = Len(s) + 1 /\ t[Len(s) + 1] = c /\ Len(s) \in Nat
  OBVIOUS
<1>2. Passes(s, c, f)
  BY PassesExists
<1>3. Passes(t, next, h)
  <2> HIDE DEF t
  <2> QED
    BY <1>1, PassesExists
<1>4. Reads(s, c) = f[Len(s)] /\ Reads(t, next) = h[Len(t)]
  BY ReadsIs
<1> HIDE DEF f, h
<1>5. f[Len(s)] = h[Len(s)]
  BY <1>2, <1>3, PassesAlike
<1> DEFINE n == Len(s) + 1
<1>6. n \in 1..Len(t) /\ n - 1 = Len(s) /\ ~ (n < Len(t)) /\ n = Len(t)
  BY <1>1
<1> HIDE DEF t
<1>7. h[n] = ParseChar(h[n - 1], t[n], IF n < Len(t) THEN t[n + 1] ELSE next)
  <2>1. Len(t) \in Nat
    BY <1>1
  <2>2. \A m \in 1..Len(t) : h[m] = ParseChar(h[m - 1], t[m], IF m < Len(t) THEN t[m + 1] ELSE next)
    BY <1>3, <2>1, PassesAt
  <2> HIDE DEF n
  <2> QED
    BY <1>6, <2>2
<1>8. t[n] = c
  BY <1>1
<1> HIDE DEF n
<1> QED
  BY <1>4, <1>5, <1>6, <1>7, <1>8 DEF t
-----------------------------------------------------------------------------
(* ShellSyntax: what the parser does with one character. *)

\* The characters of the lines, and those operators are spelled with.
Characters == Alphabet \cup UNION {ToSet(line) : line \in Lines}
Chars == Characters \cup Blank \cup {"bar", "amp", "semi"}
Texts == Seq(Chars)

\* Segments that are one segment when they are parsed by themselves.
Atoms == {g \in {Segment(raw, heredoc) : raw \in Texts, heredoc \in BOOLEAN} :
            ParseShellCommand(g.command) = [segments |-> <<g>>, operators |-> <<>>]}
OperatorNames == {"nl", "or", "bar", "and", "semi"}

ScanStates ==
  [segments : Seq(Atoms), operators : Seq(OperatorNames), current : Texts, quote : {NoQuote} \cup Quotes,
   escaped : BOOLEAN, heredoc : BOOLEAN, skip : BOOLEAN, error : BOOLEAN]

\* The character becomes part of the segment; quotes and backslashes move.
Took(st, c, q, e, h) ==
  [st EXCEPT !.current = Append(st.current, c), !.quote = q, !.escaped = e, !.heredoc = h]

Moves(st, c, q, e, h) ==
  /\ st.escaped => ~e /\ q = st.quote
  /\ ~st.escaped /\ st.quote = "sq" => ~e /\ (c = "bs" => q = "sq")
  /\ ~st.escaped /\ st.quote # "sq" => (e <=> c = "bs") /\ (c = "bs" => q = st.quote)
  /\ c \in Blank => q = st.quote /\ h = st.heredoc

\* A line break before a segment is skipped.
Dropped(st, c, r) ==
  c = "nl" /\ ~st.escaped /\ st.quote = NoQuote /\ TrimLeft(st.current) = <<>> /\ r = st

\* An operator ends the segment.
Ends(st, c, next, r) ==
  /\ ~st.escaped /\ st.quote = NoQuote
  /\ \/ c \in {"nl", "bar", "semi"} /\ r = Flush(st, c)
     \/ c = "bar" /\ next = c /\ r = [Flush(st, "or") EXCEPT !.skip = TRUE]
     \/ c = "amp" /\ next = c /\ r = [Flush(st, "and") EXCEPT !.skip = TRUE]

\* Two parsers in the middle of the same segment.
Twins(st, p) ==
  /\ p.quote = st.quote /\ p.escaped = st.escaped /\ p.heredoc = st.heredoc
  /\ ~st.error /\ ~st.skip /\ ~p.error /\ ~p.skip
  /\ p.current = TrimLeft(st.current)

\* A character is refused, skipped, ends the segment or becomes part of it; in
\* the last case it does so for both parsers.
Parsed(st, p, c, next) ==
  LET r == ParseChar(st, c, next)
  IN  \/ r.error
      \/ Dropped(st, c, r)
      \/ Ends(st, c, next, r)
      \/ \E q \in {NoQuote} \cup Quotes, e \in BOOLEAN, h \in BOOLEAN :
           /\ r = Took(st, c, q, e, h) /\ Moves(st, c, q, e, h)
           /\ ParseChar(p, c, next) = Took(p, c, q, e, h)

\* After a backslash every character is put, but for a line break.
LEMMA ParsedEscaped ==
  ASSUME NEW st \in ScanStates, NEW p \in ScanStates, Twins(st, p), NEW c \in Chars, NEW next, st.escaped
  PROVE  Parsed(st, p, c, next)
<1> DEFINE r == ParseChar(st, c, next)
<1>1. CASE c = "nl"
  <2>1. r.error
    BY <1>1 DEF ParseChar, Fail, ScanStates, Twins
  <2> QED
    BY <2>1 DEF Parsed
<1>2. CASE c # "nl"
  <2>1. r = Took(st, c, st.quote, FALSE, st.heredoc)
    BY <1>2 DEF ParseChar, Put, Took, ScanStates, Twins
  <2>2. ParseChar(p, c, next) = Took(p, c, st.quote, FALSE, st.heredoc)
    BY <1>2 DEF ParseChar, Put, Took, ScanStates, Twins
  <2>3. Moves(st, c, st.quote, FALSE, st.heredoc)
    BY DEF Moves
  <2>4. st.quote \in {NoQuote} \cup Quotes /\ FALSE \in BOOLEAN /\ st.heredoc \in BOOLEAN
    BY DEF ScanStates
  <2> QED
    BY <2>1, <2>2, <2>3, <2>4 DEF Parsed
<1> QED
  BY <1>1, <1>2

\* Within quotes a character is put, but for a substitution.
LEMMA QuotedTook ==
  ASSUME NEW u \in ScanStates, NEW c, u.quote # NoQuote, ~u.escaped, ~ (u.quote = "dq" /\ c = "subst")
  PROVE  /\ u.quote \in {"sq", "dq"}
         /\ Quoted(u, c) = Took(u, c, IF c = u.quote THEN NoQuote ELSE u.quote,
                                u.quote = "dq" /\ c = "bs", u.heredoc)
<1>0. u.quote \in {"sq", "dq"} /\ u.escaped = FALSE
  BY DEF ScanStates, Quotes
<1>1. CASE u.quote = "sq"
  BY <1>0, <1>1 DEF Quoted, Put, Took, ScanStates
<1>2. CASE u.quote = "dq"
  BY <1>0, <1>2 DEF Quoted, Put, Took, ScanStates
<1> QED
  BY <1>0, <1>1, <1>2

\* So both parsers do the same within quotes,
LEMMA ParsedQuoted ==
  ASSUME NEW st \in ScanStates, NEW p \in ScanStates, Twins(st, p), NEW c \in Chars, NEW next,
         ~st.escaped, st.quote # NoQuote
  PROVE  Parsed(st, p, c, next)
<1> DEFINE r == ParseChar(st, c, next)
<1>0. st.quote \in {"sq", "dq"} /\ r = Quoted(st, c) /\ ParseChar(p, c, next) = Quoted(p, c)
  BY DEF ScanStates, ParseChar, Twins, Quotes
<1>1. CASE st.quote = "dq" /\ c = "subst"
  <2>1. r.error
    BY <1>0, <1>1 DEF Quoted, Fail, ScanStates
  <2> QED
    BY <2>1 DEF Parsed
<1>2. CASE ~ (st.quote = "dq" /\ c = "subst")
  <2> DEFINE q == IF c = st.quote THEN NoQuote ELSE st.quote
             e == st.quote = "dq" /\ c = "bs"
  <2>0. e \in BOOLEAN /\ q \in {NoQuote} \cup Quotes /\ st.heredoc \in BOOLEAN
    BY DEF ScanStates, Twins
  <2>1. r = Took(st, c, q, e, st.heredoc)
    BY <1>0, <1>2, QuotedTook
  <2>2. ParseChar(p, c, next) = Took(p, c, q, e, st.heredoc)
    <3>1. p.quote = st.quote /\ p.heredoc = st.heredoc /\ ~p.escaped
      BY DEF Twins
    <3>2. Quoted(p, c) = Took(p, c, IF c = p.quote THEN NoQuote ELSE p.quote,
                              p.quote = "dq" /\ c = "bs", p.heredoc)
      BY <1>2, <3>1, QuotedTook
    <3> QED
      BY <1>0, <3>1, <3>2
  <2>3. Moves(st, c, q, e, st.heredoc)
    BY <1>0, <2>0 DEF Moves, Blank, NoQuote
  <2> HIDE DEF q, e, r
  <2> QED
    BY <2>0, <2>1, <2>2, <2>3 DEF Parsed, r
<1> QED
  BY <1>1, <1>2

\* The characters that are put outside quotes.
Puts(u, c, next) ==
  /\ c \notin {"nl", "subst", "bad", "bar", "semi"}
  /\ ~ (c = "lt" /\ next = "lt")
  /\ c = "amp" => u.current # <<>> /\ Last(u.current) = "gt"

\* Such a character is put, and quotes and backslashes move.
LEMMA UnquotedTook ==
  ASSUME NEW u \in ScanStates, NEW c, NEW next, u.quote = NoQuote, ~u.escaped, Puts(u, c, next)
  PROVE  Unquoted(u, c, next)
           = Took(u, c, IF c \in Quotes THEN c ELSE NoQuote, c = "bs", u.heredoc \/ c = "doc")
<1>0. u.escaped = FALSE /\ u.heredoc \in BOOLEAN
  BY DEF ScanStates
<1>1. CASE c \in Quotes
  BY <1>0, <1>1 DEF Unquoted, Put, Took, ScanStates, Quotes
<1>2. CASE c = "bs"
  BY <1>0, <1>2 DEF Unquoted, Put, Took, ScanStates, Quotes
<1>3. CASE c = "doc"
  BY <1>0, <1>3 DEF Unquoted, Put, Took, ScanStates, Quotes
<1>4. CASE c = "amp"
  BY <1>0, <1>4 DEF Unquoted, Put, Took, ScanStates, Quotes, Puts
<1>5. CASE c \notin Quotes /\ c \notin {"bs", "doc", "amp"}
  BY <1>0, <1>5 DEF Unquoted, Put, Took, ScanStates, Quotes, Puts
<1> QED
  BY <1>1, <1>2, <1>3, <1>4, <1>5

\* The other characters are refused, skipped or end the segment.
LEMMA UnquotedEnds ==
  ASSUME NEW st \in ScanStates, NEW c, NEW next, st.quote = NoQuote, ~st.escaped, ~Puts(st, c, next)
  PROVE  LET r == Unquoted(st, c, next)
         IN  r.error \/ Dropped(st, c, r) \/ Ends(st, c, next, r)
<1> DEFINE r == Unquoted(st, c, next)
<1>1. CASE c = "nl"
  <2>1. CASE \A i \in 1..Len(st.current) : st.current[i] \in Blank
    <3>1. r = st
      BY <1>1, <2>1 DEF Unquoted, Quotes
    <3>2. TrimLeft(st.current) = <<>>
      BY <2>1, LeftEmpty DEF ScanStates, Texts
    <3> QED
      BY <1>1, <3>1, <3>2 DEF Dropped
  <2>2. CASE ~ \A i \in 1..Len(st.current) : st.current[i] \in Blank
    <3>1. r = Flush(st, "nl")
      BY <1>1, <2>2 DEF Unquoted, Quotes
    <3> QED
      BY <1>1, <3>1 DEF Ends
  <2> QED
    BY <2>1, <2>2
<1>2. CASE c \in {"subst", "bad"}
  <2>1. r = Fail(st)
    BY <1>2 DEF Unquoted, Quotes
  <2> QED
    BY <2>1 DEF Fail, ScanStates
<1>3. CASE c = "lt"
  <2>1. r = Fail(st)
    BY <1>3 DEF Unquoted, Quotes, Puts
  <2> QED
    BY <2>1 DEF Fail, ScanStates
<1>4. CASE c = "bar"
  <2>1. r = IF next = "bar" THEN [Flush(st, "or") EXCEPT !.skip = TRUE] ELSE Flush(st, "bar")
    BY <1>4 DEF Unquoted, Quotes
  <2> HIDE DEF r
  <2> QED
    BY <1>4, <2>1 DEF Ends, r
<1>5. CASE c = "amp"
  <2>1. r = IF next = "amp" THEN [Flush(st, "and") EXCEPT !.skip = TRUE] ELSE Fail(st)
    BY <1>5 DEF Unquoted, Quotes, Puts
  <2>2. Fail(st).error
    BY DEF Fail, ScanStates
  <2> HIDE DEF r
  <2> QED
    BY <1>5, <2>1, <2>2 DEF Ends, r
<1>6. CASE c = "semi"
  <2>1. r = Flush(st, "semi")
    BY <1>6 DEF Unquoted, Quotes
  <2> QED
    BY <1>6, <2>1 DEF Ends
<1> QED
  BY <1>1, <1>2, <1>3, <1>4, <1>5, <1>6 DEF Puts

\* Both parsers put the same characters.
LEMMA PutsTwins ==
  ASSUME NEW st \in ScanStates, NEW p \in ScanStates, Twins(st, p), NEW c, NEW next,
         Puts(st, c, next)
  PROVE  Puts(p, c, next)
<1>1. CASE c # "amp"
  BY <1>1 DEF Puts
<1>2. CASE c = "amp"
  <2>1. st.current \in Texts /\ st.current # <<>> /\ Last(st.current) = "gt" /\ p.current = TrimLeft(st.current)
    BY <1>2 DEF Puts, ScanStates, Twins
  <2>2. p.current # <<>>
    <3> SUFFICES ASSUME TrimLeft(st.current) = <<>> PROVE FALSE
      BY <2>1
    <3>1. \A i \in 1..Len(st.current) : st.current[i] \in Blank
      BY <2>1, LeftEmpty DEF Texts
    <3>2. Len(st.current) \in 1..Len(st.current)
      BY <2>1, EmptySeq DEF Texts
    <3> QED
      BY <2>1, <3>1, <3>2 DEF Last, Blank
  <2>3. Last(p.current) = "gt"
    BY <2>1, <2>2, LeftLast DEF Texts
  <2> QED
    BY <1>2, <2>2, <2>3 DEF Puts
<1> QED
  BY <1>1, <1>2

\* and outside quotes,
LEMMA ParsedUnquoted ==
  ASSUME NEW st \in ScanStates, NEW p \in ScanStates, Twins(st, p), NEW c \in Chars, NEW next,
         ~st.escaped, st.quote = NoQuote
  PROVE  Parsed(st, p, c, next)
<1>1. ParseChar(st, c, next) = Unquoted(st, c, next) /\ ParseChar(p, c, next) = Unquoted(p, c, next)
  BY DEF ScanStates, ParseChar, Twins
<1>2. CASE Puts(st, c, next)
  <2> DEFINE q == IF c \in Quotes THEN c ELSE NoQuote
             h == st.heredoc \/ c = "doc"
             e == c = "bs"
  <2>0. e \in BOOLEAN /\ q \in {NoQuote} \cup Quotes /\ h \in BOOLEAN
    OBVIOUS
  <2>1. Unquoted(st, c, next) = Took(st, c, q, e, h)
    BY <1>2, UnquotedTook
  <2>2. Unquoted(p, c, next) = Took(p, c, q, e, h)
    <3>1. p.quote = NoQuote /\ p.heredoc = st.heredoc /\ ~p.escaped /\ Puts(p, c, next)
      BY <1>2, PutsTwins DEF Twins
    <3>2. Unquoted(p, c, next)
            = Took(p, c, IF c \in Quotes THEN c ELSE NoQuote, c = "bs", p.heredoc \/ c = "doc")
      BY <3>1, UnquotedTook
    <3> QED
      BY <3>1, <3>2
  <2>3. Moves(st, c, q, e, h)
    BY DEF Moves, Blank, NoQuote, Quotes, ScanStates
  <2> HIDE DEF q, e, h
  <2> QED
    BY <1>1, <2>0, <2>1, <2>2, <2>3 DEF Parsed
<1>3. CASE ~Puts(st, c, next)
  BY <1>1, <1>3, UnquotedEnds DEF Parsed
<1> QED
  BY <1>2, <1>3

\* and wherever they stand.
LEMMA ParsedAll ==
  ASSUME NEW st \in ScanStates, NEW p \in ScanStates, Twins(st, p), NEW c \in Chars, NEW next
  PROVE  Parsed(st, p, c, next)
BY ParsedEscaped, ParsedQuoted, ParsedUnquoted
-----------------------------------------------------------------------------
(* ShellSyntax: a parser that reads one segment alone. *)

\* It has read text, and nothing but the segment has come of it.
Fresh(r, text) ==
  /\ r \in ScanStates /\ r.segments = <<>> /\ r.operators = <<>> /\ r.current = text
  /\ ~r.error /\ ~r.skip

\* Where it stands after the first k characters.
Look(text, next, k) == IF k < Len(text) THEN text[k + 1] ELSE next
Standing(text, next, k) == Reads(SubSeq(text, 1, k), Look(text, next, k))

\* So far, nothing but the segment; outside single quotes it knows what is escaped.
QuietAt(text, next, k) ==
  LET r == Standing(text, next, k)
  IN  /\ Fresh(r, SubSeq(text, 1, k))
      /\ r.quote = "sq" => ~r.escaped
      /\ r.quote # "sq" => (r.escaped <=> Escaped(text, k + 1))
Quiet(text, next) == \A k \in 0..Len(text) : QuietAt(text, next, k)

\* After all of its characters a parser has read the text.
LEMMA StandingLast ==
  ASSUME NEW text \in Texts, NEW next
  PROVE  Standing(text, next, Len(text)) = Reads(text, next) /\ Len(text) \in 0..Len(text)
<1>1. Len(text) \in Nat /\ SubSeq(text, 1, Len(text)) = text
  BY SubSeqFull DEF Texts
<1>2. Len(text) \in 0..Len(text) /\ ~ (Len(text) < Len(text))
  BY <1>1
<1>3. Look(text, next, Len(text)) = next
  BY <1>2 DEF Look
<1> QED
  BY <1>1, <1>2, <1>3 DEF Standing

\* It begins so,
LEMMA FreshStart == Fresh(ScanStart, <<>>) /\ ScanStart.quote = NoQuote /\ ~ScanStart.escaped /\ ~ScanStart.heredoc
<1>1. <<>> \in Seq(Atoms) /\ <<>> \in Seq(OperatorNames) /\ <<>> \in Texts
  BY DEF Texts
<1>2. ScanStart \in ScanStates
  BY <1>1 DEF ScanStates, ScanStart
<1> QED
  BY <1>2 DEF Fresh, ScanStart

\* and has read the empty text.
LEMMA QuietEmpty ==
  ASSUME NEW next
  PROVE  Quiet(<<>>, next) /\ Reads(<<>>, next) = ScanStart
<1>1. Reads(<<>>, next) = ScanStart
  BY ReadsNothing
<1>2. Len(<<>>) = 0 /\ <<>> \in Texts
  BY DEF Texts
<1>3. Standing(<<>>, next, 0) = ScanStart /\ SubSeq(<<>>, 1, 0) = <<>>
  BY <1>1, <1>2, StandingLast
<1>4. ~Escaped(<<>>, 0 + 1)
  BY EscapedFirst
<1>5. QuietAt(<<>>, next, 0)
  BY <1>3, <1>4, FreshStart DEF QuietAt, NoQuote
<1> QED
  BY <1>1, <1>2, <1>5 DEF Quiet

\* A character that is put leaves it with nothing but the segment.
LEMMA QuietAppend ==
  ASSUME NEW text \in Texts, NEW c \in Chars, NEW next, Quiet(text, c),
         NEW q \in {NoQuote} \cup Quotes, NEW e \in BOOLEAN, NEW h \in BOOLEAN,
         ParseChar(Reads(text, c), c, next) = Took(Reads(text, c), c, q, e, h),
         Moves(Reads(text, c), c, q, e, h)
  PROVE  /\ Quiet(Append(text, c), next)
         /\ Reads(Append(text, c), next) = Took(Reads(text, c), c, q, e, h)
<1> DEFINE n == Len(text)
           more == Append(text, c)
           p == Reads(text, c)
<1>1. /\ n \in Nat /\ more \in Texts /\ Len(more) = n + 1 /\ more[n + 1] = c
      /\ \A i \in 1..n : more[i] = text[i]
  BY DEF Texts
<1>2. Reads(more, next) = Took(p, c, q, e, h)
  BY ReadsAppend DEF Texts
<1>3. QuietAt(text, c, n) /\ p = Standing(text, c, n)
  BY StandingLast DEF Quiet
<1>4. Fresh(p, text)
  BY <1>3, SubSeqFull DEF QuietAt, Texts
<1> HIDE DEF more, n, p
<1>5. \A k \in 0..n : QuietAt(more, next, k)
  <2> TAKE k \in 0..n
  <2>1. QuietAt(text, c, k)
    BY DEF Quiet, n
  <2>2. SubSeq(more, 1, k) = SubSeq(text, 1, k)
    <3>1. k \in 0..Len(text) /\ k \in 0..Len(more)
      BY <1>1 DEF n
    <3>2. \A i \in 1..k : i \in 1..n
      BY <1>1
    <3> DEFINE a == SubSeq(text, 1, k)
               b == SubSeq(more, 1, k)
    <3>3. a \in Seq(Chars) /\ Len(a) = k /\ \A i \in 1..k : a[i] = text[i]
      BY <3>1, TwoParts DEF Texts
    <3>4. b \in Seq(Chars) /\ Len(b) = k /\ \A i \in 1..k : b[i] = more[i]
      BY <1>1, <3>1, TwoParts DEF Texts
    <3> HIDE DEF a, b
    <3>5. a = b
      BY <1>1, <3>2, <3>3, <3>4, SeqEqual
    <3> QED
      BY <3>5 DEF a, b
  <2>3. Look(more, next, k) = Look(text, c, k)
    <3>1. k < n => k + 1 \in 1..n
      BY <1>1
    <3>2. ~ (k < n) => k = n
      BY <1>1
    <3>3. k < Len(more)
      BY <1>1
    <3> QED
      BY <1>1, <3>1, <3>2, <3>3 DEF Look, n
  <2>4. Escaped(more, k + 1) <=> Escaped(text, k + 1)
    <3>1. k + 1 \in Nat \ {0} /\ (k + 1) - 1 = k /\ \A i \in 1..k : i \in 1..n
      BY <1>1
    <3>2. Alike(more, text, (k + 1) - 1)
      BY <1>1, <3>1 DEF Alike
    <3> QED
      BY <3>1, <3>2, EscapedAlike
  <2> QED
    BY <2>1, <2>2, <2>3, <2>4 DEF QuietAt, Standing
<1>6. QuietAt(more, next, n + 1)
  <2>1. Standing(more, next, n + 1) = Took(p, c, q, e, h) /\ SubSeq(more, 1, n + 1) = more
    BY <1>1, <1>2, StandingLast, SubSeqFull DEF Texts
  <2>2. Fresh(Took(p, c, q, e, h), more)
    <3>1. Took(p, c, q, e, h) \in ScanStates
      BY <1>1, <1>4 DEF Took, Fresh, ScanStates, more
    <3> QED
      BY <1>4, <3>1 DEF Took, Fresh, ScanStates, more
  <2>3. Took(p, c, q, e, h).quote = q /\ Took(p, c, q, e, h).escaped = e
    BY <1>4 DEF Took, Fresh, ScanStates
  <2>4. Escaped(more, (n + 1) + 1) <=> c = "bs" /\ ~Escaped(more, n + 1)
    <3>1. n + 1 \in Nat \ {0}
      BY <1>1
    <3> QED
      BY <1>1, <3>1, EscapedNext
  <2>5. QuietAt(more, next, n)
    BY <1>1, <1>5
  <2>6. Standing(more, next, n) = p
    <3>1. Look(more, next, n) = c
      BY <1>1 DEF Look
    <3>2. SubSeq(more, 1, n) = text
      <4> DEFINE b == SubSeq(more, 1, n)
      <4>1. n \in 0..Len(more)
        BY <1>1
      <4>2. b \in Seq(Chars) /\ Len(b) = n /\ \A i \in 1..n : b[i] = more[i]
        BY <1>1, <4>1, TwoParts DEF Texts
      <4> HIDE DEF b
      <4>3. b = text
        BY <1>1, <4>2, SeqEqual DEF Texts, n
      <4> QED
        BY <4>3 DEF b
    <3> QED
      BY <3>1, <3>2 DEF Standing, p
  <2>7. /\ p.quote = "sq" => ~p.escaped
        /\ p.quote # "sq" => (p.escaped <=> Escaped(more, n + 1))
    BY <2>5, <2>6 DEF QuietAt
  <2>8. Moves(p, c, q, e, h)
    BY DEF p
  <2>9. (q = "sq" => ~e) /\ (q # "sq" => (e <=> Escaped(more, (n + 1) + 1)))
    BY <2>4, <2>7, <2>8 DEF Moves
  <2> QED
    BY <2>1, <2>2, <2>3, <2>9 DEF QuietAt
<1>7. \A k \in 0..Len(more) : k \in 0..n \/ k = n + 1
  BY <1>1
<1>8. Quiet(more, next)
  BY <1>5, <1>6, <1>7 DEF Quiet
<1> QED
  BY <1>2, <1>8 DEF more, p
-----------------------------------------------------------------------------
(* ShellSyntax: a segment is one segment when it is parsed by itself. *)

\* A sequence with one more item is not empty.
LEMMA Appended ==
  ASSUME NEW S, NEW s \in Seq(S), NEW g
  PROVE  Append(s, g) # <<>>
<1>1. s \in Seq(S \cup {g}) /\ g \in S \cup {g}
  BY SeqMonotonic
<1> DEFINE T == S \cup {g}
<1>2. s \in Seq(T) /\ g \in T
  BY <1>1
<1> HIDE DEF T
<1>3. Append(s, g) \in Seq(T) /\ Len(Append(s, g)) = Len(s) + 1 /\ Len(s) \in Nat
  BY <1>2
<1> QED
  BY <1>3, EmptySeq

\* Where an operator ends a segment, there is one, or an error.
LEMMA EndsASegment ==
  ASSUME NEW st \in ScanStates, NEW c, NEW next, NEW r, Ends(st, c, next, r)
  PROVE  r.error \/ r.segments # <<>>
<1>1. PICK op \in OperatorNames : r = Flush(st, op) \/ r = [Flush(st, op) EXCEPT !.skip = TRUE]
  BY DEF Ends, OperatorNames
<1>2. op # End
  BY DEF OperatorNames, End
<1>3. Flush(st, op) = Fail(st) \/ \E g : Flush(st, op).segments = Append(st.segments, g)
  BY <1>2 DEF Flush, ScanStates
<1>4. Fail(st).error /\ \A g : Append(st.segments, g) # <<>>
  BY Appended DEF Fail, ScanStates
<1>5. r.segments = Flush(st, op).segments /\ r.error = Flush(st, op).error
  BY <1>1, <1>2 DEF Flush, Fail, ScanStates
<1> QED
  BY <1>3, <1>4, <1>5

\* What comes of a segment does not depend on what would follow.
LEMMA LookAway ==
  ASSUME NEW st \in ScanStates, ~st.error, ~st.skip, NEW c, NEW next,
         ~ParseChar(st, c, next).error, ParseChar(st, c, next).segments = <<>>
  PROVE  ParseChar(st, c, End) = ParseChar(st, c, next)
<1>1. CASE st.escaped \/ st.quote # NoQuote
  BY <1>1 DEF ParseChar
<1>2. CASE ~st.escaped /\ st.quote = NoQuote
  <2>1. \A x : ParseChar(st, c, x) = Unquoted(st, c, x)
    BY <1>2 DEF ParseChar, ScanStates
  <2>2. CASE Puts(st, c, next)
    <3>1. Puts(st, c, End)
      BY <2>2 DEF Puts, End
    <3> QED
      BY <1>2, <2>1, <2>2, <3>1, UnquotedTook
  <2>3. CASE ~Puts(st, c, next)
    <3> DEFINE r == Unquoted(st, c, next)
    <3>1. ~r.error /\ r.segments = <<>>
      BY <2>1
    <3>2. Dropped(st, c, r) \/ Ends(st, c, next, r)
      BY <1>2, <2>3, <3>1, UnquotedEnds
    <3>3. CASE Dropped(st, c, r)
      <4>1. c = "nl"
        BY <3>3 DEF Dropped
      <4>2. Unquoted(st, c, End) = Unquoted(st, c, next)
        BY <4>1 DEF Unquoted, Quotes
      <4> QED
        BY <2>1, <4>2
    <3>4. CASE Ends(st, c, next, r)
      BY <3>1, <3>4, EndsASegment
    <3> QED
      BY <3>2, <3>3, <3>4
  <2> QED
    BY <2>2, <2>3
<1> QED
  BY <1>1, <1>2

\* The first k characters of a text are those before the last of them, and that one.
LEMMA Prefix ==
  ASSUME NEW text \in Texts, NEW k \in 1..Len(text)
  PROVE  /\ k - 1 \in 0..Len(text) /\ text[k] \in Chars /\ SubSeq(text, 1, k - 1) \in Texts
         /\ SubSeq(text, 1, k) = Append(SubSeq(text, 1, k - 1), text[k])
<1>1. Len(text) \in Nat /\ k - 1 \in 0..Len(text) /\ k \in 0..Len(text) /\ k \in Nat
  BY DEF Texts
<1> DEFINE a == SubSeq(text, 1, k - 1)
           b == SubSeq(text, 1, k)
<1>2. a \in Seq(Chars) /\ Len(a) = k - 1 /\ \A i \in 1..(k - 1) : a[i] = text[i]
  BY <1>1, TwoParts DEF Texts
<1>3. b \in Seq(Chars) /\ Len(b) = k /\ \A i \in 1..k : b[i] = text[i]
  BY <1>1, TwoParts DEF Texts
<1>4. text[k] \in Chars
  BY DEF Texts
<1> HIDE DEF a, b
<1> DEFINE d == Append(a, text[k])
<1>5. d \in Seq(Chars) /\ Len(d) = Len(a) + 1 /\ d[Len(a) + 1] = text[k] /\ \A i \in 1..Len(a) : d[i] = a[i]
  BY <1>2, <1>4
<1> HIDE DEF d
<1>6. \A i \in 1..Len(b) : b[i] = d[i]
  <2> TAKE i \in 1..Len(b)
  <2>1. CASE i = k
    <3>1. k = Len(a) + 1 /\ i \in 1..k
      BY <1>1, <1>2, <2>1
    <3> QED
      BY <1>3, <1>5, <2>1, <3>1
  <2>2. CASE i # k
    <3>1. i \in 1..(k - 1) /\ i \in 1..k /\ i \in 1..Len(a)
      BY <1>1, <1>2, <1>3, <2>2
    <3> QED
      BY <1>2, <1>3, <1>5, <3>1
  <2> QED
    BY <2>1, <2>2
<1>7. Len(b) = Len(d)
  BY <1>1, <1>2, <1>3, <1>5
<1>8. b = d
  BY <1>3, <1>5, <1>6, <1>7, SeqEqual
<1> QED
  BY <1>1, <1>2, <1>4, <1>8 DEF a, b, d, Texts

\* Where it stands after a character, from where it stood before.
LEMMA StandingNext ==
  ASSUME NEW text \in Texts, NEW next, NEW k \in 1..Len(text)
  PROVE  /\ Standing(text, next, k) = ParseChar(Standing(text, next, k - 1), text[k], Look(text, next, k))
         /\ Reads(SubSeq(text, 1, k), End) = ParseChar(Standing(text, next, k - 1), text[k], End)
<1>1. /\ k - 1 \in 0..Len(text) /\ text[k] \in Chars /\ SubSeq(text, 1, k - 1) \in Texts
      /\ SubSeq(text, 1, k) = Append(SubSeq(text, 1, k - 1), text[k])
  BY Prefix
<1>2. Look(text, next, k - 1) = text[k]
  <2>1. Len(text) \in Nat /\ k - 1 < Len(text) /\ (k - 1) + 1 = k
    BY DEF Texts
  <2> QED
    BY <2>1 DEF Look
<1>3. \A x : Reads(SubSeq(text, 1, k), x) = ParseChar(Standing(text, next, k - 1), text[k], x)
  <2> DEFINE a == SubSeq(text, 1, k - 1)
             d == text[k]
  <2>1. a \in Seq(Chars) /\ d \in Chars /\ SubSeq(text, 1, k) = Append(a, d)
    BY <1>1 DEF Texts
  <2>2. Standing(text, next, k - 1) = Reads(a, d)
    BY <1>2 DEF Standing
  <2> HIDE DEF a, d
  <2>3. \A x : Reads(Append(a, d), x) = ParseChar(Reads(a, d), d, x)
    BY <2>1, ReadsAppend
  <2> QED
    BY <2>1, <2>2, <2>3 DEF d
<1> QED
  BY <1>3 DEF Standing

\* So the parser of the first characters stands where the one of the text stood.
LEMMA StandsAlone ==
  ASSUME NEW text \in Texts, NEW next, Quiet(text, next), NEW k \in 1..Len(text)
  PROVE  Reads(SubSeq(text, 1, k), End) = Standing(text, next, k)
<1> DEFINE r == Standing(text, next, k)
           s == Standing(text, next, k - 1)
<1>1. k \in 0..Len(text) /\ k - 1 \in 0..Len(text)
  BY Prefix
<1>2. ~r.error /\ r.segments = <<>> /\ s \in ScanStates /\ ~s.error /\ ~s.skip
  BY <1>1 DEF Quiet, QuietAt, Fresh
<1>3. r = ParseChar(s, text[k], Look(text, next, k)) /\ Reads(SubSeq(text, 1, k), End) = ParseChar(s, text[k], End)
  BY StandingNext
<1> HIDE DEF r, s
<1>4. ParseChar(s, text[k], End) = ParseChar(s, text[k], Look(text, next, k))
  BY <1>2, <1>3, LookAway
<1> QED
  BY <1>3, <1>4 DEF r
\* What is left by a trim that has cut the end.
LEMMA TrimAgain ==
  ASSUME NEW text \in Texts, TrimLeft(text) = text, NEW k \in 1..Len(text), ~HasHeredoc(text),
         text[k] \notin Blank \/ Escaped(text, k)
  PROVE  Trim(SubSeq(text, 1, k)) = SubSeq(text, 1, k)
<1> DEFINE raw == SubSeq(text, 1, k)
<1>1. Len(text) \in Nat /\ k \in 0..Len(text) /\ k \in Nat \ {0} /\ 1 \in 1..k /\ 1 \in 1..Len(text)
  BY DEF Texts
<1>2. raw \in Seq(Chars) /\ Len(raw) = k /\ \A i \in 1..k : raw[i] = text[i]
  BY <1>1, TwoParts DEF Texts
<1> HIDE DEF raw
<1>3. TrimLeft(raw) = raw
  <2>1. text # <<>>
    BY <1>1
  <2>2. text[1] \notin Blank
    BY <2>1, LeftInk DEF Texts
  <2>3. raw[1] = text[1]
    BY <1>1, <1>2
  <2> QED
    BY <1>2, <2>2, <2>3, LeftTwice
<1>4. ~HasHeredoc(raw)
  <2>1. \A i \in 1..Len(raw) : i \in 1..Len(text) /\ raw[i] = text[i]
    BY <1>1, <1>2
  <2>2. \A i \in 1..(Len(raw) - 1) :
          i \in 1..(Len(text) - 1) /\ raw[i] = text[i] /\ raw[i + 1] = text[i + 1]
    <3> TAKE i \in 1..(Len(raw) - 1)
    <3>1. i \in 1..(Len(text) - 1) /\ i \in 1..k /\ i + 1 \in 1..k
      BY <1>1, <1>2
    <3> QED
      BY <1>2, <3>1
  <2> QED
    BY <2>1, <2>2 DEF HasHeredoc
<1>5. TrimEnd(raw) = raw
  <2>1. k \in 0..Len(raw) /\ raw[k] = text[k] /\ \A i \in (k + 1)..Len(raw) : FALSE
    BY <1>1, <1>2
  <2>2. Escaped(raw, k) <=> Escaped(text, k)
    <3>1. Alike(raw, text, k - 1)
      BY <1>1, <1>2 DEF Alike
    <3> QED
      BY <1>1, <3>1, EscapedAlike
  <2>3. TrimEnd(raw) = SubSeq(raw, 1, k)
    BY <1>2, <2>1, <2>2, EndCut
  <2> QED
    BY <1>2, <2>3, SubSeqFull
<1> QED
  BY <1>3, <1>4, <1>5 DEF Trim, raw

\* Over a blank that is not escaped, quotes did not move.
LEMMA BlankBack ==
  ASSUME NEW text \in Texts, NEW next, Quiet(text, next), NEW k \in 1..Len(text),
         text[k] \in Blank, ~Escaped(text, k), Standing(text, next, k).quote = NoQuote
  PROVE  LET r == Standing(text, next, k)
             s == Standing(text, next, k - 1)
         IN  s.quote = NoQuote /\ ~s.escaped /\ s.heredoc = r.heredoc
<1> DEFINE r == Standing(text, next, k)
           s == Standing(text, next, k - 1)
           c == text[k]
<1>1. k \in 0..Len(text) /\ k - 1 \in 0..Len(text) /\ c \in Chars /\ k \in Nat
  BY Prefix
<1>2. r = ParseChar(s, c, Look(text, next, k))
  BY StandingNext
<1>3. QuietAt(text, next, k) /\ QuietAt(text, next, k - 1)
  BY <1>1 DEF Quiet
<1>4. Fresh(r, SubSeq(text, 1, k)) /\ Fresh(s, SubSeq(text, 1, k - 1))
  BY <1>3 DEF QuietAt
<1>5. (s.quote = "sq" => ~s.escaped) /\ (s.quote # "sq" => (s.escaped <=> Escaped(text, k)))
  <2>1. (k - 1) + 1 = k
    BY <1>1
  <2> QED
    BY <1>3, <2>1 DEF QuietAt
<1>6. ~s.escaped
  BY <1>5
<1>7. r.quote = NoQuote /\ c \in Blank
  OBVIOUS
<1>g. SUFFICES s.quote = NoQuote /\ s.heredoc = r.heredoc
  BY <1>6
<1> HIDE DEF r, s, c
<1>8. s \in ScanStates /\ ~s.error /\ ~s.skip /\ ~r.error /\ r.segments = <<>> /\ s.segments = <<>>
        /\ r \in ScanStates
  BY <1>4 DEF Fresh
<1>9. s.quote = NoQuote
  <2> SUFFICES ASSUME s.quote # NoQuote PROVE FALSE
    OBVIOUS
  <2>1. r = Quoted(s, c)
    BY <1>2, <1>6, <1>8 DEF ParseChar, ScanStates
  <2>2. c # "subst" /\ c \notin {"sq", "dq"}
    BY <1>7 DEF Blank
  <2>3. r = Took(s, c, IF c = s.quote THEN NoQuote ELSE s.quote, s.quote = "dq" /\ c = "bs", s.heredoc)
          /\ s.quote \in {"sq", "dq"}
    BY <1>6, <1>8, <2>1, <2>2, QuotedTook
  <2>4. r.quote = s.quote
    BY <1>8, <2>2, <2>3 DEF Took, ScanStates
  <2> QED
    BY <1>7, <2>4
<1>10. r = Unquoted(s, c, Look(text, next, k))
  BY <1>2, <1>6, <1>8, <1>9 DEF ParseChar, ScanStates
<1>11. CASE Puts(s, c, Look(text, next, k))
  <2>1. r = Took(s, c, IF c \in Quotes THEN c ELSE NoQuote, c = "bs", s.heredoc \/ c = "doc")
    BY <1>6, <1>8, <1>9, <1>10, <1>11, UnquotedTook
  <2>2. r.heredoc = (s.heredoc \/ c = "doc") /\ c # "doc" /\ s.heredoc \in BOOLEAN
    BY <1>7, <1>8, <2>1 DEF Took, ScanStates, Blank
  <2> QED
    BY <1>9, <2>2
<1>12. CASE ~Puts(s, c, Look(text, next, k))
  <2>1. Dropped(s, c, r) \/ Ends(s, c, Look(text, next, k), r)
    BY <1>6, <1>8, <1>9, <1>10, <1>12, UnquotedEnds
  <2>2. Dropped(s, c, r) => r = s
    BY DEF Dropped
  <2>3. ~Ends(s, c, Look(text, next, k), r)
    BY <1>8, EndsASegment
  <2> QED
    BY <1>9, <2>1, <2>2, <2>3
<1> QED
  BY <1>11, <1>12
\* Parsing what is left of a segment stands where the line's parser stood.
LEMMA ReadAlone ==
  ASSUME NEW text \in Texts, NEW next, Quiet(text, next), TrimLeft(text) = text, Trim(text) # <<>>,
         Reads(text, next).quote = NoQuote, ~Reads(text, next).escaped
  PROVE  LET raw == Trim(text)
             z == Reads(raw, End)
         IN  /\ raw \in Texts /\ Trim(raw) = raw
             /\ Fresh(z, raw) /\ z.quote = NoQuote /\ ~z.escaped
             /\ z.heredoc = Reads(text, next).heredoc
<1> DEFINE n == Len(text)
           raw == Trim(text)
           z == Reads(raw, End)
           p == Reads(text, next)
<1>1. n \in Nat /\ Standing(text, next, n) = p /\ SubSeq(text, 1, n) = text
  BY StandingLast, SubSeqFull DEF Texts
<1>2. \A k \in 0..n : Fresh(Standing(text, next, k), SubSeq(text, 1, k))
  BY DEF Quiet, QuietAt
<1>3. p.quote = NoQuote /\ ~p.escaped
  OBVIOUS
<1>4. CASE HasHeredoc(text)
  <2>1. raw = text
    BY <1>4 DEF Trim
  <2>2. n \in 1..n
    <3>1. n # 0
      BY <2>1, EmptySeq DEF Texts
    <3> QED
      BY <1>1, <3>1
  <2>3. z = p
    BY <1>1, <2>1, <2>2, StandsAlone
  <2>4. Fresh(z, raw)
    <3>1. n \in 0..n
      BY <1>1
    <3>2. Fresh(Standing(text, next, n), SubSeq(text, 1, n))
      BY <1>2, <3>1
    <3>3. Fresh(p, text)
      BY <1>1, <3>2
    <3> HIDE DEF p, z, raw
    <3> QED
      BY <2>1, <2>3, <3>3
  <2> QED
    BY <1>3, <2>1, <2>3, <2>4
<1>5. CASE ~HasHeredoc(text)
  <2>1. PICK k \in 0..Len(text) :
           /\ k = 0 \/ text[k] \notin Blank \/ Escaped(text, k)
           /\ \A i \in (k + 1)..Len(text) : text[i] \in Blank /\ ~Escaped(text, i)
    BY EndExists DEF Texts
  <2>2. raw = SubSeq(text, 1, k)
    BY <1>5, <2>1, EndCut DEF Trim, Texts
  <2>3. k \in 1..n /\ raw \in Texts
    <3>1. raw \in Seq(Chars) /\ Len(raw) = k
      BY <2>2, TwoParts DEF Texts
    <3>2. k # 0
      BY <3>1, EmptySeq
    <3> QED
      BY <1>1, <3>1, <3>2 DEF Texts
  <2>4. Trim(raw) = raw
    BY <1>5, <2>1, <2>2, <2>3, TrimAgain
  <2> DEFINE Settled(j) == /\ Standing(text, next, j).quote = NoQuote
                           /\ ~Standing(text, next, j).escaped
                           /\ Standing(text, next, j).heredoc = p.heredoc
             T == {j \in k..n : ~Settled(j)}
  <2>5. \A j \in (k + 1)..n : Settled(j) => Settled(j - 1)
    <3> SUFFICES ASSUME NEW j \in (k + 1)..n, Settled(j) PROVE Settled(j - 1)
      OBVIOUS
    <3>1. j \in 1..Len(text)
      BY <1>1, <2>3
    <3> QED
      BY <2>1, <3>1, BlankBack
  <2>6. Settled(n)
    BY <1>1, <1>3
  <2> HIDE DEF Settled
  <2>7. T = {}
    <3> SUFFICES ASSUME T # {} PROVE FALSE
      OBVIOUS
    <3>1. T \in SUBSET (0..n)
      BY <1>1, <2>3
    <3>2. Max(T) \in T /\ \A j \in T : j <= Max(T)
      <4> HIDE DEF T, n
      <4> QED
        BY <1>1, <3>1, Greatest
    <3>3. PICK m \in T : \A j \in T : j <= m
      BY <3>2
    <3>4. m \in k..n /\ ~Settled(m) /\ m # n
      BY <2>6
    <3>5. m + 1 \in (k + 1)..n /\ m + 1 \in k..n /\ (m + 1) - 1 = m /\ ~ (m + 1 <= m)
      <4> HIDE DEF n, T
      <4>1. n \in Nat
        BY <1>1
      <4>2. k \in Nat
        BY <2>3
      <4> QED
        BY <3>4, <4>1, <4>2
    <3>6. ~Settled(m + 1)
      BY <2>5, <3>4, <3>5
    <3>7. m + 1 \in T
      BY <3>5, <3>6
    <3> QED
      BY <3>3, <3>5, <3>7
  <2>8. Settled(k)
    <3>1. k \in k..n
      BY <2>3
    <3> QED
      BY <2>7, <3>1
  <2>9. z = Standing(text, next, k)
    BY <2>2, <2>3, StandsAlone
  <2>10. Fresh(z, raw)
    <3>1. k \in 0..n
      BY <2>3
    <3> QED
      BY <1>2, <2>2, <2>9, <3>1
  <2> HIDE DEF z, raw
  <2> QED
    BY <2>3, <2>4, <2>8, <2>9, <2>10 DEF Settled, z, raw
<1> QED
  BY <1>4, <1>5

\* What is parsed to itself is an atom.
LEMMA AtomIs ==
  ASSUME NEW raw \in Texts, Trim(raw) = raw, raw # <<>>,
         Fresh(Reads(raw, End), raw), Reads(raw, End).quote = NoQuote, ~Reads(raw, End).escaped
  PROVE  Segment(raw, Reads(raw, End).heredoc) \in Atoms
<1> DEFINE z == Reads(raw, End)
           g == Segment(raw, z.heredoc)
           w == Flush(z, End)
<1>1. /\ z \in ScanStates /\ z.segments = <<>> /\ z.operators = <<>> /\ z.current = raw /\ ~z.error
      /\ z.heredoc \in BOOLEAN
  BY DEF Fresh, ScanStates
<1>2. Scan(Trim(raw)) = z /\ ~ (z.escaped \/ z.quote # NoQuote)
  BY DEF Scan
<1>3. g.command = raw
  BY DEF Segment
<1> HIDE DEF z, g
<1>4. w.segments = Append(<<>>, g) /\ w.operators = <<>> /\ ~w.error
  BY <1>1 DEF Flush, ScanStates, g
<1>5. Append(<<>>, g) = <<g>> /\ Len(<<>>) = 0 /\ Len(<<g>>) = 1
  OBVIOUS
<1>6. ParseShellCommand(raw) = [segments |-> <<g>>, operators |-> <<>>]
  <2>1. ~ (w.error \/ Len(w.operators) >= Len(w.segments))
    BY <1>4, <1>5
  <2> HIDE DEF w
  <2>2. ParseShellCommand(raw) = [segments |-> w.segments, operators |-> w.operators]
    BY <1>2, <2>1 DEF ParseShellCommand, w
  <2> QED
    BY <1>4, <1>5, <2>2
<1>7. g \in {Segment(t, heredoc) : t \in Texts, heredoc \in BOOLEAN}
  BY <1>1 DEF g
<1> QED
  BY <1>3, <1>6, <1>7 DEF Atoms, g, z
-----------------------------------------------------------------------------
(* ShellSyntax: the segments found so far. *)

\* The parser of the line stands where the parser of its last segment alone stands.
Follows(st, next) ==
  LET text == TrimLeft(st.current)
      p == Reads(text, next)
  IN  /\ Quiet(text, next)
      /\ p.quote = st.quote /\ p.escaped = st.escaped /\ p.heredoc = st.heredoc

\* Nothing to spell of an operator but what follows it.
Skips(st, next) ==
  st.skip => /\ st.current = <<>> /\ st.quote = NoQuote /\ ~st.escaped /\ ~st.heredoc
             /\ next \in {"bar", "amp"}

Intact(st, next) ==
  /\ st \in ScanStates
  /\ ~st.error => Follows(st, next) /\ Skips(st, next) /\ Len(st.operators) = Len(st.segments)

\* Before a segment, and after one has ended.
LEMMA FollowsNothing ==
  ASSUME NEW st \in ScanStates, NEW next, TrimLeft(st.current) = <<>>,
         st.quote = NoQuote, ~st.escaped, ~st.heredoc
  PROVE  Follows(st, next)
<1>1. st.escaped = FALSE /\ st.heredoc = FALSE
  BY DEF ScanStates
<1>2. ScanStart.quote = NoQuote /\ ScanStart.escaped = FALSE /\ ScanStart.heredoc = FALSE
  BY DEF ScanStart
<1> QED
  BY <1>1, <1>2, QuietEmpty DEF Follows

\* A parser that has read nothing of a segment.
LEMMA FollowedNothing ==
  ASSUME NEW st \in ScanStates, NEW next, TrimLeft(st.current) = <<>>, Follows(st, next)
  PROVE  st.quote = NoQuote /\ ~st.escaped /\ ~st.heredoc
BY QuietEmpty, FreshStart DEF Follows

\* The other parser.
LEMMA Followed ==
  ASSUME NEW st \in ScanStates, NEW next, ~st.error, ~st.skip, Follows(st, next)
  PROVE  LET p == Reads(TrimLeft(st.current), next)
         IN  p \in ScanStates /\ Twins(st, p) /\ TrimLeft(st.current) \in Texts
<1> DEFINE text == TrimLeft(st.current)
           p == Reads(text, next)
<1>1. st.current \in Seq(Chars)
  BY DEF ScanStates, Texts
<1>2. text \in Texts
  BY <1>1, LeftInk DEF Texts
<1> HIDE DEF text
<1>3. QuietAt(text, next, Len(text)) /\ Standing(text, next, Len(text)) = p /\ SubSeq(text, 1, Len(text)) = text
  BY <1>2, StandingLast, SubSeqFull DEF Follows, Quiet, Texts, text
<1>4. Fresh(p, text)
  BY <1>3 DEF QuietAt
<1> QED
  BY <1>2, <1>4 DEF Follows, Fresh, Twins, text

\* An operator, or the end of the line, makes an atom of the text before it.
LEMMA FlushAtom ==
  ASSUME NEW st \in ScanStates, NEW next, ~st.error, ~st.skip, Follows(st, next),
         st.quote = NoQuote, ~st.escaped, Trim(st.current) # <<>>
  PROVE  Segment(Trim(st.current), st.heredoc) \in Atoms
<1> DEFINE text == TrimLeft(st.current)
           p == Reads(text, next)
<1>1. text \in Texts /\ Quiet(text, next) /\ p.quote = NoQuote /\ ~p.escaped /\ p.heredoc = st.heredoc
  BY Followed DEF Follows
<1>2. TrimLeft(text) = text
  <2>1. text # <<>> => text[1] \notin Blank
    BY LeftInk DEF ScanStates, Texts
  <2> HIDE DEF text
  <2> QED
    BY <1>1, <2>1, LeftTwice DEF Texts
<1>3. Trim(text) = Trim(st.current)
  BY <1>2 DEF Trim
<1> HIDE DEF text
<1> DEFINE raw == Trim(text)
<1>4. /\ raw \in Texts /\ Trim(raw) = raw /\ raw # <<>>
      /\ Fresh(Reads(raw, End), raw) /\ Reads(raw, End).quote = NoQuote /\ ~Reads(raw, End).escaped
      /\ Reads(raw, End).heredoc = p.heredoc
  BY <1>1, <1>2, <1>3, ReadAlone
<1> HIDE DEF raw
<1>5. Segment(raw, Reads(raw, End).heredoc) \in Atoms
  BY <1>4, AtomIs
<1> QED
  BY <1>1, <1>3, <1>4, <1>5 DEF raw

\* The parser stays sound.
LEMMA IntactTook ==
  ASSUME NEW st \in ScanStates, NEW c \in Chars, NEW next, ~st.error, ~st.skip, Follows(st, c),
         Len(st.operators) = Len(st.segments),
         NEW q \in {NoQuote} \cup Quotes, NEW e \in BOOLEAN, NEW h \in BOOLEAN,
         Moves(st, c, q, e, h),
         ParseChar(Reads(TrimLeft(st.current), c), c, next) = Took(Reads(TrimLeft(st.current), c), c, q, e, h)
  PROVE  Intact(Took(st, c, q, e, h), next)
<1> DEFINE text == TrimLeft(st.current)
           p == Reads(text, c)
           r == Took(st, c, q, e, h)
<1>1. p \in ScanStates /\ Twins(st, p) /\ text \in Texts /\ Quiet(text, c)
  BY Followed DEF Follows
<1>2. st.current \in Seq(Chars)
  BY DEF ScanStates, Texts
<1>3. /\ r \in ScanStates /\ r.current = Append(st.current, c) /\ r.quote = q /\ r.escaped = e
      /\ r.heredoc = h /\ ~r.skip /\ r.operators = st.operators /\ r.segments = st.segments
  <2>1. Append(st.current, c) \in Texts
    BY <1>2 DEF Texts
  <2> QED
    BY <2>1 DEF Took, ScanStates
<1>4. Moves(p, c, q, e, h)
  BY <1>1 DEF Moves, Twins
<1>5. TrimLeft(r.current) = IF text = <<>> THEN IF c \in Blank THEN <<>> ELSE <<c>> ELSE Append(text, c)
  BY <1>2, <1>3, LeftAppend
<1>6. CASE text = <<>> /\ c \in Blank
  <2>1. st.quote = NoQuote /\ ~st.escaped /\ ~st.heredoc
    BY <1>6, FollowedNothing
  <2>2. q = NoQuote /\ ~e /\ ~h
    BY <1>6, <2>1 DEF Moves, Blank, NoQuote
  <2>3. Follows(r, next)
    <3> HIDE DEF r
    <3> QED
      BY <1>3, <1>5, <1>6, <2>2, FollowsNothing
  <2> HIDE DEF r
  <2> QED
    BY <1>3, <2>3 DEF Intact, Skips, r
<1>7. CASE ~ (text = <<>> /\ c \in Blank)
  <2>1. TrimLeft(r.current) = Append(text, c)
    <3>1. text = <<>> => <<c>> = Append(text, c)
      OBVIOUS
    <3> QED
      BY <1>5, <1>7, <3>1
  <2>2. Quiet(Append(text, c), next) /\ Reads(Append(text, c), next) = Took(p, c, q, e, h)
    <3> HIDE DEF text
    <3> QED
      BY SMTT(30), <1>1, <1>4, QuietAppend DEF text
  <2>3. /\ Took(p, c, q, e, h).quote = q /\ Took(p, c, q, e, h).escaped = e
        /\ Took(p, c, q, e, h).heredoc = h
    BY <1>1 DEF Took, ScanStates
  <2> HIDE DEF r, p, text
  <2>4. Follows(r, next)
    BY <1>3, <2>1, <2>2, <2>3 DEF Follows
  <2> QED
    BY <1>3, <2>4 DEF Intact, Skips, r
<1> QED
  BY <1>6, <1>7
-----------------------------------------------------------------------------
(* ShellSyntax: the segments and operators spell the line. *)

\* The segments with the operators behind them.
Pieces(segments, operators) ==
  [i \in 1..Len(segments) |->
     segments[i].command \o (IF i <= Len(operators) THEN Spelled(operators[i]) ELSE <<>>)]
Written(segments, operators) == Ink(FlattenSeq(Pieces(segments, operators)))

\* What has been read is written in the segments, the operators and the segment begun.
Said(st, line, next) ==
  Written(st.segments, st.operators) \o Ink(st.current) = Ink(line) \o (IF st.skip THEN <<next>> ELSE <<>>)

\* Operators and segments are spelled with characters.
LEMMA SpelledIs ==
  ASSUME NEW op \in OperatorNames
  PROVE  Spelled(op) \in Texts
<1>1. CASE op = "or"
  BY <1>1 DEF Spelled, Texts, Chars
<1>2. CASE op = "and"
  BY <1>2 DEF Spelled, Texts, Chars
<1>3. CASE op \notin {"or", "and"}
  <2>1. Spelled(op) = <<op>> /\ op \in Chars
    BY <1>3 DEF Spelled, OperatorNames, Chars, Blank
  <2> QED
    BY <2>1 DEF Texts
<1> QED
  BY <1>1, <1>2, <1>3

\* The command of a segment is a text.
LEMMA AtomHasText ==
  ASSUME NEW g \in Atoms
  PROVE  g.command \in Texts
<1>1. PICK raw \in Texts, heredoc \in BOOLEAN : g = Segment(raw, heredoc)
  BY DEF Atoms
<1> QED
  BY <1>1 DEF Segment

\* There is one piece for each segment.
LEMMA PiecesAre ==
  ASSUME NEW segments \in Seq(Atoms), NEW operators \in Seq(OperatorNames)
  PROVE  /\ Pieces(segments, operators) \in Seq(Texts)
         /\ Len(Pieces(segments, operators)) = Len(segments)
<1>1. Len(segments) \in Nat /\ Len(operators) \in Nat
  OBVIOUS
<1>2. \A i \in 1..Len(segments) :
        segments[i].command \o (IF i <= Len(operators) THEN Spelled(operators[i]) ELSE <<>>) \in Texts
  <2> TAKE i \in 1..Len(segments)
  <2> DEFINE x == IF i <= Len(operators) THEN Spelled(operators[i]) ELSE <<>>
  <2>1. segments[i] \in Atoms
    OBVIOUS
  <2>2. segments[i].command \in Seq(Chars)
    BY <2>1, AtomHasText DEF Texts
  <2>3. x \in Seq(Chars)
    <3>1. CASE i <= Len(operators)
      <4>1. operators[i] \in OperatorNames
        BY <1>1, <3>1
      <4> QED
        BY <3>1, <4>1, SpelledIs DEF Texts
    <3>2. CASE ~ (i <= Len(operators))
      BY <3>2
    <3> QED
      BY <3>1, <3>2
  <2> HIDE DEF x
  <2>4. segments[i].command \o x \in Seq(Chars)
    BY <2>2, <2>3, ConcatProperties
  <2> QED
    BY <2>4 DEF x, Texts
<1> QED
  BY <1>1, <1>2 DEF Pieces

\* One more segment, with what follows it.
LEMMA WrittenMore ==
  ASSUME NEW segments \in Seq(Atoms), NEW operators \in Seq(OperatorNames), NEW g \in Atoms,
         NEW more \in Seq(OperatorNames), NEW x \in Texts, Len(operators) = Len(segments),
         \A i \in 1..Len(operators) : more[i] = operators[i],
         \/ Len(more) = Len(operators) /\ x = <<>>
         \/ Len(more) = Len(operators) + 1 /\ x = Spelled(more[Len(more)])
  PROVE  Written(Append(segments, g), more) = Written(segments, operators) \o (Ink(g.command) \o Ink(x))
<1> DEFINE n == Len(segments)
           new == Append(segments, g)
           old == Pieces(segments, operators)
           y == g.command \o x
           ext == Append(old, y)
           pieces == Pieces(new, more)
<1>1. /\ n \in Nat /\ Len(operators) = n /\ new \in Seq(Atoms) /\ Len(new) = n + 1 /\ new[n + 1] = g
      /\ \A i \in 1..n : new[i] = segments[i]
  OBVIOUS
<1>2. old \in Seq(Texts) /\ Len(old) = n
  BY PiecesAre
<1>3. pieces \in Seq(Texts) /\ Len(pieces) = n + 1
  <2> HIDE DEF new
  <2> QED
    BY <1>1, PiecesAre
<1>4. g.command \in Seq(Chars) /\ x \in Seq(Chars) /\ y \in Texts
  BY AtomHasText, ConcatProperties DEF Texts
<1>5. \A i \in 1..n : pieces[i] = old[i]
  <2> TAKE i \in 1..n
  <2>1. i \in 1..Len(new) /\ i <= Len(operators) /\ i <= Len(more) /\ more[i] = operators[i]
    <3>1. Len(more) \in Nat /\ (Len(more) = n \/ Len(more) = n + 1)
      BY <1>1
    <3> QED
      BY <1>1, <3>1
  <2>2. new[i] = segments[i]
    BY <1>1
  <2> HIDE DEF new
  <2>3. pieces[i] = new[i].command \o Spelled(more[i])
    BY <2>1 DEF Pieces
  <2>4. old[i] = segments[i].command \o Spelled(operators[i])
    BY <2>1 DEF Pieces
  <2> QED
    BY <2>1, <2>2, <2>3, <2>4
<1>6. pieces[n + 1] = y
  <2> DEFINE k == n + 1
  <2>1. k \in 1..Len(new) /\ new[k] = g
    BY <1>1
  <2>2. (IF k <= Len(more) THEN Spelled(more[k]) ELSE <<>>) = x
    <3>1. CASE Len(more) = n /\ x = <<>>
      <4>1. ~ (k <= Len(more))
        BY <1>1, <3>1
      <4> QED
        BY <3>1, <4>1
    <3>2. CASE Len(more) = k /\ x = Spelled(more[Len(more)])
      <4>1. k <= Len(more)
        BY <1>1, <3>2
      <4> HIDE DEF k
      <4> QED
        BY <3>2, <4>1
    <3> QED
      BY <1>1, <3>1, <3>2
  <2> HIDE DEF k, new
  <2>3. pieces[k] = new[k].command \o (IF k <= Len(more) THEN Spelled(more[k]) ELSE <<>>)
    BY <2>1 DEF Pieces
  <2>4. pieces[k] = y
    BY <2>1, <2>2, <2>3
  <2> QED
    BY <2>4 DEF k
<1> HIDE DEF old, pieces, y, new
<1>7. ext \in Seq(Texts) /\ Len(ext) = n + 1 /\ ext[n + 1] = y /\ \A i \in 1..n : ext[i] = old[i]
  BY <1>2, <1>4
<1> HIDE DEF ext
<1>8. \A i \in 1..Len(pieces) : pieces[i] = ext[i]
  <2> TAKE i \in 1..Len(pieces)
  <2>1. i \in 1..n \/ i = n + 1
    BY <1>1, <1>3
  <2> QED
    BY <1>5, <1>6, <1>7, <2>1
<1>9. pieces = ext
  BY <1>3, <1>7, <1>8, SeqEqual
<1> DEFINE f == FlattenSeq(old)
<1>10. f \in Seq(Chars)
  BY <1>2, Flattened DEF Texts
<1>11. FlattenSeq(ext) = f \o y
  BY <1>2, <1>4, <1>10, FlattenAppend DEF Texts, ext
<1> HIDE DEF f
<1>12. Ink(f \o y) = Ink(f) \o Ink(y)
  BY <1>4, <1>10, InkConcat DEF Texts
<1>13. Ink(y) = Ink(g.command) \o Ink(x)
  BY <1>4, InkConcat DEF y
<1> QED
  BY <1>9, <1>11, <1>12, <1>13 DEF Written, f, pieces, old, new

\* Texts are joined in any order.
LEMMA TextsJoin ==
  /\ \A x, y \in Texts : x \o y \in Texts
  /\ \A x, y, z \in Texts : (x \o y) \o z = x \o (y \o z)
  /\ \A x \in Texts : x \o <<>> = x /\ <<>> \o x = x
  /\ <<>> \in Texts
BY ConcatProperties, ConcatAssociative, ConcatEmptySeq, EmptySeq DEF Texts

\* Ink is a text too.
LEMMA InkTexts ==
  /\ \A x \in Texts : Ink(x) \in Texts
  /\ \A x \in Texts, c \in Chars : Ink(Append(x, c)) = Ink(x) \o Inked(c) /\ Inked(c) \in Texts
  /\ Ink(<<>>) = <<>>
BY InkIs, InkAppend, EmptySeq DEF Texts

\* What is written of them is a text.
LEMMA WrittenIs ==
  ASSUME NEW segments \in Seq(Atoms), NEW operators \in Seq(OperatorNames)
  PROVE  Written(segments, operators) \in Texts
<1>1. FlattenSeq(Pieces(segments, operators)) \in Seq(Chars)
  BY PiecesAre, Flattened DEF Texts
<1> QED
  BY <1>1, InkIs DEF Written, Texts

\* A character that is put is written in the segment begun.
LEMMA SaidTook ==
  ASSUME NEW st \in ScanStates, NEW line \in Texts, NEW c \in Chars, NEW next, ~st.skip,
         Said(st, line, c), NEW q, NEW e, NEW h
  PROVE  Said(Took(st, c, q, e, h), Append(line, c), next)
<1> DEFINE r == Took(st, c, q, e, h)
           w == Written(st.segments, st.operators)
<1>1. st.current \in Texts /\ w \in Texts
  BY WrittenIs DEF ScanStates
<1>2. r.segments = st.segments /\ r.operators = st.operators /\ r.current = Append(st.current, c) /\ ~r.skip
  BY DEF Took, ScanStates
<1>3. w \o Ink(st.current) = Ink(line) \o <<>>
  BY DEF Said
<1> HIDE DEF w, r
<1>4. /\ Ink(r.current) = Ink(st.current) \o Inked(c) /\ Ink(Append(line, c)) = Ink(line) \o Inked(c)
      /\ Inked(c) \in Texts /\ Ink(line) \in Texts /\ Ink(st.current) \in Texts
  BY <1>1, <1>2, InkTexts
<1>5. w \o Ink(r.current) = (w \o Ink(st.current)) \o Inked(c)
  <2>1. \A x, y, z \in Texts : (x \o y) \o z = x \o (y \o z)
    BY TextsJoin
  <2> DEFINE k == Ink(st.current)
             d == Inked(c)
  <2>2. k \in Texts /\ d \in Texts /\ Ink(r.current) = k \o d
    BY <1>4
  <2> HIDE DEF k, d
  <2>3. w \o (k \o d) = (w \o k) \o d
    BY <1>1, <2>1, <2>2
  <2> QED
    BY <2>2, <2>3 DEF k, d
<1>6. w \o Ink(r.current) = Ink(Append(line, c)) \o <<>>
  <2>1. Ink(line) \o <<>> = Ink(line) /\ Ink(line) \o Inked(c) \in Texts
    BY <1>4, TextsJoin
  <2>2. (Ink(line) \o Inked(c)) \o <<>> = Ink(line) \o Inked(c)
    BY <2>1, TextsJoin
  <2> QED
    BY <1>3, <1>4, <1>5, <2>1, <2>2
<1> QED
  BY <1>2, <1>6 DEF Said, r, w

\* What a flush does.
LEMMA FlushIs ==
  ASSUME NEW st \in ScanStates, NEW op \in OperatorNames, ~st.error, ~st.skip, ~Flush(st, op).error
  PROVE  LET r == Flush(st, op)
             g == Segment(Trim(st.current), st.heredoc)
         IN  /\ Trim(st.current) # <<>>
             /\ r = [st EXCEPT !.segments = Append(st.segments, g), !.operators = Append(st.operators, op),
                               !.current = <<>>, !.heredoc = FALSE]
<1>1. op # End
  BY DEF OperatorNames, End
<1>2. Trim(st.current) # <<>>
  <2> SUFFICES ASSUME Trim(st.current) = <<>> PROVE FALSE
    OBVIOUS
  <2>1. Flush(st, op) = Fail(st)
    BY <1>1 DEF Flush
  <2> QED
    BY <2>1 DEF Fail, ScanStates
<1> QED
  BY <1>1, <1>2 DEF Flush, ScanStates

Spells(st, c, next, r, op, skips) ==
  /\ r = IF skips THEN [Flush(st, op) EXCEPT !.skip = TRUE] ELSE Flush(st, op)
  /\ skips => next \in {"bar", "amp"}
  /\ Ink(Spelled(op)) = Inked(c) \o (IF skips THEN <<next>> ELSE <<>>)

\* The character an operator starts with is written in it, and so is the one it skips.
LEMMA OperatorSpells ==
  ASSUME NEW st, NEW c \in Chars, NEW next, NEW r, Ends(st, c, next, r)
  PROVE  \E op \in OperatorNames, skips \in BOOLEAN : Spells(st, c, next, r, op, skips)
<1>0. "nl" \in Chars /\ "bar" \in Chars /\ "amp" \in Chars /\ "semi" \in Chars
  BY DEF Chars, Blank
<1>1. \A d \in Chars : Ink(<<d>>) = Inked(d)
  <2> TAKE d \in Chars
  <2>1. <<d>> = Append(<<>>, d)
    OBVIOUS
  <2> QED
    <3>1. Ink(Append(<<>>, d)) = Ink(<<>>) \o Inked(d) /\ Inked(d) \in Texts /\ Ink(<<>>) = <<>>
      BY InkTexts, TextsJoin
    <3>2. <<>> \o Inked(d) = Inked(d)
      BY <3>1, TextsJoin
    <3> QED
      BY <2>1, <3>1, <3>2
<1>2. \A d \in Chars : Ink(<<d, d>>) = Inked(d) \o Inked(d)
  <2> TAKE d \in Chars
  <2>1. <<d, d>> = Append(<<d>>, d) /\ <<d>> \in Texts
    BY DEF Texts
  <2> QED
    BY <1>1, <2>1, InkTexts
<1>3. \A d \in {"bar", "amp"} : Inked(d) = <<d>>
  BY DEF Inked, Blank
<1>4. CASE c \in {"nl", "bar", "semi"} /\ r = Flush(st, c)
  <2>1. c \in OperatorNames /\ Spelled(c) = <<c>>
    BY <1>4 DEF OperatorNames, Spelled
  <2>2. Ink(Spelled(c)) = Inked(c) \o <<>>
    BY <1>1, <2>1, InkTexts, TextsJoin
  <2> QED
    BY <1>4, <2>1, <2>2 DEF Spells
<1>5. CASE c = "bar" /\ next = c /\ r = [Flush(st, "or") EXCEPT !.skip = TRUE]
  <2>1. "or" \in OperatorNames /\ Spelled("or") = <<"bar", "bar">>
    BY DEF OperatorNames, Spelled
  <2>2. Ink(Spelled("or")) = Inked(c) \o <<next>>
    BY <1>0, <1>2, <1>3, <1>5, <2>1
  <2> QED
    BY <1>5, <2>1, <2>2 DEF Spells
<1>6. CASE c = "amp" /\ next = c /\ r = [Flush(st, "and") EXCEPT !.skip = TRUE]
  <2>1. "and" \in OperatorNames /\ Spelled("and") = <<"amp", "amp">>
    BY DEF OperatorNames, Spelled
  <2>2. Ink(Spelled("and")) = Inked(c) \o <<next>>
    BY <1>0, <1>2, <1>3, <1>6, <2>1
  <2> QED
    BY <1>6, <2>1, <2>2 DEF Spells
<1> QED
  BY <1>4, <1>5, <1>6 DEF Ends

\* An operator ends a segment: one atom and one operator more.
LEMMA IntactEnds ==
  ASSUME NEW st, NEW line \in Texts, NEW c \in Chars, NEW next, NEW r, ~st.error, ~st.skip, ~r.error,
         Intact(st, c), Said(st, line, c), Ends(st, c, next, r)
  PROVE  Intact(r, next) /\ Said(r, Append(line, c), next)
<1>0. st \in ScanStates /\ Follows(st, c) /\ Len(st.operators) = Len(st.segments)
        /\ st.quote = NoQuote /\ ~st.escaped
  BY DEF Intact, Ends
<1>1. PICK op \in OperatorNames, skips \in BOOLEAN :
           /\ r = IF skips THEN [Flush(st, op) EXCEPT !.skip = TRUE] ELSE Flush(st, op)
           /\ skips => next \in {"bar", "amp"}
           /\ Ink(Spelled(op)) = Inked(c) \o (IF skips THEN <<next>> ELSE <<>>)
  <2>1. PICK op \in OperatorNames, skips \in BOOLEAN : Spells(st, c, next, r, op, skips)
    BY OperatorSpells
  <2> QED
    BY <2>1 DEF Spells
<1> DEFINE f == Flush(st, op)
           g == Segment(Trim(st.current), st.heredoc)
<1>2. ~f.error
  <2>1. f = Fail(st) \/ ~f.error
    BY <1>0 DEF Flush, ScanStates
  <2>2. CASE f = Fail(st)
    BY <1>0, <1>1, <2>2 DEF Fail, ScanStates
  <2> QED
    BY <2>1, <2>2
<1>3. /\ Trim(st.current) # <<>>
      /\ f = [st EXCEPT !.segments = Append(st.segments, g), !.operators = Append(st.operators, op),
                        !.current = <<>>, !.heredoc = FALSE]
  BY <1>0, <1>2, FlushIs
<1>4. g \in Atoms
  BY <1>0, <1>3, FlushAtom
<1>5. g.command = Trim(st.current)
  BY DEF Segment
<1> HIDE DEF g
<1>6. /\ Append(st.segments, g) \in Seq(Atoms) /\ Append(st.operators, op) \in Seq(OperatorNames)
      /\ Len(Append(st.segments, g)) = Len(Append(st.operators, op)) /\ <<>> \in Texts
  BY <1>0, <1>4 DEF ScanStates, Texts
<1>7. /\ r \in ScanStates /\ r.current = <<>> /\ r.quote = NoQuote /\ ~r.escaped /\ ~r.heredoc
      /\ r.skip = skips /\ r.segments = Append(st.segments, g) /\ r.operators = Append(st.operators, op)
  <2>1. CASE skips
    BY <1>0, <1>1, <1>3, <1>6, <2>1 DEF ScanStates
  <2>2. CASE ~skips
    BY <1>0, <1>1, <1>3, <1>6, <2>2 DEF ScanStates
  <2> QED
    BY <2>1, <2>2
<1> HIDE DEF f
<1>8. TrimLeft(r.current) = <<>>
  BY <1>7 DEF TrimLeft
<1>9. Intact(r, next)
  <2>1. Follows(r, next)
    BY <1>7, <1>8, FollowsNothing
  <2>2. Skips(r, next)
    BY <1>1, <1>7 DEF Skips
  <2> QED
    BY <1>6, <1>7, <2>1, <2>2 DEF Intact
<1>10. Said(r, Append(line, c), next)
  <2> DEFINE w == Written(st.segments, st.operators)
             u == Written(r.segments, r.operators)
             k == Ink(st.current)
             o == Ink(Spelled(op))
             z == IF skips THEN <<next>> ELSE <<>>
  <2>1. st.current \in Texts /\ w \in Texts /\ k \in Texts /\ Ink(line) \in Texts /\ Inked(c) \in Texts
    BY <1>0, WrittenIs, InkTexts DEF ScanStates
  <2>2. o \in Texts /\ Spelled(op) \in Texts
    BY SpelledIs, InkTexts
  <2>3. z \in Texts
    <3>1. <<>> \in Texts /\ \A d \in Chars : <<d>> \in Texts
      BY DEF Texts
    <3>2. skips => next \in Chars
      BY <1>1 DEF Chars
    <3> QED
      BY <3>1, <3>2
  <2>4. Ink(g.command) = k
    BY <1>5, <2>1, TrimInk DEF Texts
  <2>5. u = w \o (Ink(g.command) \o o)
    <3>1. st.segments \in Seq(Atoms) /\ st.operators \in Seq(OperatorNames)
      BY <1>0 DEF ScanStates
    <3> DEFINE more == Append(st.operators, op)
    <3>2. /\ more \in Seq(OperatorNames) /\ Len(more) = Len(st.operators) + 1 /\ more[Len(st.operators) + 1] = op
          /\ \A i \in 1..Len(st.operators) : more[i] = st.operators[i]
      BY <3>1
    <3> HIDE DEF more
    <3>3. more[Len(more)] = op
      BY <3>2
    <3>4. Written(Append(st.segments, g), more) = w \o (Ink(g.command) \o Ink(Spelled(op)))
      BY <1>0, <1>4, <2>2, <3>1, <3>2, <3>3, WrittenMore
    <3> QED
      BY <1>7, <3>4 DEF more
  <2>6. w \o k = Ink(line) \o <<>>
    BY DEF Said
  <2>7. Ink(Append(line, c)) = Ink(line) \o Inked(c)
    BY InkTexts
  <2>8. o = Inked(c) \o z
    BY <1>1
  <2>9. Ink(r.current) = <<>>
    BY <1>7, InkTexts
  <2> HIDE DEF w, u, k, o, z
  <2>10. w \o (k \o o) = (w \o k) \o o /\ w \o (k \o o) \in Texts
    <3>1. \A x, y \in Texts : x \o y \in Texts
      BY TextsJoin
    <3>2. \A x, y, v \in Texts : (x \o y) \o v = x \o (y \o v)
      BY TextsJoin
    <3>3. w \in Texts /\ k \in Texts /\ o \in Texts
      BY <2>1, <2>2
    <3>4. k \o o \in Texts
      BY <3>1, <3>3
    <3>5. w \o (k \o o) \in Texts
      BY <3>1, <3>3, <3>4
    <3>6. (w \o k) \o o = w \o (k \o o)
      BY Zenon, <3>2, <3>3
    <3> QED
      BY <3>5, <3>6
  <2>11. Ink(line) \o (Inked(c) \o z) = (Ink(line) \o Inked(c)) \o z /\ Ink(line) \o <<>> = Ink(line)
    <3> DEFINE x == Ink(line)
               y == Inked(c)
    <3>1. x \in Texts /\ y \in Texts
      BY <2>1
    <3> HIDE DEF x, y
    <3>2. x \o (y \o z) = (x \o y) \o z /\ x \o <<>> = x
      BY <2>3, <3>1, TextsJoin
    <3> QED
      BY <3>2 DEF x, y
  <2>12. u \o <<>> = Ink(Append(line, c)) \o z
    <3>1. u \o <<>> = u
      BY <2>4, <2>5, <2>10, TextsJoin
    <3> QED
      BY <2>4, <2>5, <2>6, <2>7, <2>8, <2>10, <2>11, <3>1
  <2> QED
    BY <1>7, <2>9, <2>12 DEF Said, u, z
<1> QED
  BY <1>9, <1>10
\* The second character of an operator is skipped.
LEMMA IntactSkip ==
  ASSUME NEW st, NEW line \in Texts, NEW c \in Chars, NEW next, ~st.error, st.skip,
         Intact(st, c), Said(st, line, c)
  PROVE  LET r == ParseChar(st, c, next)
         IN  ~r.error /\ Intact(r, next) /\ Said(r, Append(line, c), next)
<1> DEFINE r == ParseChar(st, c, next)
           w == Written(st.segments, st.operators)
<1>1. /\ st \in ScanStates /\ st.current = <<>> /\ st.quote = NoQuote /\ ~st.escaped /\ ~st.heredoc
      /\ c \in {"bar", "amp"} /\ Len(st.operators) = Len(st.segments)
  BY DEF Intact, Skips
<1>2. r = [st EXCEPT !.skip = FALSE]
  BY DEF ParseChar
<1>3. /\ r \in ScanStates /\ r.current = <<>> /\ r.quote = NoQuote /\ ~r.escaped /\ ~r.heredoc
      /\ ~r.skip /\ ~r.error /\ r.segments = st.segments /\ r.operators = st.operators
  BY <1>1, <1>2 DEF ScanStates
<1>4. TrimLeft(r.current) = <<>>
  BY <1>3 DEF TrimLeft
<1> HIDE DEF r
<1>5. Intact(r, next)
  BY <1>1, <1>3, <1>4, FollowsNothing DEF Intact, Skips
<1>6. Said(r, Append(line, c), next)
  <2>1. Ink(Append(line, c)) = Ink(line) \o Inked(c) /\ Ink(line) \in Texts /\ Inked(c) \in Texts
    BY InkTexts
  <2>2. Inked(c) = <<c>>
    BY <1>1 DEF Inked, Blank
  <2>3. w \o Ink(st.current) = Ink(line) \o <<c>>
    BY DEF Said
  <2>4. (Ink(line) \o Inked(c)) \o <<>> = Ink(line) \o Inked(c)
    BY <2>1, TextsJoin
  <2>5. w \o Ink(r.current) = Ink(Append(line, c)) \o <<>>
    BY <1>1, <1>3, <2>1, <2>2, <2>3, <2>4
  <2> QED
    BY <1>3, <2>5 DEF Said
<1> QED
  BY <1>3, <1>5, <1>6 DEF r

\* An error stays.
LEMMA ErrorStays ==
  ASSUME NEW st, NEW c, NEW next, st.error
  PROVE  ParseChar(st, c, next) = st
BY DEF ParseChar

\* Nothing but the flag says that the line is refused.
Failed(st, r) == r = Fail(st) \/ r = [Fail(st) EXCEPT !.skip = TRUE]

\* A flush that fails sets the flag,
LEMMA FlushFails ==
  ASSUME NEW st \in ScanStates, NEW op, ~st.error
  PROVE  /\ Flush(st, op).error => Flush(st, op) = Fail(st)
         /\ [Flush(st, op) EXCEPT !.skip = TRUE].error => Flush(st, op) = Fail(st)
<1>1. CASE Trim(st.current) = <<>>
  BY <1>1 DEF Flush, Fail, ScanStates
<1>2. CASE Trim(st.current) # <<>>
  <2>1. ~Flush(st, op).error /\ ~[Flush(st, op) EXCEPT !.skip = TRUE].error
    BY <1>2 DEF Flush, ScanStates
  <2> QED
    BY <2>1
<1> QED
  BY <1>1, <1>2

\* as does a character outside quotes,
LEMMA UnquotedFails ==
  ASSUME NEW st \in ScanStates, NEW c, NEW next, ~st.error, Unquoted(st, c, next).error
  PROVE  Failed(st, Unquoted(st, c, next))
<1> DEFINE r == Unquoted(st, c, next)
<1>1. CASE c = "nl"
  BY <1>1, FlushFails DEF Unquoted, Quotes, Failed
<1>2. CASE c = "bar"
  BY <1>2, FlushFails DEF Unquoted, Quotes, Failed
<1>3. CASE c = "semi"
  BY <1>3, FlushFails DEF Unquoted, Quotes, Failed
<1>4. CASE c = "amp"
  <2>1. ~Put(st, c).error
    BY DEF Put, ScanStates
  <2> QED
    BY <1>4, <2>1, FlushFails DEF Unquoted, Quotes, Failed
<1>5. CASE c \notin {"nl", "bar", "semi", "amp"}
  <2>1. /\ ~Put(st, c).error /\ ~[Put(st, c) EXCEPT !.quote = c].error
        /\ ~[Put(st, c) EXCEPT !.escaped = TRUE].error /\ ~[Put(st, c) EXCEPT !.heredoc = TRUE].error
    BY DEF Put, ScanStates
  <2> DEFINE put == Put(st, c)
             quoted == [put EXCEPT !.quote = c]
             escaped == [put EXCEPT !.escaped = TRUE]
             doc == [put EXCEPT !.heredoc = TRUE]
  <2>2. r \in {Fail(st), put, quoted, escaped, doc}
    BY <1>5 DEF Unquoted
  <2> HIDE DEF put, quoted, escaped, doc, r
  <2>3. r = Fail(st) \/ ~r.error
    BY <2>1, <2>2 DEF put, quoted, escaped, doc
  <2> QED
    BY <2>3 DEF Failed, r
<1> QED
  BY <1>1, <1>2, <1>3, <1>4, <1>5

\* so a parser that refuses the line is still in a state of the parser.
LEMMA Fails ==
  ASSUME NEW st \in ScanStates, NEW c, NEW next, ~st.error, ~st.skip, ParseChar(st, c, next).error
  PROVE  ParseChar(st, c, next) \in ScanStates
<1> DEFINE r == ParseChar(st, c, next)
<1>1. CASE st.escaped
  BY <1>1 DEF ParseChar, Fail, Put, ScanStates
<1>2. CASE ~st.escaped /\ st.quote # NoQuote
  <2>1. CASE ~ (st.quote = "dq" /\ c = "subst")
    <3>1. r = Took(st, c, IF c = st.quote THEN NoQuote ELSE st.quote, st.quote = "dq" /\ c = "bs", st.heredoc)
      BY <1>2, <2>1, QuotedTook DEF ParseChar
    <3>2. ~r.error
      BY <3>1 DEF Took, ScanStates
    <3> QED
      BY <3>2
  <2>2. CASE st.quote = "dq" /\ c = "subst"
    BY <1>2, <2>2 DEF ParseChar, Quoted, Fail, ScanStates
  <2> QED
    BY <2>1, <2>2
<1>3. CASE ~st.escaped /\ st.quote = NoQuote
  <2>1. r = Unquoted(st, c, next)
    BY <1>3 DEF ParseChar
  <2>2. Failed(st, r)
    BY <2>1, UnquotedFails
  <2>3. Fail(st) \in ScanStates
    BY DEF Fail, ScanStates
  <2> DEFINE f == Fail(st)
  <2>4. [f EXCEPT !.skip = TRUE] \in ScanStates
    <3>1. f \in ScanStates
      BY <2>3
    <3> HIDE DEF f
    <3> QED
      BY <3>1 DEF ScanStates
  <2> HIDE DEF r
  <2> QED
    BY <2>2, <2>3, <2>4 DEF Failed, r
<1> QED
  BY <1>1, <1>2, <1>3

\* What holds of the parser wherever it is in the line.
Holds(st, line, next) == Intact(st, next) /\ (~st.error => Said(st, line, next))

\* Each character keeps it.
LEMMA HoldsStep ==
  ASSUME NEW st, NEW line \in Texts, NEW c \in Chars, NEW next, Holds(st, line, c)
  PROVE  Holds(ParseChar(st, c, next), Append(line, c), next)
<1> DEFINE r == ParseChar(st, c, next)
           p == Reads(TrimLeft(st.current), c)
<1>1. CASE st.error
  <2>1. r = st
    BY <1>1, ErrorStays
  <2> HIDE DEF r
  <2> QED
    BY <1>1, <2>1 DEF Holds, Intact, r
<1>2. CASE ~st.error /\ st.skip
  BY <1>2, IntactSkip DEF Holds
<1>3. CASE ~st.error /\ ~st.skip
  <2>1. st \in ScanStates /\ Follows(st, c) /\ Len(st.operators) = Len(st.segments)
          /\ Intact(st, c) /\ Said(st, line, c)
    BY <1>3 DEF Holds, Intact
  <2>2. p \in ScanStates /\ Twins(st, p)
    BY <1>3, <2>1, Followed
  <2>3. Parsed(st, p, c, next)
    <3> HIDE DEF p
    <3> QED
      BY <2>1, <2>2, ParsedAll
  <2> HIDE DEF r
  <2>4. CASE r.error
    <3>1. r \in ScanStates
      BY <1>3, <2>1, <2>4, Fails DEF r
    <3> QED
      BY <2>4, <3>1 DEF Holds, Intact, r
  <2>5. CASE ~r.error /\ Dropped(st, c, r)
    <3>1. r = st /\ c = "nl" /\ TrimLeft(st.current) = <<>> /\ ~st.escaped /\ st.quote = NoQuote
      BY <2>5 DEF Dropped
    <3>2. ~st.heredoc
      BY <2>1, <3>1, FollowedNothing
    <3>3. Intact(r, next)
      BY <1>3, <2>1, <3>1, <3>2, FollowsNothing DEF Intact, Skips
    <3>4. Ink(Append(line, c)) = Ink(line)
      <4>1. Inked(c) = <<>>
        BY <3>1 DEF Inked, Blank
      <4>2. Ink(Append(line, c)) = Ink(line) \o Inked(c) /\ Ink(line) \in Texts
        BY InkTexts
      <4> QED
        BY <4>1, <4>2, TextsJoin
    <3>5. Said(r, Append(line, c), next)
      BY <1>3, <2>1, <3>1, <3>4 DEF Said
    <3> QED
      BY <3>3, <3>5 DEF Holds, r
  <2>6. CASE ~r.error /\ Ends(st, c, next, r)
    <3>1. Intact(r, next) /\ Said(r, Append(line, c), next)
      BY <1>3, <2>1, <2>6, IntactEnds
    <3> QED
      BY <3>1 DEF Holds, r
  <2>7. ASSUME NEW q \in {NoQuote} \cup Quotes, NEW e \in BOOLEAN, NEW h \in BOOLEAN,
               r = Took(st, c, q, e, h), Moves(st, c, q, e, h), ParseChar(p, c, next) = Took(p, c, q, e, h)
        PROVE  Holds(r, Append(line, c), next)
    <3>1. Intact(r, next)
      BY <1>3, <2>1, <2>7, IntactTook
    <3>2. Said(r, Append(line, c), next)
      BY <1>3, <2>1, <2>7, SaidTook
    <3> QED
      BY <3>1, <3>2 DEF Holds
  <2> QED
    BY <2>3, <2>4, <2>5, <2>6, <2>7 DEF Parsed, r
<1> QED
  BY <1>1, <1>2, <1>3

\* So it holds after any line.
LEMMA HoldsAlways ==
  ASSUME NEW line \in Texts, NEW next
  PROVE  Holds(Reads(line, next), line, next)
<1> DEFINE P == {t \in Seq(Chars) : \A x : Holds(Reads(t, x), t, x)}
<1>1. <<>> \in P
  <2> SUFFICES ASSUME NEW x PROVE Holds(Reads(<<>>, x), <<>>, x)
    OBVIOUS
  <2>1. Reads(<<>>, x) = ScanStart
    BY ReadsNothing
  <2>2. /\ ScanStart \in ScanStates /\ ScanStart.current = <<>> /\ ScanStart.quote = NoQuote
        /\ ~ScanStart.escaped /\ ~ScanStart.heredoc /\ ~ScanStart.skip /\ ~ScanStart.error
        /\ ScanStart.segments = <<>> /\ ScanStart.operators = <<>>
    BY FreshStart DEF Fresh, ScanStart
  <2>3. TrimLeft(ScanStart.current) = <<>>
    BY <2>2 DEF TrimLeft
  <2>4. Intact(ScanStart, x)
    BY <2>2, <2>3, FollowsNothing DEF Intact, Skips
  <2>5. Said(ScanStart, <<>>, x)
    <3>1. Pieces(<<>>, <<>>) = <<>>
      BY DEF Pieces
    <3>2. Written(<<>>, <<>>) = <<>>
      BY <3>1, InkTexts DEF Written, FlattenSeq
    <3> QED
      BY <2>2, <3>2, InkTexts DEF Said
  <2> QED
    BY <2>1, <2>4, <2>5 DEF Holds
<1>2. \A t \in Seq(Chars), c \in Chars : t \in P => Append(t, c) \in P
  <2> SUFFICES ASSUME NEW t \in Seq(Chars), NEW c \in Chars, t \in P, NEW x
               PROVE  Append(t, c) \in Seq(Chars) /\ Holds(Reads(Append(t, c), x), Append(t, c), x)
    OBVIOUS
  <2>1. Holds(Reads(t, c), t, c)
    OBVIOUS
  <2>2. Reads(Append(t, c), x) = ParseChar(Reads(t, c), c, x)
    BY ReadsAppend
  <2>3. Holds(ParseChar(Reads(t, c), c, x), Append(t, c), x)
    BY <2>1, HoldsStep DEF Texts
  <2> QED
    BY <2>2, <2>3
<1>3. \A t \in Seq(Chars) : t \in P
  <2> HIDE DEF P
  <2> QED
    BY <1>1, <1>2, Grown
<1> QED
  BY <1>3 DEF Texts

\* What a line that is not refused is parsed to.
LEMMA ParsedLine ==
  ASSUME NEW line \in Texts, ParseShellCommand(line) # Refused
  PROVE  \E st \in ScanStates, g \in Atoms :
           /\ ~st.error /\ ~st.skip /\ Len(st.operators) = Len(st.segments)
           /\ Said(st, Trim(line), End) /\ g.command = Trim(st.current)
           /\ Follows(st, End) /\ g.command # <<>>
           /\ ParseShellCommand(line) = [segments |-> Append(st.segments, g), operators |-> st.operators]
<1> DEFINE st == Scan(Trim(line))
           whole == IF st.escaped \/ st.quote # NoQuote THEN Fail(st) ELSE Flush(st, End)
           g == Segment(Trim(st.current), st.heredoc)
<1>1. /\ ~whole.error /\ ~ (Len(whole.operators) >= Len(whole.segments))
      /\ ParseShellCommand(line) = [segments |-> whole.segments, operators |-> whole.operators]
  BY DEF ParseShellCommand
<1>2. Trim(line) \in Texts
  BY TrimInk DEF Texts
<1>3. Holds(st, Trim(line), End)
  BY <1>2, HoldsAlways DEF Scan
<1> HIDE DEF st
<1>4. CASE st.error
  <2>1. st \in ScanStates
    BY <1>3 DEF Holds, Intact
  <2>2. Fail(st).error
    BY <2>1 DEF Fail, ScanStates
  <2>3. Flush(st, End).error
    BY <1>4, <2>1, <2>2 DEF Flush, ScanStates
  <2> QED
    BY <1>1, <2>2, <2>3
<1>5. CASE ~st.error
  <2>1. Intact(st, End) /\ Said(st, Trim(line), End) /\ st \in ScanStates /\ Follows(st, End)
          /\ Len(st.operators) = Len(st.segments) /\ Skips(st, End)
    BY <1>3, <1>5 DEF Holds, Intact
  <2>2. ~st.skip
    BY <2>1 DEF Skips, End
  <2>3. ~st.escaped /\ st.quote = NoQuote /\ whole = Flush(st, End)
    BY <1>1, <2>1 DEF Fail, ScanStates
  <2>4. Trim(st.current) # <<>>
    <3> SUFFICES ASSUME Trim(st.current) = <<>> PROVE FALSE
      OBVIOUS
    <3>1. whole = st \/ whole = Fail(st)
      BY <2>3 DEF Flush
    <3>2. Fail(st).error
      BY <2>1 DEF Fail, ScanStates
    <3>3. Len(st.operators) \in Nat /\ Len(st.operators) >= Len(st.segments)
      BY <2>1 DEF ScanStates
    <3> QED
      BY <1>1, <3>1, <3>2, <3>3
  <2>5. g \in Atoms
    BY <1>5, <2>1, <2>2, <2>3, <2>4, FlushAtom
  <2>6. g.command = Trim(st.current)
    BY DEF Segment
  <2>7. whole.segments = Append(st.segments, g) /\ whole.operators = st.operators
    BY <2>1, <2>3, <2>4 DEF Flush, ScanStates
  <2> HIDE DEF g, whole
  <2> QED
    BY <1>1, <1>5, <2>1, <2>2, <2>4, <2>5, <2>6, <2>7
<1> QED
  BY <1>4, <1>5

\* Splitting a line loses nothing and leaves nothing to split.
LEMMA LinesAreAtoms ==
  ASSUME NEW line \in Texts, NEW parsed, parsed = ParseShellCommand(line), parsed # Refused
  PROVE  /\ \A segment \in ToSet(parsed.segments) :
              ParseShellCommand(segment.command) = [segments |-> <<segment>>, operators |-> <<>>]
         /\ Ink(line) = Written(parsed.segments, parsed.operators)
         /\ Len(parsed.segments) \in Nat /\ Len(parsed.segments) = Len(parsed.operators) + 1
<1>1. PICK st \in ScanStates, g \in Atoms :
           /\ ~st.error /\ ~st.skip /\ Len(st.operators) = Len(st.segments)
           /\ Said(st, Trim(line), End) /\ g.command = Trim(st.current)
           /\ parsed = [segments |-> Append(st.segments, g), operators |-> st.operators]
  BY ParsedLine
<1>2. /\ st.segments \in Seq(Atoms) /\ st.operators \in Seq(OperatorNames) /\ st.current \in Texts
      /\ Append(st.segments, g) \in Seq(Atoms) /\ Len(Append(st.segments, g)) = Len(st.segments) + 1
      /\ Len(st.segments) \in Nat
  BY DEF ScanStates
<1>3. parsed.segments = Append(st.segments, g) /\ parsed.operators = st.operators
  BY <1>1
<1>4. \A segment \in ToSet(parsed.segments) : segment \in Atoms
  <2>1. parsed.segments \in Seq(Atoms)
    BY <1>2, <1>3
  <2> QED
    BY <2>1 DEF ToSet
<1>5. Written(parsed.segments, parsed.operators)
        = Written(st.segments, st.operators) \o (Ink(g.command) \o Ink(<<>>))
  <2> DEFINE ops == st.operators
             segs == st.segments
  <2>1. <<>> \in Texts
    BY TextsJoin
  <2>2. ops \in Seq(OperatorNames) /\ segs \in Seq(Atoms) /\ Len(ops) = Len(segs)
    BY <1>1, <1>2
  <2>3. \A i \in 1..Len(ops) : ops[i] = ops[i]
    OBVIOUS
  <2> HIDE DEF ops, segs
  <2>4. Written(Append(segs, g), ops) = Written(segs, ops) \o (Ink(g.command) \o Ink(<<>>))
    BY <2>1, <2>2, <2>3, WrittenMore
  <2> QED
    BY <1>3, <2>4 DEF ops, segs
<1>6. Ink(g.command) = Ink(st.current) /\ Ink(Trim(line)) = Ink(line)
  BY <1>1, <1>2, TrimInk DEF Texts
<1>7. Written(st.segments, st.operators) \o Ink(st.current) = Ink(line) \o <<>>
  BY <1>1, <1>6 DEF Said
<1>8. Ink(st.current) \o Ink(<<>>) = Ink(st.current) /\ Ink(line) \o <<>> = Ink(line)
  <2>1. Ink(st.current) \in Texts /\ Ink(line) \in Texts /\ Ink(<<>>) = <<>>
    BY <1>2, InkTexts
  <2> QED
    BY <2>1, TextsJoin
<1>9. Ink(line) = Written(parsed.segments, parsed.operators)
  BY <1>5, <1>6, <1>7, <1>8
<1> QED
  BY <1>1, <1>2, <1>3, <1>4, <1>9 DEF Atoms

\* However it is typed, a line that the shell tool does not refuse is written in
\* its segments and operators, and each segment is one segment by itself
\* (ParseShellCommand).
THEOREM SegmentsStand == SyntaxSpec => []SegmentsAreAtoms
<1>1. SyntaxInit => typed \in Seq(Alphabet)
  BY DEF SyntaxInit
<1>2. typed \in Seq(Alphabet) /\ [TypeNext \/ ExecuteNext]_syntaxVars => (typed \in Seq(Alphabet))'
  <2> SUFFICES ASSUME typed \in Seq(Alphabet), [TypeNext \/ ExecuteNext]_syntaxVars
               PROVE  typed' \in Seq(Alphabet)
    OBVIOUS
  <2>1. CASE TypeNext
    <3>1. PICK c \in Alphabet : typed' = Append(typed, c)
      BY <2>1 DEF TypeNext, Type
    <3> QED
      BY <3>1
  <2>2. CASE ExecuteNext
    BY <2>2 DEF ExecuteNext, Execute
  <2>3. CASE UNCHANGED syntaxVars
    BY <2>3 DEF syntaxVars
  <2> QED
    BY <2>1, <2>2, <2>3
<1>3. typed \in Seq(Alphabet) => SegmentsAreAtoms
  <2> SUFFICES ASSUME typed \in Seq(Alphabet), NEW parsed, parsed = ParseShellCommand(typed), parsed # Refused
               PROVE  LET n == Len(parsed.segments)
                          pieces == [i \in 1..n |-> parsed.segments[i].command \o
                                       (IF i = n THEN <<>> ELSE Spelled(parsed.operators[i]))]
                      IN  /\ Ink(typed) = Ink(FlattenSeq(pieces))
                          /\ \A segment \in ToSet(parsed.segments) :
                               ParseShellCommand(segment.command) = [segments |-> <<segment>>, operators |-> <<>>]
    BY DEF SegmentsAreAtoms
  <2> DEFINE n == Len(parsed.segments)
             pieces == [i \in 1..n |-> parsed.segments[i].command \o
                          (IF i = n THEN <<>> ELSE Spelled(parsed.operators[i]))]
  <2>1. typed \in Texts
    BY SeqMonotonic DEF Texts, Chars, Characters
  <2>2. /\ \A segment \in ToSet(parsed.segments) :
             ParseShellCommand(segment.command) = [segments |-> <<segment>>, operators |-> <<>>]
        /\ Ink(typed) = Written(parsed.segments, parsed.operators)
        /\ n \in Nat /\ n = Len(parsed.operators) + 1
    BY <2>1, LinesAreAtoms
  <2>3. pieces = Pieces(parsed.segments, parsed.operators)
    <3>1. \A i \in 1..n : (i <= Len(parsed.operators)) <=> i # n
      <4> DEFINE m == Len(parsed.operators)
      <4>1. n \in Nat /\ n = m + 1 /\ m \in Nat \cup Int
        BY <2>2
      <4> HIDE DEF n, m
      <4> QED
        BY <4>1 DEF m
    <3>2. \A i \in 1..n : (IF i = n THEN <<>> ELSE Spelled(parsed.operators[i]))
                            = (IF i <= Len(parsed.operators) THEN Spelled(parsed.operators[i]) ELSE <<>>)
      BY <3>1
    <3> QED
      BY <3>2 DEF Pieces
  <2> HIDE DEF pieces
  <2>4. Ink(typed) = Ink(FlattenSeq(pieces))
    BY <2>2, <2>3 DEF Written
  <2> QED
    BY <2>2, <2>4 DEF pieces
<1> QED
  BY <1>1, <1>2, <1>3, PTL DEF SyntaxSpec

-----------------------------------------------------------------------------
(* ShellSyntax: the loop of the normalizer. *)

\* The states the loop goes through.
Spaces(s, f) ==
  f = [n \in 0..Len(s) |->
         IF n = 0 THEN NormalStart
         ELSE NormalizeChar(f[n - 1], s[n])]

\* Each state comes of the one before.
LEMMA SpacesAt ==
  ASSUME NEW s, NEW f, Spaces(s, f), Len(s) \in Nat
  PROVE  /\ f[0] = NormalStart
         /\ \A n \in 1..Len(s) : f[n] = NormalizeChar(f[n - 1], s[n])
<1>1. \A n \in 0..Len(s) :
        f[n] = IF n = 0 THEN NormalStart
               ELSE NormalizeChar(f[n - 1], s[n])
  BY DEF Spaces
<1>2. 0 \in 0..Len(s) /\ \A n \in 1..Len(s) : n \in 0..Len(s) /\ n # 0
  OBVIOUS
<1> QED
  BY <1>1, <1>2

\* One more character.
LEMMA SpacesStep ==
  ASSUME NEW S, NEW s \in Seq(S), NEW c, NEW f, Spaces(s, f)
  PROVE  \E h : Spaces(Append(s, c), h)
<1> DEFINE k == Len(s)
           t == Append(s, c)
           h == [n \in 0..(k + 1) |-> IF n <= k THEN f[n] ELSE NormalizeChar(f[k], c)]
<1>1. k \in Nat /\ Len(t) = k + 1 /\ t[k + 1] = c /\ \A i \in 1..k : t[i] = s[i]
  OBVIOUS
<1>2. /\ f[0] = NormalStart
      /\ \A n \in 1..k : f[n] = NormalizeChar(f[n - 1], s[n])
  BY <1>1, SpacesAt
<1>g. SUFFICES Spaces(t, h)
  OBVIOUS
<1> HIDE DEF k, t
<1>3. \A n \in 0..(k + 1) :
        h[n] = IF n = 0 THEN NormalStart
               ELSE NormalizeChar(h[n - 1], t[n])
  <2> TAKE n \in 0..(k + 1)
  <2>1. CASE n = 0
    <3>1. n <= k
      BY <1>1, <2>1
    <3> QED
      BY <1>2, <2>1, <3>1
  <2>2. CASE n \in 1..k
    <3>1. n <= k /\ n # 0 /\ n < k + 1 /\ n - 1 <= k /\ n - 1 \in 0..(k + 1)
      BY <1>1, <2>2
    <3>2. h[n] = f[n] /\ h[n - 1] = f[n - 1]
      BY <3>1
    <3>3. f[n] = NormalizeChar(f[n - 1], t[n])
      BY <1>1, <1>2, <2>2
    <3> HIDE DEF h
    <3> QED
      BY <3>1, <3>2, <3>3
  <2>3. CASE n = k + 1
    <3>1. ~ (n <= k) /\ n # 0 /\ ~ (n < k + 1) /\ n - 1 = k /\ k <= k /\ k \in 0..(k + 1)
      BY <1>1, <2>3
    <3>2. h[n] = NormalizeChar(f[k], c) /\ h[k] = f[k]
      BY <3>1
    <3> HIDE DEF h
    <3> QED
      BY <1>1, <2>3, <3>1, <3>2
  <2> QED
    BY <1>1, <2>1, <2>2, <2>3
<1>4. h = [n \in 0..Len(t) |->
             IF n = 0 THEN NormalStart
             ELSE NormalizeChar(h[n - 1], t[n])]
  BY <1>1, <1>3
<1> HIDE DEF h
<1> QED
  BY <1>4 DEF Spaces

\* The loop goes through every text.
LEMMA SpacesExists ==
  ASSUME NEW S, NEW s \in Seq(S)
  PROVE  \E f : Spaces(s, f)
<1> DEFINE P == {t \in Seq(S) : \E f : Spaces(t, f)}
<1>1. <<>> \in P
  <2> SUFFICES \E f : Spaces(<<>>, f)
    OBVIOUS
  <2> DEFINE f == [n \in 0..0 |-> NormalStart]
  <2>1. Len(<<>>) = 0
    OBVIOUS
  <2>2. f = [n \in 0..Len(<<>>) |->
               IF n = 0 THEN NormalStart
               ELSE NormalizeChar(f[n - 1], <<>>[n])]
    BY <2>1
  <2> HIDE DEF f
  <2>3. Spaces(<<>>, f)
    BY <2>2 DEF Spaces
  <2> QED
    BY <2>3
<1>2. \A t \in Seq(S), c \in S : t \in P => Append(t, c) \in P
  <2> SUFFICES ASSUME NEW t \in Seq(S), NEW c \in S, t \in P
               PROVE  Append(t, c) \in Seq(S) /\ \E f : Spaces(Append(t, c), f)
    OBVIOUS
  <2>1. PICK f : Spaces(t, f)
    OBVIOUS
  <2> QED
    BY <2>1, SpacesStep
<1>3. \A t \in Seq(S) : t \in P
  <2> HIDE DEF P
  <2> QED
    BY <1>1, <1>2, Grown
<1> QED
  BY <1>3

\* What Spaced computes.
LEMMA SpacedIs ==
  ASSUME NEW s
  PROVE  Spaced(s) = (CHOOSE f : Spaces(s, f))[Len(s)]
BY DEF Spaced, Spaces

\* Nothing comes of an empty text.
LEMMA SpacedNothing == Spaced(<<>>) = NormalStart
<1> DEFINE f == CHOOSE f : Spaces(<<>>, f)
<1>1. Spaces(<<>>, f)
  BY SpacesExists, EmptySeq
<1>2. Spaced(<<>>) = f[0] /\ Len(<<>>) = 0
  BY SpacedIs
<1> HIDE DEF f
<1>3. f[0] = NormalStart
  BY <1>1, <1>2, SpacesAt
<1> QED
  BY <1>2, <1>3

\* Two passes over the same characters agree.
LEMMA SpacesAlike ==
  ASSUME NEW S, NEW s \in Seq(S), NEW c, NEW f, NEW h,
         Spaces(s, f), Spaces(Append(s, c), h)
  PROVE  f[Len(s)] = h[Len(s)]
<1> DEFINE k == Len(s)
           t == Append(s, c)
           T == {n \in 0..k : f[n] # h[n]}
<1>1. k \in Nat /\ Len(t) = k + 1 /\ t[k + 1] = c /\ \A i \in 1..k : t[i] = s[i]
  OBVIOUS
<1>2. /\ f[0] = NormalStart
      /\ \A n \in 1..k : f[n] = NormalizeChar(f[n - 1], s[n])
  BY <1>1, SpacesAt
<1>3. /\ h[0] = NormalStart
      /\ \A n \in 1..(k + 1) : h[n] = NormalizeChar(h[n - 1], t[n])
  <2>1. Spaces(t, h)
    OBVIOUS
  <2> HIDE DEF t
  <2> QED
    BY <1>1, <2>1, SpacesAt
<1>g. SUFFICES f[k] = h[k]
  OBVIOUS
<1> HIDE DEF k, t
<1>4. T = {}
  <2> SUFFICES ASSUME T # {} PROVE FALSE
    OBVIOUS
  <2>1. T \in SUBSET Nat
    BY <1>1
  <2>2. PICK m \in T : \A n \in T : m <= n
    <3> HIDE DEF T
    <3> QED
      BY <2>1, Least
  <2>3. m \in 0..k /\ f[m] # h[m]
    OBVIOUS
  <2>4. m # 0
    BY <1>2, <1>3, <2>3
  <2>5. m \in 1..k /\ m \in 1..(k + 1) /\ m < k + 1 /\ m - 1 \in 0..k /\ ~ (m <= m - 1)
    BY <1>1, <2>3, <2>4
  <2>6. f[m - 1] = h[m - 1]
    BY <2>2, <2>5
  <2>7. f[m] = NormalizeChar(f[m - 1], t[m])
    BY <1>1, <1>2, <2>5
  <2>8. h[m] = NormalizeChar(h[m - 1], t[m])
    BY <1>3, <2>5
  <2> QED
    BY <2>3, <2>6, <2>7, <2>8
<1>5. k \in 0..k
  BY <1>1
<1> QED
  BY <1>4, <1>5

\* One more character is normalized after those before it.
LEMMA SpacedAppend ==
  ASSUME NEW S, NEW s \in Seq(S), NEW c \in S
  PROVE  Spaced(Append(s, c)) = NormalizeChar(Spaced(s), c)
<1> DEFINE t == Append(s, c)
           f == CHOOSE f : Spaces(s, f)
           h == CHOOSE h : Spaces(t, h)
<1>1. t \in Seq(S) /\ Len(t) = Len(s) + 1 /\ t[Len(s) + 1] = c /\ Len(s) \in Nat
  OBVIOUS
<1>2. Spaces(s, f)
  BY SpacesExists
<1>3. Spaces(t, h)
  <2> HIDE DEF t
  <2> QED
    BY <1>1, SpacesExists
<1>4. Spaced(s) = f[Len(s)] /\ Spaced(t) = h[Len(t)]
  BY SpacedIs
<1> HIDE DEF f, h
<1>5. f[Len(s)] = h[Len(s)]
  BY <1>2, <1>3, SpacesAlike
<1> DEFINE n == Len(s) + 1
<1>6. n \in 1..Len(t) /\ n - 1 = Len(s) /\ ~ (n < Len(t)) /\ n = Len(t)
  BY <1>1
<1> HIDE DEF t
<1>7. h[n] = NormalizeChar(h[n - 1], t[n])
  <2>1. Len(t) \in Nat
    BY <1>1
  <2>2. \A m \in 1..Len(t) : h[m] = NormalizeChar(h[m - 1], t[m])
    BY <1>3, <2>1, SpacesAt
  <2> HIDE DEF n
  <2> QED
    BY <1>6, <2>2
<1>8. t[n] = c
  BY <1>1
<1> HIDE DEF n
<1> QED
  BY <1>4, <1>5, <1>6, <1>7, <1>8 DEF t

-----------------------------------------------------------------------------
(* ShellSyntax: the loop of the tokenizer. *)

\* The states the loop goes through.
Scans(s, next, f) ==
  f = [n \in 0..Len(s) |->
         IF n = 0 THEN TokenStart
         ELSE TokenChar(f[n - 1], s[n], IF n < Len(s) THEN s[n + 1] ELSE next)]

\* Each state comes of the one before.
LEMMA ScansAt ==
  ASSUME NEW s, NEW next, NEW f, Scans(s, next, f), Len(s) \in Nat
  PROVE  /\ f[0] = TokenStart
         /\ \A n \in 1..Len(s) : f[n] = TokenChar(f[n - 1], s[n], IF n < Len(s) THEN s[n + 1] ELSE next)
<1>1. \A n \in 0..Len(s) :
        f[n] = IF n = 0 THEN TokenStart
               ELSE TokenChar(f[n - 1], s[n], IF n < Len(s) THEN s[n + 1] ELSE next)
  BY DEF Scans
<1>2. 0 \in 0..Len(s) /\ \A n \in 1..Len(s) : n \in 0..Len(s) /\ n # 0
  OBVIOUS
<1> QED
  BY <1>1, <1>2

\* One more character: so far the loop looked ahead to it.
LEMMA ScansStep ==
  ASSUME NEW S, NEW s \in Seq(S), NEW c, NEW next, NEW f, Scans(s, c, f)
  PROVE  \E h : Scans(Append(s, c), next, h)
<1> DEFINE k == Len(s)
           t == Append(s, c)
           h == [n \in 0..(k + 1) |-> IF n <= k THEN f[n] ELSE TokenChar(f[k], c, next)]
<1>1. k \in Nat /\ Len(t) = k + 1 /\ t[k + 1] = c /\ \A i \in 1..k : t[i] = s[i]
  OBVIOUS
<1>2. /\ f[0] = TokenStart
      /\ \A n \in 1..k : f[n] = TokenChar(f[n - 1], s[n], IF n < k THEN s[n + 1] ELSE c)
  BY <1>1, ScansAt
<1>g. SUFFICES Scans(t, next, h)
  OBVIOUS
<1> HIDE DEF k, t
<1>3. \A n \in 0..(k + 1) :
        h[n] = IF n = 0 THEN TokenStart
               ELSE TokenChar(h[n - 1], t[n], IF n < k + 1 THEN t[n + 1] ELSE next)
  <2> TAKE n \in 0..(k + 1)
  <2>1. CASE n = 0
    <3>1. n <= k
      BY <1>1, <2>1
    <3> QED
      BY <1>2, <2>1, <3>1
  <2>2. CASE n \in 1..k
    <3>1. n <= k /\ n # 0 /\ n < k + 1 /\ n - 1 <= k /\ n - 1 \in 0..(k + 1)
      BY <1>1, <2>2
    <3>2. h[n] = f[n] /\ h[n - 1] = f[n - 1]
      BY <3>1
    <3>3. (IF n < k THEN s[n + 1] ELSE c) = t[n + 1]
      <4>1. n < k => n + 1 \in 1..k
        BY <1>1, <2>2
      <4>2. ~ (n < k) => n = k
        BY <1>1, <2>2
      <4> QED
        BY <1>1, <4>1, <4>2
    <3>4. f[n] = TokenChar(f[n - 1], t[n], t[n + 1])
      BY <1>1, <1>2, <2>2, <3>3
    <3> HIDE DEF h
    <3> QED
      BY <3>1, <3>2, <3>4
  <2>3. CASE n = k + 1
    <3>1. ~ (n <= k) /\ n # 0 /\ ~ (n < k + 1) /\ n - 1 = k /\ k <= k /\ k \in 0..(k + 1)
      BY <1>1, <2>3
    <3>2. h[n] = TokenChar(f[k], c, next) /\ h[k] = f[k]
      BY <3>1
    <3> HIDE DEF h
    <3> QED
      BY <1>1, <2>3, <3>1, <3>2
  <2> QED
    BY <1>1, <2>1, <2>2, <2>3
<1>4. h = [n \in 0..Len(t) |->
             IF n = 0 THEN TokenStart
             ELSE TokenChar(h[n - 1], t[n], IF n < Len(t) THEN t[n + 1] ELSE next)]
  BY <1>1, <1>3
<1> HIDE DEF h
<1> QED
  BY <1>4 DEF Scans

\* The loop goes through every text.
LEMMA ScansExists ==
  ASSUME NEW S, NEW s \in Seq(S), NEW next
  PROVE  \E f : Scans(s, next, f)
<1> DEFINE P == {t \in Seq(S) : \A x : \E f : Scans(t, x, f)}
<1>1. <<>> \in P
  <2> SUFFICES ASSUME NEW x PROVE \E f : Scans(<<>>, x, f)
    OBVIOUS
  <2> DEFINE f == [n \in 0..0 |-> TokenStart]
  <2>1. Len(<<>>) = 0
    OBVIOUS
  <2>2. f = [n \in 0..Len(<<>>) |->
               IF n = 0 THEN TokenStart
               ELSE TokenChar(f[n - 1], <<>>[n], IF n < Len(<<>>) THEN <<>>[n + 1] ELSE x)]
    BY <2>1
  <2> HIDE DEF f
  <2>3. Scans(<<>>, x, f)
    BY <2>2 DEF Scans
  <2> QED
    BY <2>3
<1>2. \A t \in Seq(S), c \in S : t \in P => Append(t, c) \in P
  <2> SUFFICES ASSUME NEW t \in Seq(S), NEW c \in S, t \in P, NEW x
               PROVE  Append(t, c) \in Seq(S) /\ \E f : Scans(Append(t, c), x, f)
    OBVIOUS
  <2>1. PICK f : Scans(t, c, f)
    OBVIOUS
  <2> QED
    BY <2>1, ScansStep
<1>3. \A t \in Seq(S) : t \in P
  <2> HIDE DEF P
  <2> QED
    BY <1>1, <1>2, Grown
<1> QED
  BY <1>3

\* What Words computes.
LEMMA WordsIs ==
  ASSUME NEW s, NEW next
  PROVE  Words(s, next) = (CHOOSE f : Scans(s, next, f))[Len(s)]
BY DEF Words, Scans

\* Nothing comes of an empty text.
LEMMA WordsNothing ==
  ASSUME NEW next
  PROVE  Words(<<>>, next) = TokenStart
<1> DEFINE f == CHOOSE f : Scans(<<>>, next, f)
<1>1. Scans(<<>>, next, f)
  BY ScansExists, EmptySeq
<1>2. Words(<<>>, next) = f[0] /\ Len(<<>>) = 0
  BY WordsIs
<1> HIDE DEF f
<1>3. f[0] = TokenStart
  BY <1>1, <1>2, ScansAt
<1> QED
  BY <1>2, <1>3

\* Two passes over the same characters agree.
LEMMA ScansAlike ==
  ASSUME NEW S, NEW s \in Seq(S), NEW c, NEW next, NEW f, NEW h,
         Scans(s, c, f), Scans(Append(s, c), next, h)
  PROVE  f[Len(s)] = h[Len(s)]
<1> DEFINE k == Len(s)
           t == Append(s, c)
           T == {n \in 0..k : f[n] # h[n]}
<1>1. k \in Nat /\ Len(t) = k + 1 /\ t[k + 1] = c /\ \A i \in 1..k : t[i] = s[i]
  OBVIOUS
<1>2. /\ f[0] = TokenStart
      /\ \A n \in 1..k : f[n] = TokenChar(f[n - 1], s[n], IF n < k THEN s[n + 1] ELSE c)
  BY <1>1, ScansAt
<1>3. /\ h[0] = TokenStart
      /\ \A n \in 1..(k + 1) : h[n] = TokenChar(h[n - 1], t[n], IF n < k + 1 THEN t[n + 1] ELSE next)
  <2>1. Scans(t, next, h)
    OBVIOUS
  <2> HIDE DEF t
  <2> QED
    BY <1>1, <2>1, ScansAt
<1>g. SUFFICES f[k] = h[k]
  OBVIOUS
<1> HIDE DEF k, t
<1>4. T = {}
  <2> SUFFICES ASSUME T # {} PROVE FALSE
    OBVIOUS
  <2>1. T \in SUBSET Nat
    BY <1>1
  <2>2. PICK m \in T : \A n \in T : m <= n
    <3> HIDE DEF T
    <3> QED
      BY <2>1, Least
  <2>3. m \in 0..k /\ f[m] # h[m]
    OBVIOUS
  <2>4. m # 0
    BY <1>2, <1>3, <2>3
  <2>5. m \in 1..k /\ m \in 1..(k + 1) /\ m < k + 1 /\ m - 1 \in 0..k /\ ~ (m <= m - 1)
    BY <1>1, <2>3, <2>4
  <2>6. f[m - 1] = h[m - 1]
    BY <2>2, <2>5
  <2>7. (IF m < k THEN s[m + 1] ELSE c) = t[m + 1]
    <3>1. m < k => m + 1 \in 1..k
      BY <1>1, <2>5
    <3>2. ~ (m < k) => m = k
      BY <1>1, <2>5
    <3> QED
      BY <1>1, <3>1, <3>2
  <2>8. f[m] = TokenChar(f[m - 1], t[m], t[m + 1])
    BY <1>1, <1>2, <2>5, <2>7
  <2>9. h[m] = TokenChar(h[m - 1], t[m], t[m + 1])
    BY <1>3, <2>5
  <2> QED
    BY <2>3, <2>6, <2>8, <2>9
<1>5. k \in 0..k
  BY <1>1
<1> QED
  BY <1>4, <1>5

\* One more character is tokenized after those before it.
LEMMA WordsAppend ==
  ASSUME NEW S, NEW s \in Seq(S), NEW c \in S, NEW next
  PROVE  Words(Append(s, c), next) = TokenChar(Words(s, c), c, next)
<1> DEFINE t == Append(s, c)
           f == CHOOSE f : Scans(s, c, f)
           h == CHOOSE h : Scans(t, next, h)
<1>1. t \in Seq(S) /\ Len(t) = Len(s) + 1 /\ t[Len(s) + 1] = c /\ Len(s) \in Nat
  OBVIOUS
<1>2. Scans(s, c, f)
  BY ScansExists
<1>3. Scans(t, next, h)
  <2> HIDE DEF t
  <2> QED
    BY <1>1, ScansExists
<1>4. Words(s, c) = f[Len(s)] /\ Words(t, next) = h[Len(t)]
  BY WordsIs
<1> HIDE DEF f, h
<1>5. f[Len(s)] = h[Len(s)]
  BY <1>2, <1>3, ScansAlike
<1> DEFINE n == Len(s) + 1
<1>6. n \in 1..Len(t) /\ n - 1 = Len(s) /\ ~ (n < Len(t)) /\ n = Len(t)
  BY <1>1
<1> HIDE DEF t
<1>7. h[n] = TokenChar(h[n - 1], t[n], IF n < Len(t) THEN t[n + 1] ELSE next)
  <2>1. Len(t) \in Nat
    BY <1>1
  <2>2. \A m \in 1..Len(t) : h[m] = TokenChar(h[m - 1], t[m], IF m < Len(t) THEN t[m + 1] ELSE next)
    BY <1>3, <2>1, ScansAt
  <2> HIDE DEF n
  <2> QED
    BY <1>6, <2>2
<1>8. t[n] = c
  BY <1>1
<1> HIDE DEF n
<1> QED
  BY <1>4, <1>5, <1>6, <1>7, <1>8 DEF t

-----------------------------------------------------------------------------
(* ShellSyntax: what the tokenizer does with one character. *)

Ways == {Nowhere, "read", "append", "write"}
RedirectTargets == Texts \cup {"descriptor"}

TokenStates ==
  [argv : Seq(Texts), redirects : Seq([mode : Ways, target : RedirectTargets]), word : Texts, into : Ways,
   quote : {NoQuote} \cup Quotes, escaped : BOOLEAN, begun : BOOLEAN, skip : BOOLEAN, error : BOOLEAN]

\* The second character of an operator is skipped, and that is the one it looks ahead to.
Ahead(st, next) == st.skip => ~st.error /\ next = "gt" /\ st.quote = NoQuote /\ ~st.escaped

\* The end of a word leaves no word behind and how the next character is read as it was.
LEMMA EndWordTyped ==
  ASSUME NEW st \in TokenStates
  PROVE  /\ EndWord(st) \in TokenStates /\ EndWord(st).word = <<>>
         /\ EndWord(st).into = st.into /\ EndWord(st).quote = st.quote /\ EndWord(st).escaped = st.escaped
         /\ EndWord(st).skip = st.skip /\ EndWord(st).error = st.error /\ EndWord(st).redirects = st.redirects
<1>1. CASE st.word = <<>>
  BY <1>1 DEF EndWord
<1>2. CASE st.word # <<>>
  <2>1. Append(st.argv, st.word) \in Seq(Texts) /\ <<>> \in Texts
    BY EmptySeq DEF TokenStates, Texts
  <2> QED
    BY <1>2, <2>1 DEF EndWord, TokenStates
<1> QED
  BY <1>1, <1>2

\* The end of a target: an error without a target, else a redirection more.
LEMMA EndTargetTyped ==
  ASSUME NEW st \in TokenStates
  PROVE  /\ EndTarget(st) \in TokenStates
         /\ EndTarget(st).quote = st.quote /\ EndTarget(st).escaped = st.escaped
         /\ EndTarget(st).skip = st.skip /\ EndTarget(st).argv = st.argv
         /\ ~st.error => (EndTarget(st).error <=> st.word = <<>>)
         /\ ~EndTarget(st).error => EndTarget(st).into = Nowhere /\ EndTarget(st).word = <<>>
<1>1. CASE st.word = <<>>
  BY <1>1 DEF EndTarget, TokenStates
<1>2. CASE st.word # <<>>
  <2> DEFINE R == [mode : Ways, target : RedirectTargets]
             r == [mode |-> st.into, target |-> st.word]
  <2>1. r \in R /\ st.redirects \in Seq(R)
    BY DEF TokenStates, RedirectTargets
  <2> HIDE DEF R, r
  <2>2. Append(st.redirects, r) \in Seq(R)
    BY <2>1
  <2>3. <<>> \in Texts /\ Nowhere \in Ways
    BY EmptySeq DEF Texts, Ways
  <2>4. EndTarget(st) = [st EXCEPT !.redirects = Append(st.redirects, r), !.word = <<>>, !.into = Nowhere]
    BY <1>2 DEF EndTarget, TokenStates, r
  <2>5. st \in [argv : Seq(Texts), redirects : Seq(R), word : Texts, into : Ways,
                quote : {NoQuote} \cup Quotes, escaped : BOOLEAN, begun : BOOLEAN, skip : BOOLEAN, error : BOOLEAN]
    BY DEF TokenStates, R
  <2>6. EndTarget(st) \in [argv : Seq(Texts), redirects : Seq(R), word : Texts, into : Ways,
                quote : {NoQuote} \cup Quotes, escaped : BOOLEAN, begun : BOOLEAN, skip : BOOLEAN, error : BOOLEAN]
    BY <2>2, <2>3, <2>4, <2>5
  <2> QED
    BY <1>2, <2>4, <2>5, <2>6 DEF TokenStates, R
<1> QED
  BY <1>1, <1>2

\* Blanks and operators leave how the next character is read as it was.
LEMMA EndedTyped ==
  ASSUME NEW st \in TokenStates, NEW c, ~st.error, ~st.skip
  PROVE  /\ Ended(st, c) \in TokenStates /\ ~Ended(st, c).skip
         /\ Ended(st, c).quote = st.quote /\ Ended(st, c).escaped = st.escaped
         /\ Ended(st, c).argv = st.argv
<1> DEFINE e == EndTarget(st)
<1>1. e \in TokenStates /\ e.quote = st.quote /\ e.escaped = st.escaped /\ e.skip = st.skip /\ e.argv = st.argv
  BY EndTargetTyped
<1> HIDE DEF e
<1>2. /\ [e EXCEPT !.begun = FALSE] \in TokenStates /\ [e EXCEPT !.begun = FALSE].quote = st.quote
      /\ [e EXCEPT !.begun = FALSE].escaped = st.escaped /\ ~[e EXCEPT !.begun = FALSE].skip
      /\ [e EXCEPT !.begun = FALSE].argv = st.argv
  BY <1>1 DEF TokenStates
<1> QED
  BY <1>2 DEF Ended, e

\* The word takes the character.
LEMMA Worded ==
  ASSUME NEW st \in TokenStates, NEW c \in Chars
  PROVE  LET r == [st EXCEPT !.word = Append(st.word, c)]
         IN  /\ r \in TokenStates /\ r.quote = st.quote /\ r.escaped = st.escaped
             /\ r.skip = st.skip /\ r.error = st.error /\ r.argv = st.argv
<1>1. Append(st.word, c) \in Texts
  BY DEF Texts, TokenStates
<1> QED
  BY <1>1 DEF TokenStates

\* Outside quotes only a quote and a backslash change how the next character is read.
LEMMA UnquotedWords ==
  ASSUME NEW st \in TokenStates, NEW c \in Chars, NEW next, ~st.error, ~st.skip, ~st.escaped, st.quote = NoQuote
  PROVE  LET r == WordUnquoted(st, c, next)
         IN  /\ r \in TokenStates /\ Ahead(r, next)
             /\ r.quote = IF c \in Quotes THEN c ELSE NoQuote
             /\ r.escaped = (c = "bs")
<1> DEFINE r == WordUnquoted(st, c, next)
           at == Ended(st, c)
<1>0. st.escaped = FALSE /\ st.skip = FALSE /\ st.error = FALSE
  BY DEF TokenStates
<1>1. CASE c \in Quotes
  <2>0. c # "bs" /\ c # "amp" /\ c \notin Blank
    BY <1>1 DEF Quotes, Blank
  <2>1. r = [st EXCEPT !.quote = c, !.begun = TRUE]
    BY <1>1, <2>0 DEF WordUnquoted
  <2> QED
    BY <1>0, <1>1, <2>0, <2>1 DEF TokenStates, Ahead
<1>2. CASE c = "bs"
  <2>0. c \notin Quotes /\ c # "amp" /\ c \notin Blank
    BY <1>2 DEF Quotes, Blank
  <2>1. r = [st EXCEPT !.escaped = TRUE, !.begun = TRUE]
    BY <1>2, <2>0 DEF WordUnquoted
  <2> QED
    BY <1>0, <1>2, <2>0, <2>1 DEF TokenStates, Ahead
<1>3. CASE c \notin Quotes /\ c # "bs"
  <2> DEFINE waits == st.into # Nowhere /\ ~st.begun /\ st.word = <<>>
  <2>1. CASE waits /\ c \in Blank
    <3>1. r = st
      BY <1>3, <2>1 DEF WordUnquoted, Blank
    <3> QED
      BY <1>0, <1>3, <3>1 DEF Ahead
  <2>2. CASE waits /\ c = "amp"
    <3> DEFINE R == [mode : Ways, target : RedirectTargets]
               d == [mode |-> st.into, target |-> "descriptor"]
    <3>1. r = [st EXCEPT !.redirects = Append(st.redirects, d), !.into = Nowhere]
      BY <1>3, <2>2 DEF WordUnquoted, Blank, TokenStates
    <3>2. d \in R /\ st.redirects \in Seq(R)
      BY DEF TokenStates, RedirectTargets
    <3> HIDE DEF R, d
    <3>3. Append(st.redirects, d) \in Seq(R)
      BY <3>2
    <3>4. r \in TokenStates
      BY <3>1, <3>3 DEF TokenStates, R, Ways
    <3> HIDE DEF r
    <3>5. r.quote = st.quote /\ r.escaped = st.escaped /\ r.skip = st.skip
      BY <3>1 DEF TokenStates
    <3> QED
      BY <1>0, <1>3, <3>4, <3>5 DEF Ahead, r
  <2>3. CASE ~ (waits /\ c \in Blank) /\ ~ (waits /\ c = "amp")
    <3>1. at \in TokenStates /\ ~at.skip /\ at.quote = NoQuote /\ at.escaped = FALSE
      BY <1>0, EndedTyped
    <3>2. r = IF at.error THEN at
              ELSE IF c = "sp" THEN [EndWord(at) EXCEPT !.begun = FALSE]
              ELSE IF c \in {"lt", "gt"} THEN [Redirect(at, c, next) EXCEPT !.begun = FALSE]
              ELSE [at EXCEPT !.word = Append(at.word, c)]
      BY <1>3, <2>3, <3>1 DEF WordUnquoted, TokenStates
    <3> HIDE DEF at, r
    <3>3. CASE at.error
      BY <1>3, <3>1, <3>2, <3>3 DEF Ahead, r
    <3>4. CASE ~at.error /\ c \in {"sp", "lt", "gt"}
      <4> DEFINE w == EndWord(at)
      <4>1. w \in TokenStates /\ w.quote = NoQuote /\ w.escaped = FALSE /\ w.skip = FALSE /\ w.error = FALSE
        BY <3>1, <3>4, EndWordTyped DEF TokenStates
      <4> HIDE DEF w
      <4> DEFINE i == IF c = "lt" THEN "read" ELSE IF next = "gt" THEN "append" ELSE "write"
                 k == c = "gt" /\ next = "gt"
                 v == [w EXCEPT !.into = i, !.skip = k]
      <4>2. i \in Ways /\ k \in BOOLEAN
        BY DEF Ways
      <4>3. v \in TokenStates /\ v.quote = NoQuote /\ v.escaped = FALSE /\ v.error = FALSE /\ v.skip = k
        <5> HIDE DEF i, k
        <5> QED
          BY <4>1, <4>2 DEF TokenStates
      <4>4. Redirect(at, c, next) = v
        BY DEF Redirect, w
      <4>5. r = [w EXCEPT !.begun = FALSE] \/ r = [v EXCEPT !.begun = FALSE]
        BY <3>2, <3>4, <4>4 DEF w
      <4> HIDE DEF v
      <4>6. r \in TokenStates /\ r.quote = NoQuote /\ r.escaped = FALSE /\ r.error = FALSE /\ (r.skip => k)
        BY <4>1, <4>3, <4>5 DEF TokenStates
      <4> QED
        BY <1>3, <4>6 DEF Ahead, r
    <3>5. CASE ~at.error /\ c \notin {"sp", "lt", "gt"}
      <4>1. r = [at EXCEPT !.word = Append(at.word, c)]
        BY <3>2, <3>5
      <4>2. r \in TokenStates /\ r.quote = NoQuote /\ r.escaped = FALSE /\ ~r.skip
        BY <3>1, <4>1, Worded
      <4> QED
        BY <1>3, <4>2 DEF Ahead, r
    <3> QED
      BY <3>3, <3>4, <3>5
  <2> QED
    BY <2>1, <2>2, <2>3
<1> QED
  BY <1>1, <1>2, <1>3
\* How a character changes the reading of the next one: quoted, escaped.
QuoteAfter(quote, escaped, c) ==
  IF escaped THEN quote
  ELSE IF quote = NoQuote THEN IF c \in Quotes THEN c ELSE NoQuote
  ELSE IF c = quote THEN NoQuote ELSE quote
EscapedAfter(quote, escaped, c) == ~escaped /\ quote # "sq" /\ c = "bs"

\* The tokenizer reads a character as the quotes before it say, until it fails.
LEMMA TokenTyped ==
  ASSUME NEW st \in TokenStates, NEW c \in Chars, NEW next, Ahead(st, c)
  PROVE  LET r == TokenChar(st, c, next)
         IN  /\ r \in TokenStates /\ Ahead(r, next) /\ (st.error => r.error)
             /\ ~st.error => /\ r.quote = QuoteAfter(st.quote, st.escaped, c)
                             /\ r.escaped = EscapedAfter(st.quote, st.escaped, c)
<1> DEFINE r == TokenChar(st, c, next)
<1>0. /\ st.error \in BOOLEAN /\ st.skip \in BOOLEAN /\ st.escaped \in BOOLEAN
      /\ st.quote \in {NoQuote} \cup Quotes
  BY DEF TokenStates
<1>1. CASE st.error
  <2>1. r = st
    BY <1>1 DEF TokenChar
  <2> QED
    BY <1>1, <2>1 DEF Ahead
<1>2. CASE ~st.error /\ st.skip
  <2>1. r = [st EXCEPT !.skip = FALSE] /\ c = "gt" /\ st.quote = NoQuote /\ ~st.escaped
    BY <1>2 DEF TokenChar, Ahead
  <2>2. r \in TokenStates /\ r.quote = st.quote /\ r.escaped = st.escaped /\ ~r.skip
    BY <2>1 DEF TokenStates
  <2>3. c \notin Quotes /\ c # "bs"
    BY <2>1 DEF Quotes
  <2> HIDE DEF r
  <2> QED
    BY <1>0, <1>2, <2>1, <2>2, <2>3 DEF Ahead, QuoteAfter, EscapedAfter, r
<1>3. CASE ~st.error /\ ~st.skip /\ st.escaped
  <2> DEFINE w == [st EXCEPT !.word = Append(st.word, c)]
  <2>1. w \in TokenStates /\ w.quote = st.quote /\ w.skip = st.skip /\ w.error = st.error
    BY Worded
  <2>2. r = [w EXCEPT !.escaped = FALSE]
    BY <1>3 DEF TokenChar, TokenStates
  <2> HIDE DEF w
  <2>3. r \in TokenStates /\ r.quote = st.quote /\ r.escaped = FALSE /\ ~r.skip
    BY <1>3, <2>1, <2>2 DEF TokenStates
  <2> HIDE DEF r
  <2> QED
    BY <1>0, <1>3, <2>3 DEF Ahead, QuoteAfter, EscapedAfter, r
<1>4. CASE ~st.error /\ ~st.skip /\ ~st.escaped /\ st.quote # NoQuote
  <2>0. r = WordQuoted(st, c) /\ st.escaped = FALSE
    BY <1>0, <1>4 DEF TokenChar
  <2>1. CASE c = st.quote
    <3>1. r = [st EXCEPT !.quote = NoQuote] /\ c # "bs"
      BY <1>0, <1>4, <2>0, <2>1 DEF WordQuoted, Closes, Quotes
    <3>2. r \in TokenStates /\ r.quote = NoQuote /\ r.escaped = FALSE /\ ~r.skip
      BY <1>4, <2>0, <3>1 DEF TokenStates
    <3> HIDE DEF r
    <3> QED
      BY <1>4, <2>0, <2>1, <3>1, <3>2 DEF Ahead, QuoteAfter, EscapedAfter, r
  <2>2. CASE c # st.quote /\ st.quote = "dq" /\ c = "bs"
    <3>1. r = [st EXCEPT !.escaped = TRUE]
      BY <2>0, <2>2 DEF WordQuoted, Closes
    <3>2. r \in TokenStates /\ r.quote = st.quote /\ r.escaped = TRUE /\ ~r.skip
      BY <1>4, <3>1 DEF TokenStates
    <3> HIDE DEF r
    <3> QED
      BY <1>4, <2>0, <2>2, <3>2 DEF Ahead, QuoteAfter, EscapedAfter, r
  <2>3. CASE c # st.quote /\ ~ (st.quote = "dq" /\ c = "bs")
    <3>1. r = [st EXCEPT !.word = Append(st.word, c)]
      BY <2>0, <2>3 DEF WordQuoted, Closes, TokenStates
    <3>2. r \in TokenStates /\ r.quote = st.quote /\ r.escaped = FALSE /\ ~r.skip
      BY <1>4, <2>0, <3>1, Worded
    <3>3. st.quote = "sq" \/ c # "bs"
      BY <1>0, <1>4, <2>3 DEF Quotes
    <3> HIDE DEF r
    <3> QED
      BY <1>4, <2>0, <2>3, <3>2, <3>3 DEF Ahead, QuoteAfter, EscapedAfter, r
  <2> QED
    BY <2>1, <2>2, <2>3
<1>5. CASE ~st.error /\ ~st.skip /\ ~st.escaped /\ st.quote = NoQuote
  <2>1. r = WordUnquoted(st, c, next)
    BY <1>5 DEF TokenChar
  <2> DEFINE w == WordUnquoted(st, c, next)
  <2>2. w \in TokenStates /\ Ahead(w, next) /\ w.quote = (IF c \in Quotes THEN c ELSE NoQuote) /\ w.escaped = (c = "bs")
    BY <1>5, UnquotedWords
  <2> HIDE DEF w
  <2>3. r = w
    BY <2>1 DEF w
  <2>4. NoQuote # "sq"
    BY DEF NoQuote
  <2> HIDE DEF r
  <2> QED
    BY <1>5, <2>2, <2>3, <2>4 DEF QuoteAfter, EscapedAfter, r
<1> QED
  BY <1>1, <1>2, <1>3, <1>4, <1>5

NormalStates == [out : Texts, quote : {NoQuote} \cup Quotes, escaped : BOOLEAN, pending : BOOLEAN]

\* What the normalizer writes for a character: the blank it held back, and the character.
Wrote(st, c) == IF st.pending /\ st.out # <<>> THEN Append(Append(st.out, "sp"), c) ELSE Append(st.out, c)
\* A blank is held back, outside quotes.
Holding(st, c) == ~st.escaped /\ st.quote = NoQuote /\ c = "sp"
\* Only outside quotes is a blank held back.
Idling(st) == st.pending => st.quote = NoQuote /\ ~st.escaped /\ st.out # <<>>

\* The normalizer reads a character as the quotes before it say, and holds back
\* one blank at most.
LEMMA NormalTyped ==
  ASSUME NEW st \in NormalStates, NEW c \in Chars, Idling(st)
  PROVE  LET r == NormalizeChar(st, c)
         IN  /\ r \in NormalStates /\ Idling(r)
             /\ r.quote = QuoteAfter(st.quote, st.escaped, c)
             /\ r.escaped = EscapedAfter(st.quote, st.escaped, c)
             /\ IF Holding(st, c) THEN r.out = st.out /\ r.pending = (st.out # <<>>)
                ELSE r.out = Wrote(st, c) /\ r.pending = FALSE
<1> DEFINE r == NormalizeChar(st, c)
           e == Emit(st, c)
<1>0. /\ st.escaped \in BOOLEAN /\ st.pending \in BOOLEAN /\ st.out \in Texts /\ st.quote \in {NoQuote} \cup Quotes
      /\ NoQuote # "sq" /\ NoQuote # "dq"
  BY DEF NormalStates, NoQuote
<1>1. Append(st.out, c) \in Texts /\ Append(Append(st.out, "sp"), c) \in Texts
  BY DEF NormalStates, Texts, Chars, Blank
<1>2. st.out \o <<"sp", c>> = Append(Append(st.out, "sp"), c)
  BY DEF NormalStates, Texts
<1>3. e = [st EXCEPT !.out = Wrote(st, c), !.pending = FALSE] /\ Wrote(st, c) \in Texts
  BY <1>0, <1>1, <1>2 DEF Emit, Wrote, NormalStates
<1> HIDE DEF e
<1>4. e \in NormalStates /\ e.out = Wrote(st, c) /\ e.pending = FALSE /\ e.quote = st.quote /\ e.escaped = st.escaped
  BY <1>0, <1>3 DEF NormalStates
<1>5. CASE st.escaped
  <2>1. r = [e EXCEPT !.escaped = FALSE]
    BY <1>5 DEF NormalizeChar, e
  <2>2. r \in NormalStates /\ r.out = Wrote(st, c) /\ r.pending = FALSE /\ r.quote = st.quote /\ r.escaped = FALSE
    BY <1>4, <2>1 DEF NormalStates
  <2> HIDE DEF r
  <2> QED
    BY <1>5, <2>2 DEF Idling, Holding, QuoteAfter, EscapedAfter, r
<1>6. CASE ~st.escaped /\ st.quote \in Quotes
  <2>1. ~st.pending /\ st.escaped = FALSE /\ Wrote(st, c) = Append(st.out, c)
    BY <1>0, <1>6 DEF Idling, Quotes, Wrote
  <2> DEFINE q == IF c = st.quote THEN NoQuote ELSE st.quote
             x == st.quote # "sq" /\ c = "bs"
  <2>2. r = [st EXCEPT !.out = Append(st.out, c), !.escaped = x, !.quote = q]
    <3>1. CASE st.quote = "sq"
      <4>1. r = [st EXCEPT !.out = Append(st.out, c), !.quote = q]
        BY <1>0, <1>6, <3>1 DEF NormalizeChar
      <4> HIDE DEF q
      <4> QED
        BY <2>1, <3>1, <4>1 DEF NormalStates
    <3>2. CASE st.quote = "dq"
      BY <1>0, <1>6, <3>2 DEF NormalizeChar
    <3> QED
      BY <1>6, <3>1, <3>2 DEF Quotes
  <2>3. q \in {NoQuote} \cup Quotes /\ x \in BOOLEAN
    BY <1>6
  <2>4. /\ QuoteAfter(st.quote, st.escaped, c) = q /\ EscapedAfter(st.quote, st.escaped, c) = x
        /\ ~Holding(st, c)
    BY <1>0, <1>6, <2>1 DEF QuoteAfter, EscapedAfter, Holding, Quotes
  <2> HIDE DEF q, x
  <2>5. r \in NormalStates /\ r.out = Append(st.out, c) /\ r.pending = st.pending /\ r.quote = q /\ r.escaped = x
    BY <1>0, <1>1, <2>2, <2>3 DEF NormalStates
  <2> HIDE DEF r
  <2> QED
    BY <1>0, <2>1, <2>4, <2>5 DEF Idling, r
<1>7. CASE Holding(st, c)
  <2>1. r = [st EXCEPT !.pending = (st.out # <<>>)]
    BY <1>0, <1>7 DEF NormalizeChar, Holding
  <2>2. r \in NormalStates /\ r.out = st.out /\ r.pending = (st.out # <<>>) /\ r.quote = st.quote /\ r.escaped = st.escaped
    BY <1>0, <2>1 DEF NormalStates
  <2>3. c \notin Quotes /\ c # "bs"
    BY <1>7 DEF Quotes, Holding
  <2> HIDE DEF r
  <2> QED
    BY <1>0, <1>7, <2>2, <2>3 DEF Idling, Holding, QuoteAfter, EscapedAfter, r
<1>8. CASE ~st.escaped /\ st.quote = NoQuote /\ c # "sp"
  <2> DEFINE q == IF c \in Quotes THEN c ELSE st.quote
             x == c = "bs"
  <2>1. r = [e EXCEPT !.escaped = x, !.quote = q]
    BY <1>0, <1>4, <1>8 DEF NormalizeChar, e
  <2>2. q \in {NoQuote} \cup Quotes /\ x \in BOOLEAN /\ st.escaped = FALSE
    BY <1>0, <1>8
  <2>3. /\ QuoteAfter(st.quote, st.escaped, c) = q /\ EscapedAfter(st.quote, st.escaped, c) = x
        /\ ~Holding(st, c)
    BY <1>0, <1>8, <2>2 DEF QuoteAfter, EscapedAfter, Holding
  <2> HIDE DEF q, x
  <2>4. r \in NormalStates /\ r.out = Wrote(st, c) /\ r.pending = FALSE /\ r.quote = q /\ r.escaped = x
    BY <1>4, <2>1, <2>2 DEF NormalStates
  <2> HIDE DEF r
  <2> QED
    BY <2>3, <2>4 DEF Idling, r
<1> QED
  BY <1>0, <1>5, <1>6, <1>7, <1>8 DEF Holding
-----------------------------------------------------------------------------
(* ShellSyntax: normalizing a text changes none of its words. *)

\* Both loops read a text the same way.
LEMMA WordsTyped ==
  ASSUME NEW text \in Texts
  PROVE  /\ Spaced(text) \in NormalStates /\ Idling(Spaced(text))
         /\ \A next : LET r == Words(text, next)
                      IN  /\ r \in TokenStates /\ Ahead(r, next)
                          /\ ~r.error => r.quote = Spaced(text).quote /\ r.escaped = Spaced(text).escaped
<1> DEFINE Reading(r, n) == ~r.error => r.quote = n.quote /\ r.escaped = n.escaped
           Good(t) == /\ Spaced(t) \in NormalStates /\ Idling(Spaced(t))
                      /\ \A x : Words(t, x) \in TokenStates /\ Ahead(Words(t, x), x) /\ Reading(Words(t, x), Spaced(t))
           P == {t \in Texts : Good(t)}
<1>1. <<>> \in P
  <2>0. <<>> \in Texts /\ <<>> \in Seq(Texts) /\ <<>> \in Seq([mode : Ways, target : RedirectTargets]) /\ Nowhere \in Ways
    BY EmptySeq DEF Texts, Ways
  <2>1. NormalStart \in NormalStates /\ Idling(NormalStart)
    BY <2>0 DEF NormalStates, NormalStart, Idling
  <2>2. TokenStart \in TokenStates /\ (\A x : Ahead(TokenStart, x)) /\ Reading(TokenStart, NormalStart)
    <3> DEFINE R == [mode : Ways, target : RedirectTargets]
    <3>1. <<>> \in Seq(R)
      BY <2>0
    <3> HIDE DEF R
    <3>2. TokenStart \in TokenStates
      BY <2>0, <3>1 DEF TokenStates, TokenStart, R
    <3> QED
      BY <3>2 DEF TokenStart, NormalStart, Ahead
  <2> HIDE DEF Reading
  <2> QED
    BY <2>0, <2>1, <2>2, SpacedNothing, WordsNothing
<1>2. \A t \in Texts, c \in Chars : t \in P => Append(t, c) \in P
  <2> SUFFICES ASSUME NEW t \in Texts, NEW c \in Chars, t \in P
               PROVE  Append(t, c) \in P
    OBVIOUS
  <2> DEFINE u == Append(t, c)
             m == Spaced(t)
             n == Spaced(u)
  <2>1. u \in Texts
    BY DEF Texts
  <2>2. m \in NormalStates /\ Idling(m) /\ \A x : Words(t, x) \in TokenStates /\ Ahead(Words(t, x), x) /\ Reading(Words(t, x), m)
    OBVIOUS
  <2>3. n = NormalizeChar(m, c)
    BY SpacedAppend DEF Texts
  <2> HIDE DEF m
  <2>4. /\ n \in NormalStates /\ Idling(n)
        /\ n.quote = QuoteAfter(m.quote, m.escaped, c) /\ n.escaped = EscapedAfter(m.quote, m.escaped, c)
    <3> DEFINE r == NormalizeChar(m, c)
    <3>1. m \in NormalStates /\ Idling(m)
      BY <2>2
    <3>2. /\ r \in NormalStates /\ Idling(r)
          /\ r.quote = QuoteAfter(m.quote, m.escaped, c) /\ r.escaped = EscapedAfter(m.quote, m.escaped, c)
      BY <3>1, NormalTyped
    <3> HIDE DEF n, r
    <3> QED
      BY <2>3, <3>2 DEF r
  <2> HIDE DEF n
  <2>5. ASSUME NEW x
        PROVE  Words(u, x) \in TokenStates /\ Ahead(Words(u, x), x) /\ Reading(Words(u, x), n)
    <3> DEFINE w == Words(t, c)
               v == Words(u, x)
    <3>1. v = TokenChar(w, c, x)
      BY WordsAppend DEF Texts
    <3>2. w \in TokenStates /\ Ahead(w, c) /\ Reading(w, m)
      BY <2>2
    <3> HIDE DEF w, v
    <3>3. /\ v \in TokenStates /\ Ahead(v, x) /\ (w.error => v.error)
          /\ ~w.error => v.quote = QuoteAfter(w.quote, w.escaped, c) /\ v.escaped = EscapedAfter(w.quote, w.escaped, c)
      BY <3>1, <3>2, TokenTyped
    <3>4. Reading(v, n)
      BY <2>4, <3>2, <3>3
    <3> QED
      BY <3>3, <3>4 DEF v
  <2> HIDE DEF u, Reading
  <2>6. Good(u)
    BY <2>4, <2>5 DEF n
  <2> HIDE DEF Good
  <2> QED
    BY <2>1, <2>6 DEF u
<1>3. \A t \in Texts : t \in P
  <2> HIDE DEF P
  <2> QED
    BY <1>1, <1>2, Grown DEF Texts
<1>4. Good(text)
  BY <1>3
<1> QED
  BY <1>4

\* A second blank between two words changes nothing.
LEMMA BlankTwice ==
  ASSUME NEW st \in TokenStates, NEW next, ~st.skip, ~st.error => st.quote = NoQuote /\ ~st.escaped
  PROVE  TokenChar(TokenChar(st, "sp", "sp"), "sp", next) = TokenChar(st, "sp", next)
<1> DEFINE r == TokenChar(st, "sp", "sp")
<1>0. \A x, y : TokenChar(st, "sp", x) = TokenChar(st, "sp", y)
  BY DEF TokenChar, WordUnquoted, Quotes, Blank, WordQuoted
<1>g. SUFFICES TokenChar(r, "sp", next) = r
  BY <1>0
<1>1. CASE st.error
  BY <1>1 DEF TokenChar
<1> DEFINE waits == st.into # Nowhere /\ ~st.begun /\ st.word = <<>>
           at == Ended(st, "sp")
<1>2. CASE ~st.error /\ waits
  <2>1. r = st
    BY <1>2 DEF TokenChar, WordUnquoted, Quotes, Blank
  <2> QED
    BY <1>0, <2>1
<1>3. CASE ~st.error /\ ~waits
  <2>1. r = IF at.error THEN at ELSE [EndWord(at) EXCEPT !.begun = FALSE]
    BY <1>3 DEF TokenChar, WordUnquoted, Quotes, Blank
  <2>2. at \in TokenStates /\ ~at.skip /\ at.quote = NoQuote /\ at.escaped = st.escaped /\ (~at.error => at.into = Nowhere)
    <3>1. at \in TokenStates /\ ~at.skip /\ at.quote = NoQuote /\ at.escaped = st.escaped
      BY <1>3, EndedTyped
    <3>2. ~at.error => at.into = Nowhere
      <4> DEFINE e == EndTarget(st)
      <4>1. e \in TokenStates /\ (~e.error => e.into = Nowhere)
        BY EndTargetTyped
      <4> HIDE DEF e
      <4>2. st.into # Nowhere => at = [e EXCEPT !.begun = FALSE]
        BY DEF Ended, Blank, e
      <4>3. st.into = Nowhere => at = st
        BY DEF Ended
      <4> QED
        BY <4>1, <4>2, <4>3 DEF TokenStates
    <3> QED
      BY <3>1, <3>2
  <2> HIDE DEF at
  <2>3. CASE at.error
    BY <2>1, <2>3 DEF TokenChar
  <2>4. CASE ~at.error
    <3> DEFINE w == EndWord(at)
    <3>1. w \in TokenStates /\ w.word = <<>> /\ w.into = Nowhere /\ w.quote = NoQuote /\ ~w.escaped /\ ~w.skip /\ ~w.error
      BY <1>3, <2>2, <2>4, EndWordTyped
    <3> HIDE DEF w
    <3>2. r = [w EXCEPT !.begun = FALSE]
      BY <2>1, <2>4 DEF w
    <3> HIDE DEF r
    <3>3. /\ r \in TokenStates /\ r.word = <<>> /\ r.into = Nowhere /\ r.quote = NoQuote /\ ~r.escaped /\ ~r.skip /\ ~r.error
          /\ r.begun = FALSE
      BY <3>1, <3>2 DEF TokenStates
    <3>4. Ended(r, "sp") = r /\ EndWord(r) = r
      BY <3>3 DEF Ended, EndWord
    <3>5. [r EXCEPT !.begun = FALSE] = r
      BY <3>3 DEF TokenStates
    <3> QED
      BY <3>3, <3>4, <3>5 DEF TokenChar, WordUnquoted, Quotes, Blank
  <2> QED
    BY <2>3, <2>4
<1> QED
  BY <1>1, <1>2, <1>3
\* A text that does not start with a blank.
Leads(text) == text # <<>> => text[1] \notin Blank

\* A text that does not start with a blank was started so.
LEMMA LeadsBefore ==
  ASSUME NEW text \in Texts, NEW c \in Chars, Leads(Append(text, c))
  PROVE  Leads(text) /\ (text = <<>> => c \notin Blank)
<1>1. /\ Append(text, c) # <<>> /\ Len(text) \in Nat
      /\ (text = <<>> => Append(text, c)[1] = c) /\ (text # <<>> => Append(text, c)[1] = text[1])
  BY DEF Texts
<1> QED
  BY <1>1 DEF Leads

\* The words of a text are those of what the normalizer has written, and
\* of the blank it holds back.
LEMMA SameWords ==
  ASSUME NEW text \in Texts, Leads(text)
  PROVE  LET n == Spaced(text)
         IN  /\ n.out = <<>> <=> text = <<>>
             /\ text # <<>> => n.out[1] = text[1]
             /\ \A x : Words(text, x) = IF n.pending THEN Words(Append(n.out, "sp"), x) ELSE Words(n.out, x)
             /\ n.pending => LET w == Words(n.out, "sp") IN ~w.error => w.quote = NoQuote /\ ~w.escaped
<1> DEFINE Blanked(n) == n.pending => LET w == Words(n.out, "sp") IN ~w.error => w.quote = NoQuote /\ ~w.escaped
           Told(t, n) == \A x : Words(t, x) = IF n.pending THEN Words(Append(n.out, "sp"), x) ELSE Words(n.out, x)
           First(t, n) == (n.out = <<>> <=> t = <<>>) /\ (t # <<>> => n.out[1] = t[1])
           Good(t) == First(t, Spaced(t)) /\ Told(t, Spaced(t)) /\ Blanked(Spaced(t))
           P == {t \in Texts : Leads(t) => Good(t)}
<1>1. <<>> \in P
  <2>1. <<>> \in Texts
    BY EmptySeq DEF Texts
  <2>2. NormalStart.out = <<>> /\ NormalStart.pending = FALSE
    BY DEF NormalStart
  <2>3. First(<<>>, NormalStart) /\ Told(<<>>, NormalStart) /\ Blanked(NormalStart)
    BY <2>2
  <2> HIDE DEF First, Told, Blanked
  <2> QED
    BY <2>1, <2>3, SpacedNothing
<1>2. \A t \in Texts, c \in Chars : t \in P => Append(t, c) \in P
  <2> SUFFICES ASSUME NEW t \in Texts, NEW c \in Chars, t \in P
               PROVE  Append(t, c) \in P
    OBVIOUS
  <2>s. Append(t, c) \in Texts /\ (Leads(Append(t, c)) => Good(Append(t, c))) => Append(t, c) \in P
    <3> HIDE DEF Good
    <3> QED
      OBVIOUS
  <2> SUFFICES ASSUME Leads(Append(t, c))
               PROVE  Append(t, c) \in Texts /\ Good(Append(t, c))
    <3> HIDE DEF Good, P
    <3> QED
      BY <2>s DEF Texts
  <2> DEFINE u == Append(t, c)
             m == Spaced(t)
             n == Spaced(u)
             o == m.out
  <2>0. Leads(t) /\ (t = <<>> => c \notin Blank)
    BY LeadsBefore
  <2>1. First(t, m) /\ Told(t, m) /\ Blanked(m)
    BY <2>0
  <2>2. u \in Texts /\ u # <<>> /\ (t = <<>> => u[1] = c) /\ (t # <<>> => u[1] = t[1])
    BY DEF Texts
  <2>3. m \in NormalStates /\ Idling(m) /\ \A x : LET r == Words(t, x)
                      IN  /\ r \in TokenStates /\ Ahead(r, x)
                          /\ ~r.error => r.quote = m.quote /\ r.escaped = m.escaped
    BY WordsTyped
  <2>4. n = NormalizeChar(m, c)
    BY SpacedAppend DEF Texts
  <2>5. \A x : Words(u, x) = TokenChar(Words(t, c), c, x)
    BY WordsAppend DEF Texts
  <2> HIDE DEF m
  <2>6. /\ n \in NormalStates /\ Idling(n)
        /\ IF Holding(m, c) THEN n.out = o /\ n.pending = (o # <<>>) ELSE n.out = Wrote(m, c) /\ n.pending = FALSE
    BY <2>3, <2>4, NormalTyped
  <2>7. o \in Texts /\ Append(o, "sp") \in Texts /\ "sp" \in Chars /\ Append(o, "sp") # <<>> /\ m.pending \in BOOLEAN
    BY <2>3 DEF NormalStates, Texts, Chars, Blank
  <2>8. \A x : Words(Append(o, "sp"), x) = TokenChar(Words(o, "sp"), "sp", x)
    BY <2>7, WordsAppend DEF Texts
  <2> HIDE DEF n, u, o
  <2>9. CASE Holding(m, c) /\ m.pending
    <3>1. c = "sp" /\ o # <<>> /\ n.out = o /\ n.pending
      BY <2>3, <2>6, <2>9 DEF Holding, Idling, o
    <3> DEFINE w == Words(o, "sp")
    <3>2. w \in TokenStates /\ Ahead(w, "sp")
      BY <2>7, WordsTyped
    <3>3. ~w.error => w.quote = NoQuote /\ ~w.escaped
      BY <2>1, <2>9 DEF o
    <3> HIDE DEF w
    <3>4. ~w.skip
      BY <3>2 DEF Ahead
    <3>5. \A x : TokenChar(TokenChar(w, "sp", "sp"), "sp", x) = TokenChar(w, "sp", x)
      BY <3>2, <3>3, <3>4, BlankTwice
    <3>6. Words(t, "sp") = Words(Append(o, "sp"), "sp")
      BY <2>1, <2>9 DEF o
    <3>7. Told(u, n)
      BY <2>5, <2>8, <3>1, <3>5, <3>6 DEF w
    <3>8. Blanked(n)
      BY <3>1, <3>3 DEF w
    <3>9. First(u, n)
      BY <2>1, <2>2, <3>1 DEF o
    <3> HIDE DEF First, Told, Blanked
    <3> QED
      BY <2>2, <3>7, <3>8, <3>9 DEF u, n
  <2>10. CASE Holding(m, c) /\ ~m.pending
    <3>0. t # <<>>
      BY <2>0, <2>10 DEF Holding, Blank
    <3>1. c = "sp" /\ o # <<>> /\ n.out = o /\ n.pending
      BY <2>1, <2>6, <2>10, <3>0 DEF Holding, o
    <3>2. \A x : Words(t, x) = Words(o, x)
      BY <2>1, <2>10 DEF o
    <3>3. Told(u, n)
      BY <2>5, <2>8, <3>1, <3>2
    <3>4. Blanked(n)
      BY <2>3, <2>10, <3>1, <3>2 DEF Holding
    <3>5. First(u, n)
      BY <2>1, <2>2, <3>0, <3>1 DEF o
    <3> HIDE DEF First, Told, Blanked
    <3> QED
      BY <2>2, <3>3, <3>4, <3>5 DEF u, n
  <2>11. CASE ~Holding(m, c) /\ m.pending
    <3>1. o # <<>> /\ n.out = Append(Append(o, "sp"), c) /\ n.pending = FALSE
      BY <2>3, <2>6, <2>11 DEF Wrote, Idling, o
    <3>2. \A x : Words(t, x) = Words(Append(o, "sp"), x)
      BY <2>1, <2>11 DEF o
    <3>3. \A x : Words(Append(Append(o, "sp"), c), x) = TokenChar(Words(Append(o, "sp"), c), c, x)
      <4> DEFINE v == Append(o, "sp")
      <4>1. v \in Seq(Chars)
        BY <2>7 DEF Texts
      <4> HIDE DEF v
      <4>2. \A x : Words(Append(v, c), x) = TokenChar(Words(v, c), c, x)
        BY <4>1, WordsAppend
      <4> QED
        BY <4>2 DEF v
    <3>4. Told(u, n)
      BY <2>5, <3>1, <3>2, <3>3
    <3>5. Blanked(n)
      BY <3>1
    <3>6. Append(Append(o, "sp"), c) # <<>> /\ Append(Append(o, "sp"), c)[1] = o[1]
      BY <2>7, <3>1 DEF Texts
    <3>7. First(u, n)
      BY <2>1, <2>2, <3>1, <3>6 DEF o
    <3> HIDE DEF First, Told, Blanked
    <3> QED
      BY <2>2, <3>4, <3>5, <3>7 DEF u, n
  <2>12. CASE ~Holding(m, c) /\ ~m.pending
    <3>1. n.out = Append(o, c) /\ n.pending = FALSE
      BY <2>6, <2>12 DEF Wrote, o
    <3>2. \A x : Words(t, x) = Words(o, x)
      BY <2>1, <2>12 DEF o
    <3>3. \A x : Words(Append(o, c), x) = TokenChar(Words(o, c), c, x)
      BY <2>7, WordsAppend DEF Texts
    <3>4. Told(u, n)
      BY <2>5, <3>1, <3>2, <3>3
    <3>5. Blanked(n)
      BY <3>1
    <3>6. Append(o, c) # <<>> /\ (o = <<>> => Append(o, c)[1] = c) /\ (o # <<>> => Append(o, c)[1] = o[1])
      BY <2>7 DEF Texts
    <3>7. First(u, n)
      BY <2>1, <2>2, <3>1, <3>6 DEF o
    <3> HIDE DEF First, Told, Blanked
    <3> QED
      BY <2>2, <3>4, <3>5, <3>7 DEF u, n
  <2> QED
    BY <2>9, <2>10, <2>11, <2>12
<1>3. \A t \in Texts : t \in P
  <2> HIDE DEF P
  <2> QED
    BY <1>1, <1>2, Grown DEF Texts
<1>4. Good(text)
  BY <1>3
<1> QED
  BY <1>4
-----------------------------------------------------------------------------
(* ShellSyntax: a trimmed text is normalized to a trimmed one. *)

\* A backslash at the end of the text escapes what follows.
Opens(text) == Escaped(text, Len(text) + 1)
\* The last character is escaped.
Shut(text) == Escaped(text, Len(text))

\* What one more character changes in what is escaped.
LEMMA OpensNext ==
  ASSUME NEW text \in Texts, NEW c \in Chars
  PROVE  LET u == Append(text, c)
         IN  /\ u \in Texts /\ u # <<>> /\ u[Len(u)] = c
             /\ Shut(u) <=> Opens(text)
             /\ Opens(u) <=> c = "bs" /\ ~Opens(text)
<1> DEFINE u == Append(text, c)
           k == Len(text)
           n == k + 1
<1>1. k \in Nat /\ u \in Texts /\ u # <<>> /\ Len(u) = n /\ u[n] = c /\ \A i \in 1..k : u[i] = text[i]
  BY DEF Texts
<1> HIDE DEF u
<1>2. n \in Nat \ {0} /\ n - 1 = k
  BY <1>1
<1>3. Alike(text, u, n - 1)
  <2> HIDE DEF k, n
  <2> QED
    BY <1>1, <1>2 DEF Alike
<1> HIDE DEF n
<1>4. Escaped(text, n) <=> Escaped(u, n)
  BY <1>2, <1>3, EscapedAlike
<1>5. Escaped(u, n + 1) <=> u[n] = "bs" /\ ~Escaped(u, n)
  BY <1>2, EscapedNext
<1>6. Opens(text) <=> Escaped(text, n)
  BY DEF Opens, n, k
<1> HIDE DEF k
<1> QED
  BY <1>1, <1>4, <1>5, <1>6 DEF Opens, Shut, u

\* Nothing is escaped at the start.
LEMMA OpensNot == ~Opens(<<>>)
<1>1. Len(<<>>) + 1 = 1
  OBVIOUS
<1> QED
  BY <1>1, EscapedFirst DEF Opens

\* What one more character adds to a text with a heredoc.
LEMMA HeredocNext ==
  ASSUME NEW text \in Texts, NEW c \in Chars
  PROVE  HasHeredoc(Append(text, c)) <=>
           HasHeredoc(text) \/ c = "doc" \/ (text # <<>> /\ text[Len(text)] = "lt" /\ c = "lt")
<1> DEFINE u == Append(text, c)
           k == Len(text)
<1>1. k \in Nat /\ u \in Texts /\ Len(u) = k + 1 /\ u[k + 1] = c /\ (\A i \in 1..k : u[i] = text[i]) /\ (text = <<>> <=> k = 0)
  BY DEF Texts
<1> HIDE DEF u, k
<1>2. HasHeredoc(u) <=> (\E i \in 1..(k + 1) : u[i] = "doc") \/ (\E i \in 1..k : u[i] = "lt" /\ u[i + 1] = "lt")
  <2>1. Len(u) - 1 = k
    BY <1>1
  <2> QED
    BY <1>1, <2>1 DEF HasHeredoc
<1>3. HasHeredoc(text) <=> (\E i \in 1..k : text[i] = "doc") \/ (\E i \in 1..(k - 1) : text[i] = "lt" /\ text[i + 1] = "lt")
  BY DEF HasHeredoc, k
<1>4. (\E i \in 1..(k + 1) : u[i] = "doc") <=> (\E i \in 1..k : text[i] = "doc") \/ c = "doc"
  <2>1. \A i : i \in 1..(k + 1) <=> i \in 1..k \/ i = k + 1
    BY <1>1
  <2> QED
    BY <1>1, <2>1
<1>5. (\E i \in 1..k : u[i] = "lt" /\ u[i + 1] = "lt") <=>
        (\E i \in 1..(k - 1) : text[i] = "lt" /\ text[i + 1] = "lt") \/ (k # 0 /\ text[k] = "lt" /\ c = "lt")
  <2>1. \A i : i \in 1..k <=> i \in 1..(k - 1) \/ (i = k /\ k # 0)
    BY <1>1
  <2>2. \A i \in 1..(k - 1) : i \in 1..k /\ i + 1 \in 1..k
    BY <1>1
  <2>3. \A i \in 1..(k - 1) : u[i] = text[i] /\ u[i + 1] = text[i + 1]
    BY <1>1, <2>2
  <2>4. k # 0 => k \in 1..k
    BY <1>1
  <2> QED
    BY <1>1, <2>1, <2>3, <2>4
<1> QED
  BY <1>1, <1>2, <1>3, <1>4, <1>5 DEF u, k

\* What has been written ends as the text does, unless a blank is held back.
LEMMA SameEnd ==
  ASSUME NEW text \in Texts, Leads(text)
  PROVE  LET n == Spaced(text)
         IN  /\ ~n.pending /\ text # <<>> => n.out[Len(n.out)] = text[Len(text)] /\ (Shut(n.out) <=> Shut(text))
             /\ n.pending => text # <<>> /\ text[Len(text)] = "sp" /\ ~Shut(text)
             /\ HasHeredoc(text) => HasHeredoc(n.out)
<1> DEFINE Last1(t, n) == ~n.pending /\ t # <<>> => n.out[Len(n.out)] = t[Len(t)] /\ (Shut(n.out) <=> Shut(t))
           Open1(t, n) == ~n.pending => (Opens(n.out) <=> Opens(t))
           Held(t, n) == n.pending => t # <<>> /\ t[Len(t)] = "sp" /\ ~Shut(t) /\ ~Opens(t)
           Escapes(t, n) == IF n.quote = "sq" THEN ~n.escaped ELSE n.escaped <=> Opens(t)
           Docs(t, n) == HasHeredoc(t) => HasHeredoc(n.out)
           Good(t) == /\ Last1(t, Spaced(t)) /\ Open1(t, Spaced(t)) /\ Held(t, Spaced(t))
                      /\ Escapes(t, Spaced(t)) /\ Docs(t, Spaced(t))
           P == {t \in Texts : Leads(t) => Good(t)}
<1>1. <<>> \in P
  <2>1. <<>> \in Texts
    BY EmptySeq DEF Texts
  <2>2. NormalStart.out = <<>> /\ NormalStart.pending = FALSE /\ NormalStart.quote = NoQuote /\ NormalStart.escaped = FALSE
    BY DEF NormalStart
  <2>3. Last1(<<>>, NormalStart) /\ Open1(<<>>, NormalStart) /\ Held(<<>>, NormalStart) /\ Escapes(<<>>, NormalStart)
    BY <2>2, OpensNot
  <2>4. Docs(<<>>, NormalStart)
    BY <2>2
  <2> HIDE DEF Last1, Open1, Held, Escapes, Docs
  <2> QED
    BY <2>1, <2>3, <2>4, SpacedNothing
<1>2. \A t \in Texts, c \in Chars : t \in P => Append(t, c) \in P
  <2> SUFFICES ASSUME NEW t \in Texts, NEW c \in Chars, t \in P
               PROVE  Append(t, c) \in P
    OBVIOUS
  <2>s. Append(t, c) \in Texts /\ (Leads(Append(t, c)) => Good(Append(t, c))) => Append(t, c) \in P
    <3> HIDE DEF Good
    <3> QED
      OBVIOUS
  <2> SUFFICES ASSUME Leads(Append(t, c))
               PROVE  Append(t, c) \in Texts /\ Good(Append(t, c))
    <3> HIDE DEF Good, P
    <3> QED
      BY <2>s DEF Texts
  <2> DEFINE u == Append(t, c)
             m == Spaced(t)
             n == Spaced(u)
             o == m.out
  <2>0. Leads(t) /\ (t = <<>> => c \notin Blank)
    BY LeadsBefore
  <2>1. Last1(t, m) /\ Open1(t, m) /\ Held(t, m) /\ Escapes(t, m) /\ Docs(t, m)
    BY <2>0
  <2>2. u \in Texts /\ u # <<>> /\ u[Len(u)] = c /\ (Shut(u) <=> Opens(t)) /\ (Opens(u) <=> c = "bs" /\ ~Opens(t))
    BY OpensNext
  <2>3. HasHeredoc(u) <=> HasHeredoc(t) \/ c = "doc" \/ (t # <<>> /\ t[Len(t)] = "lt" /\ c = "lt")
    BY HeredocNext
  <2>4. m \in NormalStates /\ Idling(m) /\ (o = <<>> <=> t = <<>>)
    BY <2>0, WordsTyped, SameWords
  <2>5. n = NormalizeChar(m, c)
    BY SpacedAppend DEF Texts
  <2> HIDE DEF m
  <2>6. /\ n \in NormalStates
        /\ n.quote = QuoteAfter(m.quote, m.escaped, c) /\ n.escaped = EscapedAfter(m.quote, m.escaped, c)
        /\ IF Holding(m, c) THEN n.out = o /\ n.pending = (o # <<>>) ELSE n.out = Wrote(m, c) /\ n.pending = FALSE
    <3> DEFINE r == NormalizeChar(m, c)
    <3>1. m \in NormalStates /\ Idling(m)
      BY <2>4
    <3>2. /\ r \in NormalStates
          /\ r.quote = QuoteAfter(m.quote, m.escaped, c) /\ r.escaped = EscapedAfter(m.quote, m.escaped, c)
          /\ IF Holding(m, c) THEN r.out = m.out /\ r.pending = (m.out # <<>>) ELSE r.out = Wrote(m, c) /\ r.pending = FALSE
      BY <3>1, NormalTyped
    <3> HIDE DEF n, r
    <3> QED
      BY <2>5, <3>2 DEF r
  <2>7. o \in Texts /\ "sp" \in Chars /\ m.pending \in BOOLEAN
    BY <2>4 DEF NormalStates, Texts, Chars, Blank
  <2> HIDE DEF n, u, o
  <2>8. Escapes(u, n)
    <3>1. NoQuote # "sq" /\ "bs" \notin Quotes /\ m.quote \in {NoQuote} \cup Quotes
      BY <2>4 DEF NormalStates, NoQuote, Quotes
    <3>2. CASE m.escaped
      <4>1. m.quote # "sq" /\ Opens(t)
        BY <2>1, <3>2
      <4>2. n.quote = m.quote /\ ~n.escaped
        BY <2>6, <3>2 DEF QuoteAfter, EscapedAfter
      <4> QED
        BY <2>2, <4>1, <4>2
    <3>3. CASE ~m.escaped /\ m.quote = "sq"
      <4>1. ~n.escaped /\ n.quote = IF c = "sq" THEN NoQuote ELSE "sq"
        BY <2>6, <3>1, <3>3 DEF QuoteAfter, EscapedAfter
      <4> QED
        BY <2>2, <3>1, <4>1
    <3>4. CASE ~m.escaped /\ m.quote # "sq"
      <4>1. ~Opens(t)
        BY <2>1, <3>4
      <4>2. n.escaped <=> c = "bs"
        BY <2>6, <3>4 DEF EscapedAfter
      <4>3. c = "bs" => n.quote # "sq"
        BY <2>6, <3>1, <3>4 DEF QuoteAfter
      <4> QED
        BY <2>2, <4>1, <4>2, <4>3
    <3> QED
      BY <3>2, <3>3, <3>4
  <2>9. CASE Holding(m, c)
    <3>0. t # <<>>
      BY <2>0, <2>9 DEF Holding, Blank
    <3>1. c = "sp" /\ n.pending /\ n.out = o
      BY <2>4, <2>6, <2>9, <3>0 DEF Holding
    <3>2. ~Opens(t)
      <4>1. ~m.escaped /\ m.quote # "sq"
        BY <2>9 DEF Holding, NoQuote
      <4> QED
        BY <2>1, <4>1
    <3>3. Last1(u, n) /\ Open1(u, n)
      BY <3>1
    <3>4. Held(u, n)
      BY <2>2, <3>1, <3>2
    <3>5. Docs(u, n)
      BY <2>1, <2>3, <3>1 DEF o
    <3> HIDE DEF Last1, Open1, Held, Escapes, Docs
    <3> QED
      BY <2>2, <2>8, <3>3, <3>4, <3>5 DEF u, n
  <2>10. CASE ~Holding(m, c)
    <3> DEFINE p == IF m.pending THEN Append(o, "sp") ELSE o
               w == Append(p, c)
    <3>1. n.out = w /\ n.pending = FALSE
      BY <2>4, <2>6, <2>10 DEF Wrote, Idling, o
    <3>2. /\ p \in Texts /\ (Opens(p) <=> Opens(t))
          /\ HasHeredoc(t) => HasHeredoc(p)
          /\ t # <<>> => p # <<>> /\ p[Len(p)] = t[Len(t)]
      <4>1. CASE m.pending
        <5> DEFINE v == Append(o, "sp")
        <5>1. v \in Texts /\ v # <<>> /\ v[Len(v)] = "sp" /\ ~Opens(v)
          BY <2>7, OpensNext
        <5>2. HasHeredoc(o) => HasHeredoc(v)
          BY <2>7, HeredocNext
        <5> HIDE DEF v
        <5>3. p = v
          BY <4>1 DEF v
        <5> HIDE DEF p
        <5> QED
          BY <2>1, <4>1, <5>1, <5>2, <5>3 DEF o
      <4>2. CASE ~m.pending
        <5>1. p = o
          BY <4>2
        <5> HIDE DEF p
        <5> QED
          BY <2>1, <2>4, <2>7, <4>2, <5>1 DEF o
      <4> QED
        BY <4>1, <4>2
    <3> HIDE DEF p
    <3>3. w \in Texts /\ w # <<>> /\ w[Len(w)] = c /\ (Shut(w) <=> Opens(p)) /\ (Opens(w) <=> c = "bs" /\ ~Opens(p))
      BY <3>2, OpensNext
    <3>4. HasHeredoc(w) <=> HasHeredoc(p) \/ c = "doc" \/ (p # <<>> /\ p[Len(p)] = "lt" /\ c = "lt")
      BY <3>2, HeredocNext
    <3> HIDE DEF w
    <3>5. Last1(u, n) /\ Open1(u, n) /\ Held(u, n)
      BY <2>2, <3>1, <3>2, <3>3
    <3>6. Docs(u, n)
      BY <2>1, <2>3, <3>1, <3>2, <3>4
    <3> HIDE DEF Last1, Open1, Held, Escapes, Docs
    <3> QED
      BY <2>2, <2>8, <3>5, <3>6 DEF u, n
  <2> QED
    BY <2>9, <2>10
<1>3. \A t \in Texts : t \in P
  <2> HIDE DEF P
  <2> QED
    BY <1>1, <1>2, Grown DEF Texts
<1>4. Good(text)
  BY <1>3
<1> QED
  BY <1>4

\* A text without blanks at its ends, but for an escaped one or a heredoc.
Trimmed(text) ==
  Leads(text) /\ (HasHeredoc(text) \/ text = <<>> \/ text[Len(text)] \notin Blank \/ Shut(text))

LEMMA TrimmedStays ==
  ASSUME NEW text \in Texts, Trimmed(text)
  PROVE  Trim(text) = text
<1>1. TrimLeft(text) = text
  BY LeftTwice DEF Trimmed, Leads, Texts
<1>2. CASE HasHeredoc(text)
  BY <1>1, <1>2 DEF Trim
<1>3. CASE ~HasHeredoc(text)
  <2> DEFINE k == Len(text)
  <2>1. k \in 0..k /\ (k = 0 <=> text = <<>>) /\ k \in Nat /\ SubSeq(text, 1, k) = text
    BY DEF Texts
  <2>2. k = 0 \/ text[k] \notin Blank \/ Escaped(text, k)
    BY <1>3, <2>1 DEF Trimmed, Shut
  <2>3. \A i \in (k + 1)..Len(text) : text[i] \in Blank /\ ~Escaped(text, i)
    BY <2>1
  <2>4. k \in 0..Len(text)
    BY <2>1
  <2> HIDE DEF k
  <2>5. TrimEnd(text) = SubSeq(text, 1, k)
    BY <2>2, <2>3, <2>4, EndCut DEF Texts
  <2> QED
    BY <1>1, <1>3, <2>1, <2>5 DEF Trim
<1> QED
  BY <1>2, <1>3

LEMMA TrimmedByTrim ==
  ASSUME NEW text \in Texts
  PROVE  Trim(text) \in Texts /\ Trimmed(Trim(text))
<1> DEFINE left == TrimLeft(text)
<1>1. left \in Texts /\ Leads(left)
  BY LeftInk DEF Leads, Texts
<1>2. Trim(text) = IF HasHeredoc(left) THEN left ELSE TrimEnd(left)
  BY DEF Trim
<1> HIDE DEF left
<1>3. CASE HasHeredoc(left)
  BY <1>1, <1>2, <1>3 DEF Trimmed
<1>4. CASE ~HasHeredoc(left)
  <2>1. PICK k \in 0..Len(left) :
          /\ k = 0 \/ left[k] \notin Blank \/ Escaped(left, k)
          /\ \A i \in (k + 1)..Len(left) : left[i] \in Blank /\ ~Escaped(left, i)
    BY <1>1, EndExists DEF Texts
  <2> DEFINE t == SubSeq(left, 1, k)
  <2>2. Trim(text) = t
    <3>1. TrimEnd(left) = SubSeq(left, 1, k)
      BY <1>1, <2>1, EndCut DEF Texts
    <3> QED
      BY <1>2, <1>4, <3>1
  <2>3. /\ t \in Texts /\ Len(t) = k /\ (\A i \in 1..k : t[i] = left[i]) /\ k \in Nat
        /\ (t = <<>> <=> k = 0) /\ (k # 0 => left # <<>>)
    BY <1>1 DEF Texts
  <2> HIDE DEF t
  <2>4. Leads(t)
    <3>1. k # 0 => 1 \in 1..k
      BY <2>3
    <3> QED
      BY <1>1, <2>3, <3>1 DEF Leads
  <2>5. CASE k = 0
    BY <2>2, <2>3, <2>4, <2>5 DEF Trimmed
  <2>6. CASE k # 0
    <3>1. k \in Nat \ {0} /\ k \in 1..k /\ \A i \in 1..(k - 1) : i \in 1..k
      BY <2>3, <2>6
    <3>2. Alike(left, t, k - 1)
      BY <2>3, <3>1 DEF Alike
    <3>3. Escaped(left, k) <=> Escaped(t, k)
      BY <3>1, <3>2, EscapedAlike
    <3> QED
      BY <2>1, <2>2, <2>3, <2>4, <2>6, <3>1, <3>3 DEF Trimmed, Shut
  <2> QED
    BY <2>5, <2>6
<1> QED
  BY <1>3, <1>4

\* A blank after the last word changes nothing.
LEMMA BlankLast ==
  ASSUME NEW st \in TokenStates, NEW next, ~st.skip, ~st.error => st.quote = NoQuote /\ ~st.escaped
  PROVE  EndCommand(TokenChar(st, "sp", next)) = EndCommand(st)
<1> DEFINE r == TokenChar(st, "sp", next)
           waits == st.into # Nowhere /\ ~st.begun /\ st.word = <<>>
           t == EndTarget(st)
           w == EndWord(st)
<1>1. CASE st.error \/ waits
  <2>1. r = st
    BY <1>1 DEF TokenChar, WordUnquoted, Quotes, Blank
  <2> QED
    BY <2>1
<1>2. CASE ~st.error /\ st.into # Nowhere /\ ~waits
  <2> DEFINE at == [t EXCEPT !.begun = FALSE]
  <2>1. /\ t \in TokenStates /\ t.quote = NoQuote /\ ~t.escaped /\ (~t.error => t.into = Nowhere /\ t.word = <<>>)
    BY <1>2, EndTargetTyped
  <2>2. r = IF at.error THEN at ELSE [EndWord(at) EXCEPT !.begun = FALSE]
    BY <1>2 DEF TokenChar, WordUnquoted, Quotes, Blank, Ended
  <2>3. EndCommand(st) = IF t.error THEN Unreadable ELSE [argv |-> t.argv, redirects |-> t.redirects]
    BY <1>2 DEF EndCommand
  <2> HIDE DEF t
  <2>4. /\ at \in TokenStates /\ at.quote = NoQuote /\ ~at.escaped /\ at.error = t.error /\ at.into = t.into
        /\ at.word = t.word /\ at.argv = t.argv /\ at.redirects = t.redirects /\ at.begun = FALSE
    BY <2>1 DEF TokenStates
  <2> HIDE DEF at
  <2>5. CASE t.error
    <3>1. r = at /\ at.error
      BY <2>2, <2>4, <2>5
    <3>2. EndWord(at).error
      BY <2>4, <3>1, EndWordTyped
    <3>3. EndTarget(at).error
      BY <2>4, <3>1 DEF EndTarget, TokenStates
    <3> QED
      BY <2>3, <2>5, <3>1, <3>2, <3>3 DEF EndCommand
  <2>6. CASE ~t.error
    <3>1. EndWord(at) = at /\ at.into = Nowhere /\ ~at.error
      BY <2>1, <2>4, <2>6 DEF EndWord
    <3>2. [at EXCEPT !.begun = FALSE] = at
      BY <2>4 DEF TokenStates
    <3>3. r = at
      BY <2>2, <3>1, <3>2
    <3>4. EndCommand(at) = [argv |-> at.argv, redirects |-> at.redirects]
      BY <2>4, <3>1 DEF EndCommand
    <3> QED
      BY <2>3, <2>4, <2>6, <3>3, <3>4
  <2> QED
    BY <2>5, <2>6
<1>3. CASE ~st.error /\ st.into = Nowhere
  <2>1. /\ w \in TokenStates /\ w.quote = NoQuote /\ ~w.escaped /\ ~w.error /\ w.into = Nowhere /\ w.word = <<>>
    BY <1>3, EndWordTyped
  <2>2. r = [w EXCEPT !.begun = FALSE]
    BY <1>3 DEF TokenChar, WordUnquoted, Quotes, Blank, Ended
  <2>3. EndCommand(st) = [argv |-> w.argv, redirects |-> w.redirects]
    BY <1>3, <2>1 DEF EndCommand
  <2> HIDE DEF w, r
  <2>4. /\ r \in TokenStates /\ r.quote = NoQuote /\ ~r.escaped /\ ~r.error /\ r.into = Nowhere /\ r.word = <<>>
        /\ r.argv = w.argv /\ r.redirects = w.redirects
    BY <2>1, <2>2 DEF TokenStates
  <2>5. EndWord(r) = r
    BY <2>4 DEF EndWord
  <2>6. EndCommand(r) = [argv |-> r.argv, redirects |-> r.redirects]
    BY <2>4, <2>5 DEF EndCommand
  <2> QED
    BY <2>3, <2>4, <2>6 DEF r
<1> QED
  BY <1>1, <1>2, <1>3

\* Past the end there is nothing the tokenizer looks ahead to.
LEMMA BlankAhead ==
  ASSUME NEW text \in Texts
  PROVE  Words(text, "sp") = Words(text, End)
<1>1. CASE text = <<>>
  BY <1>1, WordsNothing
<1>2. CASE text # <<>>
  <2> DEFINE s == SubSeq(text, 1, Len(text) - 1)
             c == text[Len(text)]
  <2>1. Len(text) # 0
    BY <1>2 DEF Texts
  <2>2. s \in Texts /\ c \in Chars /\ text = Append(s, c)
    BY <2>1, Peeled DEF Texts
  <2> HIDE DEF s, c
  <2>3. \A x : Words(Append(s, c), x) = TokenChar(Words(s, c), c, x)
    BY <2>2, WordsAppend DEF Texts
  <2>4. \A st : Redirect(st, c, "sp") = Redirect(st, c, End)
    BY DEF Redirect, End
  <2>5. \A st : WordUnquoted(st, c, "sp") = WordUnquoted(st, c, End)
    BY <2>4 DEF WordUnquoted
  <2>6. \A st : TokenChar(st, c, "sp") = TokenChar(st, c, End)
    BY <2>5 DEF TokenChar
  <2> QED
    BY <2>2, <2>3, <2>6
<1> QED
  BY <1>1, <1>2

\* The normal form that names a segment keeps its words and redirections.
LEMMA NormalWords ==
  ASSUME NEW text \in Texts, Trimmed(text)
  PROVE  Tokens(Normalize(text)) = Tokens(text)
<1> DEFINE n == Spaced(text)
           o == n.out
<1>1. Leads(text)
  BY DEF Trimmed
<1>2. n \in NormalStates /\ o \in Texts
  BY WordsTyped DEF NormalStates
<1>3. /\ o = <<>> <=> text = <<>>
      /\ text # <<>> => o[1] = text[1]
      /\ \A x : Words(text, x) = IF n.pending THEN Words(Append(o, "sp"), x) ELSE Words(o, x)
      /\ n.pending => LET w == Words(o, "sp") IN ~w.error => w.quote = NoQuote /\ ~w.escaped
  BY <1>1, SameWords
<1>4. /\ ~n.pending /\ text # <<>> => o[Len(o)] = text[Len(text)] /\ (Shut(o) <=> Shut(text))
      /\ n.pending => text # <<>> /\ text[Len(text)] = "sp" /\ ~Shut(text)
      /\ HasHeredoc(text) => HasHeredoc(o)
  BY <1>1, SameEnd
<1> HIDE DEF n, o
<1>5. Trimmed(o)
  BY <1>1, <1>3, <1>4 DEF Trimmed, Leads, Blank
<1>6. Normalize(text) = o
  BY <1>2, <1>5, TrimmedStays DEF Normalize, n, o
<1>7. CASE ~n.pending
  BY <1>3, <1>6, <1>7 DEF Tokens
<1>8. CASE n.pending
  <2> DEFINE w == Words(o, "sp")
  <2>1. w \in TokenStates /\ Ahead(w, "sp")
    BY <1>2, WordsTyped
  <2>2. ~w.error => w.quote = NoQuote /\ ~w.escaped
    BY <1>3, <1>8
  <2>3. Words(text, End) = TokenChar(w, "sp", End)
    <3>1. "sp" \in Chars
      BY DEF Chars, Blank
    <3> QED
      BY <1>2, <1>3, <1>8, <3>1, WordsAppend DEF Texts
  <2>4. w = Words(o, End)
    BY <1>2, BlankAhead
  <2> HIDE DEF w
  <2>5. ~w.skip
    BY <2>1 DEF Ahead
  <2>6. EndCommand(TokenChar(w, "sp", End)) = EndCommand(w)
    BY <2>1, <2>2, <2>5, BlankLast
  <2> QED
    BY <1>6, <2>3, <2>4, <2>6 DEF Tokens
<1> QED
  BY <1>7, <1>8
-----------------------------------------------------------------------------
(* ShellSyntax: the segments the parser returns. *)

\* A segment is trimmed and not empty, and what it is a part of was read quietly.
LEMMA AtomReads ==
  ASSUME NEW g \in Atoms
  PROVE  /\ g.command \in Texts /\ g.command # <<>> /\ Trimmed(g.command)
         /\ g.normalized = IF g.heredoc THEN g.command ELSE Normalize(g.command)
         /\ \E text \in Texts :
              /\ Quiet(text, End) /\ Len(g.command) <= Len(text)
              /\ \A i \in 1..Len(g.command) : text[i] = g.command[i]
<1>1. PICK raw \in Texts, heredoc \in BOOLEAN : g = Segment(raw, heredoc)
  BY DEF Atoms
<1> DEFINE c == g.command
<1>2. c = raw /\ g.normalized = IF g.heredoc THEN c ELSE Normalize(c)
  BY <1>1 DEF Segment
<1>3. c \in Texts /\ ParseShellCommand(c) = [segments |-> <<g>>, operators |-> <<>>]
  BY <1>2 DEF Atoms
<1>4. ParseShellCommand(c) # Refused
  <2>1. Refused.segments = <<>> /\ <<g>> # <<>>
    BY DEF Refused
  <2> QED
    BY <1>3, <2>1
<1> HIDE DEF c
<1>5. PICK st \in ScanStates, h \in Atoms :
        /\ h.command = Trim(st.current) /\ Follows(st, End) /\ h.command # <<>>
        /\ ParseShellCommand(c) = [segments |-> Append(st.segments, h), operators |-> st.operators]
  BY <1>3, <1>4, ParsedLine
<1>6. h = g
  <2> DEFINE ss == st.segments
             a == Append(ss, h)
             p == ParseShellCommand(c)
             one == <<g>>
  <2>1. p.segments = one
    BY <1>3
  <2>2. p.segments = a
    BY <1>5
  <2>3. ss \in Seq(Atoms)
    BY DEF ScanStates
  <2> HIDE DEF ss
  <2>4. Len(ss) \in Nat /\ Len(a) = Len(ss) + 1 /\ a[Len(ss) + 1] = h
    BY <2>3
  <2>5. Len(one) = 1 /\ one[1] = g
    OBVIOUS
  <2> HIDE DEF a, one, p
  <2>6. Len(ss) + 1 = 1
    BY <2>1, <2>2, <2>4, <2>5
  <2> QED
    BY <2>1, <2>2, <2>4, <2>5, <2>6
<1> DEFINE left == TrimLeft(st.current)
<1>7. c = Trim(st.current) /\ c # <<>> /\ st.current \in Texts
  BY <1>5, <1>6 DEF ScanStates, c
<1>8. Trimmed(c)
  BY <1>7, TrimmedByTrim
<1>9. left \in Texts /\ Quiet(left, End)
  BY <1>5, <1>7, LeftInk DEF Follows, Texts
<1>10. Len(c) <= Len(left) /\ \A i \in 1..Len(c) : left[i] = c[i]
  <2>1. c = IF HasHeredoc(left) THEN left ELSE TrimEnd(left)
    BY <1>7 DEF Trim
  <2> HIDE DEF left
  <2>2. PICK k \in 0..Len(left) :
          /\ k = 0 \/ left[k] \notin Blank \/ Escaped(left, k)
          /\ \A i \in (k + 1)..Len(left) : left[i] \in Blank /\ ~Escaped(left, i)
    BY <1>9, EndExists DEF Texts
  <2>3. TrimEnd(left) = SubSeq(left, 1, k)
    BY <1>9, <2>2, EndCut DEF Texts
  <2>4. CASE c = left
    BY <1>9, <2>4 DEF Texts
  <2>5. CASE c = SubSeq(left, 1, k)
    BY <1>9, <2>5 DEF Texts
  <2> QED
    BY <2>1, <2>3, <2>4, <2>5
<1> HIDE DEF left
<1> QED
  BY <1>2, <1>3, <1>7, <1>8, <1>9, <1>10 DEF c

-----------------------------------------------------------------------------
(* ShellSyntax: the name a segment starts with is the first of its words. *)

\* Characters that are taken as they are.
Plain == Chars \ Marks
\* A plain character is none that the parser or the tokenizer looks for.
LEMMA PlainChars == /\ Plain \subseteq Chars
                    /\ \A c \in Plain : c \notin Blank \cup Quotes \cup {"bs", "semi", "bar", "amp", "subst", "gt", "lt", "doc", "bad"}
BY DEF Plain, Chars, Marks, Blank, Quotes

\* The parser and the tokenizer take a plain name as it is.
LEMMA PlainReads ==
  ASSUME NEW name \in Seq(Plain), NEW next
  PROVE  /\ Reads(name, next) = [ScanStart EXCEPT !.current = name]
         /\ Words(name, next) = [TokenStart EXCEPT !.word = name]
<1> DEFINE Taken(n) == \A x : /\ Reads(n, x) = [ScanStart EXCEPT !.current = n]
                              /\ Words(n, x) = [TokenStart EXCEPT !.word = n]
           P == {n \in Seq(Plain) : Taken(n)}
<1>1. <<>> \in P
  <2>1. <<>> \in Seq(Plain)
    BY EmptySeq
  <2>2. [ScanStart EXCEPT !.current = <<>>] = ScanStart
    <3> DEFINE t == ScanStart
    <3>1. /\ t \in [segments : {<<>>}, operators : {<<>>}, current : {<<>>}, quote : {NoQuote},
                    escaped : BOOLEAN, heredoc : BOOLEAN, skip : BOOLEAN, error : BOOLEAN]
          /\ t.current = <<>>
      BY DEF ScanStart
    <3> HIDE DEF t
    <3>2. [t EXCEPT !.current = t.current] = t
      BY <3>1
    <3> QED
      BY <3>1, <3>2 DEF t
  <2>3. [TokenStart EXCEPT !.word = <<>>] = TokenStart
    <3> DEFINE t == TokenStart
    <3>1. /\ t \in [argv : {<<>>}, redirects : {<<>>}, word : {<<>>}, into : {Nowhere}, quote : {NoQuote},
                    escaped : BOOLEAN, begun : BOOLEAN, skip : BOOLEAN, error : BOOLEAN]
          /\ t.word = <<>>
      BY DEF TokenStart
    <3> HIDE DEF t
    <3>2. [t EXCEPT !.word = t.word] = t
      BY <3>1
    <3> QED
      BY <3>1, <3>2 DEF t
  <2> QED
    BY <2>1, <2>2, <2>3, ReadsNothing, WordsNothing
<1>2. \A n \in Seq(Plain), c \in Plain : n \in P => Append(n, c) \in P
  <2> SUFFICES ASSUME NEW n \in Seq(Plain), NEW c \in Plain, n \in P, NEW x
               PROVE  /\ Append(n, c) \in Seq(Plain)
                      /\ Reads(Append(n, c), x) = [ScanStart EXCEPT !.current = Append(n, c)]
                      /\ Words(Append(n, c), x) = [TokenStart EXCEPT !.word = Append(n, c)]
    OBVIOUS
  <2> DEFINE s == [ScanStart EXCEPT !.current = n]
             w == [TokenStart EXCEPT !.word = n]
  <2>0. Append(n, c) \in Seq(Plain)
    OBVIOUS
  <2>1. Reads(Append(n, c), x) = ParseChar(s, c, x)
    BY ReadsAppend
  <2>2. Words(Append(n, c), x) = TokenChar(w, c, x)
    BY WordsAppend
  <2>3. c \notin Blank \cup Quotes \cup {"bs", "semi", "bar", "amp", "subst", "gt", "lt", "doc", "bad"}
    BY PlainChars
  <2>4. ParseChar(s, c, x) = [ScanStart EXCEPT !.current = Append(n, c)]
    <3>1. s.current = n /\ ~s.error /\ ~s.skip /\ ~s.escaped /\ s.quote = NoQuote
      BY DEF ScanStart
    <3>2. Put(s, c) = [ScanStart EXCEPT !.current = Append(n, c)]
      BY DEF Put, ScanStart
    <3> HIDE DEF s
    <3>3. ParseChar(s, c, x) = Unquoted(s, c, x)
      BY <3>1 DEF ParseChar
    <3>4. Unquoted(s, c, x) = Put(s, c)
      BY <2>3 DEF Unquoted, Blank
    <3> QED
      BY <3>2, <3>3, <3>4
  <2>5. TokenChar(w, c, x) = [TokenStart EXCEPT !.word = Append(n, c)]
    <3>1. w.word = n /\ ~w.error /\ ~w.skip /\ ~w.escaped /\ w.quote = NoQuote /\ w.into = Nowhere
      BY DEF TokenStart
    <3>2. [w EXCEPT !.word = Append(w.word, c)] = [TokenStart EXCEPT !.word = Append(n, c)]
      BY DEF TokenStart
    <3> HIDE DEF w
    <3>3. TokenChar(w, c, x) = WordUnquoted(w, c, x)
      BY <3>1 DEF TokenChar
    <3>4. Ended(w, c) = w
      BY <3>1 DEF Ended
    <3>5. WordUnquoted(w, c, x) = [w EXCEPT !.word = Append(w.word, c)]
      BY <2>3, <3>1, <3>4 DEF WordUnquoted, Blank
    <3> QED
      BY <3>2, <3>3, <3>5
  <2> QED
    BY <2>0, <2>1, <2>2, <2>4, <2>5
<1>3. \A n \in Seq(Plain) : n \in P
  <2> HIDE DEF P
  <2> QED
    BY <1>1, <1>2, Grown
<1> QED
  BY <1>3
\* Plain words and the blanks between them are one text for the parser.
Spread == Plain \cup {"sp"}
LEMMA SpreadReads ==
  ASSUME NEW text \in Seq(Spread), NEW next
  PROVE  Reads(text, next) = [ScanStart EXCEPT !.current = text]
<1> DEFINE P == {n \in Seq(Spread) : \A x : Reads(n, x) = [ScanStart EXCEPT !.current = n]}
<1>1. <<>> \in P
  <2>1. <<>> \in Seq(Spread) /\ <<>> \in Seq(Plain)
    BY EmptySeq
  <2> QED
    BY <2>1, PlainReads
<1>2. \A n \in Seq(Spread), c \in Spread : n \in P => Append(n, c) \in P
  <2> SUFFICES ASSUME NEW n \in Seq(Spread), NEW c \in Spread, n \in P, NEW x
               PROVE  /\ Append(n, c) \in Seq(Spread)
                      /\ Reads(Append(n, c), x) = [ScanStart EXCEPT !.current = Append(n, c)]
    OBVIOUS
  <2> DEFINE s == [ScanStart EXCEPT !.current = n]
  <2>0. Append(n, c) \in Seq(Spread)
    OBVIOUS
  <2>1. Reads(Append(n, c), x) = ParseChar(s, c, x)
    BY ReadsAppend
  <2>3. c \notin Quotes \cup {"nl", "bs", "semi", "bar", "amp", "subst", "gt", "lt", "doc", "bad"}
    BY PlainChars DEF Spread, Blank, Quotes
  <2>4. ParseChar(s, c, x) = [ScanStart EXCEPT !.current = Append(n, c)]
    <3>1. s.current = n /\ ~s.error /\ ~s.skip /\ ~s.escaped /\ s.quote = NoQuote
      BY DEF ScanStart
    <3>2. Put(s, c) = [ScanStart EXCEPT !.current = Append(n, c)]
      BY DEF Put, ScanStart
    <3> HIDE DEF s
    <3>3. ParseChar(s, c, x) = Unquoted(s, c, x)
      BY <3>1 DEF ParseChar
    <3>4. Unquoted(s, c, x) = Put(s, c)
      BY <2>3 DEF Unquoted
    <3> QED
      BY <3>2, <3>3, <3>4
  <2> QED
    BY <2>0, <2>1, <2>4
<1>3. \A n \in Seq(Spread) : n \in P
  <2> HIDE DEF P
  <2> QED
    BY <1>1, <1>2, Grown
<1> QED
  BY <1>3

\* A segment has no line break right after plain words: the parser would have split it there.
LEMMA NoBreak ==
  ASSUME NEW text \in Texts, Quiet(text, End), NEW name \in Seq(Spread), name # <<>>, name[1] \in Plain,
         Len(name) < Len(text), \A i \in 1..Len(name) : text[i] = name[i]
  PROVE  text[Len(name) + 1] # "nl"
<1> DEFINE k == Len(name)
           n == k + 1
           x == Look(text, End, n)
           u == SubSeq(text, 1, n)
           st == [ScanStart EXCEPT !.current = name]
           r == ParseChar(st, "nl", x)
<1> SUFFICES ASSUME text[n] = "nl"
             PROVE  FALSE
  OBVIOUS
<1>1. k \in Nat /\ Len(text) \in Nat /\ n \in 0..Len(text) /\ n \in 1..Len(text) /\ k # 0 /\ 1 \in 1..k
  BY DEF Texts
<1>2. u = Append(name, "nl")
  <2> DEFINE a == Append(name, "nl")
  <2>1. Len(a) = n /\ a[n] = "nl" /\ \A i \in 1..k : a[i] = name[i]
    OBVIOUS
  <2>2. Len(u) = n /\ \A i \in 1..n : u[i] = text[i]
    BY <1>1 DEF Texts
  <2>3. a \in Seq(Spread \cup {"nl"}) /\ u \in Seq(Chars)
    BY <1>1 DEF Texts
  <2> HIDE DEF a, u
  <2>4. \A i \in 1..n : i \in 1..k \/ i = n
    BY <1>1
  <2>5. \A i \in 1..n : a[i] = u[i]
    BY <2>1, <2>2, <2>4
  <2>6. a = u
    <3> HIDE DEF n
    <3> QED
      BY <2>1, <2>2, <2>3, <2>5
  <2> QED
    BY <2>6 DEF a
<1>3. Fresh(Reads(u, x), u)
  BY <1>1 DEF Quiet, QuietAt, Standing
<1>4. Reads(u, x) = r
  <2>1. "nl" \in Chars /\ name \in Seq(Chars)
    BY PlainChars DEF Spread, Chars, Blank
  <2>2. Reads(Append(name, "nl"), x) = ParseChar(Reads(name, "nl"), "nl", x)
    BY <2>1, ReadsAppend
  <2>3. Reads(name, "nl") = st
    BY SpreadReads
  <2> HIDE DEF st, u
  <2> QED
    BY <1>2, <2>2, <2>3
<1>5. st.current = name /\ ~st.error /\ ~st.skip /\ ~st.escaped /\ st.quote = NoQuote /\ DOMAIN st = DOMAIN ScanStart
  BY DEF ScanStart
<1>6. name[1] \notin Blank
  BY PlainChars
<1> HIDE DEF st
<1>7. r = Flush(st, "nl")
  <2>1. r = Unquoted(st, "nl", x)
    BY <1>5 DEF ParseChar
  <2>2. ~ \A i \in 1..Len(st.current) : st.current[i] \in Blank
    BY <1>1, <1>5, <1>6
  <2> QED
    BY <2>1, <2>2 DEF Unquoted, Quotes
<1> HIDE DEF r
<1>8. r.error \/ r.current = <<>>
  <2>1. Fail(st).error
    BY <1>5 DEF Fail, ScanStart
  <2>2. \A segments, operators :
          [st EXCEPT !.segments = segments, !.operators = operators, !.current = <<>>, !.heredoc = FALSE].current = <<>>
    BY <1>5 DEF ScanStart
  <2> QED
    BY <1>7, <2>1, <2>2 DEF Flush, End
<1>9. u # <<>>
  BY <1>2
<1> HIDE DEF u
<1> QED
  BY <1>3, <1>4, <1>8, <1>9 DEF Fresh

\* The words found so far stay as they are.
LEMMA WordsGrow ==
  ASSUME NEW st \in TokenStates, NEW c \in Chars, NEW next, ~st.error
  PROVE  LET r == TokenChar(st, c, next)
         IN  r.error \/ r.argv = st.argv \/ r.argv = Append(st.argv, st.word)
<1> DEFINE r == TokenChar(st, c, next)
           at == Ended(st, c)
<1>1. CASE st.skip \/ st.escaped \/ st.quote # NoQuote
  <2>1. r.argv = st.argv
    BY <1>1 DEF TokenChar, WordQuoted, TokenStates
  <2> QED
    BY <2>1
<1>2. CASE ~st.skip /\ ~st.escaped /\ st.quote = NoQuote
  <2>1. r = WordUnquoted(st, c, next)
    BY <1>2 DEF TokenChar
  <2> DEFINE waits == st.into # Nowhere /\ ~st.begun /\ st.word = <<>>
  <2>2. CASE c \in Quotes \/ c = "bs" \/ (waits /\ (c \in Blank \/ c = "amp"))
    <3>1. r.argv = st.argv
      <4>1. CASE c \in Quotes
        <5>1. c # "bs" /\ c # "amp" /\ c \notin Blank
          BY <4>1 DEF Quotes, Blank
        <5> QED
          BY <2>1, <4>1, <5>1 DEF WordUnquoted, TokenStates
      <4>2. CASE c = "bs"
        BY <2>1, <4>2 DEF WordUnquoted, TokenStates, Quotes, Blank
      <4>3. CASE waits /\ c \in Blank
        BY <2>1, <4>3 DEF WordUnquoted, TokenStates, Quotes, Blank
      <4>4. CASE waits /\ c = "amp"
        BY <2>1, <4>4 DEF WordUnquoted, TokenStates, Quotes, Blank
      <4> QED
        BY <2>2, <4>1, <4>2, <4>3, <4>4
    <3> QED
      BY <3>1
  <2>3. CASE ~ (c \in Quotes \/ c = "bs" \/ (waits /\ (c \in Blank \/ c = "amp")))
    <3>1. at \in TokenStates /\ at.argv = st.argv
      BY <1>2, EndedTyped
    <3>2. at.word = st.word \/ at.word = <<>> \/ at.error
      <4> DEFINE e == EndTarget(st)
      <4>1. e \in TokenStates /\ (~e.error => e.word = <<>>)
        BY EndTargetTyped
      <4> HIDE DEF e
      <4>2. at = st \/ at = [e EXCEPT !.begun = FALSE]
        BY DEF Ended, e
      <4> QED
        BY <4>1, <4>2 DEF TokenStates
    <3>3. r = IF at.error THEN at
              ELSE IF c = "sp" THEN [EndWord(at) EXCEPT !.begun = FALSE]
              ELSE IF c \in {"lt", "gt"} THEN [Redirect(at, c, next) EXCEPT !.begun = FALSE]
              ELSE [at EXCEPT !.word = Append(at.word, c)]
      BY <2>1, <2>3, <3>1 DEF WordUnquoted, TokenStates
    <3> DEFINE w == EndWord(at)
    <3>4. w \in TokenStates /\ (w.argv = at.argv \/ (at.word # <<>> /\ w.argv = Append(at.argv, at.word)))
      <4>1. w \in TokenStates
        BY <3>1, EndWordTyped
      <4> HIDE DEF at
      <4> QED
        BY <3>1, <4>1 DEF EndWord, TokenStates
    <3>5. Redirect(at, c, next).argv = w.argv
      <4> HIDE DEF at, w
      <4> QED
        BY <3>4 DEF Redirect, TokenStates, w
    <3> DEFINE v == Redirect(at, c, next)
    <3>6. [w EXCEPT !.begun = FALSE].argv = w.argv
      <4> HIDE DEF at, w
      <4> QED
        BY <3>4 DEF TokenStates
    <3>7. [v EXCEPT !.begun = FALSE].argv = v.argv
      <4> HIDE DEF at
      <4> QED
        BY DEF Redirect
    <3>8. [at EXCEPT !.word = Append(at.word, c)].argv = at.argv
      <4> HIDE DEF at
      <4> QED
        BY <3>1 DEF TokenStates
    <3>9. r.error \/ (~at.error /\ (r.argv = at.argv \/ r.argv = w.argv))
      <4> HIDE DEF at, w, r
      <4> QED
        BY <3>3, <3>5, <3>6, <3>7, <3>8 DEF w
    <3> HIDE DEF at, w, r
    <3> QED
      BY <3>1, <3>2, <3>4, <3>9 DEF r
  <2> QED
    BY <2>2, <2>3
<1> QED
  BY <1>1, <1>2
\* The list starts with these words.
FrontIs(a, ws) == Len(ws) <= Len(a) /\ \A i \in 1..Len(ws) : a[i] = ws[i]
\* The first words stay the first.
Headed(st, ws) == st.error \/ FrontIs(st.argv, ws)

\* A list that grows at its end keeps its first members.
LEMMA FrontStays ==
  ASSUME NEW a \in Seq(Texts), NEW ws \in Seq(Texts), FrontIs(a, ws), NEW w \in Texts
  PROVE  FrontIs(Append(a, w), ws)
<1>1. Len(a) \in Nat /\ Len(ws) \in Nat /\ Len(Append(a, w)) = Len(a) + 1
  OBVIOUS
<1>2. \A i \in 1..Len(a) : Append(a, w)[i] = a[i]
  OBVIOUS
<1>3. \A i \in 1..Len(ws) : i \in 1..Len(a)
  BY <1>1 DEF FrontIs
<1> QED
  BY <1>1, <1>2, <1>3 DEF FrontIs

\* The rest of the text does not change its first words.
LEMMA HeadedOn ==
  ASSUME NEW text \in Texts, NEW rest \in Texts, NEW ws \in Seq(Texts),
         \A x : Headed(Words(text, x), ws), NEW next
  PROVE  Headed(Words(text \o rest, next), ws)
<1> DEFINE P == {r \in Texts : \A x : Headed(Words(text \o r, x), ws)}
<1>1. <<>> \in P
  <2>1. <<>> \in Texts /\ text \o <<>> = text
    BY TextsJoin
  <2> QED
    BY <2>1
<1>2. \A r \in Texts, c \in Chars : r \in P => Append(r, c) \in P
  <2> SUFFICES ASSUME NEW r \in Texts, NEW c \in Chars, r \in P, NEW x
               PROVE  Append(r, c) \in Texts /\ Headed(Words(text \o Append(r, c), x), ws)
    OBVIOUS
  <2> DEFINE a == text \o r
  <2>1. a \in Texts /\ text \o Append(r, c) = Append(a, c) /\ Append(r, c) \in Texts
    BY TextsJoin, ConcatAppend DEF Texts
  <2>2. Headed(Words(a, c), ws)
    OBVIOUS
  <2> DEFINE st == Words(a, c)
             v == TokenChar(st, c, x)
  <2>3. Words(Append(a, c), x) = v
    BY <2>1, WordsAppend DEF Texts
  <2>4. st \in TokenStates /\ Ahead(st, c)
    BY <2>1, WordsTyped
  <2> HIDE DEF a, st
  <2>5. CASE st.error
    <3>1. v = st
      BY <2>5 DEF TokenChar
    <3> QED
      BY <2>1, <2>3, <2>5, <3>1 DEF Headed
  <2>6. CASE ~st.error
    <3>1. v.error \/ v.argv = st.argv \/ v.argv = Append(st.argv, st.word)
      BY <2>4, <2>6, WordsGrow
    <3>2. FrontIs(st.argv, ws)
      BY <2>2, <2>6 DEF Headed, st
    <3>3. FrontIs(Append(st.argv, st.word), ws)
      BY <2>4, <3>2, FrontStays DEF TokenStates
    <3> HIDE DEF v
    <3>4. Headed(v, ws)
      BY <3>1, <3>2, <3>3 DEF Headed
    <3> QED
      BY <2>1, <2>3, <3>4
  <2> QED
    BY <2>5, <2>6
<1>3. \A r \in Texts : r \in P
  <2> HIDE DEF P
  <2> QED
    BY <1>1, <1>2, Grown DEF Texts
<1> QED
  BY <1>3

\* Where the characters of two texts go when they are joined.
LEMMA JoinedAt ==
  ASSUME NEW a \in Texts, NEW b \in Texts
  PROVE  /\ a \o b \in Texts /\ Len(a \o b) = Len(a) + Len(b)
         /\ \A i \in 1..Len(a) : (a \o b)[i] = a[i]
         /\ \A i \in (Len(a) + 1)..(Len(a) + Len(b)) : (a \o b)[i] = b[i - Len(a)]
BY DEF Texts

\* The end of the command keeps the first words.
LEMMA HeadedEnd ==
  ASSUME NEW st \in TokenStates, NEW ws \in Seq(Texts), Headed(st, ws), EndCommand(st) # Unreadable
  PROVE  FrontIs(EndCommand(st).argv, ws)
<1> DEFINE last == IF st.into # Nowhere THEN EndTarget(st) ELSE EndWord(st)
<1>1. ~last.error /\ EndCommand(st) = [argv |-> last.argv, redirects |-> last.redirects]
  BY DEF EndCommand
<1>2. ~st.error
  <2>1. EndWord(st).error = st.error
    BY EndWordTyped
  <2>2. st.error => EndTarget(st).error
    BY DEF EndTarget, TokenStates
  <2> QED
    BY <1>1, <2>1, <2>2
<1>3. last.argv = st.argv \/ last.argv = Append(st.argv, st.word)
  <2>1. EndTarget(st).argv = st.argv
    BY EndTargetTyped
  <2>2. EndWord(st).argv = st.argv \/ EndWord(st).argv = Append(st.argv, st.word)
    BY DEF EndWord, TokenStates
  <2> QED
    BY <2>1, <2>2
<1>4. st.argv \in Seq(Texts) /\ st.word \in Texts /\ FrontIs(st.argv, ws)
  BY <1>2 DEF Headed, TokenStates
<1>5. EndCommand(st).argv = last.argv
  BY <1>1
<1> HIDE DEF last
<1> QED
  BY <1>3, <1>4, <1>5, FrontStays

-----------------------------------------------------------------------------
(* ShellSyntax: the tokenizer over plain words. *)

\* Some words were read, and the next one as far as w.
MidWord(ws, w) == [TokenStart EXCEPT !.argv = ws, !.word = w]

\* One more plain character.
LEMMA PlainTaken ==
  ASSUME NEW ws, NEW w, NEW c \in Plain, NEW next
  PROVE  TokenChar(MidWord(ws, w), c, next) = MidWord(ws, Append(w, c))
<1> DEFINE m == MidWord(ws, w)
<1>1. c \notin Blank \cup Quotes \cup {"bs", "semi", "bar", "amp", "subst", "gt", "lt", "doc", "bad"}
  BY PlainChars
<1>2. [m EXCEPT !.word = Append(w, c)] = MidWord(ws, Append(w, c))
  BY DEF MidWord, TokenStart
<1>3. m.into = Nowhere /\ m.quote = NoQuote /\ ~m.escaped /\ ~m.skip /\ ~m.error /\ m.word = w
  BY DEF MidWord, TokenStart
<1> HIDE DEF m
<1>4. TokenChar(m, c, next) = WordUnquoted(m, c, next)
  BY <1>3 DEF TokenChar
<1>5. Ended(m, c) = m
  BY <1>3 DEF Ended
<1>6. WordUnquoted(m, c, next) = [m EXCEPT !.word = Append(m.word, c)]
  BY <1>1, <1>3, <1>5 DEF WordUnquoted, Blank
<1>7. WordUnquoted(m, c, next) = [m EXCEPT !.word = Append(w, c)]
  BY <1>3, <1>6
<1> QED
  BY <1>2, <1>4, <1>7 DEF m

\* A blank ends a word; a further one changes nothing.
LEMMA BlankTaken ==
  ASSUME NEW ws, NEW w, NEW next
  PROVE  TokenChar(MidWord(ws, w), "sp", next) = MidWord(IF w = <<>> THEN ws ELSE Append(ws, w), <<>>)
<1> DEFINE m == MidWord(ws, w)
           e == EndWord(m)
           v == MidWord(IF w = <<>> THEN ws ELSE Append(ws, w), <<>>)
<1>1. /\ m.into = Nowhere /\ m.quote = NoQuote /\ ~m.escaped /\ ~m.skip /\ ~m.error
      /\ m.argv = ws /\ m.word = w
  BY DEF MidWord, TokenStart
<1>2. e = v
  <2>1. CASE w = <<>>
    BY <1>1, <2>1 DEF EndWord
  <2>2. CASE w # <<>>
    <3>1. e = [m EXCEPT !.argv = Append(m.argv, m.word), !.word = <<>>]
      BY <1>1, <2>2 DEF EndWord
    <3> QED
      BY <2>2, <3>1 DEF MidWord, TokenStart
  <2> QED
    BY <2>1, <2>2
<1>3. [v EXCEPT !.begun = FALSE] = v
  <2> DEFINE all == IF w = <<>> THEN ws ELSE Append(ws, w)
  <2> HIDE DEF all
  <2>1. /\ v \in [argv : {all}, redirects : {<<>>}, word : {<<>>}, into : {Nowhere}, quote : {NoQuote},
                 escaped : BOOLEAN, begun : BOOLEAN, skip : BOOLEAN, error : BOOLEAN]
        /\ v.begun = FALSE
    BY DEF MidWord, TokenStart, all
  <2> HIDE DEF v
  <2>2. [v EXCEPT !.begun = v.begun] = v
    BY <2>1
  <2> QED
    BY <2>1, <2>2
<1> HIDE DEF m, v
<1>4. TokenChar(m, "sp", next) = WordUnquoted(m, "sp", next)
  BY <1>1 DEF TokenChar
<1>5. Ended(m, "sp") = m
  BY <1>1 DEF Ended
<1>6. WordUnquoted(m, "sp", next) = [EndWord(m) EXCEPT !.begun = FALSE]
  BY <1>1, <1>5 DEF WordUnquoted, Quotes, Blank
<1> QED
  BY <1>2, <1>3, <1>4, <1>6 DEF m, v

\* The tokenizer takes a plain word as it is.
LEMMA WordReads ==
  ASSUME NEW pre \in Texts, NEW ws, \A x : Words(pre, x) = MidWord(ws, <<>>), NEW word \in Seq(Plain), NEW next
  PROVE  Words(pre \o word, next) = MidWord(ws, word)
<1> DEFINE P == {n \in Seq(Plain) : \A x : Words(pre \o n, x) = MidWord(ws, n)}
<1>1. <<>> \in P
  <2>1. <<>> \in Seq(Plain) /\ pre \o <<>> = pre
    BY EmptySeq, TextsJoin
  <2> QED
    BY <2>1
<1>2. \A n \in Seq(Plain), c \in Plain : n \in P => Append(n, c) \in P
  <2> SUFFICES ASSUME NEW n \in Seq(Plain), NEW c \in Plain, n \in P, NEW x
               PROVE  Append(n, c) \in Seq(Plain) /\ Words(pre \o Append(n, c), x) = MidWord(ws, Append(n, c))
    OBVIOUS
  <2>1. n \in Texts /\ c \in Chars /\ Append(n, c) \in Seq(Plain)
    BY PlainChars DEF Texts
  <2> DEFINE a == pre \o n
  <2>2. a \in Texts /\ pre \o Append(n, c) = Append(a, c)
    BY <2>1, TextsJoin, ConcatAppend DEF Texts
  <2>3. Words(a, c) = MidWord(ws, n)
    OBVIOUS
  <2> HIDE DEF a
  <2>4. Words(Append(a, c), x) = TokenChar(Words(a, c), c, x)
    BY <2>1, <2>2, WordsAppend DEF Texts
  <2> QED
    BY <2>1, <2>2, <2>3, <2>4, PlainTaken
<1>3. \A n \in Seq(Plain) : n \in P
  <2> HIDE DEF P
  <2> QED
    BY <1>1, <1>2, Grown
<1> QED
  BY <1>3

\* Blanks end a word.
LEMMA GapReads ==
  ASSUME NEW pre \in Texts, NEW ws, NEW w, w # <<>>, \A x : Words(pre, x) = MidWord(ws, w),
         NEW gap \in Seq({"sp"}), gap # <<>>, NEW next
  PROVE  Words(pre \o gap, next) = MidWord(Append(ws, w), <<>>)
<1> DEFINE P == {n \in Seq({"sp"}) : \A x : Words(pre \o n, x) = IF n = <<>> THEN MidWord(ws, w)
                                                               ELSE MidWord(Append(ws, w), <<>>)}
<1>1. <<>> \in P
  <2>1. <<>> \in Seq({"sp"}) /\ pre \o <<>> = pre
    BY EmptySeq, TextsJoin
  <2> QED
    BY <2>1
<1>2. \A n \in Seq({"sp"}), c \in {"sp"} : n \in P => Append(n, c) \in P
  <2> SUFFICES ASSUME NEW n \in Seq({"sp"}), n \in P, NEW x
               PROVE  /\ Append(n, "sp") \in Seq({"sp"}) /\ Append(n, "sp") # <<>>
                      /\ Words(pre \o Append(n, "sp"), x) = MidWord(Append(ws, w), <<>>)
    OBVIOUS
  <2>1. n \in Texts /\ "sp" \in Chars /\ Append(n, "sp") \in Seq({"sp"}) /\ Append(n, "sp") # <<>>
    BY DEF Texts, Chars, Blank
  <2> DEFINE a == pre \o n
  <2>2. a \in Texts /\ pre \o Append(n, "sp") = Append(a, "sp")
    BY <2>1, TextsJoin, ConcatAppend DEF Texts
  <2>3. Words(a, "sp") = MidWord(ws, w) \/ Words(a, "sp") = MidWord(Append(ws, w), <<>>)
    OBVIOUS
  <2> HIDE DEF a
  <2>4. Words(Append(a, "sp"), x) = TokenChar(Words(a, "sp"), "sp", x)
    BY <2>1, <2>2, WordsAppend DEF Texts
  <2>5. /\ TokenChar(MidWord(ws, w), "sp", x) = MidWord(Append(ws, w), <<>>)
        /\ TokenChar(MidWord(Append(ws, w), <<>>), "sp", x) = MidWord(Append(ws, w), <<>>)
    BY BlankTaken
  <2> QED
    BY <2>1, <2>2, <2>3, <2>4, <2>5
<1>3. \A n \in Seq({"sp"}) : n \in P
  <2> HIDE DEF P
  <2> QED
    BY <1>1, <1>2, Grown
<1> QED
  BY <1>3

\* A text up to a place, and from there on.
LEMMA CutJoined ==
  ASSUME NEW c \in Texts, NEW m \in 0..Len(c), NEW n \in 0..m
  PROVE  /\ SubSeq(c, 1, m) \in Texts /\ SubSeq(c, n + 1, m) \in Texts
         /\ SubSeq(c, 1, m) = SubSeq(c, 1, n) \o SubSeq(c, n + 1, m)
<1> DEFINE p == SubSeq(c, 1, n)
           q == SubSeq(c, n + 1, m)
           t == SubSeq(c, 1, m)
           j == p \o q
<1>1. m \in Nat /\ n \in Nat /\ n <= m /\ m <= Len(c) /\ Len(c) \in Nat
  BY DEF Texts
<1>2. p \in Texts /\ Len(p) = n /\ \A i \in 1..n : p[i] = c[i]
  BY <1>1 DEF Texts
<1>3. q \in Texts /\ Len(q) = m - n /\ \A i \in 1..(m - n) : q[i] = c[n + i]
  BY <1>1 DEF Texts
<1>4. t \in Texts /\ Len(t) = m /\ \A i \in 1..m : t[i] = c[i]
  BY <1>1 DEF Texts
<1> HIDE DEF p, q, t
<1>5. /\ j \in Texts /\ Len(j) = Len(p) + Len(q)
      /\ \A i \in 1..Len(p) : j[i] = p[i]
      /\ \A i \in (Len(p) + 1)..(Len(p) + Len(q)) : j[i] = q[i - Len(p)]
  BY <1>2, <1>3, JoinedAt
<1> HIDE DEF j
<1>6. n + (m - n) = m
  BY <1>1
<1>7. Len(j) = m /\ (\A i \in 1..n : j[i] = p[i]) /\ \A i \in (n + 1)..m : j[i] = q[i - n]
  BY <1>2, <1>3, <1>5, <1>6
<1>8. \A i \in 1..m : j[i] = t[i]
  <2> TAKE i \in 1..m
  <2>1. CASE i <= n
    BY <1>1, <1>2, <1>4, <1>7, <2>1
  <2>2. CASE i > n
    <3>1. i \in (n + 1)..m /\ i - n \in 1..(m - n) /\ n + (i - n) = i
      BY <1>1, <2>2
    <3> QED
      BY <1>3, <1>4, <1>7, <3>1
  <2> QED
    BY <1>1, <2>1, <2>2
<1>9. j = t
  BY <1>4, <1>5, <1>7, <1>8 DEF Texts
<1> QED
  BY <1>3, <1>4, <1>9 DEF p, q, t, j

\* A list that is one longer.
LEMMA OneMore ==
  ASSUME NEW S, NEW p \in Seq(S), NEW b \in S
  PROVE  /\ Append(p, b) \in Seq(S) /\ Len(Append(p, b)) = Len(p) + 1 /\ Append(p, b)[Len(p) + 1] = b
         /\ \A i \in 1..Len(p) : Append(p, b)[i] = p[i]
OBVIOUS

\* Lists of one and of two words.
LEMMA OneAndTwo ==
  ASSUME NEW S, NEW a \in S
  PROVE  /\ <<a>> \in Seq(S) /\ Append(<<>>, a) = <<a>>
         /\ \A b \in S : Append(<<a>>, b) = <<a, b>>
<1>1. <<a>> \in Seq(S) /\ Append(<<>>, a) = <<a>>
  OBVIOUS
<1>2. ASSUME NEW b \in S PROVE Append(<<a>>, b) = <<a, b>>
  <2> DEFINE p == <<a>>
             q == Append(p, b)
             t == <<a, b>>
  <2>1. p \in Seq(S) /\ Len(p) = 1 /\ p[1] = a
    OBVIOUS
  <2> HIDE DEF p
  <2>5. /\ q \in Seq(S) /\ Len(q) = Len(p) + 1 /\ q[Len(p) + 1] = b
        /\ \A i \in 1..Len(p) : q[i] = p[i]
    BY <2>1, OneMore
  <2> HIDE DEF q
  <2>2. q \in Seq(S) /\ Len(q) = 2 /\ q[1] = a /\ q[2] = b
    BY <2>1, <2>5
  <2>3. t \in Seq(S) /\ Len(t) = 2 /\ t[1] = a /\ t[2] = b
    OBVIOUS
  <2> HIDE DEF t
  <2>4. q = t
    BY <2>2, <2>3
  <2> QED
    BY <2>4 DEF p, q, t
<1> QED
  BY <1>1, <1>2

\* The characters of a part of a text.
LEMMA CutAt ==
  ASSUME NEW c \in Texts, NEW a \in 1..Len(c), NEW b \in a..Len(c)
  PROVE  /\ SubSeq(c, a, b) \in Texts /\ Len(SubSeq(c, a, b)) = b - a + 1
         /\ \A i \in 1..(b - a + 1) : SubSeq(c, a, b)[i] = c[a + i - 1]
<1>1. a \in Nat /\ b \in Nat /\ 1 <= a /\ a <= b /\ b <= Len(c) /\ Len(c) \in Nat
  BY DEF Texts
<1> QED
  BY <1>1 DEF Texts

\* Words that end at a blank, or with the command, are its first words.
LEMMA WholeWords ==
  ASSUME NEW c \in Texts, Tokens(c) # Unreadable, NEW m \in 1..Len(c), m < Len(c) => c[m + 1] = "sp",
         NEW ws \in Seq(Texts), NEW w \in Texts, w # <<>>, \A x : Words(SubSeq(c, 1, m), x) = MidWord(ws, w)
  PROVE  FrontIs(Tokens(c).argv, Append(ws, w))
<1> DEFINE all == Append(ws, w)
<1>0. all \in Seq(Texts) /\ Len(all) \in Nat
  OBVIOUS
<1>1. FrontIs(all, all)
  BY <1>0 DEF FrontIs
<1>2. m \in Nat /\ Len(c) \in Nat /\ m <= Len(c) /\ m >= 1
  BY DEF Texts
<1> DEFINE st == Words(c, End)
<1>3. st \in TokenStates /\ Tokens(c) = EndCommand(st)
  BY WordsTyped DEF Tokens
<1>4. CASE m = Len(c)
  <2>1. SubSeq(c, 1, m) = c
    BY <1>2, <1>4 DEF Texts
  <2>2. st = MidWord(ws, w)
    BY <2>1
  <2>4. st.argv = ws /\ st.word = w /\ st.into = Nowhere
    BY <2>2 DEF MidWord, TokenStart
  <2> DEFINE e == EndWord(st)
  <2>3. e = [st EXCEPT !.argv = Append(st.argv, st.word), !.word = <<>>]
    BY <2>4 DEF EndWord
  <2>5. e.argv = all
    BY <1>3, <2>3, <2>4 DEF TokenStates
  <2> HIDE DEF st, e, all
  <2>6. EndCommand(st).argv = e.argv
    BY <1>3, <2>4 DEF EndCommand, e
  <2> QED
    BY <1>1, <1>3, <2>5, <2>6 DEF all
<1>5. CASE m < Len(c)
  <2> DEFINE n == m + 1
             p == SubSeq(c, 1, m)
             q == SubSeq(c, n, n)
             pq == SubSeq(c, 1, n)
             rest == SubSeq(c, n + 1, Len(c))
  <2>1. n \in Nat /\ n \in 1..Len(c) /\ n <= Len(c) /\ n \in 0..Len(c) /\ m \in 0..n /\ m \in 0..Len(c) /\ Len(c) \in 0..Len(c)
    BY <1>2, <1>5
  <2>2. c[n] = "sp"
    BY <1>5
  <2>3. p \in Texts /\ pq \in Texts /\ pq = p \o q
    BY <2>1, CutJoined
  <2>4. rest \in Texts /\ SubSeq(c, 1, Len(c)) = pq \o rest
    <3> HIDE DEF n
    <3> QED
      BY <2>1, CutJoined
  <2> DEFINE whole == SubSeq(c, 1, Len(c))
  <2>5. whole = c
    BY <1>2 DEF Texts
  <2>11. whole = pq \o rest
    BY <2>4
  <2>6. q \in Seq({"sp"}) /\ q # <<>>
    <3> HIDE DEF n
    <3> QED
      BY <2>1, <2>2 DEF Texts
  <2>7. \A x : Words(p, x) = MidWord(ws, w)
    OBVIOUS
  <2> HIDE DEF p, q, pq, rest, n, whole
  <2>8. \A x : Words(pq, x) = MidWord(all, <<>>)
    BY <2>3, <2>6, <2>7, GapReads
  <2>9. \A x : Headed(Words(pq, x), all)
    <3> TAKE x
    <3>1. MidWord(all, <<>>).argv = all
      BY DEF MidWord, TokenStart
    <3>2. Words(pq, x) = MidWord(all, <<>>)
      BY <2>8
    <3> QED
      BY <1>1, <3>1, <3>2 DEF Headed
  <2> HIDE DEF all
  <2>10. Headed(st, all)
    <3>1. c = pq \o rest
      BY <2>5, <2>11
    <3>2. Headed(Words(pq \o rest, End), all)
      BY <1>0, <2>3, <2>4, <2>9, HeadedOn
    <3> QED
      BY <3>1, <3>2
  <2> HIDE DEF st
  <2> QED
    BY <1>0, <1>3, <2>10, HeadedEnd DEF all
<1> QED
  BY <1>2, <1>4, <1>5

\* The first field goes up to the first blank.
LEMMA FieldCut ==
  ASSUME NEW text \in Texts
  PROVE  \E k \in 0..Len(text) :
           /\ FirstField(text) = SubSeq(text, 1, k) /\ Len(FirstField(text)) = k
           /\ \A i \in 1..k : FirstField(text)[i] = text[i] /\ text[i] \in Chars \ Blank
           /\ k < Len(text) => text[k + 1] \in Blank
<1> DEFINE blanks == {i \in 1..Len(text) : text[i] \in Blank}
<1>1. Len(text) \in Nat /\ \A i \in 1..Len(text) : text[i] \in Chars
  BY DEF Texts
<1>2. CASE blanks = {}
  <2> DEFINE n == Len(text)
  <2>1. FirstField(text) = SubSeq(text, 1, n)
    BY <1>2 DEF FirstField
  <2>2. Len(SubSeq(text, 1, n)) = n /\ (\A i \in 1..n : SubSeq(text, 1, n)[i] = text[i]) /\ n \in 0..Len(text)
    BY <1>1 DEF Texts
  <2>3. \A i \in 1..n : text[i] \notin Blank
    BY <1>2
  <2> QED
    BY <1>1, <2>1, <2>2, <2>3
<1>3. CASE blanks # {}
  <2>1. blanks \in SUBSET Nat
    BY <1>1
  <2> DEFINE m == Min(blanks)
  <2>2. m \in blanks /\ \A y \in blanks : m <= y
    <3>1. \E x \in blanks : \A y \in blanks : x <= y
      <4> HIDE DEF blanks
      <4> QED
        BY <1>3, <2>1, Least
    <3> QED
      BY <3>1 DEF Min
  <2>3. FirstField(text) = SubSeq(text, 1, m - 1)
    BY <1>3 DEF FirstField
  <2> HIDE DEF m
  <2> DEFINE k == m - 1
  <2>4. m \in 1..Len(text) /\ text[m] \in Blank
    BY <2>2
  <2>5. k \in 0..Len(text) /\ k + 1 = m /\ k \in Nat /\ \A i \in 1..k : i \in 1..Len(text) /\ ~(m <= i)
    BY <1>1, <2>4
  <2>6. \A i \in 1..k : text[i] \notin Blank
    BY <2>2, <2>5
  <2> HIDE DEF k
  <2>7. Len(SubSeq(text, 1, k)) = k /\ \A i \in 1..k : SubSeq(text, 1, k)[i] = text[i]
    BY <1>1, <2>5 DEF Texts
  <2>8. FirstField(text) = SubSeq(text, 1, k)
    BY <2>3 DEF k
  <2> QED
    BY <1>1, <2>4, <2>5, <2>6, <2>7, <2>8
<1> QED
  BY <1>2, <1>3

\* The blanks behind plain words are no line breaks.
LEMMA NoBreakAt ==
  ASSUME NEW g \in Atoms, g.command[1] \in Plain,
         NEW n \in 1..Len(g.command), n < Len(g.command), \A i \in 1..n : g.command[i] \in Spread
  PROVE  g.command[n + 1] # "nl"
<1> DEFINE c == g.command
           name == SubSeq(c, 1, n)
<1>1. c \in Texts
  BY AtomReads
<1>2. PICK text \in Texts :
        Quiet(text, End) /\ Len(c) <= Len(text) /\ \A i \in 1..Len(c) : text[i] = c[i]
  BY AtomReads
<1>3. c[1] \in Plain /\ n \in 1..Len(c) /\ n < Len(c) /\ \A i \in 1..n : c[i] \in Spread
  OBVIOUS
<1> HIDE DEF c
<1>4. Len(c) \in Nat /\ n \in Nat /\ Len(text) \in Nat /\ n + 1 \in 1..Len(c) /\ 1 \in 1..n /\ \A i \in 1..n : i \in 1..Len(c)
  BY <1>1, <1>3 DEF Texts
<1>5. Len(name) = n /\ (\A i \in 1..n : name[i] = c[i]) /\ name \in Texts
  BY <1>1, <1>4 DEF Texts
<1> HIDE DEF name
<1>6. name \in Seq(Spread) /\ name # <<>> /\ name[1] \in Plain
  <2>1. \A i \in 1..Len(name) : name[i] \in Spread
    BY <1>3, <1>5
  <2>2. name \in Seq(Spread)
    BY <1>5, <2>1 DEF Texts
  <2>3. name # <<>>
    BY <1>4, <1>5
  <2>4. name[1] \in Plain
    BY <1>3, <1>4, <1>5
  <2> QED
    BY <2>2, <2>3, <2>4
<1>7. Len(name) < Len(text) /\ \A i \in 1..Len(name) : text[i] = name[i]
  BY <1>2, <1>3, <1>4, <1>5
<1>8. text[Len(name) + 1] # "nl"
  BY <1>2, <1>6, <1>7, NoBreak
<1> QED
  BY <1>2, <1>4, <1>5, <1>8 DEF c

\* A field that keeps to plain characters is a plain word.
LEMMA PlainField ==
  ASSUME NEW text \in Texts, ToSet(FirstField(text)) \cap (Marks \ {"sp"}) = {}
  PROVE  FirstField(text) \in Seq(Plain)
<1> DEFINE name == FirstField(text)
<1>1. PICK k \in 0..Len(text) :
        name = SubSeq(text, 1, k) /\ Len(name) = k /\ \A i \in 1..k : name[i] = text[i] /\ text[i] \in Chars \ Blank
  BY FieldCut
<1>2. k \in Nat /\ Len(text) \in Nat /\ SubSeq(text, 1, k) \in Seq(Chars)
  BY DEF Texts
<1>3. ToSet(name) \cap (Marks \ {"sp"}) = {}
  OBVIOUS
<1> HIDE DEF name
<1>4. \A i \in 1..Len(name) : name[i] \in Plain
  BY <1>1, <1>3 DEF ToSet, Plain, Blank
<1>5. name \in Seq(Plain)
  BY <1>1, <1>2, <1>4
<1> QED
  BY <1>5 DEF name

\* The plain name a segment starts with is its first word.
LEMMA NameIsFirst ==
  ASSUME NEW g \in Atoms, FirstField(g.command) \in Seq(Plain), Tokens(g.command) # Unreadable
  PROVE  \E k \in 1..Len(g.command) :
           /\ \A i \in 1..k : g.command[i] \in Plain
           /\ k < Len(g.command) => g.command[k + 1] = "sp"
           /\ SubSeq(g.command, 1, k) = FirstField(g.command) /\ FirstField(g.command) # <<>>
           /\ \A x : Words(SubSeq(g.command, 1, k), x) = MidWord(<<>>, FirstField(g.command))
           /\ FrontIs(Tokens(g.command).argv, <<FirstField(g.command)>>)
<1> DEFINE c == g.command
           name == FirstField(c)
<1>1. c \in Texts /\ c # <<>> /\ Leads(c) /\ Tokens(c) # Unreadable /\ name \in Seq(Plain)
  BY AtomReads DEF Trimmed
<1>2. PICK k \in 0..Len(c) :
        /\ name = SubSeq(c, 1, k) /\ Len(name) = k
        /\ \A i \in 1..k : name[i] = c[i] /\ c[i] \in Chars \ Blank
        /\ k < Len(c) => c[k + 1] \in Blank
  BY <1>1, FieldCut
<1>3. \A n \in 1..Len(c) : c[1] \in Plain /\ n < Len(c) /\ (\A i \in 1..n : c[i] \in Spread) => c[n + 1] # "nl"
  BY NoBreakAt
<1> HIDE DEF c, name
<1>4. Len(c) \in Nat /\ Len(c) # 0 /\ k \in Nat
  BY <1>1 DEF Texts
<1>5. k # 0
  BY <1>1, <1>2, <1>4 DEF Leads
<1>6. k \in 1..Len(c) /\ \A i \in 1..k : c[i] \in Plain
  BY <1>1, <1>2, <1>4, <1>5
<1>7. k < Len(c) => c[k + 1] = "sp"
  <2>1. c[1] \in Plain /\ \A i \in 1..k : c[i] \in Spread
    BY <1>4, <1>5, <1>6 DEF Spread
  <2> QED
    BY <1>2, <1>3, <1>6, <2>1 DEF Blank
<1>8. name # <<>> /\ name \in Texts
  BY <1>1, <1>2, <1>5, PlainChars DEF Texts
<1>9. \A x : Words(name, x) = MidWord(<<>>, name)
  <2>1. \A x : Words(<<>>, x) = MidWord(<<>>, <<>>)
    <3> DEFINE t == TokenStart
    <3>2. /\ t \in [argv : {<<>>}, redirects : {<<>>}, word : {<<>>}, into : {Nowhere}, quote : {NoQuote},
                   escaped : BOOLEAN, begun : BOOLEAN, skip : BOOLEAN, error : BOOLEAN]
          /\ t.word = <<>> /\ t.argv = <<>>
      BY DEF TokenStart
    <3> HIDE DEF t
    <3>4. [t EXCEPT !.argv = t.argv, !.word = t.word] = t
      BY <3>2
    <3>3. [TokenStart EXCEPT !.argv = <<>>, !.word = <<>>] = TokenStart
      BY <3>2, <3>4 DEF t
    <3>1. MidWord(<<>>, <<>>) = TokenStart
      BY <3>2, <3>3 DEF MidWord
    <3> QED
      BY <3>1, WordsNothing
  <2> DEFINE none == <<>>
  <2>2. none \in Texts /\ none \o name = name
    BY <1>8, TextsJoin
  <2>3. \A x : Words(none, x) = MidWord(none, none)
    BY <2>1
  <2>4. \A x : MidWord(x, none) = MidWord(x, <<>>)
    OBVIOUS
  <2> HIDE DEF none
  <2>5. \A x : Words(none, x) = MidWord(none, <<>>)
    BY <2>3, <2>4
  <2>6. \A x : Words(none \o name, x) = MidWord(none, name)
    BY <1>1, <2>2, <2>5, WordReads
  <2> QED
    BY <2>2, <2>6 DEF none
<1>10. \A x : Words(SubSeq(c, 1, k), x) = MidWord(<<>>, name)
  BY <1>2, <1>9
<1>11. FrontIs(Tokens(c).argv, <<name>>)
  <2>1. <<>> \in Seq(Texts) /\ Append(<<>>, name) = <<name>>
    BY <1>8, EmptySeq
  <2>2. FrontIs(Tokens(c).argv, Append(<<>>, name))
    BY <1>1, <1>6, <1>7, <1>8, <1>10, <2>1, WholeWords
  <2> QED
    BY <2>1, <2>2
<1> QED
  BY <1>2, <1>6, <1>7, <1>8, <1>10, <1>11 DEF c, name

\* The plain verb behind a plain name is the second word.
LEMMA VerbIsSecond ==
  ASSUME NEW g \in Atoms, FirstField(g.command) \in Seq(Plain), Tokens(g.command) # Unreadable,
         Arguments(g.command) # {}, FieldFrom(g.command, Min(Arguments(g.command))) \in Seq(Plain)
  PROVE  FrontIs(Tokens(g.command).argv,
                 <<FirstField(g.command), FieldFrom(g.command, Min(Arguments(g.command)))>>)
<1> DEFINE c == g.command
           name == FirstField(c)
           args == Arguments(c)
           j == Min(args)
           tail == SubSeq(c, j, Len(c))
           verb == FirstField(tail)
<1>1. c \in Texts /\ Tokens(c) # Unreadable /\ name \in Seq(Plain) /\ verb \in Seq(Plain) /\ args # {}
  BY AtomReads DEF FieldFrom
<1>2. PICK k \in 1..Len(c) :
        /\ \A i \in 1..k : c[i] \in Plain
        /\ k < Len(c) => c[k + 1] = "sp"
        /\ SubSeq(c, 1, k) = name /\ name # <<>>
        /\ \A x : Words(SubSeq(c, 1, k), x) = MidWord(<<>>, name)
  BY NameIsFirst
<1>3. \A n \in 1..Len(c) : c[1] \in Plain /\ n < Len(c) /\ (\A i \in 1..n : c[i] \in Spread) => c[n + 1] # "nl"
  BY NoBreakAt
<1> HIDE DEF c
<1>4. Len(c) \in Nat /\ k \in Nat /\ k >= 1 /\ k <= Len(c) /\ \A i \in 1..Len(c) : c[i] \in Chars
  BY <1>1 DEF Texts
<1>5. args = {i \in 1..Len(c) : i # 1 /\ c[i] \notin Blank /\ c[i - 1] \in Blank}
  BY DEF Arguments, Starts
<1>6. j \in args /\ \A i \in args : j <= i
  <2>1. args \in SUBSET Nat
    BY <1>4, <1>5
  <2>2. \E x \in args : \A y \in args : x <= y
    <3> HIDE DEF args
    <3> QED
      BY <1>1, <2>1, Least
  <2> HIDE DEF args
  <2> QED
    BY <2>2 DEF Min
<1> HIDE DEF name, args, j
<1>7. j \in 1..Len(c) /\ j \in Nat /\ c[j] \notin Blank /\ j - 1 \in 1..Len(c) /\ c[j - 1] \in Blank /\ j - 1 \in Nat
  BY <1>4, <1>5, <1>6
<1>8. k < j - 1
  <2>1. j - 1 \notin 1..k
    BY <1>2, <1>7, PlainChars
  <2> QED
    BY <1>4, <1>7, <2>1
<1>9. \A i \in (k + 1)..(j - 1) : i \in 1..Len(c) /\ c[i] \in Blank
  <2> DEFINE ink == {i \in (k + 1)..(j - 1) : c[i] \notin Blank}
  <2>1. ink \in SUBSET Nat
    BY <1>4, <1>7
  <2>2. ink = {}
    <3> SUFFICES ASSUME ink # {} PROVE FALSE
      OBVIOUS
    <3>1. PICK m \in ink : \A i \in ink : m <= i
      <4> HIDE DEF ink
      <4> QED
        BY <2>1, Least
    <3>2. m # k + 1
      BY <1>2, <1>4, <1>7, <1>8, <3>1 DEF Blank
    <3>3. m \in Nat /\ m - 1 \in (k + 1)..(j - 1) /\ ~(m <= m - 1) /\ m \in 1..Len(c) /\ m # 1 /\ ~(j <= m)
      BY <1>4, <1>7, <3>1, <3>2
    <3>4. c[m - 1] \in Blank
      BY <3>1, <3>3
    <3>5. m \in args
      BY <1>5, <3>1, <3>3, <3>4
    <3> QED
      BY <1>6, <3>3, <3>5
  <2>3. \A i \in (k + 1)..(j - 1) : i \in 1..Len(c)
    BY <1>4, <1>7
  <2> QED
    BY <2>2, <2>3
<1>10. tail \in Texts /\ Len(tail) = Len(c) - j + 1 /\ \A i \in 1..(Len(c) - j + 1) : tail[i] = c[j + i - 1]
  BY <1>1, <1>4, <1>7 DEF Texts
<1> HIDE DEF tail
<1>11. PICK l \in 0..Len(tail) :
         /\ verb = SubSeq(tail, 1, l) /\ Len(verb) = l
         /\ \A i \in 1..l : verb[i] = tail[i] /\ tail[i] \in Chars \ Blank
         /\ l < Len(tail) => tail[l + 1] \in Blank
  BY <1>10, FieldCut
<1> HIDE DEF verb
<1> DEFINE e == j + l - 1
<1>12. /\ l \in Nat /\ l # 0 /\ e \in Nat /\ j <= e /\ e <= Len(c) /\ e \in 1..Len(c)
       /\ e + 1 = j + l /\ (e < Len(c) => l < Len(tail))
  <2>0. PICK n, t : n = Len(c) /\ t = Len(tail) /\ n \in Nat /\ t = n - j + 1 /\ j <= n /\ j >= 1
    BY <1>4, <1>7, <1>10
  <2>1. t \in Nat /\ t >= 1 /\ l \in Nat /\ l <= t
    BY <1>7, <1>11, <2>0
  <2>2. l # 0
    <3>1. tail[1] = c[j]
      BY <1>4, <1>7, <1>10
    <3> QED
      BY <1>7, <1>11, <2>0, <2>1, <3>1
  <2>3. e \in Nat /\ j <= e /\ e <= n /\ e \in 1..n /\ e + 1 = j + l /\ (e < n => l < t)
    BY <1>7, <2>0, <2>1, <2>2
  <2> QED
    BY <2>0, <2>1, <2>2, <2>3
<1>13. \A i \in 1..l : verb[i] = c[j + i - 1] /\ verb[i] \in Plain
  BY <1>1, <1>10, <1>11, <1>12
<1>14. \A i \in j..e : c[i] \in Plain
  <2> TAKE i \in j..e
  <2>1. i - j + 1 \in 1..l /\ j + (i - j + 1) - 1 = i
    BY <1>7, <1>12
  <2> QED
    BY <1>13, <2>1
<1>15. e < Len(c) => c[e + 1] \in Blank
  <2> SUFFICES ASSUME e < Len(c) PROVE c[e + 1] \in Blank
    OBVIOUS
  <2>1. l + 1 \in 1..(Len(c) - j + 1) /\ j + (l + 1) - 1 = e + 1
    BY <1>4, <1>7, <1>10, <1>12
  <2>2. tail[l + 1] = c[e + 1]
    BY <1>10, <2>1
  <2> QED
    BY <1>11, <1>12, <2>2
<1> HIDE DEF e
\* Up to the end of the verb, and behind it, blanks are spaces.
<1>16. \A i \in 1..Len(c) : i <= e + 1 => c[i] \in Spread
  <2> DEFINE odd == {i \in 1..Len(c) : i <= e + 1 /\ c[i] \notin Spread}
  <2>1. odd \in SUBSET Nat
    BY <1>4
  <2>2. odd = {}
    <3> SUFFICES ASSUME odd # {} PROVE FALSE
      OBVIOUS
    <3>1. PICK m \in odd : \A i \in odd : m <= i
      <4> HIDE DEF odd
      <4> QED
        BY <2>1, Least
    <3>2. m \in 1..Len(c) /\ m \in Nat /\ m <= e + 1 /\ c[m] \notin Plain
      BY <1>4, <3>1 DEF Spread
    <3>3. m \notin 1..k /\ m \notin j..e
      BY <1>2, <1>14, <3>2
    <3>4. m \in (k + 1)..(j - 1) \/ m = e + 1
      BY <1>4, <1>7, <1>8, <1>12, <3>2, <3>3
    <3>5. c[m] \in Blank
      BY <1>9, <1>12, <1>15, <3>2, <3>4
    <3>6. c[m] = "nl"
      BY <3>1, <3>5 DEF Spread, Blank
    <3>10. PICK n \in Nat : n = Len(c)
      BY <1>4
    <3>11. m \in Nat /\ k < m /\ m <= n /\ 1 <= k /\ k \in Nat
      BY <1>4, <3>2, <3>3, <3>10
    <3>12. m - 1 \in 1..n /\ m - 1 < n /\ (m - 1) + 1 = m /\ 1 \in 1..k
      BY <3>11
    <3>7. m - 1 \in 1..Len(c) /\ m - 1 < Len(c) /\ (m - 1) + 1 = m /\ 1 \in 1..k
      BY <3>10, <3>12
    <3>8. \A i \in 1..(m - 1) : i \in 1..Len(c) /\ i <= e + 1 /\ ~(m <= i)
      BY <1>4, <1>12, <3>2
    <3>9. \A i \in 1..(m - 1) : c[i] \in Spread
      BY <3>1, <3>8
    <3> QED
      BY <1>2, <1>3, <3>6, <3>7, <3>9
  <2> QED
    BY <2>2
<1> DEFINE gap == SubSeq(c, k + 1, j - 1)
           p == SubSeq(c, 1, j - 1)
           v == SubSeq(c, j, e)
           pv == SubSeq(c, 1, e)
<1>17. gap \in Seq({"sp"}) /\ gap # <<>>
  <2>1. \A i \in (k + 1)..(j - 1) : c[i] = "sp"
    <3> TAKE i \in (k + 1)..(j - 1)
    <3>1. i \in 1..Len(c) /\ c[i] \in Blank /\ i <= e + 1
      BY <1>4, <1>7, <1>9, <1>12
    <3>2. c[i] \in Spread
      BY <1>16, <3>1
    <3> QED
      BY <3>1, <3>2, PlainChars DEF Spread, Blank
  <2>2. j - 1 \in Nat /\ k + 1 \in Nat /\ k + 1 <= j - 1 /\ j - 1 <= Len(c)
    BY <1>4, <1>7, <1>8
  <2> DEFINE a == k + 1
             b == j - 1
  <2>3. a \in 1..Len(c) /\ b \in a..Len(c) /\ a \in Nat /\ b \in Nat /\ a <= b
    BY <1>4, <2>2
  <2> HIDE DEF a, b
  <2>4. gap = SubSeq(c, a, b)
    BY DEF a, b
  <2> HIDE DEF gap
  <2>5. gap \in Seq(Chars) /\ Len(gap) = b - a + 1 /\ \A i \in 1..(b - a + 1) : gap[i] = c[a + i - 1]
    BY <1>1, <2>3, <2>4, CutAt DEF Texts
  <2>6. \A i \in a..b : c[i] = "sp"
    BY <2>1 DEF a, b
  <2>7. b - a + 1 \in Nat /\ b - a + 1 # 0 /\ \A i \in 1..(b - a + 1) : a + i - 1 \in a..b
    BY <2>3
  <2>8. \A i \in 1..Len(gap) : gap[i] = "sp"
    BY <2>5, <2>6, <2>7
  <2>9. Len(gap) # 0
    BY <2>5, <2>7
  <2> QED
    BY <2>5, <2>8, <2>9
<1>18. p = name \o gap /\ p \in Texts /\ name \in Texts
  <2> DEFINE m == j - 1
  <2>1. m \in 0..Len(c) /\ k \in 0..m
    BY <1>4, <1>7, <1>8
  <2> HIDE DEF m
  <2>2. SubSeq(c, 1, m) = SubSeq(c, 1, k) \o SubSeq(c, k + 1, m) /\ SubSeq(c, 1, m) \in Texts
    BY <1>1, <2>1, CutJoined
  <2>3. name \in Texts
    BY <1>1, PlainChars DEF Texts
  <2> QED
    BY <1>2, <2>2, <2>3 DEF m
<1>19. pv = p \o v /\ pv \in Texts
  <2> DEFINE m == j - 1
  <2>1. m \in 0..e /\ e \in 0..Len(c) /\ m + 1 = j
    BY <1>4, <1>7, <1>12
  <2> HIDE DEF m
  <2>2. SubSeq(c, 1, e) = SubSeq(c, 1, m) \o SubSeq(c, m + 1, e) /\ SubSeq(c, 1, e) \in Texts
    BY <1>1, <2>1, CutJoined
  <2> QED
    BY <2>1, <2>2 DEF m
<1>20. v = verb
  <2>1. e - j + 1 = l
    BY <1>7, <1>11, <1>12 DEF e
  <2>2. v \in Seq(Chars) /\ Len(v) = e - j + 1 /\ \A i \in 1..(e - j + 1) : v[i] = c[j + i - 1]
    <3>1. e \in j..Len(c)
      BY <1>4, <1>7, <1>12
    <3> QED
      BY <1>1, <1>7, <3>1, CutAt DEF Texts
  <2>3. verb \in Seq(Chars) /\ Len(verb) = l
    BY <1>1, <1>11, PlainChars
  <2> HIDE DEF v
  <2>4. Len(v) = Len(verb) /\ \A i \in 1..Len(verb) : v[i] = verb[i]
    BY <1>13, <2>1, <2>2, <2>3
  <2> QED
    BY <2>2, <2>3, <2>4
<1> HIDE DEF gap, p, v, pv
<1>21. \A x : Words(p, x) = MidWord(<<name>>, <<>>)
  <2> DEFINE none == <<>>
  <2>1. \A x : Words(name, x) = MidWord(none, name)
    BY <1>2
  <2>2. Append(none, name) = <<name>>
    BY <1>18, OneAndTwo
  <2>3. name # <<>>
    BY <1>2
  <2> HIDE DEF none
  <2>4. \A x : Words(name \o gap, x) = MidWord(Append(none, name), <<>>)
    BY <1>17, <1>18, <2>1, <2>3, GapReads
  <2> QED
    BY <1>18, <2>2, <2>4
<1>22. \A x : Words(pv, x) = MidWord(<<name>>, verb)
  <2> DEFINE one == <<name>>
  <2>1. \A x : Words(p, x) = MidWord(one, <<>>)
    BY <1>21
  <2> HIDE DEF one
  <2>2. \A x : Words(p \o verb, x) = MidWord(one, verb)
    BY <1>1, <1>18, <2>1, WordReads
  <2> QED
    BY <1>19, <1>20, <2>2 DEF one
<1>23. e < Len(c) => c[e + 1] = "sp"
  <2> SUFFICES ASSUME e < Len(c) PROVE c[e + 1] = "sp"
    OBVIOUS
  <2>1. e + 1 \in 1..Len(c) /\ e + 1 <= e + 1
    BY <1>4, <1>12
  <2> QED
    BY <1>15, <1>16, <2>1, PlainChars DEF Spread, Blank
<1>24. verb \in Texts /\ verb # <<>> /\ <<name>> \in Seq(Texts)
  <2>1. verb \in Texts
    BY <1>1, PlainChars DEF Texts
  <2>2. verb # <<>>
    BY <1>11, <1>12
  <2> QED
    BY <1>18, <2>1, <2>2, OneAndTwo
<1>25. FrontIs(Tokens(c).argv, Append(<<name>>, verb))
  BY <1>1, <1>12, <1>22, <1>23, <1>24, WholeWords DEF pv
<1>26. Append(<<name>>, verb) = <<name, verb>>
  BY <1>18, <1>24, OneAndTwo
<1> QED
  BY <1>25, <1>26 DEF c, name, verb, tail, j, args, FieldFrom
-----------------------------------------------------------------------------
(* ShellSyntax: what runs unasked was agreed to. *)

\* Every segment of a line given to the tool is an atom.
LEMMA SegmentsOfLine ==
  ASSUME NEW line \in Lines, ParseShellCommand(line) # Refused
  PROVE  \A g \in ToSet(ParseShellCommand(line).segments) : g \in Atoms
<1>1. line \in Texts
  <2>1. line \in Seq(ToSet(line)) /\ ToSet(line) \subseteq Chars
    BY ShellAssumption DEF Chars, Characters
  <2> QED
    BY <2>1 DEF Texts
<1>2. PICK st \in ScanStates, g \in Atoms :
        ParseShellCommand(line) = [segments |-> Append(st.segments, g), operators |-> st.operators]
  BY <1>1, ParsedLine
<1> DEFINE ss == st.segments
           a == Append(ss, g)
<1>3. ParseShellCommand(line).segments = a
  BY <1>2
<1>4. ss \in Seq(Atoms)
  BY DEF ScanStates
<1> HIDE DEF ss
<1>5. a \in Seq(Atoms)
  BY <1>4
<1> HIDE DEF a
<1>6. \A h \in ToSet(a) : h \in Atoms
  BY <1>5 DEF ToSet
<1> QED
  BY <1>3, <1>6

\* The user agreed to the segment, or it is allowlisted by name.
AgreedTo(g, agreed) ==
  \/ Tokens(g.command) \in agreed
  \/ /\ Tokens(g.command).redirects = <<>> /\ ~g.heredoc
     /\ \/ Len(Tokens(g.command).argv) >= 1 /\ Tokens(g.command).argv[1] \in Allowed
        \/ Len(Tokens(g.command).argv) >= 2 /\ Verbed(Tokens(g.command).argv[1], Tokens(g.command).argv[2]) \in Allowed
\* Every remembered segment has words the user agreed to.
Consented == \A n \in approved : Tokens(n) \in consented
AgreedInv ==
  Consented /\ (~ran.asked => \A g \in ToSet(ParseShellCommand(ran.line).segments) : AgreedTo(g, consented))

\* The name of a segment among the approvals keeps its words and redirections.
LEMMA AtomWords ==
  ASSUME NEW g \in Atoms
  PROVE  Tokens(g.normalized) = Tokens(g.command)
<1>1. g.command \in Texts /\ Trimmed(g.command) /\ g.normalized = IF g.heredoc THEN g.command ELSE Normalize(g.command)
  BY AtomReads
<1>2. Tokens(Normalize(g.command)) = Tokens(g.command)
  BY <1>1, NormalWords
<1> QED
  BY <1>1, <1>2

\* The characters of a name and of its verb are those of both together.
LEMMA VerbedHolds ==
  ASSUME NEW name \in Seq(Chars), NEW verb \in Seq(Chars)
  PROVE  ToSet(name) \subseteq ToSet(Verbed(name, verb)) /\ ToSet(verb) \subseteq ToSet(Verbed(name, verb))
<1> DEFINE n == name \o <<"sp">>
           b == n \o verb
<1>1. "sp" \in Chars /\ name \in Texts /\ verb \in Texts /\ <<"sp">> \in Texts
  BY DEF Chars, Blank, Texts
<1>2. n \in Texts /\ Len(n) = Len(name) + 1 /\ Len(name) \in Nat /\ Len(verb) \in Nat /\ \A i \in 1..Len(name) : n[i] = name[i]
  BY <1>1, JoinedAt DEF Texts
<1> HIDE DEF n
<1>7. Len(n) \in Nat
  BY <1>2
<1>3. /\ b \in Texts /\ Len(b) = Len(n) + Len(verb) /\ Len(n) \in Nat
      /\ \A i \in 1..Len(n) : b[i] = n[i]
      /\ \A i \in (Len(n) + 1)..(Len(n) + Len(verb)) : b[i] = verb[i - Len(n)]
  <2>1. n \in Texts /\ verb \in Texts
    BY <1>1, <1>2
  <2> QED
    BY <1>7, <2>1, JoinedAt
<1> HIDE DEF b
<1>4. ASSUME NEW i \in 1..Len(name) PROVE name[i] \in ToSet(b)
  <2>1. i \in 1..Len(n) /\ i \in 1..Len(b)
    BY <1>2, <1>3
  <2>2. b[i] = name[i]
    BY <1>2, <1>3, <2>1
  <2> QED
    BY <2>1, <2>2 DEF ToSet
<1>5. ASSUME NEW i \in 1..Len(verb) PROVE verb[i] \in ToSet(b)
  <2> DEFINE q == Len(n) + i
  <2>1. q \in (Len(n) + 1)..(Len(n) + Len(verb)) /\ q \in 1..Len(b) /\ q - Len(n) = i
    BY <1>2, <1>3
  <2> HIDE DEF q
  <2>2. b[q] = verb[i]
    BY <1>3, <2>1
  <2> QED
    BY <2>1, <2>2 DEF ToSet
<1>6. b = Verbed(name, verb)
  BY DEF b, n, Verbed
<1> QED
  BY <1>4, <1>5, <1>6 DEF ToSet

\* A segment that validateShellSegment lets pass was agreed to.
LEMMA ValidIsAgreed ==
  ASSUME NEW g \in Atoms, ValidSegment(g), Consented
  PROVE  AgreedTo(g, consented)
<1>1. CASE g.normalized \in approved
  BY <1>1, AtomWords DEF Consented, AgreedTo
<1>2. CASE g.normalized \notin approved
  <2> DEFINE c == g.command
             a == Tokens(c).argv
             name == FirstField(c)
  <2>1. /\ ~g.heredoc /\ Allowlisted(c)
        /\ Tokens(c) # Unreadable /\ Tokens(c).redirects = <<>>
    BY <1>2 DEF ValidSegment
  <2>2. c \in Texts
    BY AtomReads
  <2>3. CASE name \in Allowed
    <3>1. name \in Seq(Plain)
      BY <2>2, <2>3, ShellAssumption, PlainField
    <3>2. FrontIs(a, <<name>>)
      BY <2>1, <3>1, NameIsFirst
    <3>3. Len(a) >= 1 /\ a[1] = name
      <4> HIDE DEF a, name
      <4> QED
        BY <3>2 DEF FrontIs
    <3> QED
      BY <2>1, <2>3, <3>3 DEF AgreedTo
  <2>4. CASE Composite(c)
    <3> DEFINE from == Min(Arguments(c))
               tail == SubSeq(c, from, Len(c))
               verb == FieldFrom(c, from)
    <3>1. Arguments(c) # {} /\ Verbed(name, verb) \in Allowed
      BY <2>4 DEF Composite
    <3>2. verb = FirstField(tail)
      BY DEF FieldFrom
    <3>3. tail \in Texts
      <4>1. Arguments(c) \in SUBSET Nat /\ Arguments(c) \subseteq 1..Len(c)
        BY <2>2 DEF Arguments, Starts, Texts
      <4>2. \E x \in Arguments(c) : \A y \in Arguments(c) : x <= y
        BY <3>1, <4>1, Least
      <4>3. from \in 1..Len(c)
        BY <4>1, <4>2 DEF Min
      <4> HIDE DEF from, c
      <4> QED
        BY <2>2, <4>3 DEF Texts
    <3>4. PICK k \in 0..Len(c) : Len(name) = k /\ name = SubSeq(c, 1, k)
      BY <2>2, FieldCut
    <3>5. PICK l \in 0..Len(tail) : Len(verb) = l /\ verb = SubSeq(tail, 1, l)
      BY <3>2, <3>3, FieldCut
    <3> HIDE DEF from, tail, verb, c, name
    <3>6. name \in Seq(Chars) /\ verb \in Seq(Chars)
      BY <2>2, <3>3, <3>4, <3>5 DEF Texts
    <3>7. ToSet(Verbed(name, verb)) \cap (Marks \ {"sp"}) = {}
      BY <3>1, ShellAssumption
    <3>8. ToSet(name) \subseteq ToSet(Verbed(name, verb)) /\ ToSet(verb) \subseteq ToSet(Verbed(name, verb))
      BY <3>6, VerbedHolds
    <3>9. name \in Seq(Plain) /\ verb \in Seq(Plain)
      <4>1. ToSet(name) \cap (Marks \ {"sp"}) = {} /\ ToSet(verb) \cap (Marks \ {"sp"}) = {}
        BY <3>7, <3>8
      <4>2. name \in Seq(Plain)
        BY <2>2, <4>1, PlainField DEF name
      <4>3. verb \in Seq(Plain)
        BY <3>2, <3>3, <4>1, PlainField
      <4> QED
        BY <4>2, <4>3
    <3>10. FrontIs(a, <<name, verb>>)
      BY <2>1, <3>1, <3>9, VerbIsSecond DEF c, name, verb, from
    <3>11. Len(a) >= 2 /\ a[1] = name /\ a[2] = verb
      <4> HIDE DEF a
      <4> QED
        BY <3>10 DEF FrontIs
    <3>12. Verbed(a[1], a[2]) \in Allowed
      BY <3>1, <3>11
    <3> QED
      BY <2>1, <3>11, <3>12 DEF AgreedTo, c
  <2> QED
    BY <2>1, <2>3, <2>4 DEF Allowlisted
<1> QED
  BY <1>1, <1>2

\* What was agreed to stays agreed to.
LEMMA AgreedLater ==
  ASSUME NEW g, NEW agreed, NEW later, agreed \subseteq later, AgreedTo(g, agreed)
  PROVE  AgreedTo(g, later)
BY DEF AgreedTo

\* A line that runs keeps the invariant, whether anyone was asked or not.
LEMMA ExecuteAgreed ==
  ASSUME NEW line \in Lines, Execute(line), AgreedInv
  PROVE  AgreedInv'
<1>1. PICK known \in BOOLEAN :
        LET parsed == ParseShellCommand(line)
        IN  /\ parsed # Refused
            /\ known = ValidateAllowed(parsed)
            /\ ran' = [asked |-> ~known, line |-> line]
            /\ \/ UNCHANGED <<approved, consented>>
               \/ /\ ~known
                  /\ approved' = approved \cup Remembered(parsed)
                  /\ consented' = consented \cup {Tokens(parsed.segments[i].command) : i \in 1..Len(parsed.segments)}
  BY DEF Execute
<1> DEFINE parsed == ParseShellCommand(line)
           segments == parsed.segments
<1>2. \A g \in ToSet(segments) : g \in Atoms
  BY <1>1, SegmentsOfLine
<1>3. ToSet(segments) = {segments[i] : i \in 1..Len(segments)}
  <2> HIDE DEF parsed
  <2> QED
    BY DEF ToSet
<1>4. consented \subseteq consented'
  BY <1>1
<1>5. ran'.asked = ~known /\ ran'.line = line
  BY <1>1
<1>6. known = \A i \in 1..Len(segments) : ValidSegment(segments[i])
  BY <1>1 DEF ValidateAllowed
<1>7. \/ UNCHANGED <<approved, consented>>
      \/ /\ approved' = approved \cup {segments[i].normalized : i \in 1..Len(segments)}
         /\ consented' = consented \cup {Tokens(segments[i].command) : i \in 1..Len(segments)}
  BY <1>1 DEF Remembered
<1> HIDE DEF segments
<1>8. Consented'
  <2>1. ASSUME NEW n \in approved'
        PROVE  Tokens(n) \in consented'
    <3>1. CASE n \in approved
      BY <1>4, <3>1 DEF AgreedInv, Consented
    <3>2. CASE n \notin approved
      <4>1. PICK i \in 1..Len(segments) : n = segments[i].normalized
        BY <1>7, <2>1, <3>2
      <4>2. Tokens(segments[i].command) \in consented'
        BY <1>7, <2>1, <3>2
      <4>3. segments[i] \in Atoms
        BY <1>2, <1>3
      <4> QED
        BY <4>1, <4>2, <4>3, AtomWords
    <3> QED
      BY <3>1, <3>2
  <2> QED
    BY <2>1 DEF Consented
<1>9. ASSUME ~ran'.asked, NEW g \in ToSet(segments)
      PROVE  AgreedTo(g, consented')
  <2>1. ValidSegment(g)
    BY <1>3, <1>5, <1>6, <1>9
  <2>2. g \in Atoms /\ Consented
    BY <1>2 DEF AgreedInv
  <2>3. AgreedTo(g, consented)
    BY <2>1, <2>2, ValidIsAgreed
  <2> QED
    BY <1>4, <2>3, AgreedLater
<1>10. ParseShellCommand(ran'.line).segments = segments
  BY <1>5 DEF segments
<1> QED
  BY <1>8, <1>9, <1>10 DEF AgreedInv, AgreedTo

\* A line that runs without anyone being asked consists of segments that redirect
\* nothing and whose first word, or first two words as sh reads them, are
\* allowlisted, or whose words and redirections the user agreed to remember earlier
\* (validateShellSegment, rememberApprovedSegments).
THEOREM UnaskedAgreed == SyntaxSpec => []UnaskedWasAgreed
<1>1. SyntaxInit => AgreedInv
  <2>1. Idle(TRUE).asked = TRUE
    BY DEF Idle
  <2> QED
    BY <2>1 DEF SyntaxInit, AgreedInv, Consented
<1>2. AgreedInv /\ [TypeNext \/ ExecuteNext]_syntaxVars => AgreedInv'
  <2> SUFFICES ASSUME AgreedInv, [TypeNext \/ ExecuteNext]_syntaxVars
               PROVE  AgreedInv'
    OBVIOUS
  <2>1. CASE UNCHANGED <<approved, consented, ran>>
    BY <2>1 DEF AgreedInv, Consented, AgreedTo
  <2>2. CASE TypeNext
    BY <2>1, <2>2 DEF TypeNext, Type
  <2>3. CASE ExecuteNext
    BY <2>3, ExecuteAgreed DEF ExecuteNext
  <2> QED
    BY <2>1, <2>2, <2>3 DEF syntaxVars
<1>3. AgreedInv => UnaskedWasAgreed
  <2> SUFFICES ASSUME AgreedInv, ~ran.asked, NEW g \in ToSet(ParseShellCommand(ran.line).segments)
               PROVE  \E tokens \in {Tokens(g.command)} :
                        \/ tokens \in consented
                        \/ /\ tokens.redirects = <<>> /\ ~g.heredoc
                           /\ \/ Len(tokens.argv) >= 1 /\ tokens.argv[1] \in Allowed
                              \/ Len(tokens.argv) >= 2 /\ Verbed(tokens.argv[1], tokens.argv[2]) \in Allowed
    BY DEF UnaskedWasAgreed
  <2>1. AgreedTo(g, consented)
    BY DEF AgreedInv
  <2> QED
    BY <2>1 DEF AgreedTo
<1> QED
  BY <1>1, <1>2, <1>3, PTL DEF SyntaxSpec
=============================================================================
