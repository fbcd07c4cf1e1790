-------------------------- MODULE CalculatorProofs --------------------------
(***************************************************************************)
(* The calculator's parser follows its grammar, for every line it can hold. *)
(* Parser and language are the unique fixed points of their rules; a parser *)
(* that never goes back finds every meaning (by the length of the part that *)
(* has it), and what it finds has a meaning (by what remains of the line).  *)
(***************************************************************************)
EXTENDS CalculatorApp, RecursionProofs, SequenceTheorems, TLAPS

LEMMA DigitChars ==
  ASSUME NEW c
  PROVE  IsDigit(c) <=> c \in {"0", "1", "2", "3", "4", "5", "6", "7", "8", "9"}
<1>1. /\ Digits[1] = "0" /\ Digits[2] = "1" /\ Digits[3] = "2" /\ Digits[4] = "3"
      /\ Digits[5] = "4" /\ Digits[6] = "5" /\ Digits[7] = "6" /\ Digits[8] = "7"
      /\ Digits[9] = "8" /\ Digits[10] = "9"
  BY DEF Digits
<1>2. \A i \in 1..10 : i = 1 \/ i = 2 \/ i = 3 \/ i = 4 \/ i = 5 \/ i = 6 \/ i = 7 \/ i = 8
                       \/ i = 9 \/ i = 10
  OBVIOUS
<1>3. 1 \in 1..10 /\ 2 \in 1..10 /\ 3 \in 1..10 /\ 4 \in 1..10 /\ 5 \in 1..10
      /\ 6 \in 1..10 /\ 7 \in 1..10 /\ 8 \in 1..10 /\ 9 \in 1..10 /\ 10 \in 1..10
  OBVIOUS
<1> QED BY <1>1, <1>2, <1>3 DEF IsDigit

LEMMA DigitValue ==
  ASSUME NEW c, IsDigit(c) PROVE DigitOf(c) \in 0..9
<1>1. \E i \in 1..10 : Digits[i] = c
  BY DEF IsDigit
<1>2. (CHOOSE i \in 1..10 : Digits[i] = c) \in 1..10
  BY <1>1
<1> QED BY <1>2 DEF DigitOf

LEMMA DigitTypes ==
  \A i \in 1..10 : Digits[i] \in {"0", "1", "2", "3", "4", "5", "6", "7", "8", "9"}
BY DigitChars DEF IsDigit

-----------------------------------------------------------------------------
LEMMA ZeroType == Zero \in Fractions
BY DEF Zero, Fractions

LEMMA MinusType == ASSUME NEW a \in Fractions PROVE Minus(a) \in Fractions
BY DEF Minus, Fractions

LEMMA PositiveProduct == ASSUME NEW a \in Nat \ {0}, NEW b \in Nat \ {0} PROVE a * b \in Nat \ {0}
OBVIOUS

LEMMA PlusType == ASSUME NEW a \in Fractions, NEW b \in Fractions PROVE Plus(a, b) \in Fractions
<1>1. a.n \in Int /\ b.n \in Int /\ a.d \in Nat \ {0} /\ b.d \in Nat \ {0}
  BY DEF Fractions
<1>2. a.d * b.d \in Nat \ {0} /\ a.n * b.d \in Int /\ b.n * a.d \in Int
  BY <1>1, PositiveProduct
<1>3. a.n * b.d + b.n * a.d \in Int
  BY <1>2
<1> QED BY <1>2, <1>3 DEF Plus, Fractions

LEMMA TimesType == ASSUME NEW a \in Fractions, NEW b \in Fractions PROVE Times(a, b) \in Fractions
<1>1. a.n \in Int /\ b.n \in Int /\ a.d \in Nat \ {0} /\ b.d \in Nat \ {0}
  BY DEF Fractions
<1>2. a.d * b.d \in Nat \ {0} /\ a.n * b.n \in Int
  BY <1>1, PositiveProduct
<1> QED BY <1>2 DEF Times, Fractions

LEMMA OverType ==
  ASSUME NEW a \in Fractions, NEW b \in Fractions, b.n # 0 PROVE Over(a, b) \in Fractions
<1>1. a.n \in Int /\ b.n \in Int /\ a.d \in Nat \ {0} /\ b.d \in Nat \ {0}
  BY DEF Fractions
<1>2. a.n * b.d \in Int /\ -(a.n * b.d) \in Int
  BY <1>1
<1>3. CASE b.n > 0
  <2>1. b.n \in Nat \ {0}
    BY <1>1, <1>3
  <2>2. a.d * b.n \in Nat \ {0}
    BY <1>1, <2>1, PositiveProduct
  <2> QED BY <1>2, <1>3, <2>2 DEF Over, Fractions
<1>4. CASE ~(b.n > 0)
  <2>1. -(b.n) \in Nat \ {0}
    BY <1>1, <1>4
  <2>2. a.d * (-(b.n)) \in Nat \ {0}
    BY <1>1, <2>1, PositiveProduct
  <2>3. -(a.d * b.n) = a.d * (-(b.n))
    BY <1>1
  <2>4. -(a.d * b.n) \in Nat \ {0}
    BY <2>2, <2>3
  <2> QED BY <1>2, <1>4, <2>4 DEF Over, Fractions
<1> QED BY <1>3, <1>4

-----------------------------------------------------------------------------
(* The same value *)

LEMMA FactorsSwap ==
  ASSUME NEW a \in Int, NEW b \in Int, NEW c \in Int, NEW e \in Int
  PROVE  (a * b) * (c * e) = (a * c) * (b * e)
OBVIOUS

LEMMA SignsAgree ==
  ASSUME NEW b \in Int, NEW e \in Int, NEW q \in Nat \ {0}, NEW t \in Nat \ {0},
         b * t = e * q
  PROVE  (b > 0 <=> e > 0) /\ (b = 0 <=> e = 0)
<1>1. ASSUME NEW x \in Int, NEW y \in Nat \ {0}
      PROVE  (x > 0 <=> x * y > 0) /\ (x = 0 <=> x * y = 0)
  <2>1. CASE x > 0
    <3>1. x * y \in Nat \ {0}
      BY <2>1, PositiveProduct
    <3> QED BY <2>1, <3>1
  <2>2. CASE x = 0
    BY <2>2
  <2>3. CASE x < 0
    <3>1. (-x) * y \in Nat \ {0}
      BY <2>3, PositiveProduct
    <3>2. (-x) * y = -(x * y) /\ x * y \in Int
      OBVIOUS
    <3> QED BY <2>3, <3>1, <3>2
  <2> QED BY <2>1, <2>2, <2>3
<1> QED BY <1>1

LEMMA SameTimes ==
  ASSUME NEW a \in Fractions, NEW b \in Fractions, NEW v \in Fractions, NEW w \in Fractions,
         SameValue(a, v), SameValue(b, w)
  PROVE  SameValue(Times(a, b), Times(v, w))
<1>1. /\ a.n \in Int /\ b.n \in Int /\ v.n \in Int /\ w.n \in Int
      /\ a.d \in Int /\ b.d \in Int /\ v.d \in Int /\ w.d \in Int
  BY DEF Fractions
<1>2. a.n * v.d = v.n * a.d /\ b.n * w.d = w.n * b.d
  BY DEF SameValue
<1>3. (a.n * b.n) * (v.d * w.d) = (v.n * w.n) * (a.d * b.d)
  <2>1. (a.n * b.n) * (v.d * w.d) = (a.n * v.d) * (b.n * w.d)
    BY <1>1, FactorsSwap
  <2>2. (v.n * w.n) * (a.d * b.d) = (v.n * a.d) * (w.n * b.d)
    BY <1>1, FactorsSwap
  <2> QED BY <1>2, <2>1, <2>2
<1> QED BY <1>3 DEF SameValue, Times

LEMMA SameMinus ==
  ASSUME NEW a \in Fractions, NEW v \in Fractions, SameValue(a, v)
  PROVE  SameValue(Minus(a), Minus(v))
<1>1. a.n \in Int /\ v.n \in Int /\ a.d \in Int /\ v.d \in Int
  BY DEF Fractions
<1>2. a.n * v.d = v.n * a.d
  BY DEF SameValue
<1>3. (-a.n) * v.d = -(a.n * v.d) /\ (-v.n) * a.d = -(v.n * a.d)
  BY <1>1
<1> QED BY <1>2, <1>3 DEF SameValue, Minus

LEMMA SamePlus ==
  ASSUME NEW a \in Fractions, NEW b \in Fractions, NEW v \in Fractions, NEW w \in Fractions,
         SameValue(a, v), SameValue(b, w)
  PROVE  SameValue(Plus(a, b), Plus(v, w))
<1>1. /\ a.n \in Int /\ b.n \in Int /\ v.n \in Int /\ w.n \in Int
      /\ a.d \in Int /\ b.d \in Int /\ v.d \in Int /\ w.d \in Int
  BY DEF Fractions
<1>2. a.n * v.d = v.n * a.d /\ b.n * w.d = w.n * b.d
  BY DEF SameValue
<1>3. b.d * w.d = w.d * b.d /\ a.d * v.d = v.d * a.d
  BY <1>1
<1>4. (a.n * b.d) * (v.d * w.d) = (v.n * w.d) * (a.d * b.d)
  <2>1. (a.n * b.d) * (v.d * w.d) = (a.n * v.d) * (b.d * w.d)
    BY <1>1, FactorsSwap
  <2>2. (v.n * w.d) * (a.d * b.d) = (v.n * a.d) * (w.d * b.d)
    BY <1>1, FactorsSwap
  <2> QED BY <1>2, <1>3, <2>1, <2>2
<1>5. (b.n * a.d) * (w.d * v.d) = (w.n * v.d) * (b.d * a.d)
  <2>1. (b.n * a.d) * (w.d * v.d) = (b.n * w.d) * (a.d * v.d)
    BY <1>1, FactorsSwap
  <2>2. (w.n * v.d) * (b.d * a.d) = (w.n * b.d) * (v.d * a.d)
    BY <1>1, FactorsSwap
  <2> QED BY <1>2, <1>3, <2>1, <2>2
<1>6. /\ a.n * b.d \in Int /\ b.n * a.d \in Int /\ v.n * w.d \in Int /\ w.n * v.d \in Int
      /\ v.d * w.d \in Int /\ a.d * b.d \in Int
      /\ v.d * w.d = w.d * v.d /\ a.d * b.d = b.d * a.d
  BY <1>1
<1>7. (a.n * b.d + b.n * a.d) * (v.d * w.d) = (v.n * w.d + w.n * v.d) * (a.d * b.d)
  <2>1. ASSUME NEW x \in Int, NEW y \in Int, NEW z \in Int PROVE (x + y) * z = x * z + y * z
    OBVIOUS
  <2> QED BY <1>4, <1>5, <1>6, <2>1
<1> QED BY <1>7 DEF SameValue, Plus

\* Values that are the same stay so when they are divided by the same value.
LEMMA SameOver ==
  ASSUME NEW a \in Fractions, NEW b \in Fractions, NEW v \in Fractions, NEW w \in Fractions,
         SameValue(a, v), SameValue(b, w)
  PROVE  SameValue(Over(a, b), Over(v, w))
<1>1. /\ a.n \in Int /\ b.n \in Int /\ v.n \in Int /\ w.n \in Int
      /\ a.d \in Int /\ b.d \in Nat \ {0} /\ v.d \in Int /\ w.d \in Nat \ {0}
      /\ b.d \in Int /\ w.d \in Int
  BY DEF Fractions
<1>2. a.n * v.d = v.n * a.d /\ b.n * w.d = w.n * b.d
  BY DEF SameValue
<1>3. b.n > 0 <=> w.n > 0
  BY <1>1, <1>2, SignsAgree
<1>4. b.d * w.n = w.d * b.n
  BY <1>1, <1>2
<1>5. (a.n * b.d) * (v.d * w.n) = (v.n * w.d) * (a.d * b.n)
  <2>1. (a.n * b.d) * (v.d * w.n) = (a.n * v.d) * (b.d * w.n)
    BY <1>1, FactorsSwap
  <2>2. (v.n * w.d) * (a.d * b.n) = (v.n * a.d) * (w.d * b.n)
    BY <1>1, FactorsSwap
  <2> QED BY <1>2, <1>4, <2>1, <2>2
<1>6. (-(a.n * b.d)) * (-(v.d * w.n)) = (-(v.n * w.d)) * (-(a.d * b.n))
  <2>1. ASSUME NEW x \in Int, NEW y \in Int PROVE (-x) * (-y) = x * y
    OBVIOUS
  <2>2. /\ a.n * b.d \in Int /\ v.d * w.n \in Int /\ v.n * w.d \in Int /\ a.d * b.n \in Int
    BY <1>1
  <2> QED BY <1>5, <2>1, <2>2
<1>7. CASE b.n > 0
  BY <1>3, <1>5, <1>7 DEF SameValue, Over
<1>8. CASE ~(b.n > 0)
  BY <1>3, <1>6, <1>8 DEF SameValue, Over
<1> QED BY <1>7, <1>8

LEMMA AbsType ==
  ASSUME NEW i \in Int
  PROVE  /\ Abs(i) \in Nat
         /\ \A k \in Nat : Abs(i) * k = IF i < 0 THEN -(i * k) ELSE i * k
BY DEF Abs

\* Values that are the same are as near to zero.
LEMMA SameNearZero ==
  ASSUME NEW b \in Fractions, NEW w \in Fractions, SameValue(b, w)
  PROVE  NearZero(b) <=> NearZero(w)
<1>1. b.n \in Int /\ w.n \in Int /\ b.d \in Nat \ {0} /\ w.d \in Nat \ {0} /\ Tiny \in Nat
  BY CalculatorAssumption DEF Fractions
<1>2. b.n * w.d = w.n * b.d
  BY DEF SameValue
<1>3. (b.n < 0) <=> (w.n < 0)
  BY <1>1, <1>2, SignsAgree
<1> DEFINE x == Abs(b.n)
           y == Abs(w.n)
<1>4. x \in Nat /\ y \in Nat /\ x * w.d = y * b.d
  BY <1>1, <1>2, <1>3, AbsType
<1> HIDE DEF x, y
\* A part of the whole proof for two values: the one less than the other's share.
<1>5. ASSUME NEW a \in Nat, NEW c \in Nat, NEW d \in Nat \ {0}, NEW e \in Nat \ {0},
             a * e = c * d, a * Tiny < d
      PROVE  c * Tiny < e
  <2>1. ASSUME NEW m \in Nat, NEW k \in Nat, NEW l \in Nat \ {0}, m * l < k * l PROVE m < k
    <3> SUFFICES ASSUME k <= m PROVE FALSE
      OBVIOUS
    <3>1. (m - k) * l \in Nat /\ (m - k) * l = m * l - k * l
      BY <2>1
    <3> QED BY <2>1, <3>1
  <2>2. (c * Tiny) * d = (c * d) * Tiny /\ (a * e) * Tiny = (a * Tiny) * e
    BY <1>1
  <2> DEFINE z == a * Tiny
  <2>3. z \in Nat /\ z < d
    BY <1>1, <1>5
  <2>4. (c * Tiny) * d = z * e
    BY <1>5, <2>2
  <2> HIDE DEF z
  <2>5. (d - z) \in Nat \ {0} /\ (d - z) * e = d * e - z * e
    BY <1>5, <2>3
  <2>6. (d - z) * e \in Nat \ {0}
    BY <1>5, <2>5, PositiveProduct
  <2>7. z * e < e * d
    BY <1>5, <2>3, <2>5, <2>6
  <2> DEFINE u == c * Tiny
  <2>8. u \in Nat /\ u * d < e * d
    BY <1>1, <2>4, <2>7
  <2> HIDE DEF u
  <2>9. u < e
    BY <2>1, <2>8
  <2> QED BY <2>9 DEF u
<1>6. x * Tiny < b.d <=> y * Tiny < w.d
  BY <1>1, <1>4, <1>5
<1> QED BY <1>6 DEF NearZero, x, y

\* What is not near to zero is not zero.
LEMMA NotNearZero == ASSUME NEW b \in Fractions, ~NearZero(b) PROVE b.n # 0
<1>1. b.n \in Int /\ b.d \in Nat \ {0} /\ Tiny \in Nat
  BY CalculatorAssumption DEF Fractions
<1>2. ASSUME b.n = 0 PROVE Abs(b.n) * Tiny = 0
  BY <1>1, <1>2 DEF Abs
<1> QED BY <1>1, <1>2 DEF NearZero

LEMMA SameItself == ASSUME NEW a \in Fractions PROVE SameValue(a, a)
BY DEF SameValue

-----------------------------------------------------------------------------
(* Where skip_spaces and parse_number stop *)

\* The marks that the rules look for are no digits, and differ.
LEMMA Marks ==
  /\ Space # "end" /\ LeftParen # "end" /\ RightParen # "end"
  /\ LeftParen \notin {"+", "-", "*", "/", "."} /\ RightParen \notin {"+", "-", "*", "/", "."}
  /\ Space \notin {"+", "-", "*", "/", "."}
  /\ LeftParen # RightParen /\ LeftParen # Space /\ RightParen # Space
BY Zenon DEF Space, LeftParen, RightParen

LEMMA NoDigits ==
  /\ ~IsDigit(Space) /\ ~IsDigit(LeftParen) /\ ~IsDigit(RightParen) /\ ~IsDigit(".")
  /\ ~IsDigit("+") /\ ~IsDigit("-") /\ ~IsDigit("*") /\ ~IsDigit("/") /\ ~IsDigit("end")
<1>1. /\ Space \notin {"0", "1", "2", "3", "4", "5", "6", "7", "8", "9"}
      /\ LeftParen \notin {"0", "1", "2", "3", "4", "5", "6", "7", "8", "9"}
      /\ RightParen \notin {"0", "1", "2", "3", "4", "5", "6", "7", "8", "9"}
  BY Zenon DEF Space, LeftParen, RightParen
<1> QED BY <1>1, DigitChars

LEMMA PositionTypes ==
  ASSUME NEW V, NEW s \in Seq(V), NEW p \in Positions(s)
  PROVE  Len(s) \in Nat /\ p \in Nat /\ 1 <= p /\ p <= Len(s) + 1
<1>1. Len(s) \in Nat
  OBVIOUS
<1>2. p \in 1..(Len(s) + 1)
  BY DEF Positions
<1> QED BY <1>1, <1>2

LEMMA EndChar ==
  ASSUME NEW V, NEW s \in Seq(V)
  PROVE  ~IsDigit(CharAt(s, Len(s) + 1)) /\ CharAt(s, Len(s) + 1) = "end"
<1>1. Len(s) \in Nat
  OBVIOUS
<1>2. ~(Len(s) + 1 <= Len(s))
  BY <1>1
<1>3. CharAt(s, Len(s) + 1) = "end"
  BY <1>2 DEF CharAt
<1> QED BY <1>3, DigitChars

\* skip_spaces stops at the first character that is no blank.
LEMMA SkipStops ==
  ASSUME NEW V, NEW s \in Seq(V), NEW p \in Positions(s)
  PROVE  /\ Skip(s, p) \in p..(Len(s) + 1)
         /\ CharAt(s, Skip(s, p)) # Space
         /\ \A i \in p..(Skip(s, p) - 1) : CharAt(s, i) = Space
<1> DEFINE L == Len(s)
           Blank_(i) == CharAt(s, i) = Space
           q == Skip(s, p)
<1>1. L \in Nat /\ p \in Nat /\ 1 <= p /\ p <= L + 1
  BY PositionTypes
<1>2. ~Blank_(L + 1)
  BY EndChar, Marks
<1>3. q = CHOOSE k \in p..(L + p) : ~Blank_(k) /\ \A i \in p..(k - 1) : Blank_(i)
  BY DEF Skip
<1> SUFFICES q \in p..(L + 1) /\ ~Blank_(q) /\ \A i \in p..(q - 1) : Blank_(i)
  OBVIOUS
<1> HIDE DEF L, Blank_, q
<1> DEFINE T == {k \in Nat : p <= k /\ ~Blank_(k)}
<1>4. L + 1 \in T
  BY <1>1, <1>2
<1>5. PICK m \in T : \A k \in T : m <= k
  BY <1>4, LeastNat
<1>6. m \in Nat /\ p <= m /\ m <= L + 1
  BY <1>4, <1>5
<1>7. m \in p..(L + p) /\ ~Blank_(m)
  BY <1>1, <1>6
<1>8. ASSUME NEW i \in p..(m - 1) PROVE Blank_(i)
  <2>1. i \in Nat /\ p <= i /\ ~(m <= i)
    BY <1>1, <1>6
  <2> QED BY <1>5, <2>1
<1>9. q \in p..(L + p) /\ ~Blank_(q) /\ \A i \in p..(q - 1) : Blank_(i)
  BY <1>3, <1>7, <1>8
<1>10. q <= L + 1
  <2>1. SUFFICES ASSUME ~(q <= L + 1) PROVE FALSE
    BY <1>1, <1>9
  <2>2. L + 1 \in p..(q - 1)
    BY <1>1, <1>9, <2>1
  <2> QED BY <1>2, <1>9, <2>2
<1> QED BY <1>1, <1>9, <1>10

LEMMA SkipNone ==
  ASSUME NEW V, NEW s \in Seq(V), NEW p \in Positions(s), CharAt(s, p) # Space
  PROVE  Skip(s, p) = p
<1> DEFINE q == Skip(s, p)
           L == Len(s)
<1>1. L \in Nat /\ p \in Nat
  BY PositionTypes
<1>2. q \in p..(L + 1)
  BY SkipStops
<1>3. ~(p \in p..(q - 1))
  BY SkipStops
<1> HIDE DEF q, L
<1>4. q = p
  BY <1>1, <1>2, <1>3
<1> QED BY <1>4 DEF q

\* Where a number from p ends.
NumberStops(s, p, q) ==
  /\ \A i \in p..(q - 1) : IsDigit(s[i]) \/ s[i] = "."
  /\ \A i, j \in p..(q - 1) : s[i] = "." /\ s[j] = "." => i = j
  /\ ~IsDigit(CharAt(s, q))
  /\ CharAt(s, q) = "." => \E i \in p..(q - 1) : s[i] = "."

LEMMA NumberEndStops ==
  ASSUME NEW V, NEW s \in Seq(V), NEW p \in Positions(s)
  PROVE  NumberEnd(s, p) \in p..(Len(s) + 1) /\ NumberStops(s, p, NumberEnd(s, p))
<1> DEFINE L == Len(s)
           Goes(q) == \/ IsDigit(CharAt(s, q))
                      \/ CharAt(s, q) = "." /\ \A i \in p..(q - 1) : s[i] # "."
           T == {q \in Nat : p <= q /\ ~Goes(q)}
<1>1. L \in Nat /\ p \in Nat /\ 1 <= p /\ p <= L + 1
  BY PositionTypes
<1>2. L + 1 \in T
  <2>1. ~Goes(L + 1)
    BY EndChar
  <2> QED BY <1>1, <2>1
<1>3. PICK m \in T : \A k \in T : m <= k
  BY <1>2, LeastNat
<1>4. m \in p..(L + 1)
  BY <1>1, <1>2, <1>3
<1>5. ASSUME NEW i \in p..(m - 1)
      PROVE  s[i] = CharAt(s, i) /\ Goes(i)
  <2>1. i \in Nat /\ p <= i /\ ~(m <= i) /\ i <= L
    BY <1>1, <1>4
  <2>2. i \notin T
    BY <1>3, <2>1
  <2> QED BY <2>1, <2>2 DEF CharAt
<1>6. NumberStops(s, p, m)
  <2>1. \A i \in p..(m - 1) : IsDigit(s[i]) \/ s[i] = "."
    BY <1>5
  <2>2. ASSUME NEW i \in p..(m - 1), NEW j \in p..(m - 1), s[i] = ".", s[j] = ".", i < j
        PROVE  FALSE
    <3>1. i \in p..(j - 1)
      BY <2>2
    <3>2. ~IsDigit(".")
      BY DigitChars
    <3> QED BY <1>5, <2>2, <3>1, <3>2
  <2>3. \A i, j \in p..(m - 1) : s[i] = "." /\ s[j] = "." => i = j
    <3>1. \A i, j \in p..(m - 1) : i < j \/ j < i \/ i = j
      BY <1>4
    <3> QED BY <2>2, <3>1
  <2>4. ~Goes(m)
    BY <1>3
  <2> QED BY <2>1, <2>3, <2>4 DEF NumberStops
<1>7. NumberEnd(s, p) = CHOOSE q \in p..(L + 1) : NumberStops(s, p, q)
  BY DEF NumberEnd, NumberStops
<1> DEFINE e == NumberEnd(s, p)
<1>8. e \in p..(L + 1) /\ NumberStops(s, p, e)
  BY <1>4, <1>6, <1>7, Zenon
<1> QED BY <1>8

LEMMA NumberEndIs ==
  ASSUME NEW V, NEW s \in Seq(V), NEW p \in Positions(s), NEW q \in p..(Len(s) + 1),
         NumberStops(s, p, q)
  PROVE  NumberEnd(s, p) = q
<1>1. Len(s) \in Nat /\ p \in Nat /\ 1 <= p /\ p <= Len(s) + 1
  BY PositionTypes
<1>2. ASSUME NEW a \in p..(Len(s) + 1), NEW b \in p..(Len(s) + 1), a < b,
             NumberStops(s, p, a), NumberStops(s, p, b)
      PROVE  FALSE
  <2>1. a \in p..(b - 1) /\ a <= Len(s) /\ \A i \in p..(a - 1) : i \in p..(b - 1) /\ i # a
    BY <1>1, <1>2
  <2>2. s[a] = CharAt(s, a)
    BY <2>1 DEF CharAt
  <2>3. IsDigit(s[a]) \/ s[a] = "."
    BY <1>2, <2>1 DEF NumberStops
  <2>4. s[a] = "."
    BY <1>2, <2>2, <2>3 DEF NumberStops
  <2>5. PICK i \in p..(a - 1) : s[i] = "."
    BY <1>2, <2>2, <2>4 DEF NumberStops
  <2> QED BY <1>2, <2>1, <2>4, <2>5 DEF NumberStops
<1> DEFINE e == NumberEnd(s, p)
<1>3. e \in p..(Len(s) + 1) /\ NumberStops(s, p, e)
  BY NumberEndStops
<1>4. e < q \/ q < e \/ e = q
  BY <1>1, <1>3
<1> HIDE DEF e
<1>5. e = q
  BY <1>2, <1>3, <1>4
<1> QED BY <1>5 DEF e

-----------------------------------------------------------------------------
(* What a number is worth *)

Readings == [v : Fractions, places : BOOLEAN]

LEMMA ReadingType ==
  ASSUME NEW r \in Readings, NEW c, InNumber(c)
  PROVE  ReadOn(r, c) \in Readings
<1>1. r.v \in Fractions /\ r.places \in BOOLEAN
  BY DEF Readings
<1>2. CASE c = "."
  BY <1>2 DEF ReadOn, Readings
<1>3. CASE c # "."
  <2>1. DigitOf(c) \in Nat
    BY <1>3, DigitValue DEF InNumber
  <2>2. r.v.n \in Int /\ r.v.d \in Nat \ {0}
    BY <1>1 DEF Fractions
  <2>3. r.v.n * 10 + DigitOf(c) \in Int
    BY <2>1, <2>2
  <2>4. (IF r.places THEN r.v.d * 10 ELSE 1) \in Nat \ {0}
    BY <2>2
  <2>5. [n |-> r.v.n * 10 + DigitOf(c), d |-> IF r.places THEN r.v.d * 10 ELSE 1] \in Fractions
    BY <2>3, <2>4 DEF Fractions
  <2> QED BY <1>1, <1>3, <2>5 DEF ReadOn, Readings
<1> QED BY <1>2, <1>3

\* f is what is read of each beginning of the text.
Reads(text, f) ==
  f = [i \in 0..Len(text) |->
         IF i = 0 THEN [v |-> Zero, places |-> FALSE] ELSE ReadOn(f[i - 1], text[i])]

LEMMA ReadsExists ==
  ASSUME NEW V, NEW text \in Seq(V), \A i \in 1..Len(text) : InNumber(text[i])
  PROVE  \E f \in [0..Len(text) -> Readings] : Reads(text, f)
<1> DEFINE n == Len(text)
           a == [v |-> Zero, places |-> FALSE]
           at(i) == [r \in Readings |-> IF i \in 1..n THEN ReadOn(r, text[i]) ELSE r]
           G == [i \in Nat |-> at(i)]
<1>1. n \in Nat /\ a \in Readings
  BY ZeroType DEF Readings
<1>2. ASSUME NEW i \in Nat PROVE at(i) \in [Readings -> Readings]
  BY ReadingType
<1>3. G \in [Nat -> [Readings -> Readings]]
  BY <1>2
<1>4. ASSUME NEW i \in 1..n, NEW r \in Readings PROVE G[i][r] = ReadOn(r, text[i])
  <2>1. at(i)[r] = ReadOn(r, text[i])
    OBVIOUS
  <2>2. G[i] = at(i)
    <3> HIDE DEF at
    <3> QED BY <1>1
  <2> HIDE DEF G, at
  <2> QED BY <2>1, <2>2
<1> HIDE DEF G
<1>5. PICK f \in [0..n -> Readings] : Unfolds(f, a, G, n)
  BY <1>1, <1>3, RecursionExists
<1>6. \A i \in 1..n : i - 1 \in 0..n /\ f[i - 1] \in Readings
  BY <1>1, <1>5
<1>7. \A i \in 1..n : f[i] = ReadOn(f[i - 1], text[i])
  BY <1>4, <1>5, <1>6 DEF Unfolds
<1>8. \A i \in 0..n : i # 0 => i \in 1..n
  BY <1>1
<1>9. Reads(text, f)
  <2>1. f[0] = a
    BY <1>5 DEF Unfolds
  <2> DEFINE g == [i \in 0..n |-> IF i = 0 THEN a ELSE ReadOn(f[i - 1], text[i])]
  <2>2. \A i \in 0..n : f[i] = g[i]
    BY <1>7, <1>8, <2>1
  <2>3. f = g
    <3> HIDE DEF a
    <3>1. DOMAIN f = 0..n /\ DOMAIN g = 0..n /\ f = [i \in 0..n |-> f[i]]
      BY <1>5
    <3> QED BY <2>2, <3>1
  <2> QED BY <2>3 DEF Reads
<1> QED BY <1>9

\* A number read from digits and a point is a fraction.
LEMMA NumberType ==
  ASSUME NEW V, NEW text \in Seq(V), \A i \in 1..Len(text) : InNumber(text[i])
  PROVE  NumberOf(text) \in Fractions
<1> DEFINE f == CHOOSE g : Reads(text, g)
           n == Len(text)
<1>1. Reads(text, f)
  BY ReadsExists, Zenon
<1>2. NumberOf(text) = f[n].v
  BY Zenon DEF NumberOf, Reads
<1>3. n \in Nat
  OBVIOUS
<1> HIDE DEF f
<1>4. f[0] = [v |-> Zero, places |-> FALSE]
  BY <1>1, <1>3 DEF Reads
<1>5. f[0] \in Readings
  BY <1>4, ZeroType DEF Readings
<1>6. ASSUME NEW i \in 1..n, f[i - 1] \in Readings PROVE f[i] \in Readings
  <2>1. i \in 0..n /\ i # 0
    BY <1>3
  <2>2. f[i] = ReadOn(f[i - 1], text[i])
    BY <1>1, <2>1 DEF Reads
  <2> QED BY <1>6, <2>2, ReadingType
<1>7. \A i \in 0..n : f[i] \in Readings
  BY <1>3, <1>5, <1>6, AllAlong
<1>8. f[n] \in Readings
  BY <1>3, <1>7
<1> QED BY <1>2, <1>8 DEF Readings

-----------------------------------------------------------------------------
(* What the rules of the parser give *)

Results == [ok : BOOLEAN, v : Fractions, pos : Nat, why : {"none", "Invalid", "DivideByZero"}]
Calls(s) == Rules \X Positions(s) \X Fractions

\* A rule that begins with a factor takes a character, a loop may take none.
Takes(rule) == IF rule \in {"factor", "term", "expression"} THEN 1 ELSE 0
Fits(s, rule, p, r) == r.ok => r.pos \in (p + Takes(rule))..(Len(s) + 1)
Parsers(s) == {f \in [Calls(s) -> Results] : \A x \in Calls(s) : Fits(s, x[1], x[2], f[x])}

LEMMA ResultTypes ==
  /\ Invalid \in Results /\ None("DivideByZero") \in Results
  /\ ~Invalid.ok /\ ~None("DivideByZero").ok
BY ZeroType DEF Invalid, None, Results

LEMMA SomeType ==
  ASSUME NEW v \in Fractions, NEW p \in Nat
  PROVE  Some(v, p) \in Results /\ Some(v, p).ok /\ Some(v, p).v = v /\ Some(v, p).pos = p
BY DEF Some, Results

LEMMA ResultFields ==
  ASSUME NEW r \in Results
  PROVE  r.ok \in BOOLEAN /\ r.v \in Fractions /\ r.pos \in Nat
BY DEF Results

LEMMA SignedType ==
  ASSUME NEW r \in Results, NEW negative \in BOOLEAN
  PROVE  /\ Signed(negative, r) \in Results
         /\ Signed(negative, r).ok = r.ok /\ Signed(negative, r).pos = r.pos
         /\ Signed(negative, r).v = IF r.ok /\ negative THEN Minus(r.v) ELSE r.v
<1>1. Minus(r.v) \in Fractions
  BY ResultFields, MinusType
<1> QED BY <1>1 DEF Signed, Results

LEMMA ParserGives ==
  ASSUME NEW s, NEW f \in Parsers(s), NEW rule \in Rules, NEW p \in Positions(s),
         NEW v \in Fractions
  PROVE  f[<<rule, p, v>>] \in Results /\ Fits(s, rule, p, f[<<rule, p, v>>])
<1> DEFINE x == <<rule, p, v>>
<1>1. x \in Calls(s) /\ x[1] = rule /\ x[2] = p
  BY DEF Calls
<1>2. f \in [Calls(s) -> Results] /\ \A y \in Calls(s) : Fits(s, y[1], y[2], f[y])
  BY DEF Parsers
<1>3. f[x] \in Results /\ Fits(s, x[1], x[2], f[x])
  <2> HIDE DEF x
  <2> QED BY <1>1, <1>2
<1> QED BY <1>1, <1>3

LEMMA CharInside ==
  ASSUME NEW V, NEW s \in Seq(V), NEW p \in Positions(s), CharAt(s, p) # "end"
  PROVE  p \in 1..Len(s) /\ CharAt(s, p) = s[p] /\ p + 1 \in Positions(s)
<1>1. Len(s) \in Nat /\ p \in Nat /\ 1 <= p /\ p <= Len(s) + 1
  BY PositionTypes
<1>2. p <= Len(s)
  BY <1>1 DEF CharAt
<1> QED BY <1>1, <1>2 DEF CharAt, Positions

LEMMA SubLine ==
  ASSUME NEW V, NEW s \in Seq(V), NEW p \in Positions(s), NEW q \in p..(Len(s) + 1)
  PROVE  /\ SubSeq(s, p, q - 1) \in Seq(V)
         /\ Len(SubSeq(s, p, q - 1)) = q - p
         /\ \A i \in 1..(q - p) : /\ SubSeq(s, p, q - 1)[i] = s[p + i - 1]
                                  /\ p + i - 1 \in p..(q - 1)
         /\ \A i \in p..(q - 1) : /\ SubSeq(s, p, q - 1)[i - p + 1] = s[i]
                                  /\ i - p + 1 \in 1..(q - p)
<1> DEFINE L == Len(s)
           t == SubSeq(s, p, q - 1)
<1>1. L \in Nat /\ p \in Nat /\ 1 <= p /\ p <= L + 1
  BY PositionTypes
<1>2. \A i \in 1..L : s[i] \in V
  OBVIOUS
<1> HIDE DEF L
<1>3. q \in Int /\ p \in Int /\ q - 1 \in Int /\ p <= q /\ q <= L + 1
  BY <1>1 DEF L
<1>4. \A i \in p..(q - 1) : i \in 1..L
  BY <1>1, <1>3
<1>5. \A i \in p..(q - 1) : s[i] \in V
  BY <1>2, <1>4
<1>6. /\ t \in Seq(V)
      /\ Len(t) = IF p <= q - 1 THEN (q - 1) - p + 1 ELSE 0
      /\ \A i \in 1..((q - 1) - p + 1) : t[i] = s[p + i - 1]
  BY <1>3, <1>5, SubSeqProperties
<1> HIDE DEF t
<1>7. Len(t) = q - p
  <2>1. CASE p <= q - 1
    <3>1. Len(t) = (q - 1) - p + 1
      BY <1>6, <2>1
    <3> QED BY <1>3, <3>1
  <2>2. CASE ~(p <= q - 1)
    <3>1. Len(t) = 0
      BY <1>6, <2>2
    <3>2. q - p = 0
      BY <1>3, <2>2
    <3> QED BY <3>1, <3>2
  <2> QED BY <2>1, <2>2
<1>8. (q - 1) - p + 1 = q - p
  BY <1>3
<1>9. \A i \in 1..(q - p) : t[i] = s[p + i - 1] /\ p + i - 1 \in p..(q - 1)
  BY <1>3, <1>6, <1>8
<1>10. ASSUME NEW i \in p..(q - 1) PROVE t[i - p + 1] = s[i] /\ i - p + 1 \in 1..(q - p)
  <2>1. i - p + 1 \in 1..(q - p) /\ p + (i - p + 1) - 1 = i
    BY <1>3
  <2> QED BY <1>9, <2>1
<1> QED BY <1>6, <1>7, <1>9, <1>10 DEF t

\* What parse_number reads is a number, and it takes a digit at least.
LEMMA NumberAtGives ==
  ASSUME NEW V, NEW s \in Seq(V), NEW p \in Positions(s)
  PROVE  /\ NumberAt(s, p) \in Results
         /\ NumberAt(s, p).ok =>
              /\ NumberAt(s, p).pos = NumberEnd(s, p)
              /\ NumberAt(s, p).v = NumberOf(SubSeq(s, p, NumberEnd(s, p) - 1))
              /\ NumberEnd(s, p) \in (p + 1)..(Len(s) + 1)
              /\ NumberText(SubSeq(s, p, NumberEnd(s, p) - 1))
              /\ InRange(NumberAt(s, p).v)
         /\ /\ NumberText(SubSeq(s, p, NumberEnd(s, p) - 1))
            /\ InRange(NumberOf(SubSeq(s, p, NumberEnd(s, p) - 1)))
            => NumberAt(s, p).ok
<1> DEFINE e == NumberEnd(s, p)
           t == SubSeq(s, p, e - 1)
<1>1. Len(s) \in Nat /\ p \in Nat /\ 1 <= p /\ p <= Len(s) + 1
  BY PositionTypes
<1>2. e \in p..(Len(s) + 1) /\ NumberStops(s, p, e)
  BY NumberEndStops
<1>3. NumberAt(s, p) = IF (\E i \in DOMAIN t : IsDigit(t[i])) /\ InRange(NumberOf(t))
                         THEN Some(NumberOf(t), e) ELSE Invalid
  BY DEF NumberAt
<1> HIDE DEF e
<1>4. /\ t \in Seq(V) /\ Len(t) = e - p
      /\ \A i \in 1..(e - p) : t[i] = s[p + i - 1] /\ p + i - 1 \in p..(e - 1)
  <2>1. e \in p..(Len(s) + 1)
    BY <1>2
  <2>2. /\ SubSeq(s, p, e - 1) \in Seq(V)
        /\ Len(SubSeq(s, p, e - 1)) = e - p
        /\ \A i \in 1..(e - p) : SubSeq(s, p, e - 1)[i] = s[p + i - 1] /\ p + i - 1 \in p..(e - 1)
    BY <2>1, SubLine
  <2> QED BY <2>2
<1> HIDE DEF t
<1>5. e \in Nat /\ p <= e /\ e <= Len(s) + 1 /\ DOMAIN t = 1..(e - p)
  BY <1>1, <1>2, <1>4
<1>6. \A i \in 1..(e - p) : IsDigit(t[i]) \/ t[i] = "."
  BY <1>2, <1>4 DEF NumberStops
<1>7. ASSUME NEW i \in 1..(e - p), NEW j \in 1..(e - p), t[i] = ".", t[j] = "." PROVE i = j
  <2>1. s[p + i - 1] = "." /\ s[p + j - 1] = "."
    BY <1>4, <1>7
  <2>2. p + i - 1 \in p..(e - 1) /\ p + j - 1 \in p..(e - 1)
    BY <1>4
  <2>3. \A h, k \in p..(e - 1) : s[h] = "." /\ s[k] = "." => h = k
    BY <1>2 DEF NumberStops
  <2>4. p + i - 1 = p + j - 1
    BY <2>1, <2>2, <2>3, Zenon
  <2> QED BY <1>1, <2>4
<1>8. NumberOf(t) \in Fractions
  BY <1>4, <1>6, NumberType DEF InNumber
<1>9. CASE (\E i \in DOMAIN t : IsDigit(t[i])) /\ InRange(NumberOf(t))
  <2>1. NumberAt(s, p) = Some(NumberOf(t), e)
    BY <1>3, <1>9
  <2>2. e \in (p + 1)..(Len(s) + 1)
    BY <1>1, <1>5, <1>9
  <2>3. NumberText(t)
    BY <1>5, <1>6, <1>7, <1>9 DEF NumberText
  <2>4. NumberAt(s, p) \in Results /\ NumberAt(s, p).ok /\ NumberAt(s, p).v = NumberOf(t)
        /\ NumberAt(s, p).pos = e
    BY <1>5, <1>8, <2>1, SomeType
  <2> QED BY <1>9, <2>2, <2>3, <2>4 DEF t, e
<1>10. CASE ~((\E i \in DOMAIN t : IsDigit(t[i])) /\ InRange(NumberOf(t)))
  <2>1. NumberAt(s, p) = Invalid
    BY <1>3, <1>10
  <2>2. ~(NumberText(t) /\ InRange(NumberOf(t)))
    BY <1>10 DEF NumberText
  <2> QED BY <2>1, <2>2, ResultTypes DEF t, e
<1> QED BY <1>9, <1>10

\* Where a factor from p0 has its number or its bracket.
Operand(s, p0) ==
  IF CharAt(s, Skip(s, p0)) \in {"+", "-"} THEN Skip(s, Skip(s, p0) + 1) ELSE Skip(s, p0)

LEMMA SkipPlace ==
  ASSUME NEW V, NEW s \in Seq(V), NEW p \in Positions(s)
  PROVE  Skip(s, p) \in Positions(s) /\ p <= Skip(s, p)
<1>1. Len(s) \in Nat /\ p \in Nat /\ 1 <= p /\ p <= Len(s) + 1
  BY PositionTypes
<1>2. Skip(s, p) \in p..(Len(s) + 1)
  BY SkipStops
<1> QED BY <1>1, <1>2 DEF Positions

LEMMA OperandPlace ==
  ASSUME NEW V, NEW s \in Seq(V), NEW p0 \in Positions(s)
  PROVE  Operand(s, p0) \in Positions(s) /\ p0 <= Operand(s, p0)
<1> DEFINE p == Skip(s, p0)
<1>1. p \in Positions(s) /\ p0 <= p
  BY SkipPlace
<1>2. CASE CharAt(s, p) \in {"+", "-"}
  <2>1. p + 1 \in Positions(s)
    BY <1>1, <1>2, CharInside
  <2>2. Skip(s, p + 1) \in Positions(s) /\ p + 1 <= Skip(s, p + 1)
    BY <2>1, SkipPlace
  <2>3. Operand(s, p0) = Skip(s, p + 1)
    BY <1>2 DEF Operand
  <2>4. p0 \in Nat /\ p \in Nat /\ Skip(s, p + 1) \in Nat
    BY <1>1, <2>2, PositionTypes
  <2> HIDE DEF p
  <2>5. p0 <= Skip(s, p + 1)
    BY <1>1, <2>2, <2>4
  <2> QED BY <2>2, <2>3, <2>5
<1>3. CASE CharAt(s, p) \notin {"+", "-"}
  BY <1>1, <1>3 DEF Operand
<1> QED BY <1>2, <1>3

LEMMA FactorIs ==
  ASSUME NEW s, NEW R, NEW p0
  PROVE  Factor(s, R, p0) = Signed(CharAt(s, Skip(s, p0)) = "-", Unsigned(s, R, Operand(s, p0)))
BY DEF Factor, Operand

LEMMA UnsignedGives ==
  ASSUME NEW V, NEW s \in Seq(V), NEW R \in Parsers(s), NEW q \in Positions(s)
  PROVE  /\ Unsigned(s, R, q) \in Results
         /\ Unsigned(s, R, q).ok => Unsigned(s, R, q).pos \in (q + 1)..(Len(s) + 1)
<1> DEFINE inner == R[<<"expression", q + 1, Zero>>]
           close == Skip(s, inner.pos)
<1>0. Len(s) \in Nat /\ q \in Nat
  BY PositionTypes
<1>1. CASE CharAt(s, q) # LeftParen
  <2>1. Unsigned(s, R, q) = NumberAt(s, q)
    BY <1>1 DEF Unsigned
  <2> QED BY <2>1, NumberAtGives
<1>2. CASE CharAt(s, q) = LeftParen
  <2>1. q + 1 \in Positions(s)
    BY <1>2, CharInside, Marks
  <2>2. "expression" \in Rules /\ Takes("expression") = 1
    BY DEF Rules, Takes
  <2>3. inner \in Results /\ Fits(s, "expression", q + 1, inner)
    BY <2>1, <2>2, ParserGives, ZeroType
  <2>4. inner.v \in Fractions /\ inner.pos \in Nat /\ inner.ok \in BOOLEAN
    BY <2>3, ResultFields
  <2>5. CASE ~inner.ok
    <3>1. Unsigned(s, R, q) = inner
      BY <1>2, <2>5 DEF Unsigned
    <3> QED BY <2>3, <2>5, <3>1
  <2>6. CASE inner.ok /\ CharAt(s, close) = RightParen
    <3>1. Unsigned(s, R, q) = Some(inner.v, close + 1)
      BY <1>2, <2>6 DEF Unsigned
    <3>2. inner.pos \in ((q + 1) + 1)..(Len(s) + 1)
      BY <2>2, <2>3, <2>6 DEF Fits
    <3>3. inner.pos \in Positions(s)
      BY <1>0, <3>2 DEF Positions
    <3>4. close \in Positions(s) /\ inner.pos <= close
      BY <3>3, SkipPlace
    <3>5. close \in 1..Len(s)
      BY <2>6, <3>4, CharInside, Marks
    <3> HIDE DEF inner, close
    <3>6. close + 1 \in (q + 1)..(Len(s) + 1) /\ close + 1 \in Nat
      BY <1>0, <2>4, <3>2, <3>4, <3>5
    <3> QED BY <2>4, <3>1, <3>6, SomeType
  <2>7. CASE inner.ok /\ CharAt(s, close) # RightParen
    <3>1. Unsigned(s, R, q) = Invalid
      BY <1>2, <2>7 DEF Unsigned
    <3> QED BY <3>1, ResultTypes
  <2> QED BY <2>4, <2>5, <2>6, <2>7
<1> QED BY <1>1, <1>2

LEMMA FactorGives ==
  ASSUME NEW V, NEW s \in Seq(V), NEW R \in Parsers(s), NEW p0 \in Positions(s)
  PROVE  Factor(s, R, p0) \in Results /\ Fits(s, "factor", p0, Factor(s, R, p0))
<1> DEFINE q == Operand(s, p0)
           u == Unsigned(s, R, q)
           minus == CharAt(s, Skip(s, p0)) = "-"
<1>1. Len(s) \in Nat /\ p0 \in Nat
  BY PositionTypes
<1>2. q \in Positions(s) /\ p0 <= q
  BY OperandPlace
<1>3. q \in Nat
  BY <1>2, PositionTypes
<1>4. u \in Results /\ (u.ok => u.pos \in (q + 1)..(Len(s) + 1))
  BY <1>2, UnsignedGives
<1>5. Factor(s, R, p0) = Signed(minus, u)
  BY FactorIs
<1>6. minus \in BOOLEAN
  OBVIOUS
<1>7. Takes("factor") = 1
  BY DEF Takes
<1> HIDE DEF q, u, minus
<1>8. /\ Signed(minus, u) \in Results /\ Signed(minus, u).ok = u.ok
      /\ Signed(minus, u).pos = u.pos
  BY <1>4, <1>6, SignedType
<1>9. u.ok => u.pos \in (p0 + 1)..(Len(s) + 1)
  BY <1>1, <1>2, <1>3, <1>4
<1> QED BY <1>5, <1>7, <1>8, <1>9 DEF Fits

LEMMA ProductsGives ==
  ASSUME NEW V, NEW s \in Seq(V), NEW R \in Parsers(s), NEW p0 \in Positions(s),
         NEW v \in Fractions
  PROVE  Products(s, R, p0, v) \in Results /\ Fits(s, "products", p0, Products(s, R, p0, v))
<1> DEFINE p == Skip(s, p0)
           op == CharAt(s, p)
           next == IF op \in {"*", "/"} THEN p + 1 ELSE p
           rhs == R[<<"factor", next, Zero>>]
           w == IF op = "/" THEN Over(v, rhs.v) ELSE Times(v, rhs.v)
<1>1. Len(s) \in Nat /\ p0 \in Nat
  BY PositionTypes
<1>2. p \in Positions(s) /\ p0 <= p
  BY SkipPlace
<1>3. p \in Nat /\ p <= Len(s) + 1
  BY <1>2, PositionTypes
<1>4. Takes("products") = 0 /\ Takes("factor") = 1 /\ "factor" \in Rules /\ "products" \in Rules
  BY DEF Takes, Rules
<1>5. CASE op \notin {"*", "/"} /\ ~StartsFactor(op)
  <2>1. Products(s, R, p0, v) = Some(v, p)
    BY <1>5 DEF Products
  <2> HIDE DEF p
  <2>2. p \in (p0 + 0)..(Len(s) + 1)
    BY <1>1, <1>2, <1>3
  <2> QED BY <1>3, <1>4, <2>1, <2>2, SomeType DEF Fits
<1>6. CASE ~(op \notin {"*", "/"} /\ ~StartsFactor(op))
  <2>1. next \in Positions(s) /\ p0 <= next
    <3>1. CASE op \in {"*", "/"}
      <4>1. p + 1 \in Positions(s)
        BY <1>2, <3>1, CharInside
      <4> HIDE DEF p
      <4>2. p0 <= p + 1
        BY <1>1, <1>2, <1>3
      <4> QED BY <3>1, <4>1, <4>2
    <3>2. CASE op \notin {"*", "/"}
      BY <1>2, <3>2
    <3> QED BY <3>1, <3>2
  <2>2. rhs \in Results /\ Fits(s, "factor", next, rhs)
    BY <1>4, <2>1, ParserGives, ZeroType
  <2>3. rhs.ok \in BOOLEAN /\ rhs.v \in Fractions /\ rhs.pos \in Nat
    BY <2>2, ResultFields
  <2>4. next \in Nat
    BY <2>1, PositionTypes
  <2>5. CASE ~rhs.ok
    <3>1. Products(s, R, p0, v) = rhs
      BY <1>6, <2>5 DEF Products
    <3> QED BY <2>2, <2>5, <3>1 DEF Fits
  <2>6. CASE rhs.ok /\ op = "/" /\ NearZero(rhs.v)
    <3>1. Products(s, R, p0, v) = None("DivideByZero")
      BY <1>6, <2>6 DEF Products
    <3> QED BY <3>1, ResultTypes DEF Fits
  <2>7. CASE rhs.ok /\ ~(op = "/" /\ NearZero(rhs.v))
    <3>1. Products(s, R, p0, v) = R[<<"products", rhs.pos, w>>]
      BY <1>6, <2>7 DEF Products
    <3>2. w \in Fractions
      <4> HIDE DEF op, rhs
      <4>1. CASE op = "/"
        BY <2>3, <2>7, <4>1, NotNearZero, OverType
      <4>2. CASE op # "/"
        BY <2>3, <4>2, TimesType
      <4> QED BY <4>1, <4>2
    <3>3. rhs.pos \in (next + 1)..(Len(s) + 1)
      BY <1>4, <2>2, <2>7 DEF Fits
    <3>4. rhs.pos \in Positions(s)
      BY <1>1, <2>4, <3>3 DEF Positions
    <3> DEFINE r == R[<<"products", rhs.pos, w>>]
    <3>5. r \in Results /\ Fits(s, "products", rhs.pos, r)
      BY <1>4, <3>2, <3>4, ParserGives
    <3>6. Fits(s, "products", p0, r)
      <4> SUFFICES ASSUME r.ok PROVE r.pos \in (p0 + 0)..(Len(s) + 1)
        BY <1>4 DEF Fits
      <4>1. r.pos \in (rhs.pos + 0)..(Len(s) + 1)
        BY <1>4, <3>5 DEF Fits
      <4> HIDE DEF r, rhs, next
      <4> QED BY <1>1, <2>1, <2>3, <2>4, <3>3, <4>1
    <3> QED BY <3>1, <3>5, <3>6
  <2> QED BY <2>3, <2>5, <2>6, <2>7
<1> QED BY <1>5, <1>6

LEMMA SumsGives ==
  ASSUME NEW V, NEW s \in Seq(V), NEW R \in Parsers(s), NEW p0 \in Positions(s),
         NEW v \in Fractions
  PROVE  Sums(s, R, p0, v) \in Results /\ Fits(s, "sums", p0, Sums(s, R, p0, v))
<1> DEFINE p == Skip(s, p0)
           rhs == R[<<"term", p + 1, Zero>>]
           minus == CharAt(s, p) = "-"
           w == Plus(v, Signed(minus, rhs).v)
<1>1. Len(s) \in Nat /\ p0 \in Nat
  BY PositionTypes
<1>2. p \in Positions(s) /\ p0 <= p
  BY SkipPlace
<1>3. p \in Nat /\ p <= Len(s) + 1
  BY <1>2, PositionTypes
<1>4. Takes("sums") = 0 /\ Takes("term") = 1 /\ "term" \in Rules /\ "sums" \in Rules
  BY DEF Takes, Rules
<1>5. CASE CharAt(s, p) \notin {"+", "-"}
  <2>1. Sums(s, R, p0, v) = Some(v, p)
    BY <1>5 DEF Sums
  <2> HIDE DEF p
  <2>2. p \in (p0 + 0)..(Len(s) + 1)
    BY <1>1, <1>2, <1>3
  <2> QED BY <1>3, <1>4, <2>1, <2>2, SomeType DEF Fits
<1>6. CASE CharAt(s, p) \in {"+", "-"}
  <2>1. p + 1 \in Positions(s)
    BY <1>2, <1>6, CharInside
  <2>2. rhs \in Results /\ Fits(s, "term", p + 1, rhs)
    BY <1>4, <2>1, ParserGives, ZeroType
  <2>3. rhs.ok \in BOOLEAN /\ rhs.pos \in Nat
    BY <2>2, ResultFields
  <2>4. CASE ~rhs.ok
    <3>1. Sums(s, R, p0, v) = rhs
      BY <1>6, <2>4 DEF Sums
    <3> QED BY <2>2, <2>4, <3>1 DEF Fits
  <2>5. CASE rhs.ok
    <3>1. Sums(s, R, p0, v) = R[<<"sums", rhs.pos, w>>]
      BY <1>6, <2>5 DEF Sums
    <3>2. minus \in BOOLEAN
      OBVIOUS
    <3>3. w \in Fractions
      <4>1. Signed(minus, rhs).v \in Fractions
        BY <2>2, <3>2, SignedType, ResultFields
      <4> QED BY <4>1, PlusType
    <3>4. rhs.pos \in ((p + 1) + 1)..(Len(s) + 1)
      BY <1>4, <2>2, <2>5 DEF Fits
    <3>5. rhs.pos \in Positions(s)
      BY <1>1, <1>3, <3>4 DEF Positions
    <3> DEFINE r == R[<<"sums", rhs.pos, w>>]
    <3>6. r \in Results /\ Fits(s, "sums", rhs.pos, r)
      BY <1>4, <3>3, <3>5, ParserGives
    <3>7. Fits(s, "sums", p0, r)
      <4> SUFFICES ASSUME r.ok PROVE r.pos \in (p0 + 0)..(Len(s) + 1)
        BY <1>4 DEF Fits
      <4>1. r.pos \in (rhs.pos + 0)..(Len(s) + 1)
        BY <1>4, <3>6 DEF Fits
      <4> HIDE DEF r, rhs, p
      <4> QED BY <1>1, <1>2, <1>3, <2>3, <3>4, <4>1
    <3> QED BY <3>1, <3>6, <3>7
  <2> QED BY <2>3, <2>4, <2>5
<1> QED BY <1>5, <1>6

LEMMA ThenGives ==
  ASSUME NEW V, NEW s \in Seq(V), NEW R \in Parsers(s), NEW p \in Positions(s),
         NEW loop \in {"products", "sums"}, NEW first \in Results,
         first.ok => first.pos \in (p + 1)..(Len(s) + 1)
  PROVE  /\ Then(R, first, loop) \in Results
         /\ Then(R, first, loop).ok => Then(R, first, loop).pos \in (p + 1)..(Len(s) + 1)
<1>1. Len(s) \in Nat /\ p \in Nat
  BY PositionTypes
<1>2. first.ok \in BOOLEAN /\ first.v \in Fractions /\ first.pos \in Nat
  BY ResultFields
<1>3. CASE ~first.ok
  BY <1>3 DEF Then
<1>4. CASE first.ok
  <2> DEFINE r == R[<<loop, first.pos, first.v>>]
  <2>1. Then(R, first, loop) = r
    BY <1>4 DEF Then
  <2>2. first.pos \in Positions(s)
    BY <1>1, <1>4 DEF Positions
  <2>3. loop \in Rules /\ Takes(loop) = 0
    BY DEF Rules, Takes
  <2>4. r \in Results /\ Fits(s, loop, first.pos, r)
    BY <1>2, <2>2, <2>3, ParserGives
  <2>5. r.ok => r.pos \in (first.pos + 0)..(Len(s) + 1)
    BY <2>3, <2>4 DEF Fits
  <2> HIDE DEF r
  <2>6. r.ok => r.pos \in (p + 1)..(Len(s) + 1)
    BY <1>1, <1>2, <1>4, <2>5
  <2> QED BY <2>1, <2>4, <2>6
<1> QED BY <1>2, <1>3, <1>4

LEMMA RuleIs ==
  ASSUME NEW s, NEW R, NEW p, NEW v
  PROVE  /\ Rule(s, R, "factor", p, v) = Factor(s, R, p)
         /\ Rule(s, R, "products", p, v) = Products(s, R, p, v)
         /\ Rule(s, R, "sums", p, v) = Sums(s, R, p, v)
         /\ Rule(s, R, "term", p, v) = Then(R, R[<<"factor", p, Zero>>], "products")
         /\ Rule(s, R, "expression", p, v) = Then(R, R[<<"term", p, Zero>>], "sums")
BY DEF Rule

\* A rule gives a result that fits, when the calls it makes do.
LEMMA RuleGives ==
  ASSUME NEW V, NEW s \in Seq(V), NEW R \in Parsers(s), NEW rule \in Rules,
         NEW p \in Positions(s), NEW v \in Fractions
  PROVE  Rule(s, R, rule, p, v) \in Results /\ Fits(s, rule, p, Rule(s, R, rule, p, v))
<1>0. /\ Rule(s, R, "factor", p, v) = Factor(s, R, p)
      /\ Rule(s, R, "products", p, v) = Products(s, R, p, v)
      /\ Rule(s, R, "sums", p, v) = Sums(s, R, p, v)
      /\ Rule(s, R, "term", p, v) = Then(R, R[<<"factor", p, Zero>>], "products")
      /\ Rule(s, R, "expression", p, v) = Then(R, R[<<"term", p, Zero>>], "sums")
  BY DEF Rule
<1>1. CASE rule = "factor"
  <2>1. Rule(s, R, rule, p, v) = Factor(s, R, p)
    BY <1>1, <1>0
  <2>2. Factor(s, R, p) \in Results /\ Fits(s, "factor", p, Factor(s, R, p))
    BY FactorGives
  <2> QED BY <1>1, <2>1, <2>2
<1>2. CASE rule = "products"
  <2>1. Rule(s, R, rule, p, v) = Products(s, R, p, v)
    BY <1>2, <1>0
  <2>2. Products(s, R, p, v) \in Results /\ Fits(s, "products", p, Products(s, R, p, v))
    BY ProductsGives
  <2> QED BY <1>2, <2>1, <2>2
<1>3. CASE rule = "sums"
  <2>1. Rule(s, R, rule, p, v) = Sums(s, R, p, v)
    BY <1>3, <1>0
  <2>2. Sums(s, R, p, v) \in Results /\ Fits(s, "sums", p, Sums(s, R, p, v))
    BY SumsGives
  <2> QED BY <1>3, <2>1, <2>2
<1>4. ASSUME NEW part \in {"factor", "term"}, NEW loop \in {"products", "sums"}
      PROVE  /\ Then(R, R[<<part, p, Zero>>], loop) \in Results
             /\ Then(R, R[<<part, p, Zero>>], loop).ok =>
                  Then(R, R[<<part, p, Zero>>], loop).pos \in (p + 1)..(Len(s) + 1)
  <2> DEFINE first == R[<<part, p, Zero>>]
  <2>1. part \in Rules /\ Takes(part) = 1
    BY DEF Rules, Takes
  <2>2. first \in Results /\ Fits(s, part, p, first)
    BY <2>1, ParserGives, ZeroType
  <2>3. first.ok => first.pos \in (p + 1)..(Len(s) + 1)
    BY <2>1, <2>2 DEF Fits
  <2> HIDE DEF first
  <2>4. /\ Then(R, first, loop) \in Results
        /\ Then(R, first, loop).ok => Then(R, first, loop).pos \in (p + 1)..(Len(s) + 1)
    BY <2>2, <2>3, ThenGives
  <2> QED BY <2>4 DEF first
<1>5. Takes("term") = 1 /\ Takes("expression") = 1
  BY DEF Takes
<1>6. CASE rule = "term"
  <2> DEFINE r == Then(R, R[<<"factor", p, Zero>>], "products")
  <2>1. Rule(s, R, rule, p, v) = r
    BY <1>6, <1>0
  <2>2. r \in Results /\ (r.ok => r.pos \in (p + 1)..(Len(s) + 1))
    BY <1>4
  <2> HIDE DEF r
  <2>3. Fits(s, rule, p, r)
    BY <1>5, <1>6, <2>2 DEF Fits
  <2> QED BY <2>1, <2>2, <2>3
<1>7. CASE rule = "expression"
  <2> DEFINE r == Then(R, R[<<"term", p, Zero>>], "sums")
  <2>1. Rule(s, R, rule, p, v) = r
    BY <1>7, <1>0
  <2>2. r \in Results /\ (r.ok => r.pos \in (p + 1)..(Len(s) + 1))
    BY <1>4
  <2> HIDE DEF r
  <2>3. Fits(s, rule, p, r)
    BY <1>5, <1>7, <2>2 DEF Fits
  <2> QED BY <2>1, <2>2, <2>3
<1> QED BY <1>1, <1>2, <1>3, <1>6, <1>7 DEF Rules

-----------------------------------------------------------------------------
(* The recursion of the parser is well-founded *)

MoreFactors(s, p) == CharAt(s, Skip(s, p)) \in {"*", "/"} \/ StartsFactor(CharAt(s, Skip(s, p)))
NextFactor(s, p) ==
  IF CharAt(s, Skip(s, p)) \in {"*", "/"} THEN Skip(s, p) + 1 ELSE Skip(s, p)
ByZero(s, p, w) == CharAt(s, Skip(s, p)) = "/" /\ NearZero(w)
Multiplied(s, p, v, w) == IF CharAt(s, Skip(s, p)) = "/" THEN Over(v, w) ELSE Times(v, w)

LEMMA ProductsEnd ==
  ASSUME NEW s, NEW R, NEW p, NEW v, ~MoreFactors(s, p)
  PROVE  Products(s, R, p, v) = Some(v, Skip(s, p))
BY DEF Products, MoreFactors

LEMMA ProductsStep ==
  ASSUME NEW s, NEW R, NEW p, NEW v, NEW rhs, MoreFactors(s, p),
         rhs = R[<<"factor", NextFactor(s, p), Zero>>]
  PROVE  Products(s, R, p, v) =
           IF ~rhs.ok THEN rhs
           ELSE IF ByZero(s, p, rhs.v) THEN None("DivideByZero")
           ELSE R[<<"products", rhs.pos, Multiplied(s, p, v, rhs.v)>>]
BY DEF Products, MoreFactors, NextFactor, ByZero, Multiplied

LEMMA MultipliedType ==
  ASSUME NEW s, NEW p, NEW v \in Fractions, NEW w \in Fractions, ~ByZero(s, p, w)
  PROVE  Multiplied(s, p, v, w) \in Fractions
<1>1. CASE CharAt(s, Skip(s, p)) = "/"
  <2>1. w.n # 0
    BY <1>1, NotNearZero DEF ByZero
  <2> QED BY <1>1, <2>1, OverType DEF Multiplied
<1>2. CASE CharAt(s, Skip(s, p)) # "/"
  BY <1>2, TimesType DEF Multiplied
<1> QED BY <1>1, <1>2

\* Where the next factor of a product is, and what it gives.
LEMMA NextFactorGives ==
  ASSUME NEW V, NEW s \in Seq(V), NEW R \in Parsers(s), NEW p \in Positions(s), NEW rhs,
         MoreFactors(s, p), rhs = R[<<"factor", NextFactor(s, p), Zero>>]
  PROVE  /\ NextFactor(s, p) \in Positions(s) /\ p <= NextFactor(s, p)
         /\ rhs \in Results
         /\ rhs.ok => rhs.pos \in Positions(s) /\ p < rhs.pos /\ NextFactor(s, p) < rhs.pos
<1> DEFINE q == Skip(s, p)
           next == NextFactor(s, p)
<1>1. Len(s) \in Nat /\ p \in Nat
  BY PositionTypes
<1>2. q \in Positions(s) /\ p <= q
  BY SkipPlace
<1>3. q \in Nat
  BY <1>2, PositionTypes
<1>4. next \in Positions(s) /\ p <= next
  <2>1. CASE CharAt(s, q) \in {"*", "/"}
    <3>1. q + 1 \in Positions(s)
      BY <1>2, <2>1, CharInside
    <3>2. next = q + 1
      BY <2>1 DEF NextFactor
    <3> HIDE DEF q, next
    <3>3. p <= q + 1
      BY <1>1, <1>2, <1>3
    <3> QED BY <3>1, <3>2, <3>3
  <2>2. CASE CharAt(s, q) \notin {"*", "/"}
    BY <1>2, <2>2 DEF NextFactor
  <2> QED BY <2>1, <2>2
<1>5. "factor" \in Rules /\ Takes("factor") = 1
  BY DEF Rules, Takes
<1>6. rhs \in Results /\ Fits(s, "factor", next, rhs)
  BY <1>4, <1>5, ParserGives, ZeroType
<1>7. rhs.ok => rhs.pos \in (next + 1)..(Len(s) + 1)
  BY <1>5, <1>6 DEF Fits
<1>8. rhs.pos \in Nat /\ next \in Nat
  BY <1>4, <1>6, ResultFields, PositionTypes
<1> HIDE DEF next
<1>9. ASSUME rhs.ok PROVE rhs.pos \in 1..(Len(s) + 1) /\ p < rhs.pos /\ next < rhs.pos
  <2>1. rhs.pos \in (next + 1)..(Len(s) + 1)
    BY <1>7, <1>9
  <2> DEFINE e == rhs.pos
  <2>2. e \in (next + 1)..(Len(s) + 1) /\ e \in Nat
    BY <1>8, <2>1
  <2> HIDE DEF e
  <2>3. e \in 1..(Len(s) + 1) /\ p < e /\ next < e
    BY <1>1, <1>4, <1>8, <2>2
  <2> QED BY <2>3 DEF e
<1> QED BY <1>4, <1>6, <1>9 DEF next, Positions

Level(rule) == IF rule = "factor" THEN 0 ELSE IF rule = "expression" THEN 2 ELSE 1

\* Two parsers that agree on what comes after p, and at p on the rules below.
Agree(s, f, g, rule, p) ==
  \A r \in Rules, q \in Positions(s), v \in Fractions :
    (p < q \/ (p = q /\ Level(r) < Level(rule))) => f[<<r, q, v>>] = g[<<r, q, v>>]

LEMMA AgreeAfter ==
  ASSUME NEW s, NEW f, NEW g, NEW rule, NEW p, Agree(s, f, g, rule, p),
         NEW r \in Rules, NEW q \in Positions(s), NEW v \in Fractions, p < q
  PROVE  f[<<r, q, v>>] = g[<<r, q, v>>]
BY Zenon DEF Agree

LEMMA AgreeBelow ==
  ASSUME NEW s, NEW f, NEW g, NEW rule, NEW p \in Positions(s), Agree(s, f, g, rule, p),
         NEW r \in Rules, NEW v \in Fractions, Level(r) < Level(rule)
  PROVE  f[<<r, p, v>>] = g[<<r, p, v>>]
BY Zenon DEF Agree

LEMMA FactorContracts ==
  ASSUME NEW V, NEW s \in Seq(V), NEW f \in Parsers(s), NEW g,
         NEW p \in Positions(s), Agree(s, f, g, "factor", p)
  PROVE  Factor(s, f, p) = Factor(s, g, p)
<1> DEFINE q == Operand(s, p)
<1>1. q \in Positions(s) /\ p <= q
  BY OperandPlace
<1>2. ASSUME CharAt(s, q) = LeftParen
      PROVE  f[<<"expression", q + 1, Zero>>] = g[<<"expression", q + 1, Zero>>]
  <2>1. q + 1 \in Positions(s)
    BY <1>1, <1>2, CharInside, Marks
  <2>2. p \in Nat /\ q \in Nat
    BY <1>1, PositionTypes
  <2>3. p < q + 1
    <3> HIDE DEF q
    <3> QED BY <1>1, <2>2
  <2>4. "expression" \in Rules
    BY DEF Rules
  <2> HIDE DEF q
  <2> QED BY <2>1, <2>3, <2>4, ZeroType, AgreeAfter
<1>3. Unsigned(s, f, q) = Unsigned(s, g, q)
  <2> HIDE DEF q
  <2> QED BY <1>2 DEF Unsigned
<1> QED BY <1>3, FactorIs

LEMMA ProductsContracts ==
  ASSUME NEW V, NEW s \in Seq(V), NEW f \in Parsers(s), NEW g,
         NEW p \in Positions(s), NEW v \in Fractions, Agree(s, f, g, "products", p)
  PROVE  Products(s, f, p, v) = Products(s, g, p, v)
<1>1. CASE ~MoreFactors(s, p)
  BY <1>1, ProductsEnd
<1>2. CASE MoreFactors(s, p)
  <2> DEFINE next == NextFactor(s, p)
             rhs == f[<<"factor", next, Zero>>]
             w == Multiplied(s, p, v, rhs.v)
  <2>1. /\ next \in Positions(s) /\ p <= next /\ rhs \in Results
        /\ rhs.ok => rhs.pos \in Positions(s) /\ p < rhs.pos
    BY <1>2, NextFactorGives
  <2>2. p \in Nat /\ next \in Nat
    BY <2>1, PositionTypes
  <2>3. Level("factor") < Level("products") /\ "factor" \in Rules /\ "products" \in Rules
    BY DEF Level, Rules
  <2>4. p < next \/ p = next
    <3> HIDE DEF next
    <3> QED BY <2>1, <2>2
  <2>5. rhs = g[<<"factor", next, Zero>>]
    <3> HIDE DEF next
    <3> QED BY <2>1, <2>3, <2>4, ZeroType, AgreeAfter, AgreeBelow
  <2>6. rhs.v \in Fractions /\ rhs.ok \in BOOLEAN
    BY <2>1, ResultFields
  <2>7. ASSUME rhs.ok, ~ByZero(s, p, rhs.v)
        PROVE  f[<<"products", rhs.pos, w>>] = g[<<"products", rhs.pos, w>>]
    <3>1. w \in Fractions
      BY <2>6, <2>7, MultipliedType
    <3> HIDE DEF w, rhs
    <3> QED BY <2>1, <2>3, <2>7, <3>1, AgreeAfter
  <2>8. Products(s, f, p, v) =
           IF ~rhs.ok THEN rhs
           ELSE IF ByZero(s, p, rhs.v) THEN None("DivideByZero") ELSE f[<<"products", rhs.pos, w>>]
    BY <1>2, ProductsStep
  <2>9. Products(s, g, p, v) =
           IF ~rhs.ok THEN rhs
           ELSE IF ByZero(s, p, rhs.v) THEN None("DivideByZero") ELSE g[<<"products", rhs.pos, w>>]
    <3> HIDE DEF rhs
    <3> QED BY <1>2, <2>5, ProductsStep
  <2> HIDE DEF w, rhs
  <2> QED BY <2>7, <2>8, <2>9
<1> QED BY <1>1, <1>2

LEMMA SumsContracts ==
  ASSUME NEW V, NEW s \in Seq(V), NEW f \in Parsers(s), NEW g,
         NEW p0 \in Positions(s), NEW v \in Fractions, Agree(s, f, g, "sums", p0)
  PROVE  Sums(s, f, p0, v) = Sums(s, g, p0, v)
<1> DEFINE p == Skip(s, p0)
           minus == CharAt(s, p) = "-"
           rhs == f[<<"term", p + 1, Zero>>]
           w == Plus(v, Signed(minus, rhs).v)
<1>1. Len(s) \in Nat /\ p0 \in Nat
  BY PositionTypes
<1>2. p \in Positions(s) /\ p0 <= p
  BY SkipPlace
<1>3. p \in Nat
  BY <1>2, PositionTypes
<1>4. CASE CharAt(s, p) \notin {"+", "-"}
  BY <1>4 DEF Sums
<1>5. CASE CharAt(s, p) \in {"+", "-"}
  <2>1. p + 1 \in Positions(s)
    BY <1>2, <1>5, CharInside
  <2>2. p0 < p + 1
    <3> HIDE DEF p
    <3> QED BY <1>1, <1>2, <1>3
  <2>3. "term" \in Rules /\ "sums" \in Rules /\ Takes("term") = 1 /\ minus \in BOOLEAN
    BY DEF Rules, Takes
  <2>4. rhs = g[<<"term", p + 1, Zero>>]
    <3> HIDE DEF p
    <3> QED BY <2>1, <2>2, <2>3, ZeroType, AgreeAfter
  <2>5. rhs \in Results /\ Fits(s, "term", p + 1, rhs)
    BY <2>1, <2>3, ParserGives, ZeroType
  <2>6. rhs.ok \in BOOLEAN /\ rhs.pos \in Nat
    BY <2>5, ResultFields
  <2>7. ASSUME rhs.ok
        PROVE  f[<<"sums", rhs.pos, w>>] = g[<<"sums", rhs.pos, w>>]
    <3>1. rhs.pos \in ((p + 1) + 1)..(Len(s) + 1)
      BY <2>3, <2>5, <2>7 DEF Fits
    <3>2. rhs.pos \in Positions(s) /\ p0 < rhs.pos
      <4> DEFINE e == rhs.pos
      <4>1. e \in ((p + 1) + 1)..(Len(s) + 1) /\ e \in Nat
        BY <2>6, <3>1
      <4> HIDE DEF e, p
      <4>2. e \in 1..(Len(s) + 1) /\ p0 < e
        BY <1>1, <1>2, <1>3, <4>1
      <4> QED BY <4>2 DEF e, Positions
    <3>3. w \in Fractions
      BY <2>3, <2>5, SignedType, ResultFields, PlusType
    <3> HIDE DEF w, rhs
    <3> QED BY <2>3, <3>2, <3>3, AgreeAfter
  <2>8. Sums(s, f, p0, v) = IF ~rhs.ok THEN rhs ELSE f[<<"sums", rhs.pos, w>>]
    BY <1>5 DEF Sums
  <2>9. Sums(s, g, p0, v) = IF ~rhs.ok THEN rhs ELSE g[<<"sums", rhs.pos, w>>]
    BY <1>5, <2>4 DEF Sums
  <2> HIDE DEF w, rhs
  <2> QED BY <2>7, <2>8, <2>9
<1> QED BY <1>4, <1>5

LEMMA ThenContracts ==
  ASSUME NEW V, NEW s \in Seq(V), NEW f \in Parsers(s), NEW g,
         NEW p \in Positions(s), NEW rule \in Rules, NEW part \in Rules,
         NEW loop \in Rules, Takes(part) = 1,
         Level(part) < Level(rule), Agree(s, f, g, rule, p)
  PROVE  Then(f, f[<<part, p, Zero>>], loop) = Then(g, g[<<part, p, Zero>>], loop)
<1> DEFINE first == f[<<part, p, Zero>>]
<1>2. first = g[<<part, p, Zero>>]
  BY ZeroType, AgreeBelow
<1>3. first \in Results /\ Fits(s, part, p, first)
  BY ParserGives, ZeroType
<1>4. first.ok \in BOOLEAN /\ first.v \in Fractions /\ first.pos \in Nat
  BY <1>3, ResultFields
<1>5. Len(s) \in Nat /\ p \in Nat
  BY PositionTypes
<1>6. ASSUME first.ok
      PROVE  f[<<loop, first.pos, first.v>>] = g[<<loop, first.pos, first.v>>]
  <2> DEFINE e == first.pos
  <2>1. e \in (p + 1)..(Len(s) + 1) /\ e \in Nat
    BY <1>3, <1>4, <1>6 DEF Fits
  <2> HIDE DEF e
  <2>2. e \in 1..(Len(s) + 1) /\ p < e
    BY <1>5, <2>1
  <2>3. e \in Positions(s)
    BY <2>2 DEF Positions
  <2>4. f[<<loop, e, first.v>>] = g[<<loop, e, first.v>>]
    <3> HIDE DEF first
    <3> QED BY <1>4, <2>2, <2>3, AgreeAfter
  <2> QED BY <2>4 DEF e
<1> HIDE DEF first
<1>7. Then(f, first, loop) = Then(g, first, loop)
  BY <1>6 DEF Then
<1> QED BY <1>2, <1>7 DEF first

\* What a rule gives depends on lower calls only.
LEMMA RuleContracts ==
  ASSUME NEW V, NEW s \in Seq(V), NEW f \in Parsers(s), NEW g,
         NEW rule \in Rules, NEW p \in Positions(s), NEW v \in Fractions,
         Agree(s, f, g, rule, p)
  PROVE  Rule(s, f, rule, p, v) = Rule(s, g, rule, p, v)
<1>1. CASE rule = "factor"
  BY <1>1, FactorContracts DEF Rule
<1>2. CASE rule = "products"
  BY <1>2, ProductsContracts DEF Rule
<1>3. CASE rule = "sums"
  BY <1>3, SumsContracts DEF Rule
<1>4. CASE rule = "term"
  <2>1. Level("factor") < Level("term")
    BY DEF Level
  <2>2. Then(f, f[<<"factor", p, Zero>>], "products") = Then(g, g[<<"factor", p, Zero>>], "products")
    <3>1. Agree(s, f, g, "term", p)
      BY <1>4
    <3>2. "term" \in Rules /\ "factor" \in Rules /\ "products" \in Rules /\ Takes("factor") = 1
      BY DEF Rules, Takes
    <3> QED BY <2>1, <3>1, <3>2, ThenContracts
  <2> QED BY <1>4, <2>2 DEF Rule
<1>5. CASE rule = "expression"
  <2>1. Level("term") < Level("expression")
    BY DEF Level
  <2>2. Then(f, f[<<"term", p, Zero>>], "sums") = Then(g, g[<<"term", p, Zero>>], "sums")
    <3>1. Agree(s, f, g, "expression", p)
      BY <1>5
    <3>2. "expression" \in Rules /\ "term" \in Rules /\ "sums" \in Rules /\ Takes("term") = 1
      BY DEF Rules, Takes
    <3> QED BY <2>1, <3>1, <3>2, ThenContracts
  <2> QED BY <1>5, <2>2 DEF Rule
<1> QED BY <1>1, <1>2, <1>3, <1>4, <1>5 DEF Rules

\* What the parser is defined by.
Parses(s, f) == f = [x \in Calls(s) |-> Rule(s, f, x[1], x[2], x[3])]

LEMMA CallParts ==
  ASSUME NEW s, NEW x \in Calls(s)
  PROVE  /\ x[1] \in Rules /\ x[2] \in Positions(s) /\ x[3] \in Fractions
         /\ x = <<x[1], x[2], x[3]>>
BY DEF Calls

CallRank(s) == [x \in Calls(s) |-> 3 * (Len(s) + 1 - x[2]) + Level(x[1])]

LEMMA CallRankLower ==
  ASSUME NEW V, NEW s \in Seq(V)
  PROVE  /\ 3 * Len(s) + 2 \in Nat /\ CallRank(s) \in [Calls(s) -> 0..(3 * Len(s) + 2)]
         /\ \A x \in Calls(s), r \in Rules, q \in Positions(s), v \in Fractions :
              (x[2] < q \/ (x[2] = q /\ Level(r) < Level(x[1]))) =>
                CallRank(s)[<<r, q, v>>] < CallRank(s)[x]
<1> DEFINE L == Len(s)
           D == Calls(s)
           rank == CallRank(s)
           N == 3 * L + 2
<1>1. L \in Nat /\ N \in Nat
  OBVIOUS
<1>2. \A r \in Rules : Level(r) \in 0..2
  BY DEF Level
<1>3. ASSUME NEW x \in D
      PROVE  x[2] \in 1..(L + 1) /\ rank[x] = 3 * (L + 1 - x[2]) + Level(x[1]) /\ rank[x] \in 0..N
  <2>1. x[2] \in 1..(L + 1) /\ Level(x[1]) \in 0..2
    BY <1>2, CallParts DEF Positions
  <2>2. rank[x] = 3 * (L + 1 - x[2]) + Level(x[1])
    BY DEF CallRank
  <2> HIDE DEF rank, L
  <2>3. rank[x] \in 0..N
    BY <1>1, <2>1, <2>2
  <2> QED BY <2>1, <2>2, <2>3
<1>4. rank \in [D -> 0..N]
  <2>1. rank = [x \in D |-> rank[x]]
    BY DEF CallRank
  <2> HIDE DEF rank, N
  <2> QED BY <1>3, <2>1
<1>5. ASSUME NEW x \in D, NEW r \in Rules, NEW q \in Positions(s), NEW v \in Fractions,
             x[2] < q \/ (x[2] = q /\ Level(r) < Level(x[1]))
      PROVE  rank[<<r, q, v>>] < rank[x]
  <2> DEFINE y == <<r, q, v>>
  <2>1. y \in D /\ y[1] = r /\ y[2] = q
    BY DEF Calls
  <2>2. Level(x[1]) \in 0..2 /\ Level(r) \in 0..2
    BY <1>2, CallParts
  <2>3. q \in 1..(L + 1) /\ rank[y] = 3 * (L + 1 - q) + Level(r)
    <3> HIDE DEF y, rank
    <3> QED BY <1>3, <2>1
  <2> HIDE DEF y, rank, L
  <2>4. rank[y] < rank[x]
    <3> DEFINE i == x[2]
               a == Level(x[1])
               b == Level(r)
    <3>1. i \in 1..(L + 1) /\ rank[x] = 3 * (L + 1 - i) + a
      BY <1>3
    <3>2. rank[y] = 3 * (L + 1 - q) + b /\ q \in 1..(L + 1) /\ a \in 0..2 /\ b \in 0..2
      BY <2>2, <2>3
    <3>3. i < q \/ (i = q /\ b < a)
      BY <1>5
    <3> HIDE DEF i, a, b
    <3> QED BY <1>1, <3>1, <3>2, <3>3
  <2> QED BY <2>4 DEF y
<1> QED BY <1>1, <1>4, <1>5

\* Parsers that agree at all lower calls agree at this one; only one must be typed.
LEMMA CallContracts ==
  ASSUME NEW V, NEW s \in Seq(V), NEW f \in Parsers(s), NEW g, NEW x \in Calls(s),
         \A y \in Calls(s) : CallRank(s)[y] < CallRank(s)[x] => f[y] = g[y]
  PROVE  Rule(s, f, x[1], x[2], x[3]) = Rule(s, g, x[1], x[2], x[3])
<1>1. x[1] \in Rules /\ x[2] \in Positions(s) /\ x[3] \in Fractions
  BY CallParts
<1>2. ASSUME NEW r \in Rules, NEW q \in Positions(s), NEW v \in Fractions,
             x[2] < q \/ (x[2] = q /\ Level(r) < Level(x[1]))
      PROVE  f[<<r, q, v>>] = g[<<r, q, v>>]
  <2> DEFINE y == <<r, q, v>>
  <2>1. y \in Calls(s)
    BY DEF Calls
  <2>2. CallRank(s)[y] < CallRank(s)[x]
    BY <1>2, CallRankLower
  <2> HIDE DEF y
  <2>3. f[y] = g[y]
    BY <2>1, <2>2
  <2> QED BY <2>3 DEF y
<1>3. Agree(s, f, g, x[1], x[2])
  BY <1>2 DEF Agree
<1> QED BY <1>1, <1>3, RuleContracts

LEMMA ParsesExists ==
  ASSUME NEW V, NEW s \in Seq(V)
  PROVE  \E f \in Parsers(s) : Parses(s, f)
<1> DEFINE D == Calls(s)
           C == Parsers(s)
           body(f) == [x \in D |-> Rule(s, f, x[1], x[2], x[3])]
           step == [f \in C |-> body(f)]
           rank == CallRank(s)
           N == 3 * Len(s) + 2
           c == [x \in D |-> Invalid]
<1>1. ASSUME NEW f \in C PROVE body(f) \in C
  <2>1. ASSUME NEW x \in D
        PROVE  body(f)[x] \in Results /\ Fits(s, x[1], x[2], body(f)[x])
    BY <2>1, CallParts, RuleGives
  <2>2. body(f) \in [D -> Results]
    BY <2>1
  <2> HIDE DEF body
  <2> QED BY <2>1, <2>2 DEF Parsers
<1>2. step \in [C -> C]
  BY <1>1
<1>3. c \in C
  <2>1. \A x \in D : Fits(s, x[1], x[2], c[x])
    BY ResultTypes DEF Fits
  <2>2. c \in [D -> Results]
    BY ResultTypes
  <2> HIDE DEF c
  <2> QED BY <2>1, <2>2 DEF Parsers
<1>4. N \in Nat /\ rank \in [D -> 0..N]
  BY CallRankLower
<1>5. \A f \in C : step[f] = body(f)
  <2> HIDE DEF body
  <2> QED OBVIOUS
<1>6. ASSUME NEW f \in C, NEW g \in C, NEW x \in D,
             \A y \in D : rank[y] < rank[x] => f[y] = g[y]
      PROVE  step[f][x] = step[g][x]
  <2>1. Rule(s, f, x[1], x[2], x[3]) = Rule(s, g, x[1], x[2], x[3])
    BY <1>6, CallContracts
  <2>2. body(f)[x] = body(g)[x]
    BY <2>1
  <2> QED BY <1>5, <2>2
<1>7. C \in SUBSET [D -> Results]
  BY DEF Parsers
<1> HIDE DEF step, rank, N, c, C, D
<1>8. Recursive(D, Results, C, c, step, N, rank)
  BY <1>2, <1>3, <1>4, <1>6, <1>7 DEF Recursive
<1>9. PICK f \in C : step[f] = f
  BY <1>8, FixedPoint
<1>10. f = body(f)
  BY <1>5, <1>9
<1> QED BY <1>9, <1>10 DEF Parses, C, D

\* Parser(s) has a value for every call, and it is the one its rules give.
LEMMA ParserFixed ==
  ASSUME NEW V, NEW s \in Seq(V)
  PROVE  /\ Parser(s) \in Parsers(s)
         /\ \A rule \in Rules, p \in Positions(s), v \in Fractions :
              Parser(s)[<<rule, p, v>>] = Rule(s, Parser(s), rule, p, v)
<1> DEFINE g == Parser(s)
           D == Calls(s)
           rank == CallRank(s)
           N == 3 * Len(s) + 2
<1>1. g = CHOOSE f : Parses(s, f)
  BY Zenon DEF Parser, Parses, Calls
<1>2. Parses(s, g)
  BY <1>1, ParsesExists, Zenon
<1>3. PICK f \in Parsers(s) : Parses(s, f)
  BY ParsesExists
<1>4. N \in Nat /\ rank \in [D -> 0..N]
  BY CallRankLower
<1> HIDE DEF g
<1>5. ASSUME NEW x \in D, \A y \in D : rank[y] < rank[x] => f[y] = g[y]
      PROVE  f[x] = g[x]
  <2>1. Rule(s, f, x[1], x[2], x[3]) = Rule(s, g, x[1], x[2], x[3])
    BY <1>5, CallContracts
  <2>2. f[x] = Rule(s, f, x[1], x[2], x[3])
    BY <1>3 DEF Parses
  <2>3. g[x] = Rule(s, g, x[1], x[2], x[3])
    BY <1>2 DEF Parses
  <2> QED BY <2>1, <2>2, <2>3
<1>6. \A x \in D : f[x] = g[x]
  <2> HIDE DEF D, rank, N
  <2>1. AgreeUpward(D, N, rank, f, g)
    BY <1>4, <1>5 DEF AgreeUpward
  <2> QED BY <2>1, SameAlong
<1>7. f = g
  <2>1. f = [x \in D |-> f[x]]
    BY DEF Parsers
  <2>2. g = [x \in D |-> g[x]]
    BY <1>2 DEF Parses
  <2> HIDE DEF D
  <2> QED BY <1>6, <2>1, <2>2
<1>8. ASSUME NEW rule \in Rules, NEW p \in Positions(s), NEW v \in Fractions
      PROVE  g[<<rule, p, v>>] = Rule(s, g, rule, p, v)
  <2>1. <<rule, p, v>> \in Calls(s)
    BY DEF Calls
  <2> QED BY <1>2, <2>1 DEF Parses
<1> QED BY <1>3, <1>7, <1>8 DEF g

-----------------------------------------------------------------------------
(* What a part of a line can mean *)

Spans(s) == {"expr", "term"} \X Positions(s) \X (0..Len(s))

LEMMA InUnsigned ==
  ASSUME NEW s, NEW M, NEW k, NEW j, NEW v
  PROVE  v \in UnsignedValues(s, M, k, j) <=>
           /\ ~(k > j)
           /\ IF NumberText(SubSeq(s, k, j)) THEN v = NumberOf(SubSeq(s, k, j)) /\ InRange(v)
              ELSE s[k] = LeftParen /\ s[j] = RightParen /\ v \in M[<<"expr", k + 1, j - 1>>]
BY DEF UnsignedValues

LEMMA InFactor ==
  ASSUME NEW s, NEW M, NEW i, NEW j, NEW v
  PROVE  v \in FactorValues(s, M, i, j) <=>
           /\ ~(i > j)
           /\ \/ s[i] = "-" /\ \E u \in UnsignedValues(s, M, i + 1, j) : v = Minus(u)
              \/ s[i] = "+" /\ v \in UnsignedValues(s, M, i + 1, j)
              \/ s[i] \notin {"+", "-"} /\ v \in UnsignedValues(s, M, i, j)
<1>1. CASE s[i] = "-"
  BY <1>1 DEF FactorValues
<1>2. CASE s[i] = "+"
  BY <1>2 DEF FactorValues
<1>3. CASE s[i] \notin {"+", "-"}
  BY <1>3 DEF FactorValues
<1> QED BY <1>1, <1>2, <1>3

LEMMA InProduct ==
  ASSUME NEW s, NEW M, NEW i, NEW k, NEW next, NEW j, NEW v
  PROVE  v \in ProductValues(s, M, i, k, next, j) <=>
           \E a \in M[<<"term", i, k - 1>>], b \in FactorValues(s, M, next, j) : v = Times(a, b)
BY DEF ProductValues

LEMMA InQuotient ==
  ASSUME NEW s, NEW M, NEW i, NEW k, NEW j, NEW v
  PROVE  v \in QuotientValues(s, M, i, k, j) <=>
           \E a \in M[<<"term", i, k - 1>>], b \in FactorValues(s, M, k + 1, j) :
             ~NearZero(b) /\ v = Over(a, b)
BY DEF QuotientValues

LEMMA InSum ==
  ASSUME NEW s, NEW M, NEW i, NEW k, NEW j, NEW v
  PROVE  v \in SumValues(s, M, i, k, j) <=>
           \E a \in M[<<"expr", i, k - 1>>], b \in M[<<"term", k + 1, j>>] :
             v = Plus(a, IF s[k] = "-" THEN Minus(b) ELSE b)
BY DEF SumValues

\* A factor may follow at k without a mark.
Follows(s, k) == StartsFactor(s[k]) /\ ~Continues(s, k)

LEMMA InTerm ==
  ASSUME NEW s, NEW M, NEW i, NEW j, NEW v
  PROVE  v \in TermValues(s, M, i, j) <=>
           \/ v \in FactorValues(s, M, i, j)
           \/ \E k \in i..j : s[k] = "*" /\ v \in ProductValues(s, M, i, k, k + 1, j)
           \/ \E k \in i..j : s[k] = "/" /\ v \in QuotientValues(s, M, i, k, j)
           \/ \E k \in (i + 1)..j : Follows(s, k) /\ v \in ProductValues(s, M, i, k, k, j)
<1> DEFINE A == UNION {ProductValues(s, M, i, k, k + 1, j) : k \in {h \in i..j : s[h] = "*"}}
           B == UNION {QuotientValues(s, M, i, k, j) : k \in {h \in i..j : s[h] = "/"}}
           C == UNION {ProductValues(s, M, i, k, k, j) :
                         k \in {h \in (i + 1)..j : StartsFactor(s[h]) /\ ~Continues(s, h)}}
<1>1. v \in A <=> \E k \in i..j : s[k] = "*" /\ v \in ProductValues(s, M, i, k, k + 1, j)
  OBVIOUS
<1>2. v \in B <=> \E k \in i..j : s[k] = "/" /\ v \in QuotientValues(s, M, i, k, j)
  OBVIOUS
<1>3. v \in C <=> \E k \in (i + 1)..j : Follows(s, k) /\ v \in ProductValues(s, M, i, k, k, j)
  BY DEF Follows
<1>4. TermValues(s, M, i, j) = ((FactorValues(s, M, i, j) \cup A) \cup B) \cup C
  BY DEF TermValues
<1> HIDE DEF A, B, C
<1> QED BY <1>1, <1>2, <1>3, <1>4

LEMMA InExpr ==
  ASSUME NEW s, NEW M, NEW i, NEW j, NEW v
  PROVE  v \in ExprValues(s, M, i, j) <=>
           \/ v \in M[<<"term", i, j>>]
           \/ \E k \in i..j : s[k] \in {"+", "-"} /\ v \in SumValues(s, M, i, k, j)
BY DEF ExprValues

\* Meanings that agree on shorter parts, and on this one as a term.
SpanAgree(s, f, g, kind, i, j) ==
  \A k \in {"expr", "term"}, a \in Positions(s), c \in 0..Len(s) :
    (c - a < j - i \/ (a = i /\ c = j /\ k = "term" /\ kind = "expr")) =>
      f[<<k, a, c>>] = g[<<k, a, c>>]

LEMMA SpanShorter ==
  ASSUME NEW s, NEW f, NEW g, NEW kind, NEW i, NEW j, SpanAgree(s, f, g, kind, i, j),
         NEW k \in {"expr", "term"}, NEW a \in Positions(s), NEW c \in 0..Len(s), c - a < j - i
  PROVE  f[<<k, a, c>>] = g[<<k, a, c>>]
BY Zenon DEF SpanAgree

LEMMA UnsignedSpans ==
  ASSUME NEW V, NEW s \in Seq(V), NEW f, NEW g, NEW kind,
         NEW i \in Positions(s), NEW j \in 0..Len(s), SpanAgree(s, f, g, kind, i, j),
         NEW k \in Int, i <= k
  PROVE  UnsignedValues(s, f, k, j) = UnsignedValues(s, g, k, j)
<1>1. Len(s) \in Nat /\ i \in Nat /\ 1 <= i /\ i <= Len(s) + 1 /\ j \in Nat /\ j <= Len(s)
  BY PositionTypes
<1>2. CASE k > j
  BY <1>2 DEF UnsignedValues
<1>3. CASE ~(k > j)
  <2>1. k + 1 \in Positions(s) /\ j - 1 \in 0..Len(s) /\ (j - 1) - (k + 1) < j - i
    BY <1>1, <1>3 DEF Positions
  <2> DEFINE a == k + 1
             c == j - 1
  <2>0. a \in Positions(s) /\ c \in 0..Len(s) /\ c - a < j - i
    BY <2>1
  <2> HIDE DEF a, c
  <2>2. f[<<"expr", a, c>>] = g[<<"expr", a, c>>]
    BY <2>0, SpanShorter
  <2> QED BY <2>2 DEF UnsignedValues, a, c
<1> QED BY <1>2, <1>3

LEMMA FactorSpans ==
  ASSUME NEW V, NEW s \in Seq(V), NEW f, NEW g, NEW kind,
         NEW i \in Positions(s), NEW j \in 0..Len(s), SpanAgree(s, f, g, kind, i, j),
         NEW k \in Int, i <= k
  PROVE  FactorValues(s, f, k, j) = FactorValues(s, g, k, j)
<1>1. i \in Int /\ k + 1 \in Int
  BY PositionTypes
<1>2. i <= k + 1
  BY <1>1
<1>3. /\ UnsignedValues(s, f, k, j) = UnsignedValues(s, g, k, j)
      /\ UnsignedValues(s, f, k + 1, j) = UnsignedValues(s, g, k + 1, j)
  BY <1>1, <1>2, UnsignedSpans
<1> QED BY <1>3 DEF FactorValues

LEMMA TermSpans ==
  ASSUME NEW V, NEW s \in Seq(V), NEW f, NEW g, NEW kind,
         NEW i \in Positions(s), NEW j \in 0..Len(s), SpanAgree(s, f, g, kind, i, j), i <= j
  PROVE  TermValues(s, f, i, j) = TermValues(s, g, i, j)
<1>1. Len(s) \in Nat /\ i \in Nat /\ 1 <= i /\ i <= Len(s) + 1 /\ j \in Nat /\ j <= Len(s)
  BY PositionTypes
<1>2. FactorValues(s, f, i, j) = FactorValues(s, g, i, j)
  BY <1>1, FactorSpans
<1>3. ASSUME NEW k \in i..j
      PROVE  /\ ProductValues(s, f, i, k, k + 1, j) = ProductValues(s, g, i, k, k + 1, j)
             /\ ProductValues(s, f, i, k, k, j) = ProductValues(s, g, i, k, k, j)
             /\ QuotientValues(s, f, i, k, j) = QuotientValues(s, g, i, k, j)
  <2>1. k \in Int /\ i <= k /\ k + 1 \in Int /\ i <= k + 1 /\ k - 1 \in 0..Len(s)
        /\ (k - 1) - i < j - i
    BY <1>1
  <2>2. f[<<"term", i, k - 1>>] = g[<<"term", i, k - 1>>]
    BY <2>1, SpanShorter
  <2>3. FactorValues(s, f, k, j) = FactorValues(s, g, k, j)
    BY <2>1, FactorSpans
  <2>4. FactorValues(s, f, k + 1, j) = FactorValues(s, g, k + 1, j)
    BY <2>1, FactorSpans
  <2> QED BY <2>2, <2>3, <2>4 DEF ProductValues, QuotientValues
<1>4. \A k \in (i + 1)..j : k \in i..j
  BY <1>1
<1>5. ASSUME NEW v PROVE v \in TermValues(s, f, i, j) <=> v \in TermValues(s, g, i, j)
  <2>1. v \in TermValues(s, f, i, j) <=>
           \/ v \in FactorValues(s, f, i, j)
           \/ \E k \in i..j : s[k] = "*" /\ v \in ProductValues(s, f, i, k, k + 1, j)
           \/ \E k \in i..j : s[k] = "/" /\ v \in QuotientValues(s, f, i, k, j)
           \/ \E k \in (i + 1)..j : Follows(s, k) /\ v \in ProductValues(s, f, i, k, k, j)
    BY InTerm
  <2>2. v \in TermValues(s, g, i, j) <=>
           \/ v \in FactorValues(s, g, i, j)
           \/ \E k \in i..j : s[k] = "*" /\ v \in ProductValues(s, g, i, k, k + 1, j)
           \/ \E k \in i..j : s[k] = "/" /\ v \in QuotientValues(s, g, i, k, j)
           \/ \E k \in (i + 1)..j : Follows(s, k) /\ v \in ProductValues(s, g, i, k, k, j)
    BY InTerm
  <2>3. (\E k \in i..j : s[k] = "*" /\ v \in ProductValues(s, f, i, k, k + 1, j))
        <=> (\E k \in i..j : s[k] = "*" /\ v \in ProductValues(s, g, i, k, k + 1, j))
    BY <1>3
  <2>4. (\E k \in i..j : s[k] = "/" /\ v \in QuotientValues(s, f, i, k, j))
        <=> (\E k \in i..j : s[k] = "/" /\ v \in QuotientValues(s, g, i, k, j))
    BY <1>3
  <2>5. (\E k \in (i + 1)..j : Follows(s, k) /\ v \in ProductValues(s, f, i, k, k, j))
        <=> (\E k \in (i + 1)..j : Follows(s, k) /\ v \in ProductValues(s, g, i, k, k, j))
    BY <1>3, <1>4
  <2> QED BY <1>2, <2>1, <2>2, <2>3, <2>4, <2>5
<1>6. /\ TermValues(s, f, i, j) \subseteq TermValues(s, g, i, j)
      /\ TermValues(s, g, i, j) \subseteq TermValues(s, f, i, j)
  BY <1>5
<1> QED BY <1>6

LEMMA ExprSpans ==
  ASSUME NEW V, NEW s \in Seq(V), NEW f, NEW g,
         NEW i \in Positions(s), NEW j \in 0..Len(s), SpanAgree(s, f, g, "expr", i, j), i <= j
  PROVE  ExprValues(s, f, i, j) = ExprValues(s, g, i, j)
<1>1. Len(s) \in Nat /\ i \in Nat /\ 1 <= i /\ i <= Len(s) + 1 /\ j \in Nat /\ j <= Len(s)
  BY PositionTypes
<1>2. f[<<"term", i, j>>] = g[<<"term", i, j>>]
  BY Zenon DEF SpanAgree
<1>3. ASSUME NEW k \in i..j
      PROVE  SumValues(s, f, i, k, j) = SumValues(s, g, i, k, j)
  <2>1. k + 1 \in Positions(s) /\ k - 1 \in 0..Len(s)
        /\ (k - 1) - i < j - i /\ j - (k + 1) < j - i
    BY <1>1 DEF Positions
  <2>2. f[<<"expr", i, k - 1>>] = g[<<"expr", i, k - 1>>]
    BY <2>1, SpanShorter
  <2>3. f[<<"term", k + 1, j>>] = g[<<"term", k + 1, j>>]
    BY <2>1, SpanShorter
  <2> QED BY <2>2, <2>3 DEF SumValues
<1>4. ASSUME NEW v PROVE v \in ExprValues(s, f, i, j) <=> v \in ExprValues(s, g, i, j)
  <2>1. v \in ExprValues(s, f, i, j) <=>
           \/ v \in f[<<"term", i, j>>]
           \/ \E k \in i..j : s[k] \in {"+", "-"} /\ v \in SumValues(s, f, i, k, j)
    BY InExpr
  <2>2. v \in ExprValues(s, g, i, j) <=>
           \/ v \in g[<<"term", i, j>>]
           \/ \E k \in i..j : s[k] \in {"+", "-"} /\ v \in SumValues(s, g, i, k, j)
    BY InExpr
  <2> QED BY <1>2, <1>3, <2>1, <2>2
<1>5. /\ ExprValues(s, f, i, j) \subseteq ExprValues(s, g, i, j)
      /\ ExprValues(s, g, i, j) \subseteq ExprValues(s, f, i, j)
  BY <1>4
<1> QED BY <1>5

\* What a part means depends on shorter parts only.
LEMMA ValuesSpans ==
  ASSUME NEW V, NEW s \in Seq(V), NEW f, NEW g, NEW kind \in {"expr", "term"},
         NEW i \in Positions(s), NEW j \in 0..Len(s), SpanAgree(s, f, g, kind, i, j)
  PROVE  Values(s, f, kind, i, j) = Values(s, g, kind, i, j)
<1>1. CASE i > j
  BY <1>1 DEF Values
<1>2. CASE ~(i > j)
  <2>1. i <= j
    BY <1>2, PositionTypes
  <2>2. CASE kind = "term"
    <3>1. TermValues(s, f, i, j) = TermValues(s, g, i, j)
      BY <2>1, TermSpans
    <3> QED BY <1>2, <2>2, <3>1 DEF Values
  <2>3. CASE kind = "expr"
    <3>1. SpanAgree(s, f, g, "expr", i, j)
      BY <2>3
    <3>2. ExprValues(s, f, i, j) = ExprValues(s, g, i, j)
      BY <2>1, <3>1, ExprSpans
    <3> QED BY <1>2, <2>3, <3>2 DEF Values
  <2> QED BY <2>2, <2>3
<1> QED BY <1>1, <1>2

-----------------------------------------------------------------------------
(* Meanings are values *)

\* The number from k to j, if it is one.
LEMMA NumberTextType ==
  ASSUME NEW V, NEW s \in Seq(V), NEW k \in 1..Len(s), NEW j \in k..Len(s),
         NumberText(SubSeq(s, k, j))
  PROVE  NumberOf(SubSeq(s, k, j)) \in Fractions
<1> DEFINE q == j + 1
           t == SubSeq(s, k, j)
<1>1. Len(s) \in Nat /\ k \in Nat /\ j \in Nat
  OBVIOUS
<1>2. k \in Positions(s) /\ q \in k..(Len(s) + 1) /\ q - 1 = j
  BY <1>1 DEF Positions
<1>3. SubSeq(s, k, q - 1) \in Seq(V)
  <2> HIDE DEF q
  <2> QED BY <1>2, SubLine
<1>4. t \in Seq(V)
  BY <1>2, <1>3
<1>5. \A i \in 1..Len(t) : InNumber(t[i])
  <2> HIDE DEF t
  <2>1. DOMAIN t = 1..Len(t)
    BY <1>4
  <2>2. NumberText(t)
    BY DEF t
  <2> QED BY <2>1, <2>2 DEF NumberText, InNumber
<1> HIDE DEF t
<1>6. NumberOf(t) \in Fractions
  BY <1>4, <1>5, NumberType
<1> QED BY <1>6 DEF t

SpanMeanings(s) == [Spans(s) -> SUBSET Fractions]

LEMMA SpanMeaning ==
  ASSUME NEW s, NEW f \in SpanMeanings(s), NEW kind \in {"expr", "term"},
         NEW i \in Positions(s), NEW j \in 0..Len(s)
  PROVE  f[<<kind, i, j>>] \in SUBSET Fractions
<1>1. <<kind, i, j>> \in Spans(s)
  BY DEF Spans
<1> QED BY <1>1 DEF SpanMeanings

LEMMA UnsignedValuesType ==
  ASSUME NEW V, NEW s \in Seq(V), NEW f \in SpanMeanings(s), NEW k \in Nat \ {0},
         NEW j \in 0..Len(s)
  PROVE  UnsignedValues(s, f, k, j) \subseteq Fractions
<1>1. CASE k > j
  BY <1>1 DEF UnsignedValues
<1>2. CASE ~(k > j)
  <2>1. k \in 1..Len(s) /\ j \in k..Len(s)
    BY <1>2
  <2>2. NumberText(SubSeq(s, k, j)) => NumberOf(SubSeq(s, k, j)) \in Fractions
    BY <2>1, NumberTextType
  <2> DEFINE a == k + 1
             c == j - 1
  <2>3. a \in Positions(s) /\ c \in 0..Len(s)
    BY <2>1 DEF Positions
  <2> HIDE DEF a, c
  <2>4. f[<<"expr", a, c>>] \in SUBSET Fractions
    BY <2>3, SpanMeaning
  <2> QED BY <2>2, <2>4 DEF UnsignedValues, a, c
<1> QED BY <1>1, <1>2

LEMMA FactorValuesType ==
  ASSUME NEW V, NEW s \in Seq(V), NEW f \in SpanMeanings(s), NEW k \in Nat \ {0},
         NEW j \in 0..Len(s)
  PROVE  FactorValues(s, f, k, j) \subseteq Fractions
<1>1. k + 1 \in Nat \ {0}
  OBVIOUS
<1>2. /\ UnsignedValues(s, f, k, j) \subseteq Fractions
      /\ UnsignedValues(s, f, k + 1, j) \subseteq Fractions
  BY <1>1, UnsignedValuesType
<1> QED BY <1>2, MinusType DEF FactorValues

LEMMA TermValuesType ==
  ASSUME NEW V, NEW s \in Seq(V), NEW f \in SpanMeanings(s), NEW i \in Positions(s),
         NEW j \in 0..Len(s)
  PROVE  TermValues(s, f, i, j) \subseteq Fractions
<1>1. Len(s) \in Nat /\ i \in Nat /\ 1 <= i /\ i <= Len(s) + 1 /\ j \in Nat /\ j <= Len(s)
  BY PositionTypes
<1>2. FactorValues(s, f, i, j) \subseteq Fractions
  BY <1>1, FactorValuesType
<1>3. ASSUME NEW k \in i..j
      PROVE  /\ f[<<"term", i, k - 1>>] \subseteq Fractions
             /\ FactorValues(s, f, k, j) \subseteq Fractions
             /\ FactorValues(s, f, k + 1, j) \subseteq Fractions
  <2> DEFINE c == k - 1
  <2>1. c \in 0..Len(s) /\ k \in Nat \ {0} /\ k + 1 \in Nat \ {0}
    BY <1>1
  <2> HIDE DEF c
  <2>2. f[<<"term", i, c>>] \in SUBSET Fractions
    BY <2>1, SpanMeaning
  <2>3. FactorValues(s, f, k, j) \subseteq Fractions
    BY <2>1, FactorValuesType
  <2>4. FactorValues(s, f, k + 1, j) \subseteq Fractions
    BY <2>1, FactorValuesType
  <2> QED BY <2>2, <2>3, <2>4 DEF c
<1>4. ASSUME NEW k \in i..j, NEW next \in {k, k + 1},
             NEW v \in ProductValues(s, f, i, k, next, j)
      PROVE  v \in Fractions
  <2>1. PICK a \in f[<<"term", i, k - 1>>], b \in FactorValues(s, f, next, j) : v = Times(a, b)
    BY DEF ProductValues
  <2> QED BY <1>3, <2>1, TimesType
<1>5. ASSUME NEW k \in i..j, NEW v \in QuotientValues(s, f, i, k, j)
      PROVE  v \in Fractions
  <2>1. PICK a \in f[<<"term", i, k - 1>>], b \in FactorValues(s, f, k + 1, j) :
               ~NearZero(b) /\ v = Over(a, b)
    BY DEF QuotientValues
  <2> QED BY <1>3, <2>1, NotNearZero, OverType
<1>6. \A k \in (i + 1)..j : k \in i..j
  BY <1>1
<1>7. ASSUME NEW v \in TermValues(s, f, i, j) PROVE v \in Fractions
  <2>1. \/ v \in FactorValues(s, f, i, j)
        \/ \E k \in i..j : s[k] = "*" /\ v \in ProductValues(s, f, i, k, k + 1, j)
        \/ \E k \in i..j : s[k] = "/" /\ v \in QuotientValues(s, f, i, k, j)
        \/ \E k \in (i + 1)..j : Follows(s, k) /\ v \in ProductValues(s, f, i, k, k, j)
    BY InTerm
  <2> QED BY <1>2, <1>4, <1>5, <1>6, <2>1
<1> QED BY <1>7

LEMMA ExprValuesType ==
  ASSUME NEW V, NEW s \in Seq(V), NEW f \in SpanMeanings(s), NEW i \in Positions(s),
         NEW j \in 0..Len(s)
  PROVE  ExprValues(s, f, i, j) \subseteq Fractions
<1>1. Len(s) \in Nat /\ i \in Nat /\ 1 <= i /\ i <= Len(s) + 1 /\ j \in Nat /\ j <= Len(s)
  BY PositionTypes
<1>2. f[<<"term", i, j>>] \subseteq Fractions
  BY SpanMeaning
<1>3. ASSUME NEW k \in i..j, NEW v \in SumValues(s, f, i, k, j)
      PROVE  v \in Fractions
  <2> DEFINE c == k - 1
             a == k + 1
  <2>1. c \in 0..Len(s) /\ a \in Positions(s)
    BY <1>1 DEF Positions
  <2>2. PICK x \in f[<<"expr", i, c>>], y \in f[<<"term", a, j>>] :
               v = Plus(x, IF s[k] = "-" THEN Minus(y) ELSE y)
    BY DEF SumValues
  <2> HIDE DEF a, c
  <2>3. x \in Fractions /\ y \in Fractions
    BY <2>1, <2>2, SpanMeaning
  <2>4. (IF s[k] = "-" THEN Minus(y) ELSE y) \in Fractions
    BY <2>3, MinusType
  <2> QED BY <2>2, <2>3, <2>4, PlusType
<1>4. ASSUME NEW v \in ExprValues(s, f, i, j) PROVE v \in Fractions
  <2>1. \/ v \in f[<<"term", i, j>>]
        \/ \E k \in i..j : s[k] \in {"+", "-"} /\ v \in SumValues(s, f, i, k, j)
    BY InExpr
  <2> QED BY <1>2, <1>3, <2>1
<1> QED BY <1>4

LEMMA ValuesType ==
  ASSUME NEW V, NEW s \in Seq(V), NEW f \in SpanMeanings(s), NEW kind \in {"expr", "term"},
         NEW i \in Positions(s), NEW j \in 0..Len(s)
  PROVE  Values(s, f, kind, i, j) \subseteq Fractions
<1>1. TermValues(s, f, i, j) \subseteq Fractions
  BY TermValuesType
<1>2. ExprValues(s, f, i, j) \subseteq Fractions
  BY ExprValuesType
<1> QED BY <1>1, <1>2 DEF Values

-----------------------------------------------------------------------------
(* The recursion of the grammar is well-founded *)

LEMMA SpanParts ==
  ASSUME NEW s, NEW x \in Spans(s)
  PROVE  /\ x[1] \in {"expr", "term"} /\ x[2] \in Positions(s) /\ x[3] \in 0..Len(s)
         /\ x = <<x[1], x[2], x[3]>>
BY DEF Spans

SpanLevel(kind) == IF kind = "expr" THEN 1 ELSE 0
SpanRank(s) == [x \in Spans(s) |-> 2 * (x[3] - x[2] + Len(s) + 1) + SpanLevel(x[1])]

LEMMA SpanRankLower ==
  ASSUME NEW V, NEW s \in Seq(V)
  PROVE  /\ 4 * Len(s) + 1 \in Nat /\ SpanRank(s) \in [Spans(s) -> 0..(4 * Len(s) + 1)]
         /\ \A x \in Spans(s), kind \in {"expr", "term"}, a \in Positions(s), c \in 0..Len(s) :
              (c - a < x[3] - x[2] \/ (a = x[2] /\ c = x[3] /\ kind = "term" /\ x[1] = "expr")) =>
                SpanRank(s)[<<kind, a, c>>] < SpanRank(s)[x]
<1> DEFINE L == Len(s)
           D == Spans(s)
           rank == SpanRank(s)
           N == 4 * L + 1
<1>1. L \in Nat /\ N \in Nat
  OBVIOUS
<1>2. \A kind : SpanLevel(kind) \in 0..1
  BY DEF SpanLevel
<1>3. ASSUME NEW x \in D
      PROVE  /\ x[2] \in 1..(L + 1) /\ x[3] \in 0..L
             /\ rank[x] = 2 * (x[3] - x[2] + L + 1) + SpanLevel(x[1]) /\ rank[x] \in 0..N
  <2>1. x[2] \in 1..(L + 1) /\ x[3] \in 0..L /\ SpanLevel(x[1]) \in 0..1
    BY <1>2, SpanParts DEF Positions
  <2>2. rank[x] = 2 * (x[3] - x[2] + L + 1) + SpanLevel(x[1])
    BY DEF SpanRank
  <2> HIDE DEF rank, L
  <2>3. rank[x] \in 0..N
    <3> DEFINE i == x[2]
               j == x[3]
               l == SpanLevel(x[1])
    <3>1. i \in 1..(L + 1) /\ j \in 0..L /\ l \in 0..1 /\ rank[x] = 2 * (j - i + L + 1) + l
      BY <2>1, <2>2
    <3> HIDE DEF i, j, l
    <3> QED BY <1>1, <3>1
  <2> QED BY <2>1, <2>2, <2>3
<1>4. rank \in [D -> 0..N]
  <2>1. rank = [x \in D |-> rank[x]]
    BY DEF SpanRank
  <2> HIDE DEF rank, N
  <2> QED BY <1>3, <2>1
<1>5. ASSUME NEW x \in D, NEW kind \in {"expr", "term"}, NEW a \in Positions(s), NEW c \in 0..Len(s),
             c - a < x[3] - x[2] \/ (a = x[2] /\ c = x[3] /\ kind = "term" /\ x[1] = "expr")
      PROVE  rank[<<kind, a, c>>] < rank[x]
  <2> DEFINE y == <<kind, a, c>>
             i == x[2]
             j == x[3]
             l == SpanLevel(x[1])
             m == SpanLevel(kind)
  <2>1. y \in D /\ y[1] = kind /\ y[2] = a /\ y[3] = c
    BY DEF Spans
  <2>2. l \in 0..1 /\ m \in 0..1 /\ i \in 1..(L + 1) /\ j \in 0..L
        /\ rank[x] = 2 * (j - i + L + 1) + l
    BY <1>2, <1>3
  <2>3. a \in 1..(L + 1) /\ c \in 0..L /\ rank[y] = 2 * (c - a + L + 1) + m
    <3> HIDE DEF y, rank
    <3> QED BY <1>3, <2>1
  <2>4. c - a < j - i \/ (a = i /\ c = j /\ m < l)
    <3>1. SpanLevel("term") < SpanLevel("expr")
      BY DEF SpanLevel
    <3> QED BY <1>5, <3>1
  <2> HIDE DEF y, rank, L, i, j, l, m
  <2>5. rank[y] < rank[x]
    BY <1>1, <2>2, <2>3, <2>4
  <2> QED BY <2>5 DEF y
<1> QED BY <1>1, <1>4, <1>5

LEMMA SpanContracts ==
  ASSUME NEW V, NEW s \in Seq(V), NEW f, NEW g, NEW x \in Spans(s),
         \A y \in Spans(s) : SpanRank(s)[y] < SpanRank(s)[x] => f[y] = g[y]
  PROVE  Values(s, f, x[1], x[2], x[3]) = Values(s, g, x[1], x[2], x[3])
<1>1. x[1] \in {"expr", "term"} /\ x[2] \in Positions(s) /\ x[3] \in 0..Len(s)
  BY SpanParts
<1>2. ASSUME NEW k \in {"expr", "term"}, NEW a \in Positions(s), NEW c \in 0..Len(s),
             c - a < x[3] - x[2] \/ (a = x[2] /\ c = x[3] /\ k = "term" /\ x[1] = "expr")
      PROVE  f[<<k, a, c>>] = g[<<k, a, c>>]
  <2> DEFINE y == <<k, a, c>>
  <2>1. y \in Spans(s)
    BY DEF Spans
  <2>2. SpanRank(s)[y] < SpanRank(s)[x]
    BY <1>2, SpanRankLower
  <2> HIDE DEF y
  <2>3. f[y] = g[y]
    BY <2>1, <2>2
  <2> QED BY <2>3 DEF y
<1>3. SpanAgree(s, f, g, x[1], x[2], x[3])
  BY <1>2 DEF SpanAgree
<1> QED BY <1>1, <1>3, ValuesSpans

\* What the language is defined by.
Means(s, f) == f = [x \in Spans(s) |-> Values(s, f, x[1], x[2], x[3])]

LEMMA MeansExists ==
  ASSUME NEW V, NEW s \in Seq(V)
  PROVE  \E f \in SpanMeanings(s) : Means(s, f)
<1> DEFINE D == Spans(s)
           C == SpanMeanings(s)
           body(f) == [x \in D |-> Values(s, f, x[1], x[2], x[3])]
           step == [f \in C |-> body(f)]
           rank == SpanRank(s)
           N == 4 * Len(s) + 1
           c == [x \in D |-> {}]
<1>1. ASSUME NEW f \in C PROVE body(f) \in C
  <2>1. ASSUME NEW x \in D
        PROVE  body(f)[x] \in SUBSET Fractions
    BY <2>1, SpanParts, ValuesType
  <2>2. body(f) \in [D -> SUBSET Fractions]
    BY <2>1
  <2> HIDE DEF body
  <2> QED BY <2>2 DEF SpanMeanings
<1>2. step \in [C -> C]
  BY <1>1
<1>3. c \in C
  BY DEF SpanMeanings
<1>4. N \in Nat /\ rank \in [D -> 0..N]
  BY SpanRankLower
<1>5. \A f \in C : step[f] = body(f)
  <2> HIDE DEF body
  <2> QED OBVIOUS
<1>6. ASSUME NEW f \in C, NEW g \in C, NEW x \in D,
             \A y \in D : rank[y] < rank[x] => f[y] = g[y]
      PROVE  step[f][x] = step[g][x]
  <2>1. Values(s, f, x[1], x[2], x[3]) = Values(s, g, x[1], x[2], x[3])
    BY <1>6, SpanContracts
  <2>2. body(f)[x] = body(g)[x]
    BY <2>1
  <2> QED BY <1>5, <2>2
<1>7. C \in SUBSET [D -> SUBSET Fractions]
  BY DEF SpanMeanings
<1> DEFINE V2 == SUBSET Fractions
<1> HIDE DEF step, rank, N, c, C, D, V2
<1>8. Recursive(D, V2, C, c, step, N, rank)
  BY <1>2, <1>3, <1>4, <1>6, <1>7 DEF Recursive, V2
<1>9. PICK f \in C : step[f] = f
  BY <1>8, FixedPoint
<1>10. f = body(f)
  BY <1>5, <1>9
<1> QED BY <1>9, <1>10 DEF Means, C, D

\* Language(s) has a meaning for every part, and it is the one the grammar gives.
LEMMA LanguageFixed ==
  ASSUME NEW V, NEW s \in Seq(V)
  PROVE  /\ Language(s) \in SpanMeanings(s)
         /\ \A kind \in {"expr", "term"}, i \in Positions(s), j \in 0..Len(s) :
              Language(s)[<<kind, i, j>>] = Values(s, Language(s), kind, i, j)
<1> DEFINE g == Language(s)
           D == Spans(s)
           rank == SpanRank(s)
           N == 4 * Len(s) + 1
<1>1. g = CHOOSE f : Means(s, f)
  BY Zenon DEF Language, Means, Spans
<1>2. Means(s, g)
  BY <1>1, MeansExists, Zenon
<1>3. PICK f \in SpanMeanings(s) : Means(s, f)
  BY MeansExists
<1>4. N \in Nat /\ rank \in [D -> 0..N]
  BY SpanRankLower
<1> HIDE DEF g
<1>5. ASSUME NEW x \in D, \A y \in D : rank[y] < rank[x] => f[y] = g[y]
      PROVE  f[x] = g[x]
  <2>1. Values(s, f, x[1], x[2], x[3]) = Values(s, g, x[1], x[2], x[3])
    BY <1>5, SpanContracts
  <2>2. f[x] = Values(s, f, x[1], x[2], x[3])
    BY <1>3 DEF Means
  <2>3. g[x] = Values(s, g, x[1], x[2], x[3])
    BY <1>2 DEF Means
  <2> QED BY <2>1, <2>2, <2>3
<1>6. \A x \in D : f[x] = g[x]
  <2> HIDE DEF D, rank, N
  <2>1. AgreeUpward(D, N, rank, f, g)
    BY <1>4, <1>5 DEF AgreeUpward
  <2> QED BY <2>1, SameAlong
<1>7. f = g
  <2>1. f = [x \in D |-> f[x]]
    BY DEF SpanMeanings
  <2>2. g = [x \in D |-> g[x]]
    BY <1>2 DEF Means
  <2> HIDE DEF D
  <2> QED BY <1>6, <2>1, <2>2
<1>8. ASSUME NEW kind \in {"expr", "term"}, NEW i \in Positions(s), NEW j \in 0..Len(s)
      PROVE  g[<<kind, i, j>>] = Values(s, g, kind, i, j)
  <2>1. <<kind, i, j>> \in Spans(s)
    BY DEF Spans
  <2> QED BY <1>2, <2>1 DEF Means
<1> QED BY <1>3, <1>7, <1>8 DEF g

-----------------------------------------------------------------------------
(* A line whose blanks come first *)

BlanksLead(s) == \A k \in 1..Len(s) : s[k] = Space => \A h \in 1..k : s[h] = Space
Start(s) == Skip(s, 1)
Body(s) == Start(s)..(Len(s) + 1)

LEMMA BodyPlace ==
  ASSUME NEW V, NEW s \in Seq(V)
  PROVE  /\ Len(s) \in Nat /\ Start(s) \in Nat /\ 1 <= Start(s) /\ Start(s) <= Len(s) + 1
         /\ \A k \in 1..(Start(s) - 1) : s[k] = Space
         /\ CharAt(s, Start(s)) # Space
         /\ \A p \in Body(s) : p \in Positions(s) /\ p \in Nat /\ Start(s) <= p /\ p <= Len(s) + 1
         /\ \A p \in Positions(s) : Start(s) <= p => p \in Body(s)
<1> DEFINE b == Skip(s, 1)
<1>1. Len(s) \in Nat /\ 1 \in Positions(s)
  BY DEF Positions
<1>2. b \in 1..(Len(s) + 1) /\ CharAt(s, b) # Space /\ \A i \in 1..(b - 1) : CharAt(s, i) = Space
  BY <1>1, SkipStops
<1>3. Start(s) = b /\ Body(s) = b..(Len(s) + 1)
  BY DEF Start, Body
<1> HIDE DEF b
<1>4. \A k \in 1..(b - 1) : s[k] = Space
  <2>1. \A k \in 1..(b - 1) : k <= Len(s)
    BY <1>1, <1>2
  <2> QED BY <1>2, <2>1 DEF CharAt
<1>5. \A p \in b..(Len(s) + 1) : p \in 1..(Len(s) + 1) /\ p \in Nat /\ b <= p /\ p <= Len(s) + 1
  BY <1>1, <1>2
<1>6. \A p \in 1..(Len(s) + 1) : b <= p => p \in b..(Len(s) + 1)
  BY <1>1, <1>2
<1> QED BY <1>1, <1>2, <1>3, <1>4, <1>5, <1>6 DEF Positions

\* From the first character on, skip_spaces stays where it is.
LEMMA NoSkip ==
  ASSUME NEW V, NEW s \in Seq(V), BlanksLead(s), NEW p \in Body(s)
  PROVE  Skip(s, p) = p /\ p \in Positions(s)
<1>1. /\ Len(s) \in Nat /\ Start(s) \in Nat /\ 1 <= Start(s) /\ p \in Positions(s)
      /\ p \in Nat /\ Start(s) <= p /\ p <= Len(s) + 1 /\ CharAt(s, Start(s)) # Space
  BY BodyPlace
<1>2. CharAt(s, p) # Space
  <2>1. CASE p <= Len(s)
    <3>1. p \in 1..Len(s) /\ Start(s) \in 1..p /\ Start(s) <= Len(s)
      BY <1>1, <2>1
    <3>2. s[Start(s)] # Space /\ CharAt(s, p) = s[p]
      BY <1>1, <3>1, <2>1 DEF CharAt
    <3> QED BY <3>1, <3>2 DEF BlanksLead
  <2>2. CASE ~(p <= Len(s))
    BY <2>2, Marks DEF CharAt
  <2> QED BY <2>1, <2>2
<1> QED BY <1>1, <1>2, SkipNone

\* Where a number, or a part of the grammar, may begin and where it may end.
Fresh(s, i) == i = Start(s) \/ ~Continues(s, i)
Stop(s, j) == j = Len(s) \/ ~Continues(s, j + 1)
Ends(s, j) == j = Len(s) \/ (s[j + 1] \notin {"*", "/"} /\ ~StartsFactor(s[j + 1]))

LEMMA Signs ==
  ASSUME NEW c
  PROVE  /\ c \in {"+", "-", "*", "/", LeftParen, RightParen} => ~InNumber(c)
         /\ InNumber(c) => StartsFactor(c)
         /\ StartsFactor(c) => c \notin {"+", "-", "*", "/", RightParen, "end"}
         /\ ~StartsFactor(RightParen) /\ RightParen \notin {"*", "/", "+", "-"}
BY Marks, NoDigits DEF InNumber, StartsFactor

\* A part may begin after a mark, and end before one.
LEMMA FreshAfter ==
  ASSUME NEW s, NEW i \in Int, ~InNumber(s[i])
  PROVE  Fresh(s, i + 1)
<1>1. (i + 1) - 1 = i
  OBVIOUS
<1> QED BY <1>1 DEF Fresh, Continues

LEMMA StopBefore ==
  ASSUME NEW s, NEW i \in Int, ~InNumber(s[i])
  PROVE  Stop(s, i - 1)
<1>1. (i - 1) + 1 = i
  OBVIOUS
<1> QED BY <1>1 DEF Stop, Continues

LEMMA EndsStop ==
  ASSUME NEW s, NEW j, Ends(s, j)
  PROVE  Stop(s, j)
BY Signs DEF Ends, Stop, Continues

LEMMA NumberTextChars ==
  ASSUME NEW V, NEW s \in Seq(V), NEW i \in 1..Len(s), NEW j \in i..Len(s),
         NumberText(SubSeq(s, i, j))
  PROVE  /\ \A k \in i..j : InNumber(s[k])
         /\ \A h, k \in i..j : s[h] = "." /\ s[k] = "." => h = k
<1> DEFINE q == j + 1
           t == SubSeq(s, i, j)
<1>1. Len(s) \in Nat /\ i \in Nat /\ j \in Nat /\ i <= j /\ j <= Len(s)
  OBVIOUS
<1>2. i \in Positions(s) /\ q \in i..(Len(s) + 1) /\ q - 1 = j
  BY <1>1 DEF Positions
<1>3. /\ t \in Seq(V) /\ Len(t) = q - i
      /\ \A k \in i..j : t[k - i + 1] = s[k] /\ k - i + 1 \in 1..(q - i)
  <2> HIDE DEF q
  <2> QED BY <1>2, SubLine
<1>4. NumberText(t)
  OBVIOUS
<1> HIDE DEF t, q
<1>5. DOMAIN t = 1..(q - i)
  BY <1>3
<1>6. \A k \in i..j : InNumber(s[k])
  BY <1>3, <1>4, <1>5 DEF NumberText, InNumber
<1>7. ASSUME NEW h \in i..j, NEW k \in i..j, s[h] = ".", s[k] = "." PROVE h = k
  <2>2. /\ t[h - i + 1] = "." /\ h - i + 1 \in DOMAIN t
        /\ t[k - i + 1] = "." /\ k - i + 1 \in DOMAIN t
    BY <1>3, <1>5, <1>7
  <2>3. \A x, y \in DOMAIN t : t[x] = "." /\ t[y] = "." => x = y
    BY <1>4 DEF NumberText
  <2>1. h - i + 1 = k - i + 1
    BY <2>2, <2>3
  <2> QED BY <1>1, <2>1
<1> QED BY <1>6, <1>7

\* parse_number takes the whole number of the grammar.
LEMMA NumberTaken ==
  ASSUME NEW V, NEW s \in Seq(V), NEW i \in Body(s), NEW j \in i..Len(s),
         Fresh(s, i), Stop(s, j), NumberText(SubSeq(s, i, j))
  PROVE  NumberEnd(s, i) = j + 1
<1>1. /\ Len(s) \in Nat /\ Start(s) \in Nat /\ 1 <= Start(s) /\ Start(s) <= i
      /\ i \in Nat /\ i \in Positions(s)
      /\ \A k \in 1..(Start(s) - 1) : s[k] = Space
  BY BodyPlace
<1>2. j \in Nat /\ i <= j /\ j <= Len(s) /\ i \in 1..Len(s) /\ (j + 1) - 1 = j
      /\ j + 1 \in i..(Len(s) + 1) /\ i \in i..j /\ j \in i..j /\ j \in 1..j
  BY <1>1
<1>3. /\ \A k \in i..j : InNumber(s[k])
      /\ \A h, k \in i..j : s[h] = "." /\ s[k] = "." => h = k
  BY <1>2, NumberTextChars
<1>4. CASE j = Len(s)
  <2>1. CharAt(s, j + 1) = "end"
    BY <1>4, EndChar
  <2>2. NumberStops(s, i, j + 1)
    BY <1>2, <1>3, <2>1, NoDigits DEF NumberStops, InNumber
  <2> QED BY <1>1, <1>2, <2>2, NumberEndIs
<1>5. CASE j # Len(s)
  <2>1. j + 1 <= Len(s) /\ CharAt(s, j + 1) = s[j + 1] /\ ~Continues(s, j + 1)
    <3>1. j + 1 <= Len(s)
      BY <1>1, <1>2, <1>5
    <3> QED BY <1>5, <3>1 DEF CharAt, Stop
  <2>2. InNumber(s[j])
    BY <1>2, <1>3
  <2>3. ~IsDigit(s[j + 1])
    BY <1>2, <2>1, <2>2, NoDigits DEF Continues, InNumber
  <2>4. ASSUME s[j + 1] = "." PROVE \E h \in i..j : s[h] = "."
    <3>1. PICK h \in 1..j : s[h] = "." /\ \A g \in h..j : InNumber(s[g])
      BY <1>2, <2>1, <2>2, <2>4 DEF Continues, InNumber
    <3>2. CASE i <= h
      <4>1. h \in i..j
        BY <1>2, <3>2
      <4> QED BY <3>1, <4>1
    <3>3. CASE ~(i <= h)
      <4>1. h \in Nat /\ h <= i - 1 /\ i - 1 \in h..j /\ i \in h..j /\ h \in 1..(i - 1)
        BY <1>1, <1>2, <3>3
      <4>2. InNumber(s[i]) /\ InNumber(s[i - 1]) /\ \A g \in h..(i - 1) : InNumber(s[g])
        <5>1. \A g \in h..(i - 1) : g \in h..j
          BY <1>2
        <5> QED BY <3>1, <4>1, <5>1
      <4>3. CASE i = Start(s)
        BY <1>1, <3>1, <4>1, <4>3, Marks
      <4>4. CASE ~Continues(s, i)
        <5>1. s[i] = "."
          BY <4>2, <4>4 DEF Continues, InNumber
        <5> QED BY <1>2, <5>1
      <4> QED BY <4>3, <4>4 DEF Fresh
    <3> QED BY <3>2, <3>3
  <2>5. NumberStops(s, i, j + 1)
    BY <1>2, <1>3, <2>1, <2>3, <2>4 DEF NumberStops, InNumber
  <2> QED BY <1>1, <1>2, <2>5, NumberEndIs
<1> QED BY <1>4, <1>5

\* Where parse_number stops, a number may end.
LEMMA NumberEndsThere ==
  ASSUME NEW V, NEW s \in Seq(V), NEW p \in Positions(s)
  PROVE  Stop(s, NumberEnd(s, p) - 1)
<1> DEFINE e == NumberEnd(s, p)
<1>1. Len(s) \in Nat /\ p \in Nat /\ 1 <= p /\ p <= Len(s) + 1
  BY PositionTypes
<1>2. e \in p..(Len(s) + 1) /\ NumberStops(s, p, e)
  BY NumberEndStops
<1> HIDE DEF e
<1>3. (e - 1) + 1 = e /\ e \in Nat
  BY <1>1, <1>2
<1> DEFINE j == e - 1
<1>4. j + 1 = e /\ (e = Len(s) + 1 => j = Len(s))
  BY <1>1, <1>3
<1> HIDE DEF j
<1>5. ASSUME e # Len(s) + 1, Continues(s, e) PROVE FALSE
  <2>1. e <= Len(s)
    BY <1>1, <1>2, <1>5
  <2>2. CharAt(s, e) = s[e]
    BY <2>1 DEF CharAt
  <2>3. InNumber(s[e])
    BY <1>5 DEF Continues
  <2>4. s[e] = "."
    BY <1>2, <2>2, <2>3 DEF NumberStops, InNumber
  <2>5. PICK i \in p..(e - 1) : s[i] = "."
    BY <1>2, <2>2, <2>4 DEF NumberStops
  <2>6. i \in 1..(e - 1) /\ \A g \in i..(e - 1) : g \in p..(e - 1)
    BY <1>1, <1>2
  <2>7. \A g \in i..(e - 1) : InNumber(s[g])
    BY <1>2, <2>6 DEF NumberStops, InNumber
  <2> QED BY <1>5, <2>4, <2>5, <2>6, <2>7 DEF Continues
<1>6. Stop(s, j)
  BY <1>4, <1>5 DEF Stop
<1> QED BY <1>6 DEF e, j

-----------------------------------------------------------------------------
(* The rules of the parser on such a line *)

Call(s, rule, p, v) == Parser(s)[<<rule, p, v>>]

LEMMA CallIs ==
  ASSUME NEW V, NEW s \in Seq(V), NEW rule \in Rules, NEW p \in Positions(s), NEW v \in Fractions
  PROVE  /\ Call(s, rule, p, v) = Rule(s, Parser(s), rule, p, v)
         /\ Call(s, rule, p, v) \in Results
         /\ Fits(s, rule, p, Call(s, rule, p, v))
<1>1. Parser(s) \in Parsers(s) /\ Parser(s)[<<rule, p, v>>] = Rule(s, Parser(s), rule, p, v)
  BY ParserFixed
<1>2. /\ Parser(s)[<<rule, p, v>>] \in Results
      /\ Fits(s, rule, p, Parser(s)[<<rule, p, v>>])
  BY <1>1, ParserGives
<1> QED BY <1>1, <1>2 DEF Call

\* Where a rule of the body stops is in the body.
LEMMA CallStops ==
  ASSUME NEW V, NEW s \in Seq(V), NEW rule \in Rules, NEW p \in Body(s), NEW v \in Fractions,
         Call(s, rule, p, v).ok
  PROVE  /\ Call(s, rule, p, v).v \in Fractions
         /\ Call(s, rule, p, v).pos \in Body(s) /\ Call(s, rule, p, v).pos \in Nat
         /\ p + Takes(rule) <= Call(s, rule, p, v).pos
<1> DEFINE r == Call(s, rule, p, v)
<1>1. /\ Len(s) \in Nat /\ Start(s) \in Nat /\ 1 <= Start(s) /\ p \in Positions(s)
      /\ p \in Nat /\ Start(s) <= p
  BY BodyPlace
<1>2. r \in Results /\ Fits(s, rule, p, r)
  BY <1>1, CallIs
<1>3. r.v \in Fractions /\ r.pos \in Nat
  BY <1>2, ResultFields
<1>4. r.pos \in (p + Takes(rule))..(Len(s) + 1) /\ r.ok
  BY <1>2 DEF Fits
<1>5. Takes(rule) \in Nat
  BY DEF Takes
<1> DEFINE q == r.pos
           t == Takes(rule)
<1>6. q \in Nat /\ q \in (p + t)..(Len(s) + 1) /\ t \in Nat
  BY <1>3, <1>4, <1>5
<1> HIDE DEF q, t
<1>7. q \in Body(s) /\ p + t <= q
  BY <1>1, <1>6 DEF Body
<1> QED BY <1>3, <1>7 DEF q, t

LEMMA AfterChar ==
  ASSUME NEW V, NEW s \in Seq(V), NEW p \in Body(s), CharAt(s, p) # "end"
  PROVE  p \in 1..Len(s) /\ CharAt(s, p) = s[p] /\ p + 1 \in Body(s)
<1>1. /\ Len(s) \in Nat /\ Start(s) \in Nat /\ 1 <= Start(s) /\ p \in Positions(s)
      /\ p \in Nat /\ Start(s) <= p
  BY BodyPlace
<1>2. p \in 1..Len(s) /\ CharAt(s, p) = s[p]
  BY <1>1, CharInside
<1> QED BY <1>1, <1>2 DEF Body

LEMMA SumsStop ==
  ASSUME NEW V, NEW s \in Seq(V), BlanksLead(s), NEW p \in Body(s), NEW v \in Fractions,
         CharAt(s, p) \notin {"+", "-"}
  PROVE  Call(s, "sums", p, v) = Some(v, p)
<1>1. Skip(s, p) = p /\ p \in Positions(s)
  BY NoSkip
<1>2. "sums" \in Rules
  BY DEF Rules
<1>3. Call(s, "sums", p, v) = Rule(s, Parser(s), "sums", p, v)
  BY <1>1, <1>2, CallIs
<1>4. Rule(s, Parser(s), "sums", p, v) = Sums(s, Parser(s), p, v)
  BY DEF Rule
<1>5. Sums(s, Parser(s), p, v) = Some(v, p)
  BY <1>1 DEF Sums
<1> QED BY <1>3, <1>4, <1>5

LEMMA SumsGoOn ==
  ASSUME NEW V, NEW s \in Seq(V), BlanksLead(s), NEW p \in Body(s), NEW v \in Fractions,
         CharAt(s, p) \in {"+", "-"}, NEW rhs, rhs = Call(s, "term", p + 1, Zero)
  PROVE  Call(s, "sums", p, v) =
           IF rhs.ok THEN Call(s, "sums", rhs.pos, Plus(v, Signed(CharAt(s, p) = "-", rhs).v))
           ELSE rhs
<1>1. Skip(s, p) = p /\ p \in Positions(s)
  BY NoSkip
<1>2. "sums" \in Rules
  BY DEF Rules
<1>3. Call(s, "sums", p, v) = Rule(s, Parser(s), "sums", p, v)
  BY <1>1, <1>2, CallIs
<1>4. Rule(s, Parser(s), "sums", p, v) = Sums(s, Parser(s), p, v)
  BY DEF Rule
<1>5. Sums(s, Parser(s), p, v) =
        IF ~rhs.ok THEN rhs
        ELSE Parser(s)[<<"sums", rhs.pos, Plus(v, Signed(CharAt(s, p) = "-", rhs).v)>>]
  BY <1>1 DEF Sums, Call
<1> QED BY <1>3, <1>4, <1>5 DEF Call

LEMMA ProductsStop ==
  ASSUME NEW V, NEW s \in Seq(V), BlanksLead(s), NEW p \in Body(s), NEW v \in Fractions,
         CharAt(s, p) \notin {"*", "/"}, ~StartsFactor(CharAt(s, p))
  PROVE  Call(s, "products", p, v) = Some(v, p)
<1>1. Skip(s, p) = p /\ p \in Positions(s)
  BY NoSkip
<1>2. "products" \in Rules
  BY DEF Rules
<1>3. Call(s, "products", p, v) = Rule(s, Parser(s), "products", p, v)
  BY <1>1, <1>2, CallIs
<1>4. Rule(s, Parser(s), "products", p, v) = Products(s, Parser(s), p, v)
  BY DEF Rule
<1>5. Products(s, Parser(s), p, v) = Some(v, p)
  BY <1>1 DEF Products
<1> QED BY <1>3, <1>4, <1>5

\* The factor after a mark, or the one that follows without.
FactorPlace(s, p) == IF CharAt(s, p) \in {"*", "/"} THEN p + 1 ELSE p
Divides(s, p) == CharAt(s, p) = "/"

LEMMA ProductsGoOn ==
  ASSUME NEW V, NEW s \in Seq(V), BlanksLead(s), NEW p \in Body(s), NEW v \in Fractions,
         CharAt(s, p) \in {"*", "/"} \/ StartsFactor(CharAt(s, p)),
         NEW rhs, rhs = Call(s, "factor", FactorPlace(s, p), Zero)
  PROVE  Call(s, "products", p, v) =
           IF ~rhs.ok THEN rhs
           ELSE IF Divides(s, p) /\ NearZero(rhs.v) THEN None("DivideByZero")
           ELSE Call(s, "products", rhs.pos, IF Divides(s, p) THEN Over(v, rhs.v) ELSE Times(v, rhs.v))
<1>1. Skip(s, p) = p /\ p \in Positions(s)
  BY NoSkip
<1>2. "products" \in Rules
  BY DEF Rules
<1>3. Call(s, "products", p, v) = Rule(s, Parser(s), "products", p, v)
  BY <1>1, <1>2, CallIs
<1>4. Rule(s, Parser(s), "products", p, v) = Products(s, Parser(s), p, v)
  BY DEF Rule
<1>5. MoreFactors(s, p) /\ NextFactor(s, p) = FactorPlace(s, p)
  BY <1>1 DEF MoreFactors, NextFactor, FactorPlace
<1>6. rhs = Parser(s)[<<"factor", NextFactor(s, p), Zero>>]
  BY <1>5 DEF Call
<1>7. Products(s, Parser(s), p, v) =
           IF ~rhs.ok THEN rhs
           ELSE IF ByZero(s, p, rhs.v) THEN None("DivideByZero")
           ELSE Parser(s)[<<"products", rhs.pos, Multiplied(s, p, v, rhs.v)>>]
  <2> DEFINE R == Parser(s)
  <2>1. rhs = R[<<"factor", NextFactor(s, p), Zero>>]
    BY <1>6
  <2> HIDE DEF R
  <2>2. Products(s, R, p, v) =
           IF ~rhs.ok THEN rhs
           ELSE IF ByZero(s, p, rhs.v) THEN None("DivideByZero")
           ELSE R[<<"products", rhs.pos, Multiplied(s, p, v, rhs.v)>>]
    BY <1>5, <2>1 DEF Products, MoreFactors, NextFactor, ByZero, Multiplied
  <2> QED BY <2>2 DEF R
<1>8. /\ ByZero(s, p, rhs.v) <=> Divides(s, p) /\ NearZero(rhs.v)
      /\ Multiplied(s, p, v, rhs.v) = IF Divides(s, p) THEN Over(v, rhs.v) ELSE Times(v, rhs.v)
  BY <1>1 DEF ByZero, Multiplied, Divides
<1> QED BY <1>3, <1>4, <1>7, <1>8 DEF Call

LEMMA TermGoes ==
  ASSUME NEW V, NEW s \in Seq(V), NEW p \in Body(s), NEW first,
         first = Call(s, "factor", p, Zero)
  PROVE  Call(s, "term", p, Zero) =
           IF first.ok THEN Call(s, "products", first.pos, first.v) ELSE first
<1>1. p \in Positions(s)
  BY BodyPlace
<1>2. "term" \in Rules
  BY DEF Rules
<1>3. Call(s, "term", p, Zero) = Rule(s, Parser(s), "term", p, Zero)
  BY <1>1, <1>2, CallIs, ZeroType
<1>4. Rule(s, Parser(s), "term", p, Zero) = Then(Parser(s), first, "products")
  BY DEF Rule, Call
<1> QED BY <1>3, <1>4 DEF Then, Call

LEMMA ExpressionGoes ==
  ASSUME NEW V, NEW s \in Seq(V), NEW p \in Body(s), NEW first,
         first = Call(s, "term", p, Zero)
  PROVE  Call(s, "expression", p, Zero) =
           IF first.ok THEN Call(s, "sums", first.pos, first.v) ELSE first
<1>1. p \in Positions(s)
  BY BodyPlace
<1>2. "expression" \in Rules
  BY DEF Rules
<1>3. Call(s, "expression", p, Zero) = Rule(s, Parser(s), "expression", p, Zero)
  BY <1>1, <1>2, CallIs, ZeroType
<1>4. Rule(s, Parser(s), "expression", p, Zero) = Then(Parser(s), first, "sums")
  BY DEF Rule, Call
<1> QED BY <1>3, <1>4 DEF Then, Call

OperandAt(s, p) == IF CharAt(s, p) \in {"+", "-"} THEN p + 1 ELSE p

LEMMA FactorGoes ==
  ASSUME NEW V, NEW s \in Seq(V), BlanksLead(s), NEW p \in Body(s)
  PROVE  /\ OperandAt(s, p) \in Body(s)
         /\ Call(s, "factor", p, Zero) =
              Signed(CharAt(s, p) = "-", Unsigned(s, Parser(s), OperandAt(s, p)))
<1>1. Skip(s, p) = p /\ p \in Positions(s)
  BY NoSkip
<1>2. "factor" \in Rules
  BY DEF Rules
<1>3. Call(s, "factor", p, Zero) = Rule(s, Parser(s), "factor", p, Zero)
  BY <1>1, <1>2, CallIs, ZeroType
<1>4. Rule(s, Parser(s), "factor", p, Zero) = Factor(s, Parser(s), p)
  BY DEF Rule
<1>5. Factor(s, Parser(s), p) = Signed(CharAt(s, p) = "-", Unsigned(s, Parser(s), Operand(s, p)))
  BY <1>1, FactorIs
<1>6. Operand(s, p) = OperandAt(s, p) /\ OperandAt(s, p) \in Body(s)
  <2>1. CASE CharAt(s, p) \in {"+", "-"}
    <3>1. p + 1 \in Body(s)
      BY <2>1, AfterChar
    <3>2. Skip(s, p + 1) = p + 1
      BY <3>1, NoSkip
    <3>3. Operand(s, p) = Skip(s, p + 1)
      BY <1>1, <2>1 DEF Operand
    <3> QED BY <2>1, <3>1, <3>2, <3>3 DEF OperandAt
  <2>2. CASE CharAt(s, p) \notin {"+", "-"}
    BY <1>1, <2>2 DEF Operand, OperandAt
  <2> QED BY <2>1, <2>2
<1> QED BY <1>3, <1>4, <1>5, <1>6

LEMMA BracketGoes ==
  ASSUME NEW V, NEW s \in Seq(V), BlanksLead(s), NEW q \in Body(s), CharAt(s, q) = LeftParen,
         NEW inner, inner = Call(s, "expression", q + 1, Zero)
  PROVE  /\ q + 1 \in Body(s)
         /\ Unsigned(s, Parser(s), q) =
              IF ~inner.ok THEN inner
              ELSE IF CharAt(s, inner.pos) = RightParen THEN Some(inner.v, inner.pos + 1) ELSE Invalid
<1>1. q + 1 \in Body(s)
  BY AfterChar, Marks
<1>2. "expression" \in Rules
  BY DEF Rules
<1>3. inner.ok => inner.pos \in Body(s)
  BY <1>1, <1>2, CallStops, ZeroType
<1>4. inner.ok => Skip(s, inner.pos) = inner.pos
  BY <1>3, NoSkip
<1>5. inner = Parser(s)[<<"expression", q + 1, Zero>>]
  BY DEF Call
<1>6. Unsigned(s, Parser(s), q) =
        IF ~inner.ok THEN inner
        ELSE IF CharAt(s, Skip(s, inner.pos)) = RightParen
             THEN Some(inner.v, Skip(s, inner.pos) + 1) ELSE Invalid
  BY <1>5 DEF Unsigned
<1> QED BY <1>1, <1>4, <1>6

-----------------------------------------------------------------------------
(* The parser finds every meaning *)

TermOf(s, i, j) == Language(s)[<<"term", i, j>>]
ExprOf(s, i, j) == Language(s)[<<"expr", i, j>>]
FactorOf(s, i, j) == FactorValues(s, Language(s), i, j)
UnsignedOf(s, i, j) == UnsignedValues(s, Language(s), i, j)

LEMMA MeaningsAre ==
  ASSUME NEW V, NEW s \in Seq(V), NEW i \in Positions(s), NEW j \in 0..Len(s)
  PROVE  /\ TermOf(s, i, j) \subseteq Fractions /\ ExprOf(s, i, j) \subseteq Fractions
         /\ FactorOf(s, i, j) \subseteq Fractions /\ UnsignedOf(s, i, j) \subseteq Fractions
         /\ TermOf(s, i, j) = IF i > j THEN {} ELSE TermValues(s, Language(s), i, j)
         /\ ExprOf(s, i, j) = IF i > j THEN {} ELSE ExprValues(s, Language(s), i, j)
<1>1. /\ Language(s) \in SpanMeanings(s)
      /\ Language(s)[<<"term", i, j>>] = Values(s, Language(s), "term", i, j)
      /\ Language(s)[<<"expr", i, j>>] = Values(s, Language(s), "expr", i, j)
  BY LanguageFixed
<1>2. /\ Language(s)[<<"term", i, j>>] \in SUBSET Fractions
      /\ Language(s)[<<"expr", i, j>>] \in SUBSET Fractions
  BY <1>1, SpanMeaning
<1>3. i \in Nat \ {0}
  BY PositionTypes
<1>4. FactorValues(s, Language(s), i, j) \subseteq Fractions
  BY <1>1, <1>3, FactorValuesType
<1>5. UnsignedValues(s, Language(s), i, j) \subseteq Fractions
  BY <1>1, <1>3, UnsignedValuesType
<1> QED BY <1>1, <1>2, <1>4, <1>5 DEF TermOf, ExprOf, FactorOf, UnsignedOf, Values

\* A rule that gives the value v up to q.
Finds(r, v, q) == r \in Results /\ r.ok /\ SameValue(v, r.v) /\ r.pos = q

FactorRight(s, i, j) ==
  Fresh(s, i) /\ Stop(s, j) =>
    \A v \in FactorOf(s, i, j) : Finds(Call(s, "factor", i, Zero), v, j + 1)
TermRight(s, i, j) ==
  Fresh(s, i) /\ Stop(s, j) =>
    \A v \in TermOf(s, i, j) :
      \E w \in Fractions : /\ SameValue(v, w)
                           /\ Call(s, "term", i, Zero) = Call(s, "products", j + 1, w)
ExprRight(s, i, j) ==
  Fresh(s, i) /\ Ends(s, j) =>
    \A v \in ExprOf(s, i, j) :
      \E w \in Fractions : /\ SameValue(v, w)
                           /\ Call(s, "expression", i, Zero) = Call(s, "sums", j + 1, w)
AllRight(s, i, j) == FactorRight(s, i, j) /\ TermRight(s, i, j) /\ ExprRight(s, i, j)
Shorter(s, n) == \A i \in Body(s), j \in 0..Len(s) : i <= j /\ j - i < n => AllRight(s, i, j)

LEMMA ShorterRight ==
  ASSUME NEW s, NEW n, Shorter(s, n), NEW i \in Body(s), NEW j \in 0..Len(s),
         i <= j, j - i < n
  PROVE  FactorRight(s, i, j) /\ TermRight(s, i, j) /\ ExprRight(s, i, j)
BY Zenon DEF Shorter, AllRight

LEMMA InnerRight ==
  ASSUME NEW V, NEW s \in Seq(V), NEW i \in Body(s), NEW j \in 0..Len(s), NEW u,
         ExprRight(s, i, j), Fresh(s, i), Ends(s, j), u \in ExprOf(s, i, j)
  PROVE  \E w \in Fractions : SameValue(u, w)
                              /\ Call(s, "expression", i, Zero) = Call(s, "sums", j + 1, w)
BY Zenon DEF ExprRight

LEMMA UnsignedRight ==
  ASSUME NEW V, NEW s \in Seq(V), BlanksLead(s), NEW i \in Body(s), NEW j \in i..Len(s),
         Shorter(s, j - i), Fresh(s, i), Stop(s, j), NEW v \in UnsignedOf(s, i, j)
  PROVE  Finds(Unsigned(s, Parser(s), i), v, j + 1)
<1> DEFINE M == Language(s)
<1>1. /\ Len(s) \in Nat /\ Start(s) \in Nat /\ 1 <= Start(s) /\ Start(s) <= i
      /\ i \in Nat /\ i \in Positions(s)
  BY BodyPlace
<1>2. /\ j \in Nat /\ i <= j /\ j <= Len(s) /\ i \in 1..Len(s) /\ j \in 1..Len(s)
      /\ j \in 0..Len(s) /\ (j + 1) - 1 = j /\ i \in i..j
  BY <1>1
<1>3. CharAt(s, i) = s[i] /\ CharAt(s, j) = s[j]
  BY <1>1, <1>2 DEF CharAt
<1>4. v \in UnsignedValues(s, M, i, j)
  BY DEF UnsignedOf
<1>5. CASE NumberText(SubSeq(s, i, j))
  <2> DEFINE r == NumberAt(s, i)
  <2>1. v = NumberOf(SubSeq(s, i, j)) /\ InRange(v)
    BY <1>4, <1>5 DEF UnsignedValues
  <2>2. InNumber(s[i])
    BY <1>2, <1>5, NumberTextChars
  <2>3. Unsigned(s, Parser(s), i) = r
    BY <1>3, <2>2, Signs DEF Unsigned
  <2>4. NumberEnd(s, i) = j + 1
    BY <1>5, NumberTaken
  <2>5. SubSeq(s, i, NumberEnd(s, i) - 1) = SubSeq(s, i, j)
    BY <1>2, <2>4
  <2>6. r \in Results /\ r.ok /\ r.pos = j + 1 /\ r.v = v
    BY <1>1, <1>5, <2>1, <2>4, <2>5, NumberAtGives
  <2> HIDE DEF r
  <2>7. SameValue(v, r.v)
    BY <2>6, ResultFields, SameItself
  <2> QED BY <2>3, <2>6, <2>7 DEF Finds
<1>6. CASE ~NumberText(SubSeq(s, i, j))
  <2>1. s[i] = LeftParen /\ s[j] = RightParen /\ v \in M[<<"expr", i + 1, j - 1>>]
    BY <1>4, <1>6 DEF UnsignedValues
  <2> DEFINE a == i + 1
             c == j - 1
             inner == Call(s, "expression", a, Zero)
  <2>2. a \in Body(s)
    BY <1>3, <2>1, AfterChar, Marks
  <2>3. v \in ExprOf(s, a, c)
    BY <2>1 DEF ExprOf
  <2>4. c \in 0..Len(s) /\ c + 1 = j /\ c - a < j - i /\ a \in Positions(s)
    BY <1>1, <1>2, <2>2, BodyPlace
  <2>5. Fresh(s, a)
    BY <1>1, <2>1, Signs, FreshAfter
  <2>6. Ends(s, c)
    BY <2>1, <2>4, Signs DEF Ends
  <2>7. Unsigned(s, Parser(s), i) =
              IF ~inner.ok THEN inner
              ELSE IF CharAt(s, inner.pos) = RightParen THEN Some(inner.v, inner.pos + 1) ELSE Invalid
    BY <1>3, <2>1, BracketGoes
  <2> HIDE DEF a, c
  <2>8. a <= c
    <3>1. a \in Int /\ c \in Int
      BY <2>4, PositionTypes
    <3>2. ExprOf(s, a, c) # {} => ~(a > c)
      BY <2>4, MeaningsAre
    <3> QED BY <2>3, <3>1, <3>2
  <2>9. ExprRight(s, a, c)
    BY <2>2, <2>4, <2>8, ShorterRight
  <2>10. PICK w \in Fractions : SameValue(v, w) /\ inner = Call(s, "sums", c + 1, w)
    BY <2>2, <2>3, <2>4, <2>5, <2>6, <2>9, InnerRight
  <2>11. j \in Body(s)
    BY <1>1, <1>2 DEF Body
  <2>12. inner = Some(w, j)
    BY <1>3, <2>1, <2>4, <2>10, <2>11, Signs, SumsStop
  <2>13. inner.ok /\ inner.v = w /\ inner.pos = j
    BY <1>2, <2>12, SomeType
  <2>14. Unsigned(s, Parser(s), i) = Some(w, j + 1)
    BY <1>3, <2>1, <2>7, <2>13
  <2>15. j + 1 \in Nat
    BY <1>2
  <2> QED BY <2>10, <2>14, <2>15, SomeType DEF Finds
<1> QED BY <1>5, <1>6

LEMMA FactorIsRight ==
  ASSUME NEW V, NEW s \in Seq(V), BlanksLead(s), NEW i \in Body(s), NEW j \in i..Len(s),
         Shorter(s, j - i)
  PROVE  FactorRight(s, i, j)
<1> SUFFICES ASSUME Fresh(s, i), Stop(s, j), NEW v \in FactorOf(s, i, j)
             PROVE  Finds(Call(s, "factor", i, Zero), v, j + 1)
  BY DEF FactorRight
<1> DEFINE M == Language(s)
           minus == CharAt(s, i) = "-"
           a == OperandAt(s, i)
           u == Unsigned(s, Parser(s), a)
           r == Call(s, "factor", i, Zero)
<1>1. /\ Len(s) \in Nat /\ Start(s) \in Nat /\ 1 <= Start(s) /\ Start(s) <= i
      /\ i \in Nat /\ i \in Positions(s)
  BY BodyPlace
<1>2. j \in Nat /\ i <= j /\ j <= Len(s) /\ i \in 1..Len(s) /\ j \in 0..Len(s)
  BY <1>1
<1>3. CharAt(s, i) = s[i]
  BY <1>1, <1>2 DEF CharAt
<1>4. a \in Body(s) /\ r = Signed(minus, u)
  BY FactorGoes
<1>5. v \in FactorValues(s, M, i, j)
  BY DEF FactorOf
<1>6. \E x \in UnsignedOf(s, a, j) : v = IF minus THEN Minus(x) ELSE x
  <2>1. CASE s[i] = "-"
    <3>1. a = i + 1
      BY <1>3, <2>1 DEF OperandAt
    <3>2. v \in {Minus(x) : x \in UnsignedValues(s, M, i + 1, j)}
      BY <1>2, <1>5, <2>1 DEF FactorValues
    <3> QED BY <1>3, <2>1, <3>1, <3>2 DEF UnsignedOf
  <2>2. CASE s[i] = "+"
    <3>1. a = i + 1
      BY <1>3, <2>2 DEF OperandAt
    <3>2. v \in UnsignedValues(s, M, i + 1, j)
      BY <1>2, <1>5, <2>2 DEF FactorValues
    <3> QED BY <1>3, <2>2, <3>1, <3>2 DEF UnsignedOf
  <2>3. CASE s[i] \notin {"+", "-"}
    <3>1. a = i
      BY <1>3, <2>3 DEF OperandAt
    <3>2. v \in UnsignedValues(s, M, i, j)
      BY <1>2, <1>5, <2>3 DEF FactorValues
    <3> QED BY <1>3, <2>3, <3>1, <3>2 DEF UnsignedOf
  <2> QED BY <2>1, <2>2, <2>3
<1>7. PICK x \in UnsignedOf(s, a, j) : v = IF minus THEN Minus(x) ELSE x
  BY <1>6
<1>8. Fresh(s, a) /\ i <= a
  <2>1. CASE s[i] \in {"+", "-"}
    <3>1. a = i + 1
      BY <1>3, <2>1 DEF OperandAt
    <3>2. Fresh(s, i + 1)
      BY <1>1, <2>1, Signs, FreshAfter
    <3> QED BY <1>1, <3>1, <3>2
  <2>2. CASE s[i] \notin {"+", "-"}
    BY <1>1, <1>3, <2>2 DEF OperandAt
  <2> QED BY <2>1, <2>2
<1> HIDE DEF a
<1>9. a \in Positions(s) /\ a \in Nat
  BY <1>4, BodyPlace
<1>10. a <= j
  <2>1. x \in UnsignedValues(s, M, a, j)
    BY <1>7 DEF UnsignedOf
  <2>2. ~(a > j)
    BY <2>1 DEF UnsignedValues
  <2> QED BY <1>2, <1>9, <2>2
<1>11. Shorter(s, j - a)
  <2>1. ASSUME NEW h \in Body(s), NEW k \in 0..Len(s), h <= k, k - h < j - a
        PROVE  AllRight(s, h, k)
    <3>1. h \in Nat /\ k \in Nat
      BY BodyPlace
    <3>2. k - h < j - i
      BY <1>1, <1>2, <1>8, <1>9, <2>1, <3>1
    <3> QED BY <2>1, <3>2 DEF Shorter
  <2> QED BY <2>1 DEF Shorter
<1>12. Finds(u, x, j + 1)
  <2>1. j \in a..Len(s)
    BY <1>2, <1>9, <1>10
  <2> QED BY <1>4, <1>7, <1>8, <1>11, <2>1, UnsignedRight
<1> HIDE DEF u, r, minus
<1>13. minus \in BOOLEAN
  BY DEF minus
<1>14. u \in Results /\ u.ok /\ SameValue(x, u.v) /\ u.pos = j + 1
  BY <1>12 DEF Finds
<1>15. /\ r \in Results /\ r.ok = u.ok /\ r.pos = u.pos
       /\ r.v = IF u.ok /\ minus THEN Minus(u.v) ELSE u.v
  <2>1. /\ Signed(minus, u) \in Results
        /\ Signed(minus, u).ok = u.ok /\ Signed(minus, u).pos = u.pos
        /\ Signed(minus, u).v = IF u.ok /\ minus THEN Minus(u.v) ELSE u.v
    <3>1. \A neg \in BOOLEAN, q \in Results :
            /\ Signed(neg, q) \in Results
            /\ Signed(neg, q).ok = q.ok /\ Signed(neg, q).pos = q.pos
            /\ Signed(neg, q).v = IF q.ok /\ neg THEN Minus(q.v) ELSE q.v
      BY SignedType
    <3>2. u \in Results
      BY <1>14
    <3> QED BY <1>13, <3>1, <3>2, Zenon
  <2>2. r = Signed(minus, u)
    BY <1>4
  <2> QED BY <2>1, <2>2, Zenon
<1>16. x \in Fractions /\ u.v \in Fractions
  BY <1>2, <1>7, <1>9, <1>14, MeaningsAre, ResultFields
<1>17. SameValue(v, r.v)
  BY <1>7, <1>13, <1>14, <1>15, <1>16, SameMinus
<1>18. Finds(r, v, j + 1)
  BY <1>14, <1>15, <1>17 DEF Finds
<1> QED BY <1>18 DEF r

\* A term and one more factor.
LEMMA ProductIsRight ==
  ASSUME NEW V, NEW s \in Seq(V), BlanksLead(s), NEW i \in Body(s), NEW j \in i..Len(s),
         Shorter(s, j - i), NEW k \in (i + 1)..j,
         s[k] \in {"*", "/"} \/ StartsFactor(s[k]),
         Fresh(s, i), Stop(s, k - 1), Fresh(s, FactorPlace(s, k)), Stop(s, j),
         NEW a \in TermOf(s, i, k - 1), NEW f \in FactorOf(s, FactorPlace(s, k), j),
         Divides(s, k) => ~NearZero(f),
         NEW v, v = IF Divides(s, k) THEN Over(a, f) ELSE Times(a, f)
  PROVE  \E w \in Fractions : /\ SameValue(v, w)
                              /\ Call(s, "term", i, Zero) = Call(s, "products", j + 1, w)
<1> DEFINE c == k - 1
           next == FactorPlace(s, k)
           rhs == Call(s, "factor", next, Zero)
<1>1. /\ Len(s) \in Nat /\ Start(s) \in Nat /\ 1 <= Start(s) /\ Start(s) <= i
      /\ i \in Nat /\ i \in Positions(s)
  BY BodyPlace
<1>2. /\ j \in Nat /\ i <= j /\ j <= Len(s) /\ k \in 1..Len(s) /\ j \in 0..Len(s)
      /\ c \in 0..Len(s) /\ i <= c /\ c - i < j - i /\ c + 1 = k /\ k \in Nat /\ i < k /\ k <= j
  BY <1>1
<1>3. k \in Body(s) /\ CharAt(s, k) = s[k]
  <2>1. k \in Positions(s)
    BY <1>1, <1>2 DEF Positions
  <2>2. Start(s) <= k
    BY <1>1, <1>2
  <2> QED BY <1>2, <2>1, <2>2, BodyPlace DEF CharAt
<1>4. next \in Body(s) /\ k <= next
  <2>1. CASE s[k] \in {"*", "/"}
    <3>1. k + 1 \in Body(s) /\ next = k + 1
      BY <1>3, <2>1, AfterChar DEF FactorPlace
    <3>2. k <= k + 1
      BY <1>2
    <3> QED BY <3>1, <3>2
  <2>2. CASE s[k] \notin {"*", "/"}
    BY <1>2, <1>3, <2>2 DEF FactorPlace
  <2> QED BY <2>1, <2>2
<1>5. a \in TermOf(s, i, c) /\ Stop(s, c)
  OBVIOUS
<1> HIDE DEF c
<1>6. TermRight(s, i, c)
  BY <1>2, ShorterRight
<1>7. PICK x \in Fractions : SameValue(a, x) /\ Call(s, "term", i, Zero) = Call(s, "products", k, x)
  <2>1. \E x \in Fractions : SameValue(a, x)
                             /\ Call(s, "term", i, Zero) = Call(s, "products", c + 1, x)
    BY <1>5, <1>6, Zenon DEF TermRight
  <2> QED BY <1>2, <2>1
<1> HIDE DEF next
<1>8. next \in Nat /\ next \in Positions(s)
  BY <1>4, BodyPlace
<1>9. f \in FactorOf(s, next, j) /\ Fresh(s, next)
  BY DEF next
<1>10. next <= j
  <2>1. FactorOf(s, next, j) # {} => ~(next > j)
    BY DEF FactorOf, FactorValues
  <2> QED BY <1>2, <1>8, <1>9, <2>1
<1>11. FactorRight(s, next, j)
  <2>1. j - next < j - i
    BY <1>1, <1>2, <1>4, <1>8
  <2> QED BY <1>2, <1>4, <1>10, <2>1, ShorterRight
<1>12. Finds(rhs, f, j + 1)
  BY <1>9, <1>11, Zenon DEF FactorRight
<1>13. rhs \in Results /\ rhs.ok /\ SameValue(f, rhs.v) /\ rhs.pos = j + 1
  BY <1>12 DEF Finds
<1>14. a \in Fractions /\ f \in Fractions /\ rhs.v \in Fractions
  BY <1>1, <1>2, <1>5, <1>8, <1>9, <1>13, MeaningsAre, ResultFields
<1>15. (NearZero(f) <=> NearZero(rhs.v)) /\ SameValue(Over(a, f), Over(x, rhs.v))
  BY <1>7, <1>13, <1>14, SameOver, SameNearZero
<1>16. SameValue(Times(a, f), Times(x, rhs.v))
  BY <1>7, <1>13, <1>14, SameTimes
<1>17. rhs = Call(s, "factor", FactorPlace(s, k), Zero)
  BY DEF next
<1>18. Call(s, "products", k, x) =
           IF ~rhs.ok THEN rhs
           ELSE IF Divides(s, k) /\ NearZero(rhs.v) THEN None("DivideByZero")
           ELSE Call(s, "products", rhs.pos, IF Divides(s, k) THEN Over(x, rhs.v) ELSE Times(x, rhs.v))
  BY <1>3, <1>17, ProductsGoOn
<1> DEFINE w == IF Divides(s, k) THEN Over(x, rhs.v) ELSE Times(x, rhs.v)
<1>19. w \in Fractions
  BY <1>14, <1>15, NotNearZero, OverType, TimesType
<1>20. SameValue(v, w)
  BY <1>15, <1>16
<1> HIDE DEF rhs
<1>21. Call(s, "products", k, x) = Call(s, "products", j + 1, w)
  BY <1>13, <1>15, <1>18
<1> QED BY <1>7, <1>19, <1>20, <1>21

LEMMA TermIsRight ==
  ASSUME NEW V, NEW s \in Seq(V), BlanksLead(s), NEW i \in Body(s), NEW j \in i..Len(s),
         Shorter(s, j - i), FactorRight(s, i, j)
  PROVE  TermRight(s, i, j)
<1> DEFINE M == Language(s)
           Goal(v) == \E w \in Fractions : /\ SameValue(v, w)
                              /\ Call(s, "term", i, Zero) = Call(s, "products", j + 1, w)
<1> SUFFICES ASSUME Fresh(s, i), Stop(s, j), NEW v \in TermOf(s, i, j) PROVE Goal(v)
  BY DEF TermRight
<1>1. /\ Len(s) \in Nat /\ Start(s) \in Nat /\ 1 <= Start(s) /\ Start(s) <= i
      /\ i \in Nat /\ i \in Positions(s)
  BY BodyPlace
<1>2. j \in Nat /\ i <= j /\ j <= Len(s) /\ i \in 1..Len(s) /\ j \in 0..Len(s)
  BY <1>1
<1>3. v \in TermValues(s, M, i, j)
  BY <1>1, <1>2, MeaningsAre
<1>4. \/ v \in FactorValues(s, M, i, j)
      \/ \E k \in i..j : s[k] = "*" /\ v \in ProductValues(s, M, i, k, k + 1, j)
      \/ \E k \in i..j : s[k] = "/" /\ v \in QuotientValues(s, M, i, k, j)
      \/ \E k \in (i + 1)..j : Follows(s, k) /\ v \in ProductValues(s, M, i, k, k, j)
  BY <1>3, InTerm
<1>5. ASSUME NEW k \in i..j, NEW a \in M[<<"term", i, k - 1>>]
      PROVE  k \in (i + 1)..j /\ a \in TermOf(s, i, k - 1) /\ k \in Int /\ CharAt(s, k) = s[k]
  <2> DEFINE c == k - 1
  <2>1. c \in 0..Len(s) /\ k <= Len(s)
    BY <1>1, <1>2
  <2>2. a \in TermOf(s, i, c)
    BY DEF TermOf
  <2>3. ~(i > c)
    <3> HIDE DEF c
    <3> QED BY <1>1, <2>1, <2>2, MeaningsAre
  <2> QED BY <1>1, <1>2, <2>1, <2>2, <2>3 DEF CharAt
<1>6. CASE v \in FactorValues(s, M, i, j)
  <2> DEFINE r == Call(s, "factor", i, Zero)
  <2>1. Finds(r, v, j + 1)
    BY <1>6, Zenon DEF FactorRight, FactorOf
  <2>2. r \in Results /\ r.ok /\ SameValue(v, r.v) /\ r.pos = j + 1
    BY <2>1 DEF Finds
  <2>3. r.v \in Fractions
    BY <2>2, ResultFields
  <2>4. Call(s, "term", i, Zero) = Call(s, "products", j + 1, r.v)
    BY <2>2, TermGoes
  <2> QED BY <2>2, <2>3, <2>4
<1>7. ASSUME NEW k \in i..j, s[k] = "*", v \in ProductValues(s, M, i, k, k + 1, j)
      PROVE  Goal(v)
  <2>1. PICK a \in M[<<"term", i, k - 1>>], f \in FactorValues(s, M, k + 1, j) : v = Times(a, f)
    BY <1>7 DEF ProductValues
  <2>2. k \in (i + 1)..j /\ a \in TermOf(s, i, k - 1) /\ k \in Int /\ CharAt(s, k) = s[k]
    BY <1>5
  <2>3. FactorPlace(s, k) = k + 1 /\ ~Divides(s, k)
    BY <1>7, <2>2 DEF FactorPlace, Divides
  <2>4. Stop(s, k - 1) /\ Fresh(s, FactorPlace(s, k))
    BY <1>7, <2>2, <2>3, Signs, StopBefore, FreshAfter
  <2>5. f \in FactorOf(s, FactorPlace(s, k), j) /\ v = IF Divides(s, k) THEN Over(a, f) ELSE Times(a, f)
    BY <2>1, <2>3 DEF FactorOf
  <2>6. s[k] \in {"*", "/"} \/ StartsFactor(s[k])
    BY <1>7
  <2> QED BY <2>2, <2>3, <2>4, <2>5, <2>6, ProductIsRight
<1>8. ASSUME NEW k \in i..j, s[k] = "/", v \in QuotientValues(s, M, i, k, j)
      PROVE  Goal(v)
  <2>1. PICK a \in M[<<"term", i, k - 1>>], f \in FactorValues(s, M, k + 1, j) :
               ~NearZero(f) /\ v = Over(a, f)
    BY <1>8 DEF QuotientValues
  <2>2. k \in (i + 1)..j /\ a \in TermOf(s, i, k - 1) /\ k \in Int /\ CharAt(s, k) = s[k]
    BY <1>5
  <2>3. FactorPlace(s, k) = k + 1 /\ Divides(s, k)
    BY <1>8, <2>2 DEF FactorPlace, Divides
  <2>4. Stop(s, k - 1) /\ Fresh(s, FactorPlace(s, k))
    BY <1>8, <2>2, <2>3, Signs, StopBefore, FreshAfter
  <2>5. f \in FactorOf(s, FactorPlace(s, k), j) /\ v = IF Divides(s, k) THEN Over(a, f) ELSE Times(a, f)
    BY <2>1, <2>3 DEF FactorOf
  <2>6. s[k] \in {"*", "/"} \/ StartsFactor(s[k])
    BY <1>8
  <2> QED BY <2>1, <2>2, <2>3, <2>4, <2>5, <2>6, ProductIsRight
<1>9. ASSUME NEW k \in (i + 1)..j, Follows(s, k), v \in ProductValues(s, M, i, k, k, j)
      PROVE  Goal(v)
  <2>1. PICK a \in M[<<"term", i, k - 1>>], f \in FactorValues(s, M, k, j) : v = Times(a, f)
    BY <1>9 DEF ProductValues
  <2>0. k \in i..j
    BY <1>1
  <2>2. k \in (i + 1)..j /\ a \in TermOf(s, i, k - 1) /\ k \in Int /\ CharAt(s, k) = s[k]
    BY <1>5, <2>0
  <2>3. StartsFactor(s[k]) /\ ~Continues(s, k)
    BY <1>9 DEF Follows
  <2>4. FactorPlace(s, k) = k /\ ~Divides(s, k)
    BY <2>2, <2>3, Signs DEF FactorPlace, Divides
  <2>5. Stop(s, k - 1) /\ Fresh(s, FactorPlace(s, k))
    <3>1. (k - 1) + 1 = k
      BY <2>2
    <3> QED BY <2>3, <2>4, <3>1 DEF Stop, Fresh
  <2>6. f \in FactorOf(s, FactorPlace(s, k), j) /\ v = IF Divides(s, k) THEN Over(a, f) ELSE Times(a, f)
    BY <2>1, <2>4 DEF FactorOf
  <2> QED BY <2>2, <2>3, <2>4, <2>5, <2>6, ProductIsRight
<1> HIDE DEF Goal
<1> QED BY <1>4, <1>6, <1>7, <1>8, <1>9

LEMMA ExprIsRight ==
  ASSUME NEW V, NEW s \in Seq(V), BlanksLead(s), NEW i \in Body(s), NEW j \in i..Len(s),
         Shorter(s, j - i), TermRight(s, i, j)
  PROVE  ExprRight(s, i, j)
<1> DEFINE M == Language(s)
           Goal(v) == \E w \in Fractions : /\ SameValue(v, w)
                              /\ Call(s, "expression", i, Zero) = Call(s, "sums", j + 1, w)
<1> SUFFICES ASSUME Fresh(s, i), Ends(s, j), NEW v \in ExprOf(s, i, j) PROVE Goal(v)
  BY DEF ExprRight
<1>1. /\ Len(s) \in Nat /\ Start(s) \in Nat /\ 1 <= Start(s) /\ Start(s) <= i
      /\ i \in Nat /\ i \in Positions(s)
  BY BodyPlace
<1>2. j \in Nat /\ i <= j /\ j <= Len(s) /\ i \in 1..Len(s) /\ j \in 0..Len(s) /\ j + 1 \in Body(s)
  BY <1>1 DEF Body
<1>3. v \in ExprValues(s, M, i, j)
  BY <1>1, <1>2, MeaningsAre
<1>4. \/ v \in M[<<"term", i, j>>]
      \/ \E k \in i..j : s[k] \in {"+", "-"} /\ v \in SumValues(s, M, i, k, j)
  BY <1>3, InExpr
<1>5. Stop(s, j)
  BY EndsStop
<1>6. ASSUME NEW x \in Fractions PROVE Call(s, "products", j + 1, x) = Some(x, j + 1)
  <2>1. CharAt(s, j + 1) \notin {"*", "/"} /\ ~StartsFactor(CharAt(s, j + 1))
    <3>1. CASE j = Len(s)
      <4>1. CharAt(s, j + 1) = "end"
        BY <3>1, EndChar
      <4> QED BY <4>1, Signs
    <3>2. CASE j # Len(s)
      <4>1. j + 1 <= Len(s)
        BY <1>1, <1>2, <3>2
      <4> QED BY <3>2, <4>1 DEF CharAt, Ends
    <3> QED BY <3>1, <3>2
  <2> QED BY <1>2, <2>1, ProductsStop
<1>7. j + 1 \in Nat
  BY <1>2
<1>8. CASE v \in M[<<"term", i, j>>]
  <2>1. v \in TermOf(s, i, j)
    BY <1>8 DEF TermOf
  <2>2. PICK w \in Fractions : /\ SameValue(v, w)
                               /\ Call(s, "term", i, Zero) = Call(s, "products", j + 1, w)
    BY <1>5, <2>1, Zenon DEF TermRight
  <2>3. Call(s, "term", i, Zero) = Some(w, j + 1)
    BY <1>6, <2>2
  <2>4. Call(s, "expression", i, Zero) = Call(s, "sums", j + 1, w)
    <3> DEFINE first == Call(s, "term", i, Zero)
    <3>1. first.ok /\ first.pos = j + 1 /\ first.v = w
      BY <1>7, <2>3, SomeType
    <3> QED BY <3>1, ExpressionGoes
  <2> QED BY <2>2, <2>4
<1>9. ASSUME NEW k \in i..j, s[k] \in {"+", "-"}, v \in SumValues(s, M, i, k, j)
      PROVE  Goal(v)
  <2> DEFINE c == k - 1
             a == k + 1
             minus == CharAt(s, k) = "-"
             rhs == Call(s, "term", a, Zero)
  <2>1. PICK x \in M[<<"expr", i, c>>], y \in M[<<"term", a, j>>] :
               v = Plus(x, IF s[k] = "-" THEN Minus(y) ELSE y)
    BY <1>9, SMTT(30) DEF SumValues
  <2>2. /\ k \in 1..Len(s) /\ c \in 0..Len(s) /\ c + 1 = k /\ c - i < j - i /\ j - a < j - i
        /\ k \in Int /\ k <= Len(s) /\ k \in Body(s)
    BY <1>1, <1>2 DEF Body
  <2>3. CharAt(s, k) = s[k]
    BY <2>2 DEF CharAt
  <2>4. a \in Body(s)
    BY <1>9, <2>2, <2>3, AfterChar
  <2>5. Fresh(s, a)
    BY <1>9, <2>2, Signs, FreshAfter
  <2>6. Ends(s, c)
    BY <1>9, <2>2, Signs DEF Ends
  <2>7. x \in ExprOf(s, i, c) /\ y \in TermOf(s, a, j)
    BY <2>1 DEF ExprOf, TermOf
  <2>8. v = Plus(x, IF minus THEN Minus(y) ELSE y)
    BY <2>1, <2>3
  <2> HIDE DEF a, c
  <2>9. a \in Positions(s) /\ a \in Int
    BY <2>4, BodyPlace
  <2>10. x \in Fractions /\ y \in Fractions /\ i <= c /\ a <= j
    <3>1. x \in Fractions /\ ~(i > c)
      BY <1>1, <2>2, <2>7, MeaningsAre
    <3>2. y \in Fractions /\ ~(a > j)
      BY <1>2, <2>7, <2>9, MeaningsAre
    <3> QED BY <1>1, <1>2, <2>2, <2>9, <3>1, <3>2
  <2>11. ExprRight(s, i, c) /\ TermRight(s, a, j)
    BY <1>2, <2>2, <2>4, <2>10, ShorterRight
  <2>12. PICK p \in Fractions : SameValue(x, p)
                                /\ Call(s, "expression", i, Zero) = Call(s, "sums", k, p)
    <3>1. \E p \in Fractions : SameValue(x, p)
                               /\ Call(s, "expression", i, Zero) = Call(s, "sums", c + 1, p)
      BY <2>6, <2>7, <2>11, Zenon DEF ExprRight
    <3> QED BY <2>2, <3>1
  <2>13. PICK q \in Fractions : SameValue(y, q) /\ rhs = Call(s, "products", j + 1, q)
    BY <1>5, <2>5, <2>7, <2>11, Zenon DEF TermRight
  <2>14. rhs = Some(q, j + 1)
    BY <1>6, <2>13
  <2>15. rhs \in Results /\ rhs.ok /\ rhs.v = q /\ rhs.pos = j + 1
    BY <1>7, <2>14, SomeType
  <2>16. rhs = Call(s, "term", k + 1, Zero)
    BY DEF a
  <2>17. Call(s, "sums", k, p) =
           IF rhs.ok THEN Call(s, "sums", rhs.pos, Plus(p, Signed(minus, rhs).v)) ELSE rhs
    BY <1>9, <2>2, <2>3, <2>16, SumsGoOn
  <2> HIDE DEF minus, rhs
  <2>18. minus \in BOOLEAN
    BY DEF minus
  <2>19. Signed(minus, rhs).v = IF minus THEN Minus(q) ELSE q
    BY <2>15, <2>18, SignedType
  <2> DEFINE w == Plus(p, IF minus THEN Minus(q) ELSE q)
  <2>20. SameValue(v, w) /\ w \in Fractions
    <3>1. CASE minus
      <4>1. Minus(y) \in Fractions /\ Minus(q) \in Fractions /\ SameValue(Minus(y), Minus(q))
        BY <2>10, <2>13, MinusType, SameMinus
      <4> QED BY <2>8, <2>10, <2>12, <3>1, <4>1, PlusType, SamePlus
    <3>2. CASE ~minus
      BY <2>8, <2>10, <2>12, <2>13, <3>2, PlusType, SamePlus
    <3> QED BY <3>1, <3>2
  <2>21. Call(s, "sums", k, p) = Call(s, "sums", j + 1, w)
    BY <2>15, <2>17, <2>19
  <2> QED BY <2>12, <2>20, <2>21
<1> HIDE DEF Goal
<1> QED BY <1>4, <1>8, <1>9

\* By the length of the part: a rule that starts where it starts finds its meaning.
LEMMA EveryMeaning ==
  ASSUME NEW V, NEW s \in Seq(V), BlanksLead(s), NEW i \in Body(s), NEW j \in i..Len(s)
  PROVE  AllRight(s, i, j)
<1> DEFINE T == {n \in Nat : Shorter(s, n)}
<1>1. 0 \in T
  <2>1. ASSUME NEW h \in Body(s), NEW k \in 0..Len(s), h <= k, k - h < 0 PROVE FALSE
    BY <2>1, BodyPlace
  <2> QED BY <2>1 DEF Shorter
<1>2. ASSUME NEW n \in Nat, n \in T PROVE n + 1 \in T
  <2>1. Shorter(s, n)
    BY <1>2
  <2>2. ASSUME NEW h \in Body(s), NEW k \in 0..Len(s), h <= k, k - h < n + 1
        PROVE  AllRight(s, h, k)
    <3>1. h \in Nat /\ k \in Nat
      BY BodyPlace
    <3>2. k - h < n \/ k - h = n
      BY <2>2, <3>1
    <3>3. CASE k - h < n
      BY <2>1, <2>2, <3>3 DEF Shorter
    <3>4. CASE k - h = n
      <4>1. k \in h..Len(s) /\ Shorter(s, k - h)
        BY <2>1, <2>2, <3>1, <3>4
      <4>2. FactorRight(s, h, k)
        BY <4>1, FactorIsRight
      <4>3. TermRight(s, h, k)
        BY <4>1, <4>2, TermIsRight
      <4>4. ExprRight(s, h, k)
        BY <4>1, <4>3, ExprIsRight
      <4> QED BY <4>2, <4>3, <4>4 DEF AllRight
    <3> QED BY <3>2, <3>3, <3>4
  <2>3. Shorter(s, n + 1)
    BY <2>2 DEF Shorter
  <2> QED BY <2>3
<1> HIDE DEF T
<1>3. Nat \subseteq T
  BY <1>1, <1>2, Induction
<1>4. i \in Nat /\ j \in Nat /\ i <= j /\ j \in 0..Len(s)
  BY BodyPlace
<1>5. j - i + 1 \in Nat /\ j - i < j - i + 1
  BY <1>4
<1>6. Shorter(s, j - i + 1)
  BY <1>3, <1>5 DEF T
<1> QED BY <1>4, <1>5, <1>6, Zenon DEF Shorter

-----------------------------------------------------------------------------
(* What the parser finds has a meaning *)

FactorMeant(s, p) ==
  Fresh(s, p) /\ Call(s, "factor", p, Zero).ok =>
    /\ FactorOf(s, p, Call(s, "factor", p, Zero).pos - 1) # {}
    /\ Stop(s, Call(s, "factor", p, Zero).pos - 1)
ProductsMeant(s, p) ==
  \A i \in Body(s), v \in Fractions :
    TermOf(s, i, p - 1) # {} /\ Stop(s, p - 1) /\ Call(s, "products", p, v).ok =>
      /\ TermOf(s, i, Call(s, "products", p, v).pos - 1) # {}
      /\ Ends(s, Call(s, "products", p, v).pos - 1)
TermMeant(s, p) ==
  Fresh(s, p) /\ Call(s, "term", p, Zero).ok =>
    /\ TermOf(s, p, Call(s, "term", p, Zero).pos - 1) # {}
    /\ Ends(s, Call(s, "term", p, Zero).pos - 1)
SumsMeant(s, p) ==
  \A i \in Body(s), v \in Fractions :
    ExprOf(s, i, p - 1) # {} /\ Call(s, "sums", p, v).ok =>
      ExprOf(s, i, Call(s, "sums", p, v).pos - 1) # {}
ExprMeant(s, p) ==
  Fresh(s, p) /\ Call(s, "expression", p, Zero).ok =>
    ExprOf(s, p, Call(s, "expression", p, Zero).pos - 1) # {}
AllMeant(s, p) ==
  /\ FactorMeant(s, p) /\ ProductsMeant(s, p) /\ TermMeant(s, p) /\ SumsMeant(s, p)
  /\ ExprMeant(s, p)
LaterMeant(s, p) == \A q \in Body(s) : p < q => AllMeant(s, q)

LEMMA Later ==
  ASSUME NEW s, NEW p, LaterMeant(s, p), NEW q \in Body(s), p < q
  PROVE  /\ FactorMeant(s, q) /\ ProductsMeant(s, q) /\ TermMeant(s, q) /\ SumsMeant(s, q)
         /\ ExprMeant(s, q)
BY Zenon DEF LaterMeant, AllMeant

LEMMA UnsignedMeant ==
  ASSUME NEW V, NEW s \in Seq(V), BlanksLead(s), NEW a \in Body(s), LaterMeant(s, a),
         NEW u, u = Unsigned(s, Parser(s), a), u.ok
  PROVE  /\ u \in Results /\ u.pos \in (a + 1)..(Len(s) + 1)
         /\ UnsignedOf(s, a, u.pos - 1) # {}
         /\ Stop(s, u.pos - 1)
<1> DEFINE M == Language(s)
           j == u.pos - 1
<1>1. /\ Len(s) \in Nat /\ Start(s) \in Nat /\ 1 <= Start(s) /\ Start(s) <= a
      /\ a \in Nat /\ a \in Positions(s)
  BY BodyPlace
<1>2. u \in Results /\ u.pos \in (a + 1)..(Len(s) + 1)
  BY <1>1, ParserFixed, UnsignedGives
<1>3. u.pos = j + 1 /\ j \in a..Len(s) /\ j \in Nat
  <2> DEFINE e == u.pos
  <2>1. e \in (a + 1)..(Len(s) + 1)
    BY <1>2
  <2> HIDE DEF e
  <2>2. e = (e - 1) + 1 /\ e - 1 \in a..Len(s) /\ e - 1 \in Nat
    BY <1>1, <2>1
  <2> QED BY <2>2 DEF e
<1> HIDE DEF j
<1>4. ~(a > j) /\ a <= Len(s)
  BY <1>1, <1>3
<1>5. CharAt(s, a) = s[a]
  BY <1>4 DEF CharAt
<1>6. CASE CharAt(s, a) # LeftParen
  <2>1. u = NumberAt(s, a)
    BY <1>6 DEF Unsigned
  <2>2. /\ u.pos = NumberEnd(s, a) /\ NumberText(SubSeq(s, a, NumberEnd(s, a) - 1))
        /\ u.v = NumberOf(SubSeq(s, a, NumberEnd(s, a) - 1)) /\ InRange(u.v)
    BY <1>1, <2>1, NumberAtGives
  <2>3. NumberEnd(s, a) - 1 = j
    BY <1>3, <2>2
  <2>4. NumberText(SubSeq(s, a, j)) /\ InRange(NumberOf(SubSeq(s, a, j)))
    BY <2>2, <2>3
  <2>5. NumberOf(SubSeq(s, a, j)) \in UnsignedOf(s, a, j)
    BY <1>4, <2>4, InUnsigned DEF UnsignedOf
  <2>6. Stop(s, j)
    BY <1>1, <2>3, NumberEndsThere
  <2> QED BY <1>2, <2>5, <2>6 DEF j
<1>7. CASE CharAt(s, a) = LeftParen
  <2> DEFINE inner == Call(s, "expression", a + 1, Zero)
  <2>1. /\ a + 1 \in Body(s)
        /\ u = IF ~inner.ok THEN inner
               ELSE IF CharAt(s, inner.pos) = RightParen THEN Some(inner.v, inner.pos + 1) ELSE Invalid
    BY <1>7, BracketGoes
  <2>2. "expression" \in Rules
    BY DEF Rules
  <2>3. inner.ok /\ CharAt(s, inner.pos) = RightParen /\ u = Some(inner.v, inner.pos + 1)
    BY <2>1, ResultTypes
  <2>4. inner.pos \in Body(s) /\ inner.pos \in Nat /\ inner.v \in Fractions
    BY <2>1, <2>2, <2>3, CallStops, ZeroType
  <2>5. u.pos = inner.pos + 1
    BY <2>3, <2>4, SomeType
  <2>6. inner.pos = j
    BY <1>3, <2>4, <2>5
  <2>7. Fresh(s, a + 1)
    <3>1. ~InNumber(s[a])
      BY <1>5, <1>7, Signs
    <3> QED BY <1>1, <3>1, FreshAfter
  <2>8. ExprMeant(s, a + 1)
    BY <1>1, <2>1, Later
  <2>9. ExprOf(s, a + 1, j - 1) # {}
    BY <2>3, <2>6, <2>7, <2>8, Zenon DEF ExprMeant
  <2>10. j \in 1..Len(s) /\ CharAt(s, j) = s[j]
    BY <2>3, <2>4, <2>6, AfterChar, Marks
  <2>11. UnsignedOf(s, a, j) # {}
    <3>1. s[a] = LeftParen /\ s[j] = RightParen
      BY <1>5, <1>7, <2>3, <2>6, <2>10
    <3>2. ~NumberText(SubSeq(s, a, j))
      <4>1. ~InNumber(s[a])
        BY <3>1, Signs
      <4>2. a \in 1..Len(s) /\ j \in a..Len(s) /\ a \in a..j
        BY <1>1, <1>3, <1>4
      <4> QED BY <4>1, <4>2, NumberTextChars
    <3>3. PICK v \in M[<<"expr", a + 1, j - 1>>] : TRUE
      BY <2>9 DEF ExprOf
    <3>4. v \in UnsignedValues(s, M, a, j)
      BY <1>4, <3>1, <3>2, <3>3, InUnsigned
    <3> QED BY <3>4 DEF UnsignedOf
  <2>12. Stop(s, j)
    <3>1. ~InNumber(s[j])
      BY <2>3, <2>6, <2>10, Signs
    <3>2. (j + 1) - 1 = j
      BY <1>3
    <3> QED BY <3>1, <3>2 DEF Stop, Continues
  <2> QED BY <1>2, <2>11, <2>12 DEF j
<1> QED BY <1>6, <1>7

LEMMA FactorIsMeant ==
  ASSUME NEW V, NEW s \in Seq(V), BlanksLead(s), NEW p \in Body(s), LaterMeant(s, p)
  PROVE  FactorMeant(s, p)
<1> DEFINE M == Language(s)
           r == Call(s, "factor", p, Zero)
           a == OperandAt(s, p)
           u == Unsigned(s, Parser(s), a)
           minus == CharAt(s, p) = "-"
<1> SUFFICES ASSUME Fresh(s, p), r.ok
             PROVE  FactorOf(s, p, r.pos - 1) # {} /\ Stop(s, r.pos - 1)
  BY DEF FactorMeant
<1>1. /\ Len(s) \in Nat /\ Start(s) \in Nat /\ 1 <= Start(s) /\ Start(s) <= p
      /\ p \in Nat /\ p \in Positions(s)
  BY BodyPlace
<1>2. a \in Body(s) /\ r = Signed(minus, u)
  BY FactorGoes
<1>3. a \in Nat /\ a \in Positions(s)
  BY <1>2, BodyPlace
<1>4. p <= a
  BY <1>1 DEF OperandAt
<1>5. u \in Results
  BY <1>3, ParserFixed, UnsignedGives
<1>6. minus \in BOOLEAN
  OBVIOUS
<1> HIDE DEF minus, u, r
<1>7. r.ok = u.ok /\ r.pos = u.pos
  BY <1>2, <1>5, <1>6, SignedType
<1>8. LaterMeant(s, a)
  <2> HIDE DEF a
  <2>1. \A q \in Body(s) : q \in Nat
    BY BodyPlace
  <2>2. \A q \in Body(s) : a < q => p < q
    BY <1>1, <1>3, <1>4, <2>1
  <2> QED BY <2>2 DEF LaterMeant
<1>9. /\ u.pos \in (a + 1)..(Len(s) + 1) /\ UnsignedOf(s, a, u.pos - 1) # {}
      /\ Stop(s, u.pos - 1)
  <2>1. u = Unsigned(s, Parser(s), a) /\ u.ok
    BY <1>7 DEF u
  <2> HIDE DEF a
  <2> QED BY <1>2, <1>8, <2>1, UnsignedMeant
<1> DEFINE j == u.pos - 1
<1>10. j \in a..Len(s)
  <2> DEFINE e == u.pos
  <2>1. e \in (a + 1)..(Len(s) + 1)
    BY <1>9
  <2> HIDE DEF e, a
  <2>2. e - 1 \in a..Len(s)
    BY <1>1, <1>3, <2>1
  <2> QED BY <2>2 DEF e
<1>11. UnsignedOf(s, a, j) # {} /\ Stop(s, j)
  BY <1>9
<1>12. r.pos - 1 = j
  BY <1>7
<1> HIDE DEF j
<1>13. ~(p > j) /\ p <= Len(s)
  <2> HIDE DEF a
  <2> QED BY <1>1, <1>3, <1>4, <1>10
<1>14. CharAt(s, p) = s[p]
  BY <1>13 DEF CharAt
<1>15. FactorOf(s, p, j) # {}
  <2>1. CASE s[p] = "-"
    <3>1. a = p + 1
      BY <1>14, <2>1 DEF OperandAt
    <3> QED BY <1>11, <1>13, <2>1, <3>1 DEF FactorOf, FactorValues, UnsignedOf
  <2>2. CASE s[p] = "+"
    <3>1. a = p + 1
      BY <1>14, <2>2 DEF OperandAt
    <3> QED BY <1>11, <1>13, <2>2, <3>1 DEF FactorOf, FactorValues, UnsignedOf
  <2>3. CASE s[p] \notin {"+", "-"}
    <3>1. a = p
      BY <1>14, <2>3 DEF OperandAt
    <3> QED BY <1>11, <1>13, <2>3, <3>1 DEF FactorOf, FactorValues, UnsignedOf
  <2> QED BY <2>1, <2>2, <2>3
<1> QED BY <1>11, <1>12, <1>15

LEMMA FactorInTerm ==
  ASSUME NEW V, NEW s \in Seq(V), NEW i \in Positions(s), NEW j \in 0..Len(s), i <= j,
         FactorOf(s, i, j) # {}
  PROVE  TermOf(s, i, j) # {}
<1>1. ~(i > j)
  BY PositionTypes
<1>2. TermOf(s, i, j) = TermValues(s, Language(s), i, j)
  BY <1>1, MeaningsAre
<1> QED BY <1>2, InTerm DEF FactorOf

LEMMA ProductInTerm ==
  ASSUME NEW V, NEW s \in Seq(V), NEW i \in Positions(s), NEW j \in 0..Len(s),
         NEW k \in (i + 1)..j, s[k] \in {"*", "/"} \/ Follows(s, k),
         NEW a \in TermOf(s, i, k - 1), NEW f \in FactorOf(s, FactorPlace(s, k), j),
         Divides(s, k) => ~NearZero(f)
  PROVE  TermOf(s, i, j) # {}
<1> DEFINE M == Language(s)
<1>1. Len(s) \in Nat /\ i \in Nat /\ 1 <= i /\ j \in Nat /\ j <= Len(s)
  BY PositionTypes
<1>2. ~(i > j) /\ k \in i..j /\ k <= Len(s)
  BY <1>1
<1>3. TermOf(s, i, j) = TermValues(s, M, i, j)
  BY <1>1, <1>2, MeaningsAre
<1>4. CharAt(s, k) = s[k]
  BY <1>2 DEF CharAt
<1>5. a \in M[<<"term", i, k - 1>>] /\ f \in FactorValues(s, M, FactorPlace(s, k), j)
  BY DEF TermOf, FactorOf
<1>6. CASE s[k] = "*"
  <2>1. FactorPlace(s, k) = k + 1
    BY <1>4, <1>6 DEF FactorPlace
  <2>2. Times(a, f) \in ProductValues(s, M, i, k, k + 1, j)
    BY <1>5, <2>1 DEF ProductValues
  <2>3. Times(a, f) \in TermValues(s, M, i, j)
    BY <1>2, <1>6, <2>2, InTerm
  <2> QED BY <1>3, <2>3
<1>7. CASE s[k] = "/"
  <2>1. FactorPlace(s, k) = k + 1 /\ ~NearZero(f)
    BY <1>4, <1>7 DEF FactorPlace, Divides
  <2>2. Over(a, f) \in QuotientValues(s, M, i, k, j)
    BY <1>5, <2>1 DEF QuotientValues
  <2>3. Over(a, f) \in TermValues(s, M, i, j)
    BY <1>2, <1>7, <2>2, InTerm
  <2> QED BY <1>3, <2>3
<1>8. CASE s[k] \notin {"*", "/"}
  <2>1. FactorPlace(s, k) = k /\ Follows(s, k)
    BY <1>4, <1>8 DEF FactorPlace
  <2>2. Times(a, f) \in ProductValues(s, M, i, k, k, j)
    BY <1>5, <2>1 DEF ProductValues
  <2>3. Times(a, f) \in TermValues(s, M, i, j)
    BY <2>1, <2>2, InTerm
  <2> QED BY <1>3, <2>3
<1> QED BY <1>6, <1>7, <1>8

LEMMA SumInExpr ==
  ASSUME NEW V, NEW s \in Seq(V), NEW i \in Positions(s), NEW j \in 0..Len(s),
         NEW k \in i..j, s[k] \in {"+", "-"},
         ExprOf(s, i, k - 1) # {}, TermOf(s, k + 1, j) # {}
  PROVE  ExprOf(s, i, j) # {}
<1> DEFINE M == Language(s)
<1>1. ~(i > j)
  BY PositionTypes
<1>2. ExprOf(s, i, j) = ExprValues(s, M, i, j)
  BY <1>1, MeaningsAre
<1>3. PICK a \in M[<<"expr", i, k - 1>>], b \in M[<<"term", k + 1, j>>] : TRUE
  BY DEF ExprOf, TermOf
<1> DEFINE v == Plus(a, IF s[k] = "-" THEN Minus(b) ELSE b)
<1>4. v \in SumValues(s, M, i, k, j)
  BY <1>3 DEF SumValues
<1> HIDE DEF v
<1>5. v \in ExprValues(s, M, i, j)
  BY <1>4, InExpr
<1> QED BY <1>2, <1>5

LEMMA TermInExpr ==
  ASSUME NEW V, NEW s \in Seq(V), NEW i \in Positions(s), NEW j \in 0..Len(s), i <= j,
         TermOf(s, i, j) # {}
  PROVE  ExprOf(s, i, j) # {}
<1>1. ~(i > j)
  BY PositionTypes
<1>2. ExprOf(s, i, j) = ExprValues(s, Language(s), i, j)
  BY <1>1, MeaningsAre
<1> QED BY <1>2, InExpr DEF TermOf

LEMMA ProductsIsMeant ==
  ASSUME NEW V, NEW s \in Seq(V), BlanksLead(s), NEW p \in Body(s), LaterMeant(s, p),
         FactorMeant(s, p)
  PROVE  ProductsMeant(s, p)
<1> SUFFICES ASSUME NEW i \in Body(s), NEW v \in Fractions, NEW r,
                    TermOf(s, i, p - 1) # {}, Stop(s, p - 1), r = Call(s, "products", p, v), r.ok
             PROVE  TermOf(s, i, r.pos - 1) # {} /\ Ends(s, r.pos - 1)
  BY DEF ProductsMeant
<1> DEFINE op == CharAt(s, p)
           c == p - 1
<1>1. /\ Len(s) \in Nat /\ Start(s) \in Nat /\ 1 <= Start(s) /\ Start(s) <= p
      /\ p \in Nat /\ p \in Positions(s) /\ p <= Len(s) + 1
      /\ i \in Nat /\ i \in Positions(s)
  BY BodyPlace
<1>2. c \in 0..Len(s) /\ c + 1 = p /\ TermOf(s, i, c) # {} /\ Stop(s, c)
  BY <1>1
<1>3. i <= c /\ i < p
  <2> HIDE DEF c
  <2>1. ~(i > c)
    BY <1>1, <1>2, MeaningsAre
  <2> QED BY <1>1, <1>2, <2>1
<1>4. CASE op \notin {"*", "/"} /\ ~StartsFactor(op)
  <2>1. r = Some(v, p)
    BY <1>4, ProductsStop
  <2>2. r.pos = p
    BY <1>1, <2>1, SomeType
  <2>3. Ends(s, c)
    <3>1. CASE p = Len(s) + 1
      BY <1>1, <3>1 DEF Ends
    <3>2. CASE p # Len(s) + 1
      <4>1. CharAt(s, p) = s[p]
        BY <1>1, <3>2 DEF CharAt
      <4> HIDE DEF c
      <4> QED BY <1>2, <1>4, <4>1 DEF Ends
    <3> QED BY <3>1, <3>2
  <2> QED BY <1>2, <2>2, <2>3
<1>5. CASE op \in {"*", "/"} \/ StartsFactor(op)
  <2> DEFINE next == FactorPlace(s, p)
             rhs == Call(s, "factor", next, Zero)
  <2>1. r = IF ~rhs.ok THEN rhs
           ELSE IF Divides(s, p) /\ NearZero(rhs.v) THEN None("DivideByZero")
           ELSE Call(s, "products", rhs.pos, IF Divides(s, p) THEN Over(v, rhs.v) ELSE Times(v, rhs.v))
    BY <1>5, ProductsGoOn
  <2>2. op # "end" /\ p \in 1..Len(s) /\ op = s[p] /\ p + 1 \in Body(s)
    <3>1. op # "end"
      BY <1>5, Signs
    <3> QED BY <3>1, AfterChar
  <2>3. next \in Body(s) /\ p <= next /\ Fresh(s, next) /\ FactorMeant(s, next)
    <3>1. CASE op \in {"*", "/"}
      <4>1. next = p + 1 /\ ~InNumber(s[p])
        BY <2>2, <3>1, Signs DEF FactorPlace
      <4>2. Fresh(s, p + 1) /\ p < p + 1
        BY <1>1, <4>1, FreshAfter
      <4>3. FactorMeant(s, p + 1)
        BY <2>2, <4>2, Later
      <4> QED BY <2>2, <4>1, <4>2, <4>3
    <3>2. CASE op \notin {"*", "/"}
      <4>1. next = p
        BY <3>2 DEF FactorPlace
      <4>2. ~Continues(s, p)
        <5>1. c # Len(s)
          BY <1>1, <2>2
        <5> HIDE DEF c
        <5> QED BY <1>2, <5>1 DEF Stop
      <4> QED BY <1>1, <4>1, <4>2 DEF Fresh
    <3> QED BY <3>1, <3>2
  <2> HIDE DEF op
  <2>4. rhs.ok /\ ~(Divides(s, p) /\ NearZero(rhs.v))
    BY <2>1, ResultTypes
  <2> DEFINE w == IF Divides(s, p) THEN Over(v, rhs.v) ELSE Times(v, rhs.v)
             q == rhs.pos
             j == q - 1
  <2>5. r = Call(s, "products", q, w)
    BY <2>1, <2>4
  <2>6. "factor" \in Rules /\ Takes("factor") = 1
    BY DEF Rules, Takes
  <2> HIDE DEF next
  <2>7. rhs.v \in Fractions /\ q \in Body(s) /\ q \in Nat /\ next + 1 <= q
    BY <2>3, <2>4, <2>6, CallStops, ZeroType
  <2>8. FactorOf(s, next, j) # {} /\ Stop(s, j)
    BY <2>3, <2>4, Zenon DEF FactorMeant
  <2>9. PICK f \in FactorOf(s, next, j) : TRUE
    BY <2>8
  <2>10. next \in Nat /\ next \in Positions(s)
    BY <2>3, BodyPlace
  <2>11. q \in Positions(s) /\ q <= Len(s) + 1
    BY <2>7, BodyPlace
  <2> HIDE DEF rhs
  <2>12. j \in next..Len(s) /\ j \in 0..Len(s) /\ j + 1 = q /\ p \in (i + 1)..j /\ p < q
    <3> HIDE DEF q, c
    <3> QED BY <1>1, <1>3, <2>3, <2>7, <2>10, <2>11
  <2>13. w \in Fractions
    BY <2>4, <2>7, NotNearZero, OverType, TimesType
  <2> HIDE DEF j, q, w
  <2>14. FactorRight(s, next, j)
    BY <2>3, <2>12, EveryMeaning, Zenon DEF AllRight
  <2>15. Finds(rhs, f, j + 1)
    BY <2>3, <2>8, <2>14, Zenon DEF FactorRight, rhs
  <2>16. SameValue(f, rhs.v)
    BY <2>15 DEF Finds
  <2>17. f \in Fractions
    BY <2>10, <2>12, MeaningsAre
  <2>18. NearZero(f) <=> NearZero(rhs.v)
    BY <2>7, <2>16, <2>17, SameNearZero
  <2>19. Divides(s, p) => ~NearZero(f)
    BY <2>4, <2>18
  <2>20. s[p] \in {"*", "/"} \/ Follows(s, p)
    <3>1. CASE s[p] \in {"*", "/"}
      BY <3>1
    <3>2. CASE s[p] \notin {"*", "/"}
      <4>1. StartsFactor(s[p])
        BY <1>5, <2>2, <3>2 DEF op
      <4>2. c # Len(s)
        BY <1>1, <2>2
      <4> HIDE DEF c
      <4>3. ~Continues(s, p)
        BY <1>2, <4>2 DEF Stop
      <4> QED BY <4>1, <4>3 DEF Follows
    <3> QED BY <3>1, <3>2
  <2>21. PICK a \in TermOf(s, i, p - 1) : TRUE
    OBVIOUS
  <2>22. f \in FactorOf(s, FactorPlace(s, p), j)
    BY DEF next
  <2>23. TermOf(s, i, j) # {}
    BY <1>1, <2>12, <2>19, <2>20, <2>21, <2>22, ProductInTerm
  <2>24. j = q - 1
    BY DEF j
  <2>25. ProductsMeant(s, q)
    BY <2>7, <2>12, Later DEF q
  <2>26. q \in Body(s)
    BY <2>7 DEF q
  <2>27. TermOf(s, i, q - 1) # {} /\ Stop(s, q - 1)
    BY <2>8, <2>23, <2>24
  <2> QED BY <2>5, <2>13, <2>25, <2>27, Zenon DEF ProductsMeant
<1> QED BY <1>4, <1>5

LEMMA TermIsMeant ==
  ASSUME NEW V, NEW s \in Seq(V), BlanksLead(s), NEW p \in Body(s), LaterMeant(s, p),
         FactorMeant(s, p)
  PROVE  TermMeant(s, p)
<1> DEFINE r == Call(s, "term", p, Zero)
           first == Call(s, "factor", p, Zero)
           q == first.pos
           j == q - 1
<1> SUFFICES ASSUME Fresh(s, p), r.ok PROVE TermOf(s, p, r.pos - 1) # {} /\ Ends(s, r.pos - 1)
  BY DEF TermMeant
<1>1. Len(s) \in Nat /\ p \in Nat /\ p \in Positions(s) /\ 1 <= p
  BY BodyPlace, PositionTypes
<1>2. r = IF first.ok THEN Call(s, "products", q, first.v) ELSE first
  BY TermGoes
<1>3. first.ok /\ r = Call(s, "products", q, first.v)
  BY <1>2
<1>4. "factor" \in Rules /\ Takes("factor") = 1
  BY DEF Rules, Takes
<1>5. first.v \in Fractions /\ q \in Body(s) /\ q \in Nat /\ p + 1 <= q
  BY <1>3, <1>4, CallStops, ZeroType
<1>6. FactorOf(s, p, j) # {} /\ Stop(s, j)
  BY <1>3, Zenon DEF FactorMeant
<1>7. q <= Len(s) + 1
  BY <1>5, BodyPlace
<1>8. j \in 0..Len(s) /\ p <= j /\ p < q
  <2> HIDE DEF q
  <2> QED BY <1>1, <1>5, <1>7
<1>9. TermOf(s, p, j) # {}
  <2> HIDE DEF j
  <2> QED BY <1>1, <1>6, <1>8, FactorInTerm
<1>10. ProductsMeant(s, q)
  <2> HIDE DEF q
  <2> QED BY <1>5, <1>8, Later
<1> HIDE DEF r, first
<1> QED BY <1>3, <1>5, <1>6, <1>9, <1>10, Zenon DEF ProductsMeant

LEMMA SumsIsMeant ==
  ASSUME NEW V, NEW s \in Seq(V), BlanksLead(s), NEW p \in Body(s), LaterMeant(s, p)
  PROVE  SumsMeant(s, p)
<1> SUFFICES ASSUME NEW i \in Body(s), NEW v \in Fractions, NEW r,
                    ExprOf(s, i, p - 1) # {}, r = Call(s, "sums", p, v), r.ok
             PROVE  ExprOf(s, i, r.pos - 1) # {}
  BY DEF SumsMeant
<1> DEFINE op == CharAt(s, p)
           c == p - 1
<1>1. /\ Len(s) \in Nat /\ p \in Nat /\ p \in Positions(s) /\ p <= Len(s) + 1 /\ 1 <= p
      /\ i \in Nat /\ i \in Positions(s)
  BY BodyPlace, PositionTypes
<1>2. c \in 0..Len(s)
  BY <1>1
<1>3. i <= p
  <2>1. ExprOf(s, i, c) # {}
    OBVIOUS
  <2> HIDE DEF c
  <2>2. ~(i > c)
    BY <1>1, <1>2, <2>1, MeaningsAre
  <2> QED BY <1>1, <1>2, <2>2 DEF c
<1>4. CASE op \notin {"+", "-"}
  <2>1. r = Some(v, p)
    BY <1>4, SumsStop
  <2>2. r.pos = p
    BY <1>1, <2>1, SomeType
  <2> QED BY <2>2
<1>5. CASE op \in {"+", "-"}
  <2> DEFINE rhs == Call(s, "term", p + 1, Zero)
             q == rhs.pos
             j == q - 1
             w == Plus(v, Signed(op = "-", rhs).v)
  <2>1. r = IF rhs.ok THEN Call(s, "sums", q, w) ELSE rhs
    BY <1>5, SumsGoOn
  <2>2. rhs.ok /\ r = Call(s, "sums", q, w)
    BY <2>1
  <2>3. p + 1 \in Body(s) /\ op = s[p]
    BY <1>5, AfterChar
  <2>4. "term" \in Rules /\ Takes("term") = 1
    BY DEF Rules, Takes
  <2>5. q \in Body(s) /\ q \in Nat /\ (p + 1) + 1 <= q
    BY <2>2, <2>3, <2>4, CallStops, ZeroType
  <2>6. Fresh(s, p + 1)
    <3>1. ~InNumber(s[p])
      BY <1>5, <2>3, Signs
    <3> QED BY <1>1, <3>1, FreshAfter
  <2>7. TermMeant(s, p + 1)
    <3>1. p < p + 1
      BY <1>1
    <3> QED BY <2>3, <3>1, Later
  <2>8. TermOf(s, p + 1, j) # {}
    BY <2>2, <2>6, <2>7, Zenon DEF TermMeant
  <2>9. q <= Len(s) + 1
    BY <2>5, BodyPlace
  <2>10. j \in 0..Len(s) /\ p \in i..j /\ p < q
    <3> HIDE DEF q
    <3> QED BY <1>1, <1>3, <2>5, <2>9
  <2>11. w \in Fractions
    <3>1. rhs \in Results
      <4>1. p + 1 \in Positions(s)
        BY <2>3, BodyPlace
      <4> QED BY <2>4, <4>1, CallIs, ZeroType
    <3>2. (op = "-") \in BOOLEAN
      OBVIOUS
    <3>3. Signed(op = "-", rhs) \in Results
      BY <3>1, <3>2, SignedType
    <3> QED BY <3>3, ResultFields, PlusType
  <2>12. s[p] \in {"+", "-"}
    BY <1>5, <2>3
  <2>13. ExprOf(s, i, j) # {}
    <3> HIDE DEF j
    <3> QED BY <1>1, <2>8, <2>10, <2>12, SumInExpr
  <2>14. SumsMeant(s, q)
    <3> HIDE DEF q
    <3> QED BY <2>5, <2>10, Later
  <2> HIDE DEF w, rhs
  <2> QED BY <2>2, <2>11, <2>13, <2>14, Zenon DEF SumsMeant
<1> QED BY <1>4, <1>5

LEMMA ExprIsMeant ==
  ASSUME NEW V, NEW s \in Seq(V), BlanksLead(s), NEW p \in Body(s), LaterMeant(s, p),
         TermMeant(s, p)
  PROVE  ExprMeant(s, p)
<1> DEFINE r == Call(s, "expression", p, Zero)
           first == Call(s, "term", p, Zero)
           q == first.pos
           j == q - 1
<1> SUFFICES ASSUME Fresh(s, p), r.ok PROVE ExprOf(s, p, r.pos - 1) # {}
  BY DEF ExprMeant
<1>1. Len(s) \in Nat /\ p \in Nat /\ p \in Positions(s) /\ 1 <= p
  BY BodyPlace, PositionTypes
<1>2. r = IF first.ok THEN Call(s, "sums", q, first.v) ELSE first
  BY ExpressionGoes
<1>3. first.ok /\ r = Call(s, "sums", q, first.v)
  BY <1>2
<1>4. "term" \in Rules /\ Takes("term") = 1
  BY DEF Rules, Takes
<1>5. first.v \in Fractions /\ q \in Body(s) /\ q \in Nat /\ p + 1 <= q
  BY <1>3, <1>4, CallStops, ZeroType
<1>6. TermOf(s, p, j) # {}
  BY <1>3, Zenon DEF TermMeant
<1>7. q <= Len(s) + 1
  BY <1>5, BodyPlace
<1>8. j \in 0..Len(s) /\ p <= j /\ p < q
  <2> HIDE DEF q
  <2> QED BY <1>1, <1>5, <1>7
<1>9. ExprOf(s, p, j) # {}
  <2> HIDE DEF j
  <2> QED BY <1>1, <1>6, <1>8, TermInExpr
<1>10. SumsMeant(s, q)
  <2> HIDE DEF q
  <2> QED BY <1>5, <1>8, Later
<1> HIDE DEF r, first
<1> QED BY <1>3, <1>5, <1>9, <1>10, Zenon DEF SumsMeant

\* By what remains of the line: what a rule finds from p is meant by what it has read.
LEMMA EverythingMeant ==
  ASSUME NEW V, NEW s \in Seq(V), BlanksLead(s), NEW p \in Body(s)
  PROVE  AllMeant(s, p)
<1> DEFINE L == Len(s)
           T == {n \in Nat : \A q \in Body(s) : L + 1 - q < n => AllMeant(s, q)}
<1>1. L \in Nat /\ \A q \in Body(s) : q \in Nat /\ q <= L + 1
  BY BodyPlace
<1>2. 0 \in T
  <2> HIDE DEF L
  <2>1. \A q \in Body(s) : ~(L + 1 - q < 0)
    BY <1>1
  <2> QED BY <2>1
<1>3. ASSUME NEW n \in Nat, n \in T PROVE n + 1 \in T
  <2>1. \A q \in Body(s) : L + 1 - q < n => AllMeant(s, q)
    BY <1>3
  <2>2. ASSUME NEW h \in Body(s), L + 1 - h < n + 1 PROVE AllMeant(s, h)
    <3>1. LaterMeant(s, h)
      <4> HIDE DEF L, T
      <4>1. \A q \in Body(s) : h < q => L + 1 - q < n
        BY <1>1, <2>2
      <4> QED BY <2>1, <4>1 DEF LaterMeant
    <3>2. FactorMeant(s, h)
      BY <3>1, FactorIsMeant
    <3>3. ProductsMeant(s, h)
      BY <3>1, <3>2, ProductsIsMeant
    <3>4. TermMeant(s, h)
      BY <3>1, <3>2, TermIsMeant
    <3>5. SumsMeant(s, h)
      BY <3>1, SumsIsMeant
    <3>6. ExprMeant(s, h)
      BY <3>1, <3>4, ExprIsMeant
    <3> QED BY <3>2, <3>3, <3>4, <3>5, <3>6 DEF AllMeant
  <2> QED BY <2>2
<1> HIDE DEF T, L
<1>4. Nat \subseteq T
  BY <1>2, <1>3, Induction
<1>5. L + 1 - p + 1 \in Nat /\ L + 1 - p < L + 1 - p + 1
  BY <1>1
<1>6. L + 1 - p + 1 \in T
  BY <1>4, <1>5
<1> QED BY <1>5, <1>6 DEF T

-----------------------------------------------------------------------------
(* What the whole line gives *)

\* The call of parse_outcome is the one from the first character that is no blank.
LEMMA ExpressionFromStart ==
  ASSUME NEW V, NEW s \in Seq(V), BlanksLead(s)
  PROVE  Call(s, "expression", 1, Zero) = Call(s, "expression", Start(s), Zero)
<1> DEFINE R == Parser(s)
           b == Start(s)
<1>1. Len(s) \in Nat /\ b \in Nat /\ 1 <= b /\ b <= Len(s) + 1
  BY BodyPlace
<1>2. 1 \in Positions(s) /\ b \in Positions(s) /\ b \in Body(s)
  BY <1>1 DEF Positions, Body
<1>3. Skip(s, b) = b /\ Skip(s, 1) = b
  BY <1>2, NoSkip DEF Start
<1> HIDE DEF b
<1>4. Factor(s, R, 1) = Factor(s, R, b)
  <2>1. Operand(s, 1) = Operand(s, b)
    BY <1>3 DEF Operand
  <2> QED BY <1>3, <2>1, FactorIs
<1>5. "factor" \in Rules /\ "term" \in Rules /\ "expression" \in Rules
  BY DEF Rules
<1>6. ASSUME NEW p \in Positions(s)
      PROVE  /\ R[<<"factor", p, Zero>>] = Factor(s, R, p)
             /\ R[<<"term", p, Zero>>] = Then(R, R[<<"factor", p, Zero>>], "products")
             /\ R[<<"expression", p, Zero>>] = Then(R, R[<<"term", p, Zero>>], "sums")
  <2>1. /\ R[<<"factor", p, Zero>>] = Rule(s, R, "factor", p, Zero)
        /\ R[<<"term", p, Zero>>] = Rule(s, R, "term", p, Zero)
        /\ R[<<"expression", p, Zero>>] = Rule(s, R, "expression", p, Zero)
    BY <1>5, ParserFixed, ZeroType
  <2> HIDE DEF R
  <2>2. /\ Rule(s, R, "factor", p, Zero) = Factor(s, R, p)
        /\ Rule(s, R, "term", p, Zero) = Then(R, R[<<"factor", p, Zero>>], "products")
        /\ Rule(s, R, "expression", p, Zero) = Then(R, R[<<"term", p, Zero>>], "sums")
    BY RuleIs
  <2> QED BY <2>1, <2>2
<1>7. R[<<"factor", 1, Zero>>] = R[<<"factor", b, Zero>>]
  BY <1>2, <1>4, <1>6
<1>8. R[<<"term", 1, Zero>>] = R[<<"term", b, Zero>>]
  BY <1>2, <1>6, <1>7
<1>9. R[<<"expression", 1, Zero>>] = R[<<"expression", b, Zero>>]
  BY <1>2, <1>6, <1>8
<1> QED BY <1>9 DEF Call, b

\* parse_outcome finds a value just when the line has a meaning, and it is that one.
LEMMA OutcomeMeans ==
  ASSUME NEW V, NEW s \in Seq(V), BlanksLead(s)
  PROVE  /\ Outcome(s).ok => Outcome(s).v \in Fractions
         /\ Outcome(s).ok <=> Meanings(s) # {}
         /\ Outcome(s).ok => \A v \in Meanings(s) : SameValue(v, Outcome(s).v)
<1> DEFINE L == Len(s)
           b == Start(s)
           r == Call(s, "expression", b, Zero)
           found == Outcome(s)
<1>1. L \in Nat /\ b \in Nat /\ 1 <= b /\ b <= L + 1
  BY BodyPlace
<1>2. b \in Positions(s) /\ b \in Body(s) /\ L \in 0..L
  BY <1>1 DEF Positions, Body
<1>3. Meanings(s) = ExprOf(s, b, L)
  BY DEF Meanings, ExprOf, Start
<1>4. found = IF r.ok /\ Skip(s, r.pos) <= L THEN Invalid ELSE r
  BY ExpressionFromStart DEF Outcome, Call
<1>5. "expression" \in Rules /\ Takes("expression") = 1
  BY DEF Rules, Takes
<1>6. r.ok => /\ r.v \in Fractions /\ r.pos \in Body(s) /\ r.pos \in Nat /\ b + 1 <= r.pos
              /\ r.pos <= L + 1 /\ Skip(s, r.pos) = r.pos
  BY <1>2, <1>5, CallStops, ZeroType, NoSkip, BodyPlace
<1>7. Fresh(s, b)
  BY DEF Fresh
<1>8. ASSUME found.ok PROVE Meanings(s) # {} /\ found.v \in Fractions
  <2>1. found = r /\ r.ok /\ ~(Skip(s, r.pos) <= L)
    BY <1>4, <1>8, ResultTypes
  <2>2. r.pos = L + 1
    <3> DEFINE q == r.pos
    <3>1. q \in Nat /\ q <= L + 1 /\ ~(q <= L)
      BY <1>6, <2>1
    <3> HIDE DEF q
    <3>2. q = L + 1
      BY <1>1, <3>1
    <3> QED BY <3>2 DEF q
  <2>3. ExprMeant(s, b)
    BY <1>2, EverythingMeant, Zenon DEF AllMeant
  <2>4. ExprOf(s, b, r.pos - 1) # {}
    BY <1>7, <2>1, <2>3, Zenon DEF ExprMeant
  <2>5. r.pos - 1 = L
    BY <1>1, <2>2
  <2> QED BY <1>3, <1>6, <2>1, <2>4, <2>5
<1>9. ASSUME NEW v \in Meanings(s) PROVE found.ok /\ SameValue(v, found.v)
  <2>1. v \in ExprOf(s, b, L)
    BY <1>3
  <2>2. b <= L
    <3> HIDE DEF b, L
    <3>1. ExprOf(s, b, L) # {} => ~(b > L)
      BY <1>2, MeaningsAre DEF L
    <3> QED BY <1>1, <2>1, <3>1
  <2>3. L \in b..L
    BY <1>1, <2>2
  <2>4. ExprRight(s, b, L)
    BY <1>2, <2>3, EveryMeaning, Zenon DEF AllRight
  <2>5. Ends(s, L)
    BY DEF Ends
  <2>6. PICK w \in Fractions : SameValue(v, w) /\ r = Call(s, "sums", L + 1, w)
    BY <1>7, <2>1, <2>4, <2>5, Zenon DEF ExprRight
  <2>7. L + 1 \in Body(s) /\ CharAt(s, L + 1) = "end" /\ L + 1 \in Nat
    BY <1>1, EndChar DEF Body
  <2>8. r = Some(w, L + 1)
    BY <2>6, <2>7, SumsStop
  <2>9. r.ok /\ r.v = w /\ r.pos = L + 1
    BY <2>7, <2>8, SomeType
  <2>10. ~(Skip(s, r.pos) <= L)
    BY <1>1, <1>6, <2>9
  <2>11. found = r
    BY <1>4, <2>10
  <2> QED BY <2>6, <2>9, <2>11
<1> QED BY <1>8, <1>9

LEMMA TenthsAreLess ==
  ASSUME NEW i \in Nat
  PROVE  i % 10 \in 0..9 /\ i \div 10 \in Nat /\ (i >= 10 => i \div 10 < i)
OBVIOUS

LEMMA WholePart == ASSUME NEW d \in Nat \ {0}, NEW n \in Nat PROVE n \div d \in Nat
OBVIOUS

-----------------------------------------------------------------------------
(* What a printed result is made of *)

PrintedChars == {"0", "1", "2", "3", "4", "5", "6", "7", "8", "9", "-", "+", ".", "e"}

LEMMA NoBlankPrinted == Space \notin PrintedChars
BY Zenon DEF Space, PrintedChars

LEMMA DigitsPrinted ==
  ASSUME NEW i \in 0..9
  PROVE  Digits[i + 1] \in PrintedChars /\ <<Digits[i + 1]>> \in Seq(PrintedChars)
<1>1. i = 0 \/ i = 1 \/ i = 2 \/ i = 3 \/ i = 4 \/ i = 5 \/ i = 6 \/ i = 7 \/ i = 8 \/ i = 9
  OBVIOUS
<1>2. Digits[i + 1] \in PrintedChars
  BY <1>1 DEF Digits, PrintedChars
<1> QED BY <1>2

\* A recursion on the digits of a number.
DigitsRun(n, f) ==
  f = [i \in 0..n |-> (IF i < 10 THEN <<>> ELSE f[i \div 10]) \o <<Digits[(i % 10) + 1]>>]

LEMMA DigitsRunExists ==
  ASSUME NEW n \in Nat
  PROVE  \E f : DigitsRun(n, f)
<1> DEFINE D == 0..n
           V == Seq(PrintedChars)
           C == [D -> V]
           at(f, i) == (IF i < 10 THEN <<>> ELSE f[i \div 10]) \o <<Digits[(i % 10) + 1]>>
           body(f) == [i \in D |-> at(f, i)]
           step == [f \in C |-> body(f)]
           rank == [i \in D |-> i]
           c == [i \in D |-> <<>>]
<1>1. ASSUME NEW f \in C, NEW i \in D PROVE at(f, i) \in V
  <2>1. i % 10 \in 0..9 /\ i \div 10 \in Nat /\ (i >= 10 => i \div 10 < i)
    BY TenthsAreLess
  <2>2. <<Digits[(i % 10) + 1]>> \in V
    BY <2>1, DigitsPrinted
  <2>3. CASE i < 10
    BY <2>2, <2>3
  <2>4. CASE ~(i < 10)
    <3>1. i \div 10 \in D
      BY <2>1, <2>4
    <3>2. f[i \div 10] \in V
      BY <3>1
    <3> QED BY <2>2, <2>4, <3>2
  <2> QED BY <2>3, <2>4
<1>2. ASSUME NEW f \in C, NEW g \in C, NEW i \in D,
             \A y \in D : rank[y] < rank[i] => f[y] = g[y]
      PROVE  at(f, i) = at(g, i)
  <2>1. CASE i < 10
    BY <2>1
  <2>2. CASE ~(i < 10)
    <3>1. i \div 10 \in D /\ i \div 10 < i
      BY <2>2, TenthsAreLess
    <3>2. f[i \div 10] = g[i \div 10]
      BY <1>2, <3>1
    <3> QED BY <2>2, <3>2
  <2> QED BY <2>1, <2>2
<1> HIDE DEF at
<1>3. step \in [C -> C]
  <2>1. \A f \in C : body(f) \in C
    BY <1>1
  <2> QED BY <2>1
<1>4. c \in C /\ C \in SUBSET [D -> V]
  OBVIOUS
<1>5. n \in Nat /\ rank \in [D -> 0..n]
  OBVIOUS
<1>6. \A f \in C : step[f] = body(f)
  <2> HIDE DEF body
  <2> QED OBVIOUS
<1>7. ASSUME NEW f \in C, NEW g \in C, NEW i \in D,
             \A y \in D : rank[y] < rank[i] => f[y] = g[y]
      PROVE  step[f][i] = step[g][i]
  <2>1. at(f, i) = at(g, i)
    BY <1>2, <1>7
  <2>2. body(f)[i] = body(g)[i]
    BY <2>1
  <2> QED BY <1>6, <2>2
<1> HIDE DEF step, rank, C, c, V, D
<1>8. Recursive(D, V, C, c, step, n, rank)
  BY <1>3, <1>4, <1>5, <1>7 DEF Recursive
<1>9. PICK f \in C : step[f] = f
  BY <1>8, FixedPoint
<1>10. f = body(f)
  BY <1>6, <1>9
<1> QED BY <1>10 DEF DigitsRun, at, D

LEMMA DigitsOfType ==
  ASSUME NEW n \in Nat
  PROVE  DigitsOf(n) \in Seq(PrintedChars)
<1> DEFINE g == CHOOSE f : DigitsRun(n, f)
           D == 0..n
           rank == [i \in D |-> i]
           V == Seq(PrintedChars)
           T == {i \in D : g[i] \in V}
<1>1. DigitsRun(n, g)
  BY DigitsRunExists, Zenon
<1>2. DigitsOf(n) = g[n]
  BY Zenon DEF DigitsOf, DigitsRun
<1> HIDE DEF g
<1>3. ASSUME NEW i \in D, \A y \in D : rank[y] < rank[i] => y \in T
      PROVE  i \in T
  <2>1. i % 10 \in 0..9 /\ i \div 10 \in Nat /\ (i >= 10 => i \div 10 < i)
    BY TenthsAreLess
  <2>2. <<Digits[(i % 10) + 1]>> \in V
    BY <2>1, DigitsPrinted
  <2>3. g[i] = (IF i < 10 THEN <<>> ELSE g[i \div 10]) \o <<Digits[(i % 10) + 1]>>
    BY <1>1 DEF DigitsRun
  <2>4. (IF i < 10 THEN <<>> ELSE g[i \div 10]) \in V
    <3>1. CASE i < 10
      BY <3>1
    <3>2. CASE ~(i < 10)
      <4>1. i \div 10 \in D /\ i \div 10 < i
        BY <2>1, <3>2
      <4>2. g[i \div 10] \in V
        BY <1>3, <4>1
      <4> QED BY <3>2, <4>2
    <3> QED BY <3>1, <3>2
  <2>5. g[i] \in V
    <3> DEFINE front == IF i < 10 THEN <<>> ELSE g[i \div 10]
               last == <<Digits[(i % 10) + 1]>>
    <3>1. front \in V /\ last \in V /\ g[i] = front \o last
      BY <2>2, <2>3, <2>4
    <3> HIDE DEF front, last
    <3> QED BY <3>1
  <2> QED BY <2>5
<1>4. n \in Nat /\ rank \in [D -> 0..n] /\ n \in D
  OBVIOUS
<1> HIDE DEF D, rank, T
<1>5. AllUpward(D, n, rank, T)
  BY <1>3, <1>4 DEF AllUpward
<1>6. n \in T
  BY <1>4, <1>5, HoldsUpward
<1> QED BY <1>2, <1>6 DEF T

LEMMA MarksPrinted ==
  /\ <<"-">> \in Seq(PrintedChars) /\ <<"+">> \in Seq(PrintedChars)
  /\ <<".">> \in Seq(PrintedChars) /\ <<"e">> \in Seq(PrintedChars)
  /\ <<"0">> \in Seq(PrintedChars) /\ <<>> \in Seq(PrintedChars)
BY DEF PrintedChars

LEMMA JoinedPrinted ==
  ASSUME NEW s \in Seq(PrintedChars), NEW t \in Seq(PrintedChars)
  PROVE  s \o t \in Seq(PrintedChars)
OBVIOUS

LEMMA CutPrinted ==
  ASSUME NEW s \in Seq(PrintedChars), NEW i \in Nat \ {0}, NEW j \in Nat, j <= Len(s)
  PROVE  SubSeq(s, i, j) \in Seq(PrintedChars)
OBVIOUS

LEMMA TrimmedPrinted ==
  ASSUME NEW s \in Seq(PrintedChars), NEW k \in Nat, NEW t \in Trimmed(s, k)
  PROVE  t \in Seq(PrintedChars)
<1>1. PICK n \in k..Len(s) : t = SubSeq(s, 1, n)
  BY DEF Trimmed
<1>2. n \in Nat /\ n <= Len(s) /\ 1 \in Nat \ {0}
  OBVIOUS
<1> QED BY <1>1, <1>2, CutPrinted

LEMMA WithPointPrinted ==
  ASSUME NEW s \in Seq(PrintedChars), NEW k \in Nat
  PROVE  WithPoint(s, k) \in Seq(PrintedChars)
<1>1. CASE k >= Len(s)
  BY <1>1 DEF WithPoint
<1>2. CASE ~(k >= Len(s))
  <2> DEFINE front == SubSeq(s, 1, k)
             rest == SubSeq(s, k + 1, Len(s))
  <2>1. Len(s) \in Nat /\ k <= Len(s) /\ 1 \in Nat \ {0} /\ k + 1 \in Nat \ {0}
    BY <1>2
  <2>2. front \in Seq(PrintedChars) /\ rest \in Seq(PrintedChars)
    BY <2>1, CutPrinted
  <2>3. WithPoint(s, k) = front \o <<".">> \o rest
    BY <1>2 DEF WithPoint
  <2> HIDE DEF front, rest
  <2> QED BY <2>2, <2>3, MarksPrinted, JoinedPrinted
<1> QED BY <1>1, <1>2

LEMMA PowerPrinted ==
  ASSUME NEW x \in Int
  PROVE  Power(x) \in Seq(PrintedChars)
<1> DEFINE sign == IF x < 0 THEN "-" ELSE "+"
           zero == IF Abs(x) < 10 THEN <<"0">> ELSE <<>>
           figures == DigitsOf(Abs(x))
<1>1. figures \in Seq(PrintedChars)
  BY AbsType, DigitsOfType
<1>2. <<"e", sign>> \in Seq(PrintedChars)
  BY DEF PrintedChars
<1>3. zero \in Seq(PrintedChars)
  BY MarksPrinted
<1>4. Power(x) = <<"e", sign>> \o zero \o figures
  BY DEF Power
<1> HIDE DEF sign, zero, figures
<1> QED BY <1>1, <1>2, <1>3, <1>4, JoinedPrinted

LEMMA LayoutsPrinted ==
  ASSUME NEW s \in Seq(PrintedChars), NEW x \in Int, NEW t \in Layouts(s, x)
  PROVE  t \in Seq(PrintedChars)
<1>1. CASE x \in 0..(Figures - 1)
  <2>1. PICK u \in Trimmed(s, x + 1) : t = WithPoint(u, x + 1)
    BY <1>1 DEF Layouts
  <2>2. x + 1 \in Nat
    BY <1>1
  <2> QED BY <2>1, <2>2, TrimmedPrinted, WithPointPrinted
<1>2. CASE x \notin 0..(Figures - 1) /\ x \in -4..-1
  <2> DEFINE z == Zeros(-x)
  <2>1. PICK u \in Trimmed(z \o s, 1) : t = WithPoint(u, 1)
    BY <1>2 DEF Layouts
  <2>2. z \in Seq(PrintedChars)
    <3>1. -x \in Nat /\ "0" \in PrintedChars
      BY <1>2 DEF PrintedChars
    <3>2. Zeros(-x) \in [1..(-x) -> PrintedChars]
      BY <3>1 DEF Zeros
    <3> QED BY <3>1, <3>2
  <2> HIDE DEF z
  <2>3. z \o s \in Seq(PrintedChars)
    BY <2>2, JoinedPrinted
  <2> QED BY <2>1, <2>3, TrimmedPrinted, WithPointPrinted
<1>3. CASE x \notin 0..(Figures - 1) /\ x \notin -4..-1
  <2>1. PICK u \in Trimmed(s, 1) : t = WithPoint(u, 1) \o Power(x)
    BY <1>3 DEF Layouts
  <2>2. WithPoint(u, 1) \in Seq(PrintedChars)
    BY <2>1, TrimmedPrinted, WithPointPrinted
  <2> QED BY <2>1, <2>2, PowerPrinted, JoinedPrinted
<1> QED BY <1>1, <1>2, <1>3

LEMMA FiguredPrinted ==
  ASSUME NEW a \in Nat, NEW d \in Nat, NEW t \in Figured(a, d)
  PROVE  t \in Seq(PrintedChars)
<1>0. PICK x \in Exponents(a, d) : \E m \in Mantissas(a, d, x) :
             t \in Layouts(DigitsOf(m), IF m = 10^Figures THEN x + 1 ELSE x)
  BY DEF Figured
<1>1. PICK m \in Mantissas(a, d, x) :
             t \in Layouts(DigitsOf(m), IF m = 10^Figures THEN x + 1 ELSE x)
  BY <1>0
<1>2. x \in Int
  <2>1. Len(DigitsOf(a)) \in Nat /\ Len(DigitsOf(d)) \in Nat
    BY DigitsOfType
  <2> QED BY <2>1 DEF Exponents
<1>3. m \in Nat
  <2>1. Figures \in Nat
    BY CalculatorAssumption
  <2>2. m \in 1..(10^Figures)
    BY <1>1 DEF Mantissas
  <2> QED BY <2>1, <2>2
<1> DEFINE y == IF m = 10^Figures THEN x + 1 ELSE x
<1>4. y \in Int
  BY <1>2
<1>5. DigitsOf(m) \in Seq(PrintedChars)
  BY <1>3, DigitsOfType
<1>6. t \in Layouts(DigitsOf(m), y)
  BY <1>1
<1> HIDE DEF y
<1> QED BY <1>4, <1>5, <1>6, LayoutsPrinted

LEMMA WholesPrinted ==
  ASSUME NEW minus \in Seq(PrintedChars), NEW i \in Nat, NEW t \in Wholes(minus, i)
  PROVE  t \in Seq(PrintedChars)
<1>1. Widest \in Nat /\ Widest - 1 \in Nat
  BY CalculatorAssumption
<1>2. /\ DigitsOf(i) \in Seq(PrintedChars) /\ DigitsOf(Widest) \in Seq(PrintedChars)
      /\ DigitsOf(Widest - 1) \in Seq(PrintedChars)
  BY <1>1, DigitsOfType
<1> DEFINE sign == IF i = 0 THEN <<>> ELSE minus
<1>3. sign \in Seq(PrintedChars)
  BY MarksPrinted
<1>4. t = sign \o DigitsOf(i) \/ t = DigitsOf(Widest - 1) \/ t = <<"-">> \o DigitsOf(Widest)
  BY DEF Wholes
<1> HIDE DEF sign
<1> QED BY <1>2, <1>3, <1>4, MarksPrinted, JoinedPrinted

\* A result is printed without a blank, so it is a line the parser can read again.
LEMMA PrintedType ==
  ASSUME NEW v \in Fractions, NEW t \in Printings(v)
  PROVE  t \in Seq(PrintedChars)
<1> DEFINE a == Abs(v.n)
           minus == IF v.n < 0 THEN <<"-">> ELSE <<>>
           near == {i \in {a \div v.d, (a \div v.d) + 1} : Abs(a - i * v.d) * Close < v.d}
<1>1. v.n \in Int /\ v.d \in Nat \ {0} /\ v.d \in Nat
  BY DEF Fractions
<1>2. a \in Nat
  BY <1>1, AbsType
<1>3. minus \in Seq(PrintedChars)
  BY MarksPrinted
<1>4. t \in IF near # {} THEN UNION {Wholes(minus, i) : i \in near}
            ELSE {minus \o u : u \in Figured(a, v.d)}
  BY DEF Printings
<1> HIDE DEF a, minus
<1>5. a \div v.d \in Nat
  BY <1>1, <1>2, WholePart
<1>6. \A i \in near : i \in Nat
  BY <1>5
<1> HIDE DEF near
<1>7. CASE near # {}
  <2>1. PICK i \in near : t \in Wholes(minus, i)
    BY <1>4, <1>7
  <2> QED BY <1>3, <1>6, <2>1, WholesPrinted
<1>8. CASE near = {}
  <2>1. PICK u \in Figured(a, v.d) : t = minus \o u
    BY <1>4, <1>8
  <2>2. u \in Seq(PrintedChars)
    BY <1>1, <1>2, <2>1, FiguredPrinted
  <2> QED BY <1>3, <2>1, <2>2, JoinedPrinted
<1> QED BY <1>7, <1>8

-----------------------------------------------------------------------------
(* The line of the calculator *)

LineChars == Chars \cup {Space} \cup PrintedChars
CalcModes == {"Char", "Silent", "SpaceAffirm"}
\* The inductive invariant: the line's only blanks come first (handle_space).
CalcInv ==
  /\ calc \in [line : Seq(LineChars), result : BOOLEAN, mode : CalcModes]
  /\ BlanksLead(calc.line)

LEMMA PrintedLine ==
  ASSUME NEW v \in Fractions, NEW t \in Printings(v)
  PROVE  t \in Seq(LineChars) /\ BlanksLead(t)
<1>1. t \in Seq(PrintedChars)
  BY PrintedType
<1>2. \A k \in 1..Len(t) : t[k] \in PrintedChars
  BY <1>1
<1>3. BlanksLead(t)
  BY <1>2, NoBlankPrinted DEF BlanksLead
<1>4. t \in Seq(LineChars)
  <2>1. PrintedChars \subseteq LineChars
    BY DEF LineChars
  <2> QED BY <1>1, <2>1
<1> QED BY <1>3, <1>4

LEMMA SolvedLine ==
  ASSUME CalcInv, NEW c \in Solutions(calc)
  PROVE  /\ c \in [line : Seq(LineChars), result : BOOLEAN, mode : CalcModes]
         /\ BlanksLead(c.line)
<1> DEFINE r == Outcome(calc.line)
<1>1. calc.line \in Seq(LineChars) /\ BlanksLead(calc.line)
  BY DEF CalcInv
<1>2. r.ok => r.v \in Fractions
  BY <1>1, OutcomeMeans
<1>3. CASE r.ok
  <2>1. PICK t \in Printings(r.v) : c = [calc EXCEPT !.line = t, !.result = TRUE]
    BY <1>3 DEF Solutions
  <2>2. t \in Seq(LineChars) /\ BlanksLead(t)
    BY <1>2, <1>3, <2>1, PrintedLine
  <2> QED BY <2>1, <2>2 DEF CalcInv
<1>4. CASE ~r.ok
  <2>1. c = calc
    BY <1>4 DEF Solutions
  <2> QED BY <2>1 DEF CalcInv
<1> QED BY <1>3, <1>4

LEMMA AppendedLine ==
  ASSUME NEW s \in Seq(LineChars), NEW c \in LineChars, BlanksLead(s),
         c # Space \/ \A i \in 1..Len(s) : s[i] = Space
  PROVE  Append(s, c) \in Seq(LineChars) /\ BlanksLead(Append(s, c))
<1> DEFINE t == Append(s, c)
<1>1. Len(s) \in Nat /\ t \in Seq(LineChars) /\ Len(t) = Len(s) + 1
      /\ t[Len(s) + 1] = c /\ \A i \in 1..Len(s) : t[i] = s[i]
  OBVIOUS
<1> HIDE DEF t
<1>2. ASSUME NEW k \in 1..Len(t), t[k] = Space, NEW h \in 1..k PROVE t[h] = Space
  <2>1. CASE k = Len(s) + 1
    <3>1. c = Space
      BY <1>1, <1>2, <2>1
    <3>2. h \in 1..Len(s) \/ h = Len(s) + 1
      BY <1>1, <2>1
    <3> QED BY <1>1, <3>1, <3>2
  <2>2. CASE k # Len(s) + 1
    <3>1. k \in 1..Len(s) /\ h \in 1..Len(s)
      BY <1>1, <2>2
    <3>2. s[k] = Space
      BY <1>1, <1>2, <3>1
    <3>3. s[h] = Space
      BY <3>1, <3>2 DEF BlanksLead
    <3> QED BY <1>1, <3>1, <3>3
  <2> QED BY <2>1, <2>2
<1> QED BY <1>1, <1>2 DEF BlanksLead, t

LEMMA ShortenedLine ==
  ASSUME NEW s \in Seq(LineChars), BlanksLead(s), s # <<>>
  PROVE  /\ SubSeq(s, 1, Len(s) - 1) \in Seq(LineChars)
         /\ BlanksLead(SubSeq(s, 1, Len(s) - 1))
<1> DEFINE q == Len(s)
           t == SubSeq(s, 1, q - 1)
<1>1. q \in Nat /\ q >= 1 /\ 1 \in Positions(s) /\ q \in 1..(Len(s) + 1)
  BY DEF Positions
<1>2. /\ t \in Seq(LineChars) /\ Len(t) = q - 1
      /\ \A i \in 1..(q - 1) : t[i] = s[1 + i - 1]
  <2> HIDE DEF q
  <2> QED BY <1>1, SubLine
<1> HIDE DEF t
<1>3. \A i \in 1..(q - 1) : t[i] = s[i] /\ i \in 1..Len(s)
  <2>1. \A i \in 1..(q - 1) : 1 + i - 1 = i
    OBVIOUS
  <2> QED BY <1>1, <1>2, <2>1
<1>4. ASSUME NEW k \in 1..Len(t), t[k] = Space, NEW h \in 1..k PROVE t[h] = Space
  <2>1. k \in 1..(q - 1) /\ h \in 1..(q - 1) /\ k \in 1..Len(s)
    BY <1>1, <1>2
  <2>2. s[k] = Space
    BY <1>3, <1>4, <2>1
  <2>3. s[h] = Space
    BY <2>1, <2>2 DEF BlanksLead
  <2> QED BY <1>3, <2>1, <2>3
<1> QED BY <1>2, <1>4 DEF BlanksLead, t

\* Every key keeps the blanks of the line before its first character.
LEMMA CalcInvStep ==
  ASSUME CalcInv, CalculatorKey \/ UNCHANGED calc
  PROVE  CalcInv'
<1> DEFINE Fields == [line : Seq(LineChars), result : BOOLEAN, mode : CalcModes]
           s == calc.line
<1>1. /\ calc \in Fields /\ s \in Seq(LineChars) /\ BlanksLead(s) /\ calc.mode \in CalcModes
      /\ calc.result \in BOOLEAN
  BY DEF CalcInv
<1>2. <<>> \in Seq(LineChars) /\ BlanksLead(<<>>)
  BY DEF BlanksLead
<1>3. ASSUME NEW t \in Seq(LineChars), BlanksLead(t), NEW b \in BOOLEAN,
             calc' = [calc EXCEPT !.line = t, !.result = b] \/ calc' = [calc EXCEPT !.line = t]
      PROVE  CalcInv'
  BY <1>1, <1>3 DEF CalcInv
<1>4. CASE CalculatorOpen
  BY <1>2, <1>4 DEF CalculatorOpen, Blank, CalcInv, CalcModes
<1>5. CASE CalculatorExit
  BY <1>1, <1>2, <1>5 DEF CalculatorExit, Blank, CalcInv
<1>6. CASE TypeChar
  <2>1. PICK c \in Chars : calc' = [calc EXCEPT !.line = Append(@, c), !.result = FALSE]
    BY <1>6 DEF TypeChar
  <2>2. c \in LineChars /\ c # Space
    BY CalculatorAssumption DEF LineChars
  <2>3. Append(s, c) \in Seq(LineChars) /\ BlanksLead(Append(s, c))
    BY <1>1, <2>2, AppendedLine
  <2>4. calc' = [calc EXCEPT !.line = Append(s, c), !.result = FALSE]
    BY <2>1
  <2> DEFINE t == Append(s, c)
  <2> HIDE DEF t
  <2> QED BY <1>3, <2>3, <2>4 DEF t
<1>7. CASE SpaceChar
  <2>1. CASE ~Empty(s)
    <3>1. calc' \in Solutions(calc)
      BY <1>7, <2>1 DEF SpaceChar
    <3> QED BY <3>1, SolvedLine DEF CalcInv
  <2>2. CASE Empty(s) /\ Len(s) < MaxLine
    <3>1. calc' = [calc EXCEPT !.line = Append(s, Space)]
      BY <1>7, <2>2 DEF SpaceChar
    <3>2. \A i \in 1..Len(s) : s[i] = Space
      BY <1>1, <2>2 DEF Empty
    <3>3. Append(s, Space) \in Seq(LineChars) /\ BlanksLead(Append(s, Space))
      BY <1>1, <3>2, AppendedLine DEF LineChars
    <3> DEFINE t == Append(s, Space)
    <3> HIDE DEF t
    <3> QED BY <1>3, <3>1, <3>3 DEF t
  <2>3. CASE Empty(s) /\ ~(Len(s) < MaxLine)
    <3>1. calc' = calc
      BY <1>7, <2>3 DEF SpaceChar
    <3> QED BY <3>1 DEF CalcInv
  <2> QED BY <2>1, <2>2, <2>3
<1>8. CASE Evaluate
  <2>1. calc' = calc \/ calc' \in Solutions(calc)
    BY <1>8 DEF Evaluate
  <2> QED BY <2>1, SolvedLine DEF CalcInv
<1>9. CASE CalcBackspace
  <2>1. CASE s = <<>>
    BY <1>1, <1>9, <2>1 DEF CalcBackspace, CalcInv
  <2>2. CASE s # <<>>
    <3> DEFINE t == SubSeq(s, 1, Len(s) - 1)
    <3>1. calc' = [calc EXCEPT !.line = t, !.result = FALSE]
      BY <1>9, <2>2 DEF CalcBackspace
    <3>2. t \in Seq(LineChars) /\ BlanksLead(t)
      BY <1>1, <2>2, ShortenedLine
    <3> HIDE DEF t
    <3> QED BY <1>3, <3>1, <3>2
  <2> QED BY <2>1, <2>2
<1>10. CASE ClearAll
  BY <1>2, <1>3, <1>10 DEF ClearAll
<1>11. CASE CycleMode
  BY <1>1, <1>11 DEF CycleMode, CalcInv, CalcModes
<1>12. CASE UNCHANGED calc
  BY <1>12 DEF CalcInv
<1> QED BY <1>4, <1>5, <1>6, <1>7, <1>8, <1>9, <1>10, <1>11, <1>12 DEF CalculatorKey

\* The parser, which looks ahead by one character and never goes back, finds the one
\* meaning that the grammar gives a line and refuses the lines that have none,
\* whatever characters are typed and results are printed, and whatever the limits of a
\* divisor and of a number are (CalculatorExpressionParser, calculator_eval.h).  It is
\* about exact fractions: what rounding does to them is not said.
THEOREM ParserFollowsGrammar == CalculatorSpec => []ParsesGrammar
<1>1. CalculatorInit => CalcInv
  <2> SUFFICES ASSUME CalculatorInit PROVE CalcInv
    OBVIOUS
  <2>1. <<>> \in Seq(LineChars) /\ BlanksLead(<<>>)
    BY DEF BlanksLead
  <2> QED BY <2>1 DEF CalculatorInit, Blank, CalcInv, CalcModes
<1>2. CalcInv /\ [CalculatorKey]_calc => CalcInv'
  BY CalcInvStep
<1>3. CalcInv => ParsesGrammar
  <2> SUFFICES ASSUME CalcInv PROVE ParsesGrammar
    OBVIOUS
  <2>1. calc.line \in Seq(LineChars) /\ BlanksLead(calc.line)
    BY DEF CalcInv
  <2> QED BY <2>1, OutcomeMeans DEF ParsesGrammar
<1> QED BY <1>1, <1>2, <1>3, PTL DEF CalculatorSpec

=============================================================================
