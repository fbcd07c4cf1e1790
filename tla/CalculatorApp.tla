----------------------------- MODULE CalculatorApp -----------------------------
(***************************************************************************)
(* The calculator of the Pi (daemon-dietpi/src/ui/apps/calculator_app.cpp and *)
(* calculator_eval.h): a line of characters, and the recursive descent that    *)
(* evaluates it.  A value is a fraction [n, d] where the code has a double: its *)
(* limits are modelled where the code looks at them, its rounding is not.  The  *)
(* printed result becomes the new line.                                        *)
(***************************************************************************)
EXTENDS ConnectCalls, Integers

CONSTANTS
  Chars,      \* the characters typed
  MaxLine,    \* bound: characters of the line
  Tiny,       \* a divisor nearer to zero than 1 / Tiny is refused (10^12)
  Largest,    \* std::stod takes numbers up to Largest
  Finest,     \* and, beside zero, down to 1 / Finest
  Close,      \* a result within 1 / Close of an integer is printed as one (10^9)
  Figures,    \* figures of a printed result that is none (10)
  Widest      \* the first integer beyond long long (2^63)

Space      == " "
LeftParen  == "("
RightParen == ")"

\* A typed blank is no character of the line: handle_space takes it.
ASSUME CalculatorAssumption ==
  /\ Space \notin Chars
  /\ Tiny \in Nat \ {0} /\ Largest \in Nat /\ Finest \in Nat
  /\ Close \in Nat \ {0} /\ Figures \in Nat \ {0} /\ Widest \in Nat \ {0}

VARIABLE calc  \* buffer_, result_line_ (is there one?), mode_

Digits == <<"0", "1", "2", "3", "4", "5", "6", "7", "8", "9">>
IsDigit(c) == \E i \in 1..10 : Digits[i] = c
DigitOf(c) == (CHOOSE i \in 1..10 : Digits[i] = c) - 1

Fractions    == [n : Int, d : Nat \ {0}]
Zero         == [n |-> 0, d |-> 1]
Plus(a, b)   == [n |-> a.n * b.d + b.n * a.d, d |-> a.d * b.d]
Minus(a)     == [n |-> -a.n, d |-> a.d]
Times(a, b)  == [n |-> a.n * b.n, d |-> a.d * b.d]
Over(a, b)   == IF b.n > 0 THEN [n |-> a.n * b.d, d |-> a.d * b.n]
                ELSE [n |-> -(a.n * b.d), d |-> -(a.d * b.n)]
SameValue(a, b) == a.n * b.d = b.n * a.d

\* The limits the code looks at: of a divisor, and of a number (std::stod).
Abs(i)      == IF i < 0 THEN -i ELSE i
NearZero(v) == Abs(v.n) * Tiny < v.d
InRange(v)  == v.n = 0 \/ (v.n <= Largest * v.d /\ v.d <= v.n * Finest)

-----------------------------------------------------------------------------
(* CalculatorExpressionParser: each rule gives a value and where it stopped,  *)
(* or why there is none.  R[<<rule, p, v>>] is what a rule gives from position  *)
(* p, for the loops with the value v they have so far.                       *)

None(why) == [ok |-> FALSE, v |-> Zero, pos |-> 0, why |-> why]
Some(v, pos) == [ok |-> TRUE, v |-> v, pos |-> pos, why |-> "none"]
Invalid == None("Invalid")

CharAt(s, p) == IF p <= Len(s) THEN s[p] ELSE "end"
Skip(s, p) == CHOOSE q \in p..(Len(s) + p) :
                CharAt(s, q) # Space /\ \A i \in p..(q - 1) : CharAt(s, i) = Space

\* parse_number: the digits, and after a point the places.
NumberEnd(s, p) ==
  CHOOSE q \in p..(Len(s) + 1) :
    /\ \A i \in p..(q - 1) : IsDigit(s[i]) \/ s[i] = "."
    /\ \A i, j \in p..(q - 1) : s[i] = "." /\ s[j] = "." => i = j
    /\ ~IsDigit(CharAt(s, q))
    /\ CharAt(s, q) = "." => \E i \in p..(q - 1) : s[i] = "."
ReadOn(r, c) ==
  IF c = "." THEN [r EXCEPT !.places = TRUE]
  ELSE [r EXCEPT !.v = [n |-> @.n * 10 + DigitOf(c), d |-> IF r.places THEN @.d * 10 ELSE 1]]
NumberOf(text) ==
  LET read[i \in 0..Len(text)] ==
        IF i = 0 THEN [v |-> Zero, places |-> FALSE] ELSE ReadOn(read[i - 1], text[i])
  IN read[Len(text)].v
NumberAt(s, p) ==
  LET text == SubSeq(s, p, NumberEnd(s, p) - 1)
  IN IF (\E i \in DOMAIN text : IsDigit(text[i])) /\ InRange(NumberOf(text))
       THEN Some(NumberOf(text), NumberEnd(s, p)) ELSE Invalid

Signed(negative, r) == IF r.ok /\ negative THEN [r EXCEPT !.v = Minus(@)] ELSE r

\* parse_factor, and the loops of parse_term and parse_expression.
Unsigned(s, R, q) ==
  LET inner == R[<<"expression", q + 1, Zero>>]
      close == Skip(s, inner.pos)
  IN IF CharAt(s, q) # LeftParen THEN NumberAt(s, q)
     ELSE IF ~inner.ok THEN inner
     ELSE IF CharAt(s, close) = RightParen THEN Some(inner.v, close + 1) ELSE Invalid

Factor(s, R, p0) ==
  LET p == Skip(s, p0)
      q == IF CharAt(s, p) \in {"+", "-"} THEN Skip(s, p + 1) ELSE p
  IN Signed(CharAt(s, p) = "-", Unsigned(s, R, q))

StartsFactor(c) == c \in {LeftParen, "."} \/ IsDigit(c)

Products_SignStarts(s, R, p0, v) ==
  LET p == Skip(s, p0)
      op == CharAt(s, p)
      rhs == R[<<"factor", IF op \in {"*", "/"} THEN p + 1 ELSE p, Zero>>]
  IN IF op \notin {"*", "/", "-"} /\ ~StartsFactor(op) THEN Some(v, p)
     ELSE IF ~rhs.ok THEN rhs
     ELSE IF op = "/" /\ NearZero(rhs.v) THEN None("DivideByZero")
     ELSE R[<<"products", rhs.pos, IF op = "/" THEN Over(v, rhs.v) ELSE Times(v, rhs.v)>>]

Products(s, R, p0, v) ==
  LET p == Skip(s, p0)
      op == CharAt(s, p)
      rhs == R[<<"factor", IF op \in {"*", "/"} THEN p + 1 ELSE p, Zero>>]
  IN IF op \notin {"*", "/"} /\ ~StartsFactor(op) THEN Some(v, p)
     ELSE IF ~rhs.ok THEN rhs
     ELSE IF op = "/" /\ NearZero(rhs.v) THEN None("DivideByZero")
     ELSE R[<<"products", rhs.pos, IF op = "/" THEN Over(v, rhs.v) ELSE Times(v, rhs.v)>>]

Sums(s, R, p0, v) ==
  LET p == Skip(s, p0)
      rhs == R[<<"term", p + 1, Zero>>]
  IN IF CharAt(s, p) \notin {"+", "-"} THEN Some(v, p)
     ELSE IF ~rhs.ok THEN rhs
     ELSE R[<<"sums", rhs.pos, Plus(v, Signed(CharAt(s, p) = "-", rhs).v)>>]

Rules == {"expression", "term", "factor", "sums", "products"}
Positions(s) == 1..(Len(s) + 1)

\* A rule that begins with another and goes on with its loop.
Then(R, first, loop) == IF first.ok THEN R[<<loop, first.pos, first.v>>] ELSE first

Rule(s, R, rule, p, v) ==
  CASE rule = "factor" -> Factor(s, R, p)
    [] rule = "products" -> Products(s, R, p, v)
    [] rule = "sums" -> Sums(s, R, p, v)
    [] rule = "term" -> Then(R, R[<<"factor", p, Zero>>], "products")
    [] rule = "expression" -> Then(R, R[<<"term", p, Zero>>], "sums")

Parser(s) ==
  LET R[x \in Rules \X Positions(s) \X Fractions] == Rule(s, R, x[1], x[2], x[3]) IN R

\* parse_outcome: the whole line must be used.
Outcome(s) ==
  LET r == Parser(s)[<<"expression", 1, Zero>>]
  IN IF r.ok /\ Skip(s, r.pos) <= Len(s) THEN Invalid ELSE r

-----------------------------------------------------------------------------
(* format_calculator_result                                                *)

DigitsOf(n) ==
  LET digits[i \in 0..n] ==
        (IF i < 10 THEN <<>> ELSE digits[i \div 10]) \o <<Digits[(i % 10) + 1]>>
  IN digits[n]

Zeros(k) == [i \in 1..k |-> "0"]

\* The x with 10^x <= a / d < 10^(x + 1), for an a that is not zero.
Below(a, d, x) == IF x < 0 THEN a * 10^(-x) < d ELSE a < d * 10^x
Exponents(a, d) ==
  {x \in (-Len(DigitsOf(d)))..Len(DigitsOf(a)) : ~Below(a, d, x) /\ Below(a, d, x + 1)}

\* The Figures figures of a / d nearest to it, the first one at 10^x.
Mantissas(a, d, x) ==
  LET more == IF x < Figures THEN 10^(Figures - 1 - x) ELSE 1
      less == IF x < Figures THEN 1 ELSE 10^(x + 1 - Figures)
  IN {m \in 1..(10^Figures) : 2 * Abs(a * more - m * d * less) <= d * less}

\* s without the zeros at its end, but with its first k digits.
Trimmed(s, k) ==
  {SubSeq(s, 1, n) : n \in {h \in k..Len(s) : /\ h = k \/ s[h] # "0"
                                            /\ \A i \in (h + 1)..Len(s) : s[i] = "0"}}

\* The point follows the digit k, if any digit does.
WithPoint(s, k) ==
  IF k >= Len(s) THEN s ELSE SubSeq(s, 1, k) \o <<".">> \o SubSeq(s, k + 1, Len(s))

\* %.10g: with an exponent, if the first figure stands too far from the point.
Power(x) == <<"e", IF x < 0 THEN "-" ELSE "+">>
              \o (IF Abs(x) < 10 THEN <<"0">> ELSE <<>>) \o DigitsOf(Abs(x))
Layouts(s, x) ==
  IF x \in 0..(Figures - 1) THEN {WithPoint(t, x + 1) : t \in Trimmed(s, x + 1)}
  ELSE IF x \in -4..-1 THEN {WithPoint(t, 1) : t \in Trimmed(Zeros(-x) \o s, 1)}
  ELSE {WithPoint(t, 1) \o Power(x) : t \in Trimmed(s, 1)}

\* A mantissa of one figure more is the next power of ten.
Figured(a, d) ==
  UNION {UNION {Layouts(DigitsOf(m), IF m = 10^Figures THEN x + 1 ELSE x) :
                  m \in Mantissas(a, d, x)} : x \in Exponents(a, d)}

\* The cast to long long is undefined beyond its range: what it gives depends on
\* the processor, its largest number or its smallest.
Wholes(minus, i) ==
  IF i < Widest THEN {(IF i = 0 THEN <<>> ELSE minus) \o DigitsOf(i)}
  ELSE {DigitsOf(Widest - 1), <<"-">> \o DigitsOf(Widest)}

\* What v may be printed as.  The nearer figures decide, a tie goes either way:
\* the error of the double, which is not modelled, is below what they show.
Printings(v) ==
  LET a     == Abs(v.n)
      minus == IF v.n < 0 THEN <<"-">> ELSE <<>>
      near  == {i \in {a \div v.d, (a \div v.d) + 1} : Abs(a - i * v.d) * Close < v.d}
  IN IF near # {} THEN UNION {Wholes(minus, i) : i \in near}
     ELSE {minus \o t : t \in Figured(a, v.d)}

-----------------------------------------------------------------------------
(* CalculatorApp                                                           *)

CalcKept == UNCHANGED <<busy, prompt, daemon, sound, crashes>>
InCalculator == Reaches("calculator") /\ UNCHANGED app /\ CalcKept
Blank == [line |-> <<>>, result |-> FALSE, mode |-> "Char"]
CalculatorInit == calc = Blank

CalculatorOpen == Launch("calculator") /\ calc' = Blank /\ CalcKept
CalculatorExit ==
  Leave("calculator") /\ calc' = [Blank EXCEPT !.mode = calc.mode]
  /\ UNCHANGED <<busy, daemon, sound, crashes>>

Solutions(c) ==
  LET r == Outcome(c.line)
  IN IF r.ok THEN {[c EXCEPT !.line = t, !.result = TRUE] : t \in Printings(r.v)} ELSE {c}

Empty(line) == \A i \in DOMAIN line : line[i] = Space

TypeChar ==
  /\ InCalculator /\ Len(calc.line) < MaxLine
  /\ \E c \in Chars : calc' = [calc EXCEPT !.line = Append(@, c), !.result = FALSE]

\* handle_space: an equation is solved, as by Enter, or its error is told; only
\* before one is a space kept.
SpaceChar ==
  /\ InCalculator
  /\ calc' \in IF ~Empty(calc.line) THEN Solutions(calc)
               ELSE IF Len(calc.line) < MaxLine THEN {[calc EXCEPT !.line = Append(@, Space)]}
               ELSE {calc}

Evaluate == InCalculator /\ calc' \in IF Empty(calc.line) THEN {calc} ELSE Solutions(calc)

CalcBackspace ==
  /\ InCalculator
  /\ calc' = IF calc.line = <<>> THEN [calc EXCEPT !.result = FALSE]
             ELSE [calc EXCEPT !.line = SubSeq(@, 1, Len(@) - 1), !.result = FALSE]

ClearAll == InCalculator /\ calc' = [calc EXCEPT !.line = <<>>, !.result = FALSE]

CycleMode ==
  /\ InCalculator
  /\ calc' = [calc EXCEPT !.mode = CASE @ = "Char" -> "Silent"
                                     [] @ = "Silent" -> "SpaceAffirm"
                                     [] @ = "SpaceAffirm" -> "Char"]

CalculatorKey ==
  \/ CalculatorOpen \/ CalculatorExit \/ TypeChar \/ SpaceChar \/ Evaluate \/ CalcBackspace
  \/ ClearAll \/ CycleMode

-----------------------------------------------------------------------------
(* The language of the calculator, by its grammar: what a line can mean.    *)

NumberText(s) ==
  /\ \A i \in DOMAIN s : IsDigit(s[i]) \/ s[i] = "."
  /\ \E i \in DOMAIN s : IsDigit(s[i])
  /\ \A i, j \in DOMAIN s : s[i] = "." /\ s[j] = "." => i = j

InNumber(c) == IsDigit(c) \/ c = "."

\* The number before it takes a digit, and a point if it has none: 1.2.3 is 1.2 * .3.
Continues(s, k) ==
  /\ InNumber(s[k]) /\ InNumber(s[k - 1])
  /\ s[k] = "." => \A h \in 1..(k - 1) :
                     s[h] = "." => \E g \in h..(k - 1) : ~InNumber(s[g])

\* M[<<"expr", i, j>>] and M[<<"term", i, j>>]: the values of s[i..j] as one.
UnsignedValues(s, M, k, j) ==
  IF k > j THEN {}
  ELSE IF NumberText(SubSeq(s, k, j)) THEN {n \in {NumberOf(SubSeq(s, k, j))} : InRange(n)}
  ELSE IF s[k] = LeftParen /\ s[j] = RightParen THEN M[<<"expr", k + 1, j - 1>>] ELSE {}

FactorValues(s, M, i, j) ==
  IF i > j THEN {}
  ELSE CASE s[i] = "-" -> {Minus(v) : v \in UnsignedValues(s, M, i + 1, j)}
         [] s[i] = "+" -> UnsignedValues(s, M, i + 1, j)
         [] OTHER -> UnsignedValues(s, M, i, j)

\* A term up to before k, times or by the factor from next.
ProductValues(s, M, i, k, next, j) ==
  {Times(a, b) : a \in M[<<"term", i, k - 1>>], b \in FactorValues(s, M, next, j)}
QuotientValues(s, M, i, k, j) ==
  {Over(a, b) : a \in M[<<"term", i, k - 1>>],
                b \in {f \in FactorValues(s, M, k + 1, j) : ~NearZero(f)}}

TermValues(s, M, i, j) ==
  FactorValues(s, M, i, j)
    \cup (UNION {ProductValues(s, M, i, k, k + 1, j) : k \in {h \in i..j : s[h] = "*"}})
    \cup (UNION {QuotientValues(s, M, i, k, j) : k \in {h \in i..j : s[h] = "/"}})
    \cup (UNION {ProductValues(s, M, i, k, k, j) :
                   k \in {h \in (i + 1)..j : StartsFactor(s[h]) /\ ~Continues(s, h)}})

SumValues(s, M, i, k, j) ==
  {Plus(a, IF s[k] = "-" THEN Minus(b) ELSE b) :
     a \in M[<<"expr", i, k - 1>>], b \in M[<<"term", k + 1, j>>]}

ExprValues(s, M, i, j) ==
  M[<<"term", i, j>>]
    \cup UNION {SumValues(s, M, i, k, j) : k \in {h \in i..j : s[h] \in {"+", "-"}}}

\* What a part of the line means.
Values(s, M, kind, i, j) ==
  IF i > j THEN {}
  ELSE IF kind = "term" THEN TermValues(s, M, i, j) ELSE ExprValues(s, M, i, j)

Language(s) ==
  LET M[x \in {"expr", "term"} \X Positions(s) \X (0..Len(s))] == Values(s, M, x[1], x[2], x[3])
  IN M

\* The blanks of a line stand before the first character of its expression.
Meanings(s) == Language(s)[<<"expr", Skip(s, 1), Len(s)>>]

\* The parser, which never goes back, finds the one meaning of every line that
\* has one, and refuses the others.
ParsesGrammar ==
  LET meant == Meanings(calc.line)
      found == Outcome(calc.line)
  IN /\ found.ok <=> meant # {}
     /\ found.ok => \A v \in meant : SameValue(v, found.v)

CalculatorSpec == CalculatorInit /\ [][CalculatorKey]_calc
===============================================================================
