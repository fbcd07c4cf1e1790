-------------------------- MODULE EmbossParserProofs --------------------------
(***************************************************************************)
(* The parser reads its bytes as the cable grammar does, for every header  *)
(* prefix, alphabet and capacity.  The grammar speaks of positions of the  *)
(* whole text, the parser sees one byte at a time: Reads says, of a parser *)
(* and the text it was fed, that the parser knows as much of the open      *)
(* document as its next byte needs.  One byte keeps that and emits what    *)
(* the grammar adds (Tells), and nothing the grammar says of earlier bytes *)
(* changes, but for the header line, whose tokens come when it ends.       *)
(*                                                                         *)
(* Inside the pipeline the bytes come in calls and the tokens are acted     *)
(* upon one by one, with motion, faults and resets between.  FlowInv says   *)
(* where the thread can be, TextInv that Reads still holds (or that the     *)
(* open document is over and a reset parser will do), NameInv which name    *)
(* the tokens still to be acted upon will leave.                            *)
(*                                                                         *)
(* PaperInv carries the text on to the paper: the cells the tokens tell     *)
(* since the last line end are those of the open line, one pitch after the  *)
(* other, and the carriage is, or is on its way, where the next belongs.    *)
(***************************************************************************)
EXTENDS EmbossFeed, EmbossPipelineProofs, RecursionProofs, SequenceTheorems, TLAPS

-----------------------------------------------------------------------------
(* Lists joined                                                            *)

Alike(seq, other, k) == \A i \in 1..k : seq[i] = other[i]

\* What goes on alike from one value is alike.
LEMMA ThroughAlike ==
  ASSUME NEW a, NEW step, NEW seq, NEW other, NEW f, NEW g,
         Through(f, a, seq, step), Through(g, a, other, step),
         Len(seq) \in Nat, Len(other) \in Nat,
         NEW k \in Nat, k <= Len(seq), k <= Len(other),
         Alike(seq, other, k)
  PROVE  f[k] = g[k]
<1> DEFINE T == {i \in Nat : i <= k => f[i] = g[i]}
<1>1. 0 \in T
  BY DEF Through
<1>2. ASSUME NEW i \in Nat, i \in T PROVE i + 1 \in T
  <2> SUFFICES ASSUME i + 1 <= k PROVE f[i + 1] = g[i + 1]
    OBVIOUS
  <2>1. /\ i <= k /\ (i + 1) - 1 = i /\ i + 1 \in 1..k
        /\ i + 1 \in 1..Len(seq) /\ i + 1 \in 1..Len(other)
    OBVIOUS
  <2>2. f[i] = g[i]
    BY <1>2, <2>1
  <2>3. f[i + 1] = step[f[i]][seq[i + 1]] /\ g[i + 1] = step[g[i]][other[i + 1]]
    BY <2>1 DEF Through
  <2>4. seq[i + 1] = other[i + 1]
    BY <2>1 DEF Alike
  <2> QED BY <2>2, <2>3, <2>4
<1> HIDE DEF T
<1>3. k \in T
  BY <1>1, <1>2, Induction
<1> QED BY <1>3 DEF T

\* Concatenation as a function.
Concat(W) == [a \in W |-> [b \in W |-> a \o b]]

LEMMA ConcatIs ==
  ASSUME NEW V
  PROVE  /\ Concat(Seq(V)) \in [Seq(V) -> [Seq(V) -> Seq(V)]]
         /\ \A a, b \in Seq(V) : Concat(Seq(V))[a][b] = a \o b
<1> DEFINE W == Seq(V)
<1>1. \A a, b \in W : a \o b \in W
  BY ConcatProperties
<1> HIDE DEF W
<1>2. Concat(W) \in [W -> [W -> W]] /\ \A a, b \in W : Concat(W)[a][b] = a \o b
  BY <1>1 DEF Concat
<1> QED BY <1>2 DEF W

LEMMA JoinedIs ==
  ASSUME NEW V, NEW lists \in Seq(Seq(V))
  PROVE  \E f \in [0..Len(lists) -> Seq(V)] :
           /\ Through(f, <<>>, lists, Concat(Seq(V)))
           /\ Joined(lists) = f[Len(lists)]
<1> DEFINE n == Len(lists)
           W == Seq(V)
           Up(f) == f = [i \in 0..n |-> IF i = 0 THEN <<>> ELSE f[i - 1] \o lists[i]]
           up == CHOOSE f : Up(f)
<1>1. n \in Nat /\ (\A i \in 1..n : lists[i] \in W) /\ <<>> \in W
  OBVIOUS
<1>2. Concat(W) \in [W -> [W -> W]] /\ \A a, b \in W : Concat(W)[a][b] = a \o b
  BY ConcatIs
<1>3. lists \in Seq(W)
  OBVIOUS
<1> HIDE DEF W
<1>4. PICK g \in [0..Len(lists) -> W] : Through(g, <<>>, lists, Concat(W))
  BY <1>1, <1>2, <1>3, GoesThrough
<1>5. /\ g \in [0..n -> W] /\ g[0] = <<>>
      /\ \A i \in 1..n : g[i] = Concat(W)[g[i - 1]][lists[i]]
  BY <1>4 DEF Through
<1>6. \A i \in 0..n : i # 0 => i - 1 \in 0..n /\ i \in 1..n
  BY <1>1
<1>7. n \in 0..n
  BY <1>1
<1> HIDE DEF n
<1>8. \A i \in 0..n : i # 0 => g[i] = g[i - 1] \o lists[i]
  BY <1>1, <1>2, <1>5, <1>6
<1>9. Up(g)
  <2>1. g = [i \in 0..n |-> g[i]]
    BY <1>5
  <2> QED BY <1>5, <1>8, <2>1
<1> HIDE DEF Up
<1>10. Up(up)
  BY <1>9, Zenon
<1>11. Joined(lists) = up[n]
  BY Zenon DEF Joined, Up, n
<1> HIDE DEF up
<1>12. /\ DOMAIN up = 0..n /\ up = [i \in 0..n |-> up[i]]
       /\ up[0] = <<>> /\ \A i \in 1..n : up[i] = up[i - 1] \o lists[i]
  <2>1. 0 \in 0..n /\ \A i \in 1..n : i \in 0..n /\ i # 0
    BY <1>1
  <2> QED BY <1>10, <2>1 DEF Up
<1>13. \A i \in 1..n : up[i - 1] \in W => up[i] \in W
  <2>1. \A a, b \in W : a \o b \in W
    BY ConcatProperties DEF W
  <2> QED BY <1>1, <1>12, <2>1
<1>14. \A i \in 0..n : up[i] \in W
  BY <1>1, <1>12, <1>13, AllAlong
<1>15. up \in [0..n -> W]
  BY <1>12, <1>14
<1>16. \A i \in 1..n : up[i] = Concat(W)[up[i - 1]][lists[i]]
  <2>1. \A i \in 1..n : i - 1 \in 0..n
    BY <1>1
  <2> QED BY <1>1, <1>2, <1>12, <1>14, <2>1
<1>17. Through(up, <<>>, lists, Concat(W))
  BY <1>12, <1>16 DEF Through, n
<1> QED BY <1>11, <1>15, <1>17 DEF W, n

LEMMA JoinedAppend ==
  ASSUME NEW V, NEW lists \in Seq(Seq(V)), NEW last \in Seq(V)
  PROVE  /\ Joined(lists) \in Seq(V)
         /\ Joined(Append(lists, last)) = Joined(lists) \o last
<1> DEFINE n == Len(lists)
           W == Seq(V)
           more == Append(lists, last)
<1>1. n \in Nat /\ n \in 0..n
  OBVIOUS
<1>2. /\ more \in Seq(W) /\ Len(more) = n + 1 /\ more[n + 1] = last
      /\ \A i \in 1..n : lists[i] = more[i]
  OBVIOUS
<1>3. PICK f \in [0..n -> W] :
        Through(f, <<>>, lists, Concat(W)) /\ Joined(lists) = f[n]
  BY JoinedIs
<1> HIDE DEF more
<1>4. PICK g \in [0..Len(more) -> W] :
        Through(g, <<>>, more, Concat(W)) /\ Joined(more) = g[Len(more)]
  BY <1>2, JoinedIs
<1>5. n <= Len(more) /\ Len(more) \in Nat
  BY <1>1, <1>2
<1>6. f[n] = g[n]
  <2>1. Through(f, <<>>, lists, Concat(W)) /\ Through(g, <<>>, more, Concat(W))
    BY <1>3, <1>4
  <2>2. Len(lists) \in Nat /\ n <= Len(lists)
    BY <1>1
  <2>3. Alike(lists, more, n)
    BY <1>2 DEF Alike
  <2> HIDE DEF W, n
  <2> QED BY <1>1, <1>5, <2>1, <2>2, <2>3, ThroughAlike
<1>7. g[n + 1] = Concat(W)[g[n]][last]
  <2>1. n + 1 \in 1..Len(more) /\ (n + 1) - 1 = n
    BY <1>1, <1>2
  <2> QED BY <1>2, <1>4, <2>1 DEF Through
<1>8. Concat(W)[f[n]][last] = f[n] \o last
  <2>1. f[n] \in W /\ last \in W
    BY <1>1
  <2> QED BY <2>1, ConcatIs
<1> QED BY <1>1, <1>2, <1>3, <1>4, <1>6, <1>7, <1>8 DEF more

LEMMA JoinedNone == Joined(<<>>) = <<>>
<1> DEFINE none == <<>>
<1>1. none \in Seq(Seq({})) /\ Len(none) = 0
  OBVIOUS
<1> HIDE DEF none
<1>2. PICK f \in [0..Len(none) -> Seq({})] :
        Through(f, <<>>, none, Concat(Seq({}))) /\ Joined(none) = f[Len(none)]
  BY <1>1, JoinedIs
<1> QED BY <1>1, <1>2 DEF Through, none

-----------------------------------------------------------------------------
(* Least and greatest of a set of naturals                                 *)

LEMMA MinIs ==
  ASSUME NEW S \in SUBSET Nat, S # {}
  PROVE  Min(S) \in S /\ \A k \in S : Min(S) <= k
<1>1. \E m \in S : \A k \in S : m <= k
  BY LeastNat
<1> QED BY <1>1 DEF Min

LEMMA MaxIs ==
  ASSUME NEW n \in Nat, NEW S \in SUBSET (0..n), S # {}
  PROVE  Max(S) \in S /\ \A k \in S : Max(S) >= k
<1> DEFINE T == {k \in Nat : n - k \in S}
<1>1. \A k \in S : n - k \in T
  <2>1. \A k \in S : k \in Int /\ n - k \in Nat /\ n - (n - k) = k
    OBVIOUS
  <2> QED BY <2>1
<1>2. T \in SUBSET Nat /\ T # {}
  BY <1>1
<1> HIDE DEF T
<1>3. PICK m \in T : \A k \in T : m <= k
  BY <1>2, LeastNat
<1>4. n - m \in S /\ m \in Nat
  BY <1>3 DEF T
<1>5. ASSUME NEW k \in S PROVE n - m >= k
  <2>1. m <= n - k /\ k \in Int
    BY <1>1, <1>3
  <2> QED BY <1>4, <2>1
<1>6. \E a \in S : \A k \in S : a >= k
  BY <1>4, <1>5
<1> QED BY <1>6 DEF Max

-----------------------------------------------------------------------------
(* Where a document and its first line lie                                 *)

Bytes == Alphabet \cup CellBytes \cup {"cr", "lf", "ff", "finish"}
Stops == {"ff", "finish"}

\* The document around or before position i starts at d.
DocAt(text, i, d) ==
  /\ d \in 1..i
  /\ d > 1 => text[d - 1] \in Stops
  /\ \A e \in d..(i - 1) : text[e] \notin Stops

LEMMA DocFirstAt ==
  ASSUME NEW B, NEW text \in Seq(B), NEW i \in 1..(Len(text) + 1)
  PROVE  DocAt(text, i, DocFirst(text, i))
<1> DEFINE S == {0} \cup {e \in DocEnds(text) : e < i}
<1>1. Len(text) \in Nat /\ DOMAIN text = 1..Len(text) /\ i \in Nat /\ i - 1 \in Nat
  OBVIOUS
<1>2. S \in SUBSET (0..(i - 1)) /\ S # {}
  BY <1>1 DEF DocEnds
<1>3. \A k : k \in S <=> k = 0 \/ (k \in 1..(i - 1) /\ text[k] \in Stops)
  BY <1>1 DEF DocEnds, Stops
<1>4. DocFirst(text, i) = 1 + Max(S)
  BY DEF DocFirst
<1> HIDE DEF S
<1>5. Max(S) \in S /\ \A k \in S : Max(S) >= k
  BY <1>1, <1>2, MaxIs
<1> DEFINE m == Max(S)
<1>6. m \in S /\ m \in 0..(i - 1) /\ \A k \in S : m >= k
  BY <1>2, <1>5
<1> HIDE DEF m
<1>7. m + 1 \in 1..i /\ (m + 1) - 1 = m
  BY <1>1, <1>6
<1>8. m + 1 > 1 => text[(m + 1) - 1] \in Stops
  BY <1>3, <1>6, <1>7
<1>9. ASSUME NEW e \in (m + 1)..(i - 1) PROVE text[e] \notin Stops
  <2>1. e \in 1..(i - 1) /\ ~(m >= e)
    BY <1>1, <1>6
  <2> QED BY <1>3, <1>6, <2>1
<1>10. DocFirst(text, i) = m + 1
  BY <1>4, <1>6 DEF m
<1> QED BY <1>7, <1>8, <1>9, <1>10 DEF DocAt

LEMMA DocAtOnce ==
  ASSUME NEW text, NEW i \in Nat, NEW c, NEW d,
         DocAt(text, i, c), DocAt(text, i, d)
  PROVE  c = d
<1>1. c \in 1..i /\ d \in 1..i
  BY DEF DocAt
<1>2. ~(c < d)
  <2> SUFFICES ASSUME c < d PROVE FALSE
    OBVIOUS
  <2>1. d > 1 /\ d - 1 \in c..(i - 1)
    BY <1>1
  <2> QED BY <2>1 DEF DocAt
<1>3. ~(d < c)
  <2> SUFFICES ASSUME d < c PROVE FALSE
    OBVIOUS
  <2>1. c > 1 /\ c - 1 \in d..(i - 1)
    BY <1>1
  <2> QED BY <2>1 DEF DocAt
<1> QED BY <1>1, <1>2, <1>3

\* The first line of the document that starts at d ends at l.
LineAt(text, d, l) ==
  /\ l \in d..(Len(text) + 1)
  /\ \A i \in d..(l - 1) : text[i] \notin LineEnds
  /\ l <= Len(text) => text[l] \in LineEnds

LEMMA LineEndAt ==
  ASSUME NEW B, NEW text \in Seq(B), NEW d \in 1..(Len(text) + 1)
  PROVE  LineAt(text, d, LineEnd(text, d))
<1> DEFINE S == {i \in d..Len(text) : text[i] \in LineEnds} \cup {Len(text) + 1}
           m == Min(S)
<1>1. Len(text) \in Nat /\ d \in Nat
  OBVIOUS
<1>2. S \in SUBSET Nat /\ S # {}
  BY <1>1
<1>3. \A k : k \in S <=> k = Len(text) + 1 \/ (k \in d..Len(text) /\ text[k] \in LineEnds)
  OBVIOUS
<1>4. LineEnd(text, d) = m
  BY DEF LineEnd
<1> HIDE DEF S
<1>5. m \in S /\ \A k \in S : m <= k
  BY <1>2, MinIs
<1> HIDE DEF m
<1>6. m \in d..(Len(text) + 1)
  BY <1>1, <1>3, <1>5
<1>7. m <= Len(text) => text[m] \in LineEnds
  BY <1>1, <1>3, <1>5
<1>8. ASSUME NEW i \in d..(m - 1) PROVE text[i] \notin LineEnds
  <2>1. i \in d..Len(text) /\ ~(m <= i)
    BY <1>1, <1>6
  <2> QED BY <1>3, <1>5, <2>1
<1> QED BY <1>4, <1>6, <1>7, <1>8 DEF LineAt

LEMMA LineAtOnce ==
  ASSUME NEW text, Len(text) \in Nat, NEW d \in Nat, NEW k, NEW l,
         LineAt(text, d, k), LineAt(text, d, l)
  PROVE  k = l
<1>1. k \in d..(Len(text) + 1) /\ l \in d..(Len(text) + 1)
  BY DEF LineAt
<1>2. ~(k < l)
  <2> SUFFICES ASSUME k < l PROVE FALSE
    OBVIOUS
  <2>1. k \in d..(l - 1) /\ k <= Len(text)
    BY <1>1
  <2> QED BY <2>1 DEF LineAt
<1>3. ~(l < k)
  <2> SUFFICES ASSUME l < k PROVE FALSE
    OBVIOUS
  <2>1. l \in d..(k - 1) /\ l <= Len(text)
    BY <1>1
  <2> QED BY <2>1 DEF LineAt
<1> QED BY <1>1, <1>2, <1>3

-----------------------------------------------------------------------------
(* What the grammar gives has a type                                       *)

Tokens == {t \in [op : {"newline", "formfeed", "cell", "overflow", "filename"},
                  arg : Bytes \cup Seq(Bytes)] : t.op = "cell" => t.arg \in CellBytes}

LEMMA SaysTyped ==
  ASSUME NEW byte \in Bytes, NEW after \in BOOLEAN
  PROVE  Says(byte, after) \in Seq(Tokens)
<1>1. <<>> \in Seq(Tokens)
  OBVIOUS
<1>2. \A t \in Tokens : <<t>> \in Seq(Tokens)
  OBVIOUS
<1>3. /\ Token("newline", <<>>) \in Tokens /\ Token("formfeed", <<>>) \in Tokens
      /\ byte \in CellBytes => Token("cell", byte) \in Tokens
  <2>1. <<>> \in Seq(Bytes)
    OBVIOUS
  <2> QED BY <2>1 DEF Token, Tokens
<1>4. /\ <<Token("newline", <<>>)>> \in Seq(Tokens) /\ <<Token("formfeed", <<>>)>> \in Seq(Tokens)
      /\ byte \in CellBytes => <<Token("cell", byte)>> \in Seq(Tokens)
  BY <1>2, <1>3
<1> HIDE DEF Tokens
<1>5. CASE byte = "lf" /\ after
  BY <1>1, <1>5, ControlAssumption DEF Says
<1>6. CASE byte \in {"cr", "lf"} /\ ~(byte = "lf" /\ after)
  <2>1. Says(byte, after) = <<Token("newline", <<>>)>>
    BY <1>6, ControlAssumption DEF Says
  <2> QED BY <1>4, <2>1
<1>7. CASE byte \notin {"cr", "lf"}
  <2>1. CASE byte = "ff"
    <3>1. Says(byte, after) = <<Token("formfeed", <<>>)>>
      BY <1>7, <2>1, ControlAssumption DEF Says
    <3> QED BY <1>4, <3>1
  <2>2. CASE byte \in CellBytes /\ byte # "ff"
    <3>1. Says(byte, after) = <<Token("cell", byte)>>
      BY <1>7, <2>2 DEF Says
    <3> QED BY <1>4, <2>2, <3>1
  <2>3. CASE byte \notin CellBytes /\ byte # "ff"
    <3>1. Says(byte, after) = <<>>
      BY <1>7, <2>3 DEF Says
    <3> QED BY <1>1, <3>1
  <2> QED BY <2>1, <2>2, <2>3
<1> QED BY <1>5, <1>6, <1>7

LEMMA SubSeqTyped ==
  ASSUME NEW B, NEW seq \in Seq(B), NEW m \in Nat \ {0}, NEW n \in 0..Len(seq)
  PROVE  SubSeq(seq, m, n) \in Seq(B)
<1>1. \A i \in m..n : seq[i] \in B
  OBVIOUS
<1>2. m \in Int /\ n \in Int
  OBVIOUS
<1> QED BY <1>1, <1>2, SubSeqProperties

LEMMA TrimTyped ==
  ASSUME NEW B, NEW name \in Seq(B)
  PROVE  Trim(name) \in Seq(B)
<1> DEFINE solid == {i \in DOMAIN name : name[i] \notin Blanks}
<1>1. Len(name) \in Nat /\ DOMAIN name = 1..Len(name)
  OBVIOUS
<1>2. solid \in SUBSET Nat /\ solid \in SUBSET (0..Len(name)) /\ 0 \notin solid
  BY <1>1
<1>3. Trim(name) = IF solid = {} THEN <<>> ELSE SubSeq(name, Min(solid), Max(solid))
  BY DEF Trim
<1> HIDE DEF solid
<1>4. CASE solid = {}
  BY <1>3, <1>4
<1>5. CASE solid # {}
  <2>1. Min(solid) \in solid /\ Max(solid) \in solid
    BY <1>1, <1>2, <1>5, MinIs, MaxIs
  <2>2. Min(solid) \in Nat \ {0} /\ Max(solid) \in 0..Len(name)
    BY <1>2, <2>1
  <2>3. SubSeq(name, Min(solid), Max(solid)) \in Seq(B)
    BY <2>2, SubSeqTyped
  <2> QED BY <1>3, <1>5, <2>3
<1> QED BY <1>4, <1>5

LEMMA FirstLineIs ==
  ASSUME NEW B, NEW text \in Seq(B), NEW d \in 1..(Len(text) + 1)
  PROVE  /\ FirstLine(text, d) \in Seq(B)
         /\ Len(FirstLine(text, d)) = LineEnd(text, d) - d
         /\ \A k \in 1..(LineEnd(text, d) - d) : FirstLine(text, d)[k] = text[d + k - 1]
<1> DEFINE l == LineEnd(text, d)
<1>1. LineAt(text, d, l)
  BY LineEndAt
<1>2. Len(text) \in Nat /\ d \in Int /\ l \in d..(Len(text) + 1) /\ l - 1 \in 0..Len(text)
  BY <1>1 DEF LineAt
<1>3. FirstLine(text, d) = SubSeq(text, d, l - 1)
  BY DEF FirstLine
<1> HIDE DEF l
<1>4. \A i \in d..(l - 1) : text[i] \in B
  BY <1>2
<1>5. l - 1 \in Int
  BY <1>2
<1>6. /\ SubSeq(text, d, l - 1) \in Seq(B)
      /\ Len(SubSeq(text, d, l - 1)) = IF d <= l - 1 THEN (l - 1) - d + 1 ELSE 0
      /\ \A k \in 1..((l - 1) - d + 1) : SubSeq(text, d, l - 1)[k] = text[d + k - 1]
  BY <1>2, <1>4, <1>5, SubSeqProperties
<1>7. (l - 1) - d + 1 = l - d /\ (d <= l - 1 \/ l - d = 0)
  BY <1>2
<1> QED BY <1>2, <1>3, <1>6, <1>7 DEF l

LEMMA NameTyped ==
  ASSUME NEW named \in Seq(Bytes)
  PROVE  Trim(SubSeq(named, Len(HeaderPrefix) + 1, Len(named))) \in Seq(Bytes)
<1>1. Len(HeaderPrefix) + 1 \in Nat \ {0} /\ Len(named) \in 0..Len(named)
  BY PrefixAssumption
<1>2. SubSeq(named, Len(HeaderPrefix) + 1, Len(named)) \in Seq(Bytes)
  BY <1>1, SubSeqTyped
<1> QED BY <1>2, TrimTyped

LEMMA HeaderTokensTyped ==
  ASSUME NEW text \in Seq(Bytes), NEW d \in 1..(Len(text) + 1)
  PROVE  HeaderTokens(text, d) \in Seq(Tokens)
<1> DEFINE named == FirstLine(text, d)
           name == Trim(SubSeq(named, Len(HeaderPrefix) + 1, Len(named)))
<1>1. named \in Seq(Bytes)
  BY FirstLineIs
<1>2. name \in Seq(Bytes)
  BY <1>1, NameTyped
<1>3. HeaderTokens(text, d) \in
        {<<>>, <<Token("overflow", <<>>)>>, <<Token("filename", name)>>}
  BY DEF HeaderTokens
<1> HIDE DEF name, named
<1>4. Token("overflow", <<>>) \in Tokens /\ Token("filename", name) \in Tokens
  BY <1>2 DEF Token, Tokens
<1>5. \A t \in Tokens : <<t>> \in Seq(Tokens)
  OBVIOUS
<1>6. <<>> \in Seq(Tokens)
  OBVIOUS
<1> HIDE DEF Tokens
<1> QED BY <1>3, <1>4, <1>5, <1>6

LEMMA DocFirstRange ==
  ASSUME NEW B, NEW text \in Seq(B), NEW i \in 1..(Len(text) + 1)
  PROVE  DocFirst(text, i) \in 1..i /\ DocFirst(text, i) \in 1..(Len(text) + 1)
<1>1. DocFirst(text, i) \in 1..i
  BY DocFirstAt DEF DocAt
<1> QED BY <1>1

LEMMA MeaningTyped ==
  ASSUME NEW text \in Seq(Bytes), NEW i \in 1..Len(text)
  PROVE  Meaning(text, i) \in Seq(Tokens)
<1> DEFINE d == DocFirst(text, i)
<1>1. d \in 1..(Len(text) + 1)
  BY DocFirstRange
<1>2. HeaderTokens(text, d) \in Seq(Tokens)
  BY <1>1, HeaderTokensTyped
<1>3. Says(text[i], i > d /\ text[i - 1] = "cr") \in Seq(Tokens)
  <2>1. text[i] \in Bytes /\ (i > d /\ text[i - 1] = "cr") \in BOOLEAN
    OBVIOUS
  <2> HIDE DEF d
  <2> QED BY <2>1, SaysTyped
<1>4. <<>> \in Seq(Tokens)
  OBVIOUS
<1>5. Meaning(text, i) \in
        {HeaderTokens(text, d), <<>>, Says(text[i], i > d /\ text[i - 1] = "cr")}
  BY DEF Meaning
<1> QED BY <1>2, <1>3, <1>4, <1>5

-----------------------------------------------------------------------------
(* What the beginnings of a text mean                                      *)

Meanings(text, k) == [i \in 1..k |-> Meaning(text, i)]
Upto(text, k) == Joined(Meanings(text, k))

LEMMA UptoAll ==
  ASSUME NEW text \in Seq(Bytes) PROVE Meant(text) = Upto(text, Len(text))
<1>1. DOMAIN text = 1..Len(text)
  OBVIOUS
<1> QED BY <1>1 DEF Meant, Upto, Meanings

LEMMA UptoNone ==
  ASSUME NEW text PROVE Upto(text, 0) = <<>>
<1>1. Meanings(text, 0) = <<>>
  BY DEF Meanings
<1> QED BY <1>1, JoinedNone DEF Upto

LEMMA UptoNext ==
  ASSUME NEW text \in Seq(Bytes), NEW k \in Nat, k + 1 <= Len(text)
  PROVE  /\ Upto(text, k) \in Seq(Tokens)
         /\ Upto(text, k + 1) = Upto(text, k) \o Meaning(text, k + 1)
         /\ Upto(text, k + 1) \in Seq(Tokens)
<1> DEFINE W == Seq(Tokens)
           before == Meanings(text, k)
           next == Meaning(text, k + 1)
<1>1. \A i \in 1..(k + 1) : Meaning(text, i) \in W
  BY MeaningTyped
<1>2. next \in W
  BY <1>1
<1> HIDE DEF W
<1>3. before \in Seq(W)
  BY <1>1 DEF Meanings
<1>4. Meanings(text, k + 1) = Append(before, next)
  <2>1. Len(before) = k
    BY DEF Meanings
  <2> QED BY <2>1 DEF Meanings
<1>5. Joined(before) \in W /\ Joined(Append(before, next)) = Joined(before) \o next
  <2> HIDE DEF before, next
  <2> QED BY <1>2, <1>3, JoinedAppend DEF W
<1>6. Joined(before) \o next \in W
  BY <1>2, <1>5, ConcatProperties DEF W
<1> QED BY <1>4, <1>5, <1>6 DEF Upto, W

-----------------------------------------------------------------------------
(* What one more byte changes                                              *)

\* Where the document begins that the next byte belongs to.
At(text) == DocFirst(text, Len(text) + 1)

LEMMA MoreText ==
  ASSUME NEW text \in Seq(Bytes), NEW byte \in Bytes
  PROVE  /\ Append(text, byte) \in Seq(Bytes)
         /\ Len(Append(text, byte)) = Len(text) + 1 /\ Len(text) \in Nat
         /\ Append(text, byte)[Len(text) + 1] = byte
         /\ \A i \in 1..Len(text) : Append(text, byte)[i] = text[i]
  BY AppendProperties

LEMMA SameDoc ==
  ASSUME NEW text \in Seq(Bytes), NEW byte \in Bytes, NEW i \in 1..(Len(text) + 1)
  PROVE  DocFirst(Append(text, byte), i) = DocFirst(text, i)
<1> DEFINE more == Append(text, byte)
           d == DocFirst(text, i)
<1>1. more \in Seq(Bytes) /\ Len(more) = Len(text) + 1 /\ Len(text) \in Nat
      /\ \A k \in 1..Len(text) : more[k] = text[k]
  BY MoreText
<1> HIDE DEF more
<1>2. i \in 1..(Len(more) + 1) /\ i \in Nat
  BY <1>1
<1>3. DocAt(more, i, DocFirst(more, i))
  BY <1>1, <1>2, DocFirstAt
<1>4. DocAt(text, i, d)
  BY DocFirstAt
<1> HIDE DEF d
<1>5. DocAt(more, i, d)
  <2>1. d \in 1..i
    BY <1>4 DEF DocAt
  <2>2. d > 1 => more[d - 1] = text[d - 1]
    BY <1>1, <2>1
  <2>3. \A e \in d..(i - 1) : more[e] = text[e]
    BY <1>1, <2>1
  <2> QED BY <1>4, <2>1, <2>2, <2>3 DEF DocAt
<1>6. DocFirst(more, i) = d
  BY <1>2, <1>3, <1>5, DocAtOnce
<1> QED BY <1>6 DEF more, d

LEMMA DocSince ==
  ASSUME NEW text \in Seq(Bytes), NEW i \in At(text)..(Len(text) + 1)
  PROVE  At(text) \in 1..(Len(text) + 1) /\ DocFirst(text, i) = At(text)
<1> DEFINE d == At(text)
           n == Len(text)
<1>1. n \in Nat /\ n + 1 \in 1..(n + 1)
  OBVIOUS
<1>2. DocAt(text, n + 1, d)
  BY <1>1, DocFirstAt DEF At
<1> HIDE DEF d
<1>3. d \in 1..(n + 1) /\ i \in d..(n + 1)
  BY <1>2 DEF DocAt, d
<1>4. i \in 1..(n + 1) /\ i \in Nat
  BY <1>1, <1>3
<1>5. DocAt(text, i, d)
  <2>1. d \in 1..i /\ \A e \in d..(i - 1) : e \in d..((n + 1) - 1)
    BY <1>1, <1>3
  <2> QED BY <1>2, <2>1 DEF DocAt
<1>6. DocAt(text, i, DocFirst(text, i))
  BY <1>4, DocFirstAt
<1>7. DocFirst(text, i) = d
  BY <1>4, <1>5, <1>6, DocAtOnce
<1> QED BY <1>3, <1>7 DEF d

\* The lines of the documents before it have ended.
LEMMA DocBefore ==
  ASSUME NEW text \in Seq(Bytes), NEW i \in 1..Len(text), i < At(text)
  PROVE  LineEnd(text, DocFirst(text, i)) <= Len(text)
<1> DEFINE d == At(text)
           n == Len(text)
           c == DocFirst(text, i)
           l == LineEnd(text, c)
<1>1. n \in Nat /\ n + 1 \in 1..(n + 1) /\ i \in 1..(n + 1)
  OBVIOUS
<1>2. DocAt(text, n + 1, d) /\ DocAt(text, i, c)
  BY <1>1, DocFirstAt DEF At
<1>3. c \in 1..(n + 1)
  BY <1>1, DocFirstRange
<1>4. LineAt(text, c, l)
  BY <1>3, LineEndAt
<1>5. i < d
  OBVIOUS
<1> HIDE DEF d, c, l
<1>6. d \in 1..(n + 1) /\ c \in 1..i /\ text[d - 1] \in Stops
  BY <1>1, <1>2, <1>5 DEF DocAt
<1>7. d - 1 \in c..n /\ text[d - 1] \in LineEnds
  BY <1>1, <1>5, <1>6 DEF Stops, LineEnds
<1>8. l <= d - 1
  <2>1. l \in c..(n + 1) /\ \A k \in c..(l - 1) : text[k] \notin LineEnds
    BY <1>4 DEF LineAt
  <2>2. ~(d - 1 \in c..(l - 1))
    BY <1>7, <2>1
  <2> QED BY <1>1, <1>3, <1>7, <2>1, <2>2
<1>9. l <= n
  <2>1. l \in Int
    BY <1>3, <1>4 DEF LineAt
  <2> QED BY <1>1, <1>6, <1>8, <2>1
<1> QED BY <1>9 DEF l, c

LEMMA ClosedLine ==
  ASSUME NEW text \in Seq(Bytes), NEW byte \in Bytes, NEW d \in 1..(Len(text) + 1),
         LineEnd(text, d) <= Len(text)
  PROVE  /\ LineEnd(Append(text, byte), d) = LineEnd(text, d)
         /\ FirstLine(Append(text, byte), d) = FirstLine(text, d)
<1> DEFINE more == Append(text, byte)
           l == LineEnd(text, d)
           n == Len(text)
<1>1. more \in Seq(Bytes) /\ Len(more) = n + 1 /\ n \in Nat
      /\ \A k \in 1..n : more[k] = text[k]
  BY MoreText
<1> HIDE DEF more
<1>2. d \in 1..(Len(more) + 1) /\ d \in Nat /\ d >= 1
  BY <1>1
<1>3. LineAt(text, d, l)
  BY LineEndAt
<1>4. LineAt(more, d, LineEnd(more, d))
  BY <1>1, <1>2, LineEndAt
<1>5. l <= n
  OBVIOUS
<1>6. FirstLine(text, d) \in Seq(Bytes) /\ Len(FirstLine(text, d)) = l - d
      /\ \A k \in 1..(l - d) : FirstLine(text, d)[k] = text[d + k - 1]
  BY FirstLineIs
<1> HIDE DEF l, n
<1>7. l \in d..n /\ \A k \in d..l : more[k] = text[k]
  BY <1>1, <1>2, <1>3, <1>5 DEF LineAt, n
<1>8. LineAt(more, d, l)
  <2>1. l \in d..(Len(more) + 1)
    BY <1>1, <1>7
  <2>2. \A k \in d..(l - 1) : more[k] \notin LineEnds
    <3>1. \A k \in d..(l - 1) : k \in d..l
      BY <1>2, <1>7
    <3> QED BY <1>3, <1>7, <3>1 DEF LineAt
  <2>3. more[l] \in LineEnds
    <3>1. l \in d..l
      BY <1>2, <1>7
    <3> QED BY <1>3, <1>5, <1>7, <3>1 DEF LineAt, n
  <2> QED BY <2>1, <2>2, <2>3 DEF LineAt
<1>9. LineEnd(more, d) = l
  <2>1. Len(more) \in Nat
    BY <1>1
  <2> QED BY <1>2, <1>4, <1>8, <2>1, LineAtOnce
<1>10. FirstLine(more, d) = FirstLine(text, d)
  <2>1. FirstLine(more, d) \in Seq(Bytes) /\ Len(FirstLine(more, d)) = l - d
        /\ \A k \in 1..(l - d) : FirstLine(more, d)[k] = more[d + k - 1]
    BY <1>1, <1>2, <1>9, FirstLineIs
  <2>2. \A k \in 1..(l - d) : d + k - 1 \in d..l
    BY <1>2, <1>7
  <2>3. \A k \in 1..(l - d) : FirstLine(more, d)[k] = FirstLine(text, d)[k]
    BY <1>6, <1>7, <2>1, <2>2
  <2> QED BY <1>6, <2>1, <2>3, SeqEqual
<1> QED BY <1>9, <1>10 DEF more, l

LEMMA OpenLine ==
  ASSUME NEW text \in Seq(Bytes), NEW byte \in Bytes, NEW d \in 1..(Len(text) + 1),
         LineEnd(text, d) = Len(text) + 1
  PROVE  /\ byte \in LineEnds =>
              /\ LineEnd(Append(text, byte), d) = Len(text) + 1
              /\ FirstLine(Append(text, byte), d) = FirstLine(text, d)
         /\ byte \notin LineEnds =>
              /\ LineEnd(Append(text, byte), d) = Len(text) + 2
              /\ FirstLine(Append(text, byte), d) = Append(FirstLine(text, d), byte)
<1> DEFINE more == Append(text, byte)
           n == Len(text)
           now == FirstLine(text, d)
           then == FirstLine(more, d)
<1>1. more \in Seq(Bytes) /\ Len(more) = n + 1 /\ n \in Nat /\ more[n + 1] = byte
      /\ \A k \in 1..n : more[k] = text[k]
  BY MoreText
<1> HIDE DEF more
<1>2. d \in 1..(Len(more) + 1) /\ d \in Nat /\ d >= 1 /\ d <= n + 1
  BY <1>1
<1>3. LineAt(text, d, n + 1)
  BY LineEndAt
<1>4. LineAt(more, d, LineEnd(more, d))
  BY <1>1, <1>2, LineEndAt
<1>5. now \in Seq(Bytes) /\ Len(now) = (n + 1) - d
      /\ \A k \in 1..((n + 1) - d) : now[k] = text[d + k - 1]
  <2>1. now \in Seq(Bytes) /\ Len(now) = LineEnd(text, d) - d
        /\ \A k \in 1..(LineEnd(text, d) - d) : now[k] = text[d + k - 1]
    BY FirstLineIs
  <2>2. LineEnd(text, d) = n + 1
    OBVIOUS
  <2> HIDE DEF n, now
  <2> QED BY <2>1, <2>2
<1>6. then \in Seq(Bytes) /\ Len(then) = LineEnd(more, d) - d
      /\ \A k \in 1..(LineEnd(more, d) - d) : then[k] = more[d + k - 1]
  BY <1>1, <1>2, FirstLineIs
<1> HIDE DEF n, now, then
<1>7. \A k \in d..n : more[k] = text[k] /\ more[k] \notin LineEnds
  <2>1. \A k \in d..n : k \in d..((n + 1) - 1) /\ k \in 1..n
    BY <1>1, <1>2
  <2> QED BY <1>1, <1>3, <2>1 DEF LineAt
<1>8. ASSUME byte \in LineEnds PROVE LineEnd(more, d) = n + 1 /\ then = now
  <2>1. LineAt(more, d, n + 1)
    <3>1. n + 1 \in d..(Len(more) + 1) /\ (n + 1) - 1 = n
      BY <1>1, <1>2
    <3> QED BY <1>1, <1>7, <1>8, <3>1 DEF LineAt
  <2>2. LineEnd(more, d) = n + 1
    <3>1. Len(more) \in Nat
      BY <1>1
    <3> QED BY <1>2, <1>4, <2>1, <3>1, LineAtOnce
  <2>3. \A k \in 1..((n + 1) - d) : d + k - 1 \in d..n
    BY <1>1, <1>2
  <2>4. \A k \in 1..((n + 1) - d) : then[k] = now[k]
    BY <1>5, <1>6, <1>7, <2>2, <2>3
  <2> QED BY <1>5, <1>6, <2>2, <2>4, SeqEqual
<1>9. ASSUME byte \notin LineEnds PROVE LineEnd(more, d) = n + 2 /\ then = Append(now, byte)
  <2>1. LineAt(more, d, n + 2)
    <3>1. n + 2 \in d..(Len(more) + 1) /\ (n + 2) - 1 = n + 1 /\ ~(n + 2 <= Len(more))
      BY <1>1, <1>2
    <3>2. \A k \in d..(n + 1) : k \in d..n \/ k = n + 1
      BY <1>1, <1>2
    <3>3. \A k \in d..(n + 1) : more[k] \notin LineEnds
      BY <1>1, <1>7, <1>9, <3>2
    <3> QED BY <3>1, <3>3 DEF LineAt
  <2>2. LineEnd(more, d) = n + 2
    <3>1. Len(more) \in Nat
      BY <1>1
    <3> QED BY <1>2, <1>4, <2>1, <3>1, LineAtOnce
  <2>3. /\ Append(now, byte) \in Seq(Bytes) /\ Len(Append(now, byte)) = Len(now) + 1
        /\ \A k \in 1..Len(now) : Append(now, byte)[k] = now[k]
        /\ Append(now, byte)[Len(now) + 1] = byte
    BY <1>5, AppendProperties
  <2>4. Len(then) = Len(now) + 1 /\ Len(now) \in Nat /\ Len(now) + 1 = (n + 2) - d
        /\ Len(now) = (n + 1) - d /\ d + (Len(now) + 1) - 1 = n + 1
    BY <1>1, <1>2, <1>5, <1>6, <2>2
  <2>5. ASSUME NEW k \in 1..Len(then) PROVE then[k] = Append(now, byte)[k]
    <3>1. then[k] = more[d + k - 1]
      BY <1>6, <2>2, <2>4
    <3>2. CASE k = Len(now) + 1
      BY <1>1, <2>3, <2>4, <3>1, <3>2
    <3>3. CASE k # Len(now) + 1
      <4>1. k \in 1..Len(now) /\ k \in 1..((n + 1) - d) /\ d + k - 1 \in d..n
        BY <1>1, <1>2, <2>4, <3>3
      <4> QED BY <1>5, <1>7, <2>3, <3>1, <4>1
    <3> QED BY <3>2, <3>3
  <2> QED BY <1>6, <2>2, <2>3, <2>4, <2>5, SeqEqual
<1> QED BY <1>8, <1>9 DEF more, n, now, then

-----------------------------------------------------------------------------
(* What it leaves as it was                                                *)

LEMMA MeaningSettled ==
  ASSUME NEW text \in Seq(Bytes), NEW byte \in Bytes, NEW i \in 1..Len(text),
         LineEnd(text, DocFirst(text, i)) <= Len(text)
  PROVE  Meaning(Append(text, byte), i) = Meaning(text, i)
<1> DEFINE more == Append(text, byte)
           d == DocFirst(text, i)
<1>1. Len(more) = Len(text) + 1 /\ Len(text) \in Nat
      /\ \A k \in 1..Len(text) : more[k] = text[k]
  BY MoreText
<1>2. i \in 1..(Len(text) + 1)
  BY <1>1
<1>3. d \in 1..(Len(text) + 1) /\ d \in 1..i
  BY <1>2, DocFirstRange
<1>4. DocFirst(more, i) = d
  BY <1>2, SameDoc
<1>5. LineEnd(more, d) = LineEnd(text, d) /\ FirstLine(more, d) = FirstLine(text, d)
  BY <1>3, ClosedLine
<1>6. LineEnd(text, d) <= Len(text)
  OBVIOUS
<1> HIDE DEF more, d
<1>7. HasHeader(more, d) = HasHeader(text, d)
  BY <1>5 DEF HasHeader
<1>8. LineEnd(text, d) \in Int
  BY <1>3, LineEndAt DEF LineAt
<1>9. ~Undecided(more, d) /\ ~Undecided(text, d)
  BY <1>1, <1>5, <1>6, <1>8 DEF Undecided
<1>10. HeaderTokens(more, d) = HeaderTokens(text, d)
  <2>1. (LineEnd(more, d) <= Len(more)) = (LineEnd(text, d) <= Len(text))
    BY <1>1, <1>5, <1>6, <1>8
  <2> QED BY <1>5, <2>1 DEF HeaderTokens
<1>11. more[i] = text[i] /\ (i > d => more[i - 1] = text[i - 1])
  BY <1>1, <1>3
<1>12. (i > d /\ more[i - 1] = "cr") = (i > d /\ text[i - 1] = "cr")
  BY <1>11
<1>13. Says(more[i], i > d /\ more[i - 1] = "cr") = Says(text[i], i > d /\ text[i - 1] = "cr")
  BY <1>11, <1>12
<1>14. DocFirst(text, i) = d
  BY DEF d
<1> HIDE DEF more, d
<1>15. Meaning(more, i) = Meaning(text, i)
  BY <1>4, <1>5, <1>7, <1>9, <1>10, <1>11, <1>13, <1>14 DEF Meaning
<1> QED BY <1>15 DEF more

\* The meanings of a document, by its first line.
LEMMA MeaningIs ==
  ASSUME NEW text, NEW i, NEW d, DocFirst(text, i) = d
  PROVE  /\ ~HasHeader(text, d) /\ Undecided(text, d) => Meaning(text, i) = <<>>
         /\ ~HasHeader(text, d) /\ ~Undecided(text, d) =>
              Meaning(text, i) = Says(text[i], i > d /\ text[i - 1] = "cr")
         /\ HasHeader(text, d) /\ i < LineEnd(text, d) =>
              Meaning(text, i) = IF i = d THEN HeaderTokens(text, d) ELSE <<>>
         /\ HasHeader(text, d) /\ i = LineEnd(text, d) /\ ~(i < LineEnd(text, d)) =>
              Meaning(text, i) = IF text[i] # "ff" \/ Undecided(text, d) THEN <<>>
                                 ELSE Says(text[i], i > d /\ text[i - 1] = "cr")
         /\ ~(i < LineEnd(text, d)) /\ i # LineEnd(text, d) /\ ~Undecided(text, d) =>
              Meaning(text, i) = Says(text[i], i > d /\ text[i - 1] = "cr")
  BY DEF Meaning

LEMMA UptoAlike ==
  ASSUME NEW text, NEW other, NEW k \in Nat,
         \A i \in 1..k : Meaning(text, i) = Meaning(other, i)
  PROVE  Upto(text, k) = Upto(other, k)
<1>1. Meanings(text, k) = Meanings(other, k)
  BY DEF Meanings
<1> QED BY <1>1 DEF Upto

LEMMA UptoBefore ==
  ASSUME NEW text \in Seq(Bytes), NEW byte \in Bytes
  PROVE  Upto(Append(text, byte), At(text) - 1) = Upto(text, At(text) - 1)
<1>1. At(text) \in 1..(Len(text) + 1) /\ Len(text) \in Nat
  BY DocFirstRange DEF At
<1>2. \A i \in 1..(At(text) - 1) : i \in 1..Len(text) /\ i < At(text)
  BY <1>1
<1>3. \A i \in 1..(At(text) - 1) : Meaning(Append(text, byte), i) = Meaning(text, i)
  BY <1>2, DocBefore, MeaningSettled
<1>4. At(text) - 1 \in Nat
  BY <1>1
<1> QED BY <1>3, <1>4, UptoAlike

LEMMA UptoTyped ==
  ASSUME NEW text \in Seq(Bytes), NEW k \in 0..Len(text)
  PROVE  Upto(text, k) \in Seq(Tokens)
<1>1. CASE k = 0
  <2>1. Upto(text, 0) = <<>> /\ <<>> \in Seq(Tokens)
    BY UptoNone
  <2> QED BY <1>1, <2>1
<1>2. CASE k # 0
  <2>1. k - 1 \in Nat /\ (k - 1) + 1 = k /\ (k - 1) + 1 <= Len(text)
    BY <1>2
  <2>2. Upto(text, (k - 1) + 1) \in Seq(Tokens)
    BY <2>1, UptoNext
  <2> QED BY <2>1, <2>2
<1> QED BY <1>1, <1>2

LEMMA UptoQuiet ==
  ASSUME NEW text \in Seq(Bytes), NEW a \in Nat, NEW b \in a..Len(text),
         \A i \in (a + 1)..b : Meaning(text, i) = <<>>
  PROVE  Upto(text, b) = Upto(text, a)
<1> DEFINE T == {j \in Nat : a + j <= b => Upto(text, a + j) = Upto(text, a)}
<1>1. 0 \in T
  OBVIOUS
<1>2. ASSUME NEW j \in Nat, j \in T PROVE j + 1 \in T
  <2> SUFFICES ASSUME a + (j + 1) <= b PROVE Upto(text, a + (j + 1)) = Upto(text, a)
    OBVIOUS
  <2>1. /\ a + j <= b /\ a + (j + 1) = (a + j) + 1 /\ (a + j) + 1 \in (a + 1)..b
        /\ a + j \in Nat /\ (a + j) + 1 <= Len(text)
    OBVIOUS
  <2>2. Upto(text, a + j) = Upto(text, a)
    BY <1>2, <2>1
  <2>3. Meaning(text, (a + j) + 1) = <<>>
    BY <2>1
  <2>4. Upto(text, (a + j) + 1) = Upto(text, a + j) \o <<>> /\ Upto(text, a + j) \in Seq(Tokens)
    BY <2>1, <2>3, UptoNext
  <2>5. Upto(text, (a + j) + 1) = Upto(text, a + j)
    BY <2>4, ConcatEmptySeq
  <2> QED BY <2>1, <2>2, <2>5
<1> HIDE DEF T
<1>3. b - a \in T
  BY <1>1, <1>2, Induction
<1>4. b - a \in Nat /\ a + (b - a) = b
  OBVIOUS
<1> QED BY <1>3, <1>4 DEF T

-----------------------------------------------------------------------------
(* Bytes replayed                                                          *)

Jobs == [hdr : {"maybe", "filename", "body"}, line : Seq(Bytes), swallow : BOOLEAN]
Parses == [job : Jobs, out : Seq(Tokens)]

LEMMA ContentIs ==
  ASSUME NEW j \in Jobs, NEW byte \in Bytes
  PROVE  /\ Content(j, byte) \in Parses
         /\ Content(j, byte).out = Says(byte, j.swallow)
         /\ Content(j, byte).job = [j EXCEPT !.swallow = (byte = "cr")]
<1>1. j.swallow \in BOOLEAN /\ (byte = "cr") \in BOOLEAN
  BY DEF Jobs
<1>2. ContentTokens(j.swallow, byte) = Says(byte, j.swallow)
  BY DEF ContentTokens, Says
<1>3. Says(byte, j.swallow) \in Seq(Tokens)
  BY <1>1, SaysTyped
<1>4. [j EXCEPT !.swallow = (byte = "cr")] \in Jobs
  BY <1>1 DEF Jobs
<1> HIDE DEF Jobs
<1> QED BY <1>2, <1>3, <1>4 DEF Content, Parsed, Parses

LEMMA ThenIs ==
  ASSUME NEW p \in Parses, NEW byte \in Bytes
  PROVE  /\ Then(p, byte) \in Parses
         /\ Then(p, byte).out = p.out \o Says(byte, p.job.swallow)
         /\ Then(p, byte).job = [p.job EXCEPT !.swallow = (byte = "cr")]
<1>1. p.job \in Jobs /\ p.out \in Seq(Tokens)
  BY DEF Parses
<1> DEFINE q == Content(p.job, byte)
<1>2. q \in Parses /\ q.out = Says(byte, p.job.swallow)
      /\ q.job = [p.job EXCEPT !.swallow = (byte = "cr")]
  BY <1>1, ContentIs
<1>3. Then(p, byte) = Parsed(q.job, p.out \o q.out)
  BY DEF Then
<1>4. q.job \in Jobs /\ q.out \in Seq(Tokens)
  BY <1>2 DEF Parses
<1> HIDE DEF q
<1>5. p.out \o q.out \in Seq(Tokens)
  BY <1>1, <1>4, ConcatProperties
<1> QED BY <1>2, <1>3, <1>4, <1>5 DEF Parsed, Parses

Plays(f, held) ==
  /\ f[0] = Parsed(Body, <<>>)
  /\ \A i \in 1..Len(held) : f[i] = Then(f[i - 1], held[i])

LEMMA ReplayIs ==
  ASSUME NEW held \in Seq(Bytes)
  PROVE  \E f : Plays(f, held) /\ Replay(held) = f[Len(held)]
<1> DEFINE n == Len(held)
           step == [p \in Parses |-> [byte \in Bytes |-> Then(p, byte)]]
           first == Parsed(Body, <<>>)
           Up(f) == f = [i \in 0..n |-> IF i = 0 THEN Parsed(Body, <<>>)
                                        ELSE Then(f[i - 1], held[i])]
           up == CHOOSE f : Up(f)
<1>1. n \in Nat /\ (\A i \in 1..n : held[i] \in Bytes)
  OBVIOUS
<1>2. first \in Parses
  <2>1. <<>> \in Seq(Bytes) /\ <<>> \in Seq(Tokens)
    OBVIOUS
  <2>2. Body \in Jobs
    BY <2>1 DEF Body, Jobs
  <2> QED BY <2>1, <2>2 DEF Parsed, Parses
<1>3. step \in [Parses -> [Bytes -> Parses]]
  BY ThenIs
<1>4. \A p \in Parses, byte \in Bytes : step[p][byte] = Then(p, byte)
  OBVIOUS
<1> HIDE DEF step, first
<1>5. PICK g \in [0..Len(held) -> Parses] : Through(g, first, held, step)
  BY <1>2, <1>3, GoesThrough
<1>6. /\ g \in [0..n -> Parses] /\ g[0] = first
      /\ \A i \in 1..n : g[i] = step[g[i - 1]][held[i]]
  BY <1>5 DEF Through
<1>7. \A i \in 0..n : i # 0 => i - 1 \in 0..n /\ i \in 1..n
  BY <1>1
<1>8. n \in 0..n /\ 0 \in 0..n /\ \A i \in 1..n : i \in 0..n /\ i # 0
  BY <1>1
<1> HIDE DEF n
<1>9. \A i \in 0..n : i # 0 => g[i] = Then(g[i - 1], held[i])
  BY <1>1, <1>4, <1>6, <1>7
<1>10. Up(g)
  <2>1. g = [i \in 0..n |-> g[i]]
    BY <1>6
  <2> QED BY <1>6, <1>9, <2>1 DEF first
<1> HIDE DEF Up
<1>11. Up(up)
  BY <1>10, Zenon
<1>12. Replay(held) = up[n]
  BY Zenon DEF Replay, Up, n
<1> HIDE DEF up
<1>13. Plays(up, held)
  BY <1>8, <1>11 DEF Plays, Up, n
<1> QED BY <1>12, <1>13 DEF n

\* Held bytes without a carriage return are replayed as what they say.
LEMMA Replayed ==
  ASSUME NEW text \in Seq(Bytes), NEW held \in Seq(Bytes),
         NEW a \in Nat, a + Len(held) <= Len(text),
         \A i \in 1..Len(held) : /\ held[i] # "cr"
                                 /\ Meaning(text, a + i) = Says(held[i], FALSE)
  PROVE  /\ Replay(held).job = Body
         /\ Replay(held).out \in Seq(Tokens)
         /\ Upto(text, a + Len(held)) = Upto(text, a) \o Replay(held).out
<1> DEFINE n == Len(held)
           Q(p, i) == /\ p \in Parses /\ p.job = Body
                      /\ Upto(text, a + i) = Upto(text, a) \o p.out
<1>1. PICK f : Plays(f, held) /\ Replay(held) = f[Len(held)]
  BY ReplayIs
<1> DEFINE T == {i \in Nat : i <= n => Q(f[i], i)}
<1>2. n \in Nat /\ \A i \in 1..n : held[i] \in Bytes
  OBVIOUS
<1>3. 0 \in T
  <2>1. f[0] = Parsed(Body, <<>>)
    BY <1>1 DEF Plays
  <2>2. <<>> \in Seq(Bytes) /\ <<>> \in Seq(Tokens)
    OBVIOUS
  <2>3. Body \in Jobs
    BY <2>2 DEF Body, Jobs
  <2>4. f[0] \in Parses /\ f[0].job = Body /\ f[0].out = <<>>
    BY <2>1, <2>2, <2>3 DEF Parsed, Parses
  <2>5. a \in 0..Len(text) /\ a + 0 = a
    BY <1>2
  <2>6. Upto(text, a) \o <<>> = Upto(text, a)
    BY <2>5, UptoTyped, ConcatEmptySeq
  <2>7. Q(f[0], 0)
    BY <2>4, <2>5, <2>6
  <2> QED BY <2>7
<1>4. ASSUME NEW i \in Nat, i \in T PROVE i + 1 \in T
  <2> SUFFICES ASSUME i + 1 <= n PROVE Q(f[i + 1], i + 1)
    OBVIOUS
  <2> DEFINE p == f[i]
             q == f[i + 1]
             byte == held[i + 1]
  <2>1. Q(p, i)
    BY <1>4
  <2>2. i + 1 \in 1..n /\ (i + 1) - 1 = i
    BY <1>2
  <2>3. q = Then(p, byte) /\ byte \in Bytes /\ byte # "cr"
    BY <1>1, <1>2, <2>2 DEF Plays
  <2>4. Meaning(text, a + (i + 1)) = Says(byte, FALSE)
    BY <2>2
  <2> HIDE DEF q, p, byte
  <2>5. p \in Parses /\ p.job = Body /\ p.job.swallow = FALSE
    BY <2>1 DEF Body
  <2>6. q \in Parses /\ q.out = p.out \o Says(byte, p.job.swallow)
        /\ q.job = [p.job EXCEPT !.swallow = (byte = "cr")]
    BY <2>3, <2>5, ThenIs
  <2>7. q.job = Body
    BY <2>3, <2>5, <2>6 DEF Body
  <2>8. /\ a + i \in Nat /\ (a + i) + 1 <= Len(text) /\ (a + i) + 1 = a + (i + 1)
        /\ a \in 0..Len(text)
    BY <1>2
  <2>9. Upto(text, a + (i + 1)) = Upto(text, a + i) \o Says(byte, FALSE)
    BY <2>4, <2>8, UptoNext
  <2>10. Upto(text, a + i) = Upto(text, a) \o p.out
    BY <2>1
  <2>11. /\ Upto(text, a) \in Seq(Tokens) /\ p.out \in Seq(Tokens)
         /\ Says(byte, FALSE) \in Seq(Tokens)
    BY <2>3, <2>5, <2>8, UptoTyped, SaysTyped DEF Parses
  <2>12. (Upto(text, a) \o p.out) \o Says(byte, FALSE)
           = Upto(text, a) \o (p.out \o Says(byte, FALSE))
    <3>1. \A u, v, w \in Seq(Tokens) : (u \o v) \o w = u \o (v \o w)
      BY ConcatAssociative
    <3> QED BY <2>11, <3>1
  <2> QED BY <2>5, <2>6, <2>7, <2>9, <2>10, <2>12 DEF q
<1> HIDE DEF T
<1>5. n \in T
  BY <1>2, <1>3, <1>4, Induction
<1>6. Q(f[n], n)
  BY <1>2, <1>5 DEF T
<1> QED BY <1>1, <1>6 DEF Parses

-----------------------------------------------------------------------------
(* What the parser has read of the document it is in                       *)

FirstOf(text) == FirstLine(text, At(text))
Open(text) == LineEnd(text, At(text)) = Len(text) + 1
AfterCr(text) == Len(text) >= At(text) /\ text[Len(text)] = "cr"

\* A line begins like a header.
Begins(first) == Spells(first, IF Len(first) < Len(HeaderPrefix)
                                 THEN Len(first) ELSE Len(HeaderPrefix))

MayRead(j, text) ==
  /\ j.hdr = "maybe" /\ j.line = FirstOf(text) /\ Open(text)
  /\ Begins(FirstOf(text)) /\ Len(FirstOf(text)) < Len(HeaderPrefix)
NameRead(j, text) ==
  /\ j.hdr = "filename" /\ j.line = FirstOf(text) /\ Open(text)
  /\ Begins(FirstOf(text))
  /\ Len(HeaderPrefix) <= Len(FirstOf(text)) /\ Len(FirstOf(text)) <= LineCap
BodyRead(j, text) ==
  /\ j.hdr = "body" /\ j.line = <<>> /\ j.swallow = AfterCr(text)
  /\ Open(text) => ~Begins(FirstOf(text))

Reads(j, text) ==
  j \in Jobs /\ (MayRead(j, text) \/ NameRead(j, text) \/ BodyRead(j, text))

LEMMA Around ==
  ASSUME NEW text \in Seq(Bytes)
  PROVE  /\ Len(text) \in Nat /\ At(text) \in 1..(Len(text) + 1)
         /\ FirstOf(text) \in Seq(Bytes)
         /\ LineEnd(text, At(text)) \in At(text)..(Len(text) + 1)
         /\ ~Open(text) => LineEnd(text, At(text)) <= Len(text)
         /\ Open(text) =>
              /\ Len(FirstOf(text)) = (Len(text) + 1) - At(text)
              /\ \A k \in 1..Len(FirstOf(text)) :
                   /\ FirstOf(text)[k] = text[At(text) + k - 1]
                   /\ FirstOf(text)[k] \notin LineEnds
<1> DEFINE d == At(text)
           l == LineEnd(text, d)
           first == FirstOf(text)
<1>1. Len(text) \in Nat /\ Len(text) + 1 \in 1..(Len(text) + 1)
  OBVIOUS
<1>2. d \in 1..(Len(text) + 1)
  BY <1>1, DocFirstRange DEF At
<1>3. LineAt(text, d, l)
  BY <1>2, LineEndAt
<1>4. first \in Seq(Bytes) /\ Len(first) = l - d
      /\ \A k \in 1..(l - d) : first[k] = text[d + k - 1]
  BY <1>2, FirstLineIs DEF FirstOf
<1>5. Open(text) <=> l = Len(text) + 1
  BY DEF Open
<1> HIDE DEF d, l, first
<1>6. l \in d..(Len(text) + 1) /\ \A i \in d..(l - 1) : text[i] \notin LineEnds
  BY <1>3 DEF LineAt
<1>7. ~Open(text) => l <= Len(text)
  BY <1>1, <1>2, <1>5, <1>6
<1>8. \A k \in 1..(l - d) : d + k - 1 \in d..(l - 1)
  BY <1>1, <1>2, <1>6
<1>9. \A k \in 1..(l - d) : first[k] = text[d + k - 1] /\ first[k] \notin LineEnds
  BY <1>4, <1>6, <1>8
<1> QED BY <1>1, <1>2, <1>4, <1>5, <1>6, <1>7, <1>9 DEF d, l, first

LEMMA PrefixIs == Len(HeaderPrefix) \in Nat \ {0}
  BY PrefixAssumption

\* The header of a first line that goes on, or of one that has just ended.
LEMMA HeaderByLine ==
  ASSUME NEW text \in Seq(Bytes), NEW d \in 1..(Len(text) + 1),
         LineEnd(text, d) >= Len(text)
  PROVE  /\ HasHeader(text, d) <=> /\ Begins(FirstLine(text, d))
                                   /\ Len(FirstLine(text, d)) >= Len(HeaderPrefix)
         /\ Undecided(text, d) <=> /\ LineEnd(text, d) > Len(text)
                                   /\ Begins(FirstLine(text, d))
                                   /\ Len(FirstLine(text, d)) < Len(HeaderPrefix)
<1>1. Len(FirstLine(text, d)) \in Nat
  BY FirstLineIs
<1> QED BY <1>1, PrefixIs DEF HasHeader, Undecided, Begins

LEMMA AppendUnfit ==
  ASSUME NEW first \in Seq(Bytes), NEW byte \in Bytes, ~Begins(first)
  PROVE  ~Begins(Append(first, byte))
<1> DEFINE n == Len(first)
           more == Append(first, byte)
<1>1. n \in Nat /\ Len(more) = n + 1 /\ \A i \in 1..n : more[i] = first[i]
  BY AppendProperties
<1> HIDE DEF more
<1>2. PICK i \in 1..(IF n < Len(HeaderPrefix) THEN n ELSE Len(HeaderPrefix)) :
        ~(first[i] = HeaderPrefix[i] \/ (i = Len(HeaderPrefix) /\ first[i] = "tab"))
  BY DEF Begins, Spells
<1>3. i \in 1..n /\ i \in 1..(IF n + 1 < Len(HeaderPrefix) THEN n + 1 ELSE Len(HeaderPrefix))
  BY <1>1, PrefixIs
<1> HIDE DEF n
<1>4. ~Begins(more)
  BY <1>1, <1>2, <1>3 DEF Begins, Spells
<1> QED BY <1>4 DEF more

LEMMA AppendFit ==
  ASSUME NEW first \in Seq(Bytes), NEW byte \in Bytes, Begins(first)
  PROVE  /\ Len(first) >= Len(HeaderPrefix) => Begins(Append(first, byte))
         /\ Len(first) < Len(HeaderPrefix) =>
              (Begins(Append(first, byte)) <=> FitsPrefix(first, byte))
<1> DEFINE n == Len(first)
           more == Append(first, byte)
           P == Len(HeaderPrefix)
           Right(seq, i) == seq[i] = HeaderPrefix[i] \/ (i = P /\ seq[i] = "tab")
<1>1. n \in Nat /\ Len(more) = n + 1 /\ more[n + 1] = byte
      /\ \A i \in 1..n : more[i] = first[i]
  BY AppendProperties
<1>2. P \in Nat \ {0}
  BY PrefixIs
<1>3. \A i \in 1..(IF n < P THEN n ELSE P) : Right(first, i)
  BY DEF Begins, Spells
<1>4. Begins(more) <=> \A i \in 1..(IF Len(more) < P THEN Len(more) ELSE P) : Right(more, i)
  BY DEF Begins, Spells
<1> HIDE DEF more
<1>5. \A i \in 1..n : Right(first, i) => Right(more, i)
  BY <1>1
<1>6. n < P => (FitsPrefix(first, byte) <=> Right(more, n + 1))
  BY <1>1 DEF FitsPrefix
<1> HIDE DEF n, P, Right
<1>7. CASE n >= P
  <2>1. \A i \in 1..P : i \in 1..n
    BY <1>1, <1>2, <1>7
  <2>2. (IF n < P THEN n ELSE P) = P /\ (IF Len(more) < P THEN Len(more) ELSE P) = P
    BY <1>1, <1>2, <1>7
  <2>3. Begins(more)
    BY <1>3, <1>4, <1>5, <2>1, <2>2
  <2> QED BY <1>1, <1>2, <1>7, <2>3 DEF more, n, P
<1>8. CASE n < P
  <2>1. (IF n < P THEN n ELSE P) = n /\ (IF Len(more) < P THEN Len(more) ELSE P) = n + 1
    BY <1>1, <1>2, <1>8
  <2>2. \A i \in 1..n : Right(more, i)
    BY <1>3, <1>5, <2>1
  <2>3. \A i \in 1..(n + 1) : i \in 1..n \/ i = n + 1
    BY <1>1
  <2>4. n + 1 \in 1..(n + 1)
    BY <1>1
  <2>5. Begins(more) <=> Right(more, n + 1)
    BY <1>4, <2>1, <2>2, <2>3, <2>4
  <2> QED BY <1>1, <1>2, <1>6, <1>8, <2>5 DEF more, n, P
<1> QED BY <1>1, <1>2, <1>7, <1>8

\* What is around the next position, once the byte is there.
LEMMA AroundMore ==
  ASSUME NEW text \in Seq(Bytes), NEW byte \in Bytes
  PROVE  /\ \A i \in At(text)..(Len(text) + 1) :
              DocFirst(Append(text, byte), i) = At(text)
         /\ \A i \in 1..(At(text) - 1) :
              Meaning(Append(text, byte), i) = Meaning(text, i)
         /\ byte \notin Stops => At(Append(text, byte)) = At(text)
         /\ byte \in Stops => At(Append(text, byte)) = Len(text) + 2
<1> DEFINE more == Append(text, byte)
           d == At(text)
           n == Len(text)
           a == At(more)
<1>1. n \in Nat /\ d \in 1..(n + 1)
  BY Around
<1>2. more \in Seq(Bytes) /\ Len(more) = n + 1 /\ more[n + 1] = byte
      /\ \A k \in 1..n : more[k] = text[k]
  BY MoreText
<1>3. ASSUME NEW i \in d..(n + 1) PROVE DocFirst(more, i) = d
  <2>1. i \in 1..(n + 1)
    BY <1>1
  <2> QED BY <2>1, DocSince, SameDoc
<1>4. ASSUME NEW i \in 1..(d - 1) PROVE Meaning(more, i) = Meaning(text, i)
  <2>1. i \in 1..n /\ i < d
    BY <1>1
  <2> QED BY <2>1, DocBefore, MeaningSettled
<1>5. DocAt(text, n + 1, d)
  <2>1. n + 1 \in 1..(n + 1)
    BY <1>1
  <2> QED BY <2>1, DocFirstAt DEF At
<1> HIDE DEF more, d
<1>6. DocAt(more, n + 2, a)
  <2>1. n + 2 \in 1..(Len(more) + 1) /\ Len(more) + 1 = n + 2
    BY <1>1, <1>2
  <2> QED BY <1>2, <2>1, DocFirstAt DEF At
<1> HIDE DEF n, a
<1>7. n + 2 \in Nat /\ (n + 2) - 1 = n + 1 /\ (n + 1) - 1 = n
  BY <1>1
<1>8. ASSUME byte \notin Stops PROVE a = d
  <2>1. d \in 1..(n + 2) /\ (d > 1 => d - 1 \in 1..n)
    BY <1>1
  <2>2. \A e \in d..(n + 1) : e = n + 1 \/ (e \in d..n /\ e \in 1..n)
    BY <1>1
  <2>3. DocAt(more, n + 2, d)
    BY <1>2, <1>5, <1>7, <1>8, <2>1, <2>2 DEF DocAt
  <2> QED BY <1>6, <1>7, <2>3, DocAtOnce
<1>9. ASSUME byte \in Stops PROVE a = n + 2
  <2>1. n + 2 \in 1..(n + 2) /\ \A e \in (n + 2)..(n + 1) : FALSE
    BY <1>1
  <2>2. DocAt(more, n + 2, n + 2)
    BY <1>2, <1>7, <1>9, <2>1 DEF DocAt
  <2> QED BY <1>6, <1>7, <2>2, DocAtOnce
<1> QED BY <1>3, <1>4, <1>8, <1>9 DEF more, d, n, a

\* The next byte begins a document.
Fresh(text) == text = <<>> \/ text[Len(text)] \in Stops

LEMMA FreshOpen ==
  ASSUME NEW text \in Seq(Bytes), Fresh(text)
  PROVE  Open(text) /\ FirstOf(text) = <<>> /\ Begins(<<>>)
<1> DEFINE n == Len(text)
           first == FirstOf(text)
<1>1. n \in Nat /\ n + 1 \in 1..(n + 1)
  OBVIOUS
<1>2. DocAt(text, n + 1, n + 1)
  <2>1. n + 1 > 1 => text[n] \in Stops
    BY DEF Fresh
  <2>2. (n + 1) - 1 = n /\ \A e \in (n + 1)..n : FALSE
    BY <1>1
  <2> HIDE DEF n
  <2> QED BY <1>1, <2>1, <2>2 DEF DocAt
<1>3. DocAt(text, n + 1, At(text))
  BY <1>1, DocFirstAt DEF At
<1>4. At(text) = n + 1
  <2> HIDE DEF n
  <2> QED BY <1>1, <1>2, <1>3, DocAtOnce
<1>5. LineEnd(text, At(text)) = n + 1 /\ Open(text)
  <2>1. LineEnd(text, At(text)) \in At(text)..(n + 1)
    BY Around
  <2>2. LineEnd(text, At(text)) = n + 1
    <3> HIDE DEF n
    <3> QED BY <1>1, <1>4, <2>1
  <2> QED BY <2>2 DEF Open
<1>6. first \in Seq(Bytes) /\ Len(first) = (n + 1) - At(text)
  BY <1>5, Around
<1>7. first = <<>> /\ Len(first) = 0
  <2>1. Len(first) = 0
    <3> HIDE DEF n, first
    <3> QED BY <1>1, <1>4, <1>6
  <2> HIDE DEF first
  <2> QED BY <1>6, <2>1
<1> HIDE DEF first, n
<1>8. Begins(first)
  <2>1. \A i \in 1..0 : FALSE
    OBVIOUS
  <2> QED BY <1>7, <2>1, PrefixIs DEF Begins, Spells
<1> QED BY <1>5, <1>7, <1>8 DEF first

\* At the start of a document nothing has been read.
LEMMA FreshReads ==
  ASSUME NEW text \in Seq(Bytes), Fresh(text) PROVE Reads(NewJob, text)
<1>1. NewJob \in Jobs
  <2>1. <<>> \in Seq(Bytes)
    OBVIOUS
  <2> QED BY <2>1 DEF NewJob, Jobs
<1>2. MayRead(NewJob, text)
  BY FreshOpen, PrefixIs DEF MayRead, NewJob
<1> QED BY <1>1, <1>2 DEF Reads

\* A document whose first line is over, or is none of a header, goes on.
LEMMA BodyNext ==
  ASSUME NEW text \in Seq(Bytes), NEW byte \in Bytes,
         Open(text) => ~Begins(FirstOf(text))
  PROVE  /\ Meant(Append(text, byte)) = Meant(text) \o Says(byte, AfterCr(text))
         /\ byte \notin Stops /\ Open(Append(text, byte)) =>
              ~Begins(FirstOf(Append(text, byte)))
<1> DEFINE more == Append(text, byte)
           d == At(text)
           n == Len(text)
           l == LineEnd(text, d)
           first == FirstOf(text)
           Spoken(t, i) == Says(t[i], i > d /\ t[i - 1] = "cr")
<1>1. /\ n \in Nat /\ d \in 1..(n + 1) /\ first \in Seq(Bytes) /\ l \in d..(n + 1)
      /\ ~Open(text) => l <= n
  BY Around
<1>2. /\ more \in Seq(Bytes) /\ Len(more) = n + 1 /\ more[n + 1] = byte
      /\ \A k \in 1..n : more[k] = text[k]
  BY MoreText
<1>3. /\ \A i \in d..(n + 1) : DocFirst(more, i) = d
      /\ \A i \in 1..(d - 1) : Meaning(more, i) = Meaning(text, i)
      /\ byte \notin Stops => At(more) = d
  BY AroundMore
<1>4. \A i \in d..(n + 1) : DocFirst(text, i) = d
  BY DocSince
<1>5. d \in 1..(Len(more) + 1)
  BY <1>1, <1>2
<1>6. \A i \in d..n : Spoken(more, i) = Spoken(text, i)
  <2>1. \A i \in d..n : more[i] = text[i] /\ (i > d => more[i - 1] = text[i - 1])
    BY <1>1, <1>2
  <2> QED BY <2>1
<1>7. Spoken(more, n + 1) = Says(byte, AfterCr(text))
  <2>1. (n + 1 > d) <=> n >= d
    BY <1>1
  <2>2. n >= d => n \in 1..n /\ (n + 1) - 1 = n
    BY <1>1
  <2>3. (n + 1 > d /\ more[(n + 1) - 1] = "cr") <=> AfterCr(text)
    BY <1>2, <2>1, <2>2 DEF AfterCr
  <2>4. (n + 1 > d /\ more[(n + 1) - 1] = "cr") = AfterCr(text)
    BY <2>3 DEF AfterCr
  <2> QED BY <1>2, <2>4
<1>8. /\ \A i \in d..n : Meaning(more, i) = Meaning(text, i)
      /\ Meaning(more, n + 1) = Says(byte, AfterCr(text))
      /\ byte \notin Stops /\ Open(more) => ~Begins(FirstOf(more))
  <2>1. CASE Open(text)
    <3>1. ~Begins(first) /\ l = n + 1
      BY <2>1 DEF Open
    <3>2. ~HasHeader(text, d) /\ ~Undecided(text, d)
      <4>1. l >= n
        BY <1>1, <3>1
      <4> QED BY <1>1, <3>1, <4>1, HeaderByLine DEF FirstOf
    <3>3. /\ byte \in LineEnds => LineEnd(more, d) = n + 1 /\ FirstLine(more, d) = first
          /\ byte \notin LineEnds =>
               LineEnd(more, d) = n + 2 /\ FirstLine(more, d) = Append(first, byte)
      BY <1>1, <3>1, OpenLine DEF FirstOf
    <3>4. ~Begins(FirstLine(more, d)) /\ LineEnd(more, d) >= n + 1
      <4>1. ~Begins(Append(first, byte))
        BY <1>1, <3>1, AppendUnfit
      <4>2. n + 2 >= n + 1 /\ n + 1 >= n + 1
        BY <1>1
      <4>3. ~Begins(first)
        BY <3>1
      <4> HIDE DEF more, d, n, l, first
      <4>4. CASE byte \in LineEnds
        BY <3>3, <4>2, <4>3, <4>4
      <4>5. CASE byte \notin LineEnds
        BY <3>3, <4>1, <4>2, <4>5
      <4> QED BY <4>4, <4>5
    <3>5. ~HasHeader(more, d) /\ ~Undecided(more, d)
      <4>1. LineEnd(more, d) >= Len(more)
        BY <1>2, <3>4
      <4> HIDE DEF more, d, n, l, first
      <4> QED BY <1>2, <1>5, <3>4, <4>1, HeaderByLine
    <3>6. \A i \in d..n : Meaning(text, i) = Spoken(text, i)
      <4>1. \A i \in d..n : i \in d..(n + 1)
        BY <1>1
      <4> QED BY <1>4, <3>2, <4>1, MeaningIs
    <3>7. \A i \in d..(n + 1) : Meaning(more, i) = Spoken(more, i)
      BY <1>3, <3>5, MeaningIs
    <3>8. n + 1 \in d..(n + 1) /\ \A i \in d..n : i \in d..(n + 1)
      BY <1>1
    <3>9. byte \notin Stops => FirstOf(more) = FirstLine(more, d)
      BY <1>3 DEF FirstOf
    <3> HIDE DEF more, d, n, l, first, Spoken
    <3> QED BY <1>6, <1>7, <3>4, <3>6, <3>7, <3>8, <3>9
  <2>2. CASE ~Open(text)
    <3>1. l <= n
      BY <1>1, <2>2
    <3>2. \A i \in d..n : Meaning(more, i) = Meaning(text, i)
      <4>1. \A i \in d..n : i \in 1..n /\ DocFirst(text, i) = d
        BY <1>1, <1>4
      <4> QED BY <3>1, <4>1, MeaningSettled
    <3>3. LineEnd(more, d) = l
      BY <1>1, <3>1, ClosedLine
    <3>4. ~Undecided(more, d)
      BY <1>1, <1>2, <3>1, <3>3 DEF Undecided
    <3>5. ~(n + 1 < l) /\ n + 1 # l /\ n + 1 \in d..(n + 1)
      BY <1>1, <3>1
    <3>6. Meaning(more, n + 1) = Spoken(more, n + 1)
      BY <1>3, <3>3, <3>4, <3>5, MeaningIs
    <3>7. byte \notin Stops => ~Open(more)
      BY <1>1, <1>2, <1>3, <3>1, <3>3 DEF Open
    <3> HIDE DEF more, d, n, l, first, Spoken
    <3> QED BY <1>7, <3>2, <3>6, <3>7
  <2> QED BY <2>1, <2>2
<1>9. \A i \in 1..n : i \in 1..(d - 1) \/ i \in d..n
  BY <1>1
<1>10. Upto(more, n) = Upto(text, n)
  BY <1>1, <1>3, <1>8, <1>9, UptoAlike
<1>11. Upto(more, n + 1) = Upto(more, n) \o Meaning(more, n + 1)
  <2>1. n + 1 <= Len(more)
    BY <1>1, <1>2
  <2> HIDE DEF more, n
  <2> QED BY <1>1, <1>2, <2>1, UptoNext
<1>12. Meant(more) = Upto(more, n + 1) /\ Meant(text) = Upto(text, n)
  BY <1>2, UptoAll
<1> QED BY <1>8, <1>10, <1>11, <1>12

\* A line that may be, or is, a header says nothing before it ends.
LEMMA HeldSilent ==
  ASSUME NEW text \in Seq(Bytes), Open(text), Begins(FirstOf(text)),
         Len(FirstOf(text)) <= LineCap
  PROVE  Meant(text) = Upto(text, At(text) - 1)
<1> DEFINE d == At(text)
           n == Len(text)
           first == FirstOf(text)
<1>1. n \in Nat /\ d \in 1..(n + 1) /\ LineEnd(text, d) = n + 1
  BY Around DEF Open
<1>2. first = FirstLine(text, d) /\ Begins(first) /\ Len(first) \in Nat
  BY Around DEF FirstOf
<1>3. /\ HasHeader(text, d) <=> Len(first) >= Len(HeaderPrefix)
      /\ Undecided(text, d) <=> Len(first) < Len(HeaderPrefix)
  <2>1. LineEnd(text, d) >= n /\ LineEnd(text, d) > n
    BY <1>1
  <2> QED BY <1>1, <1>2, <2>1, HeaderByLine
<1>4. HeaderTokens(text, d) = <<>>
  <2>1. ~(Len(first) > LineCap) /\ ~(LineEnd(text, d) <= n)
    BY <1>1, <1>2, CapAssumption
  <2> QED BY <1>2, <2>1 DEF HeaderTokens
<1>5. ASSUME NEW i \in ((d - 1) + 1)..n PROVE Meaning(text, i) = <<>>
  <2>1. i \in d..(n + 1) /\ i < LineEnd(text, d)
    BY <1>1
  <2>2. DocFirst(text, i) = d
    BY <2>1, DocSince
  <2>3. CASE Len(first) >= Len(HeaderPrefix)
    BY <1>3, <1>4, <2>1, <2>2, <2>3, MeaningIs
  <2>4. CASE Len(first) < Len(HeaderPrefix)
    BY <1>2, <1>3, <2>2, <2>4, PrefixIs, MeaningIs
  <2> QED BY <1>2, <2>3, <2>4, PrefixIs
<1>6. d - 1 \in Nat /\ n \in (d - 1)..n
  BY <1>1
<1>7. Upto(text, n) = Upto(text, d - 1)
  BY <1>5, <1>6, UptoQuiet
<1> QED BY <1>7, UptoAll

LEMMA OpenMore ==
  ASSUME NEW text \in Seq(Bytes), NEW byte \in Bytes, Open(text)
  PROVE  /\ byte \in LineEnds =>
              /\ LineEnd(Append(text, byte), At(text)) = Len(text) + 1
              /\ FirstLine(Append(text, byte), At(text)) = FirstOf(text)
         /\ byte \notin LineEnds =>
              /\ LineEnd(Append(text, byte), At(text)) = Len(text) + 2
              /\ FirstLine(Append(text, byte), At(text)) = Append(FirstOf(text), byte)
              /\ At(Append(text, byte)) = At(text)
              /\ FirstOf(Append(text, byte)) = Append(FirstOf(text), byte)
              /\ Open(Append(text, byte))
         /\ byte \in LineEnds /\ byte \notin Stops => ~Open(Append(text, byte))
<1> DEFINE more == Append(text, byte)
           d == At(text)
           n == Len(text)
<1>1. n \in Nat /\ d \in 1..(n + 1) /\ LineEnd(text, d) = n + 1
  BY Around DEF Open
<1>2. Len(more) = n + 1
  BY MoreText
<1>3. byte \notin Stops => At(more) = d
  BY AroundMore
<1>4. /\ byte \in LineEnds => LineEnd(more, d) = n + 1 /\ FirstLine(more, d) = FirstOf(text)
      /\ byte \notin LineEnds =>
           LineEnd(more, d) = n + 2 /\ FirstLine(more, d) = Append(FirstOf(text), byte)
  BY <1>1, OpenLine DEF FirstOf
<1>5. byte \notin LineEnds => byte \notin Stops
  BY DEF LineEnds, Stops
<1>6. n + 1 # (n + 1) + 1 /\ n + 2 = (n + 1) + 1
  BY <1>1
<1> HIDE DEF more, d, n
<1>7. byte \notin LineEnds =>
        At(more) = d /\ FirstOf(more) = Append(FirstOf(text), byte) /\ Open(more)
  BY <1>2, <1>3, <1>4, <1>5, <1>6 DEF FirstOf, Open
<1>8. byte \in LineEnds /\ byte \notin Stops => ~Open(more)
  BY <1>2, <1>3, <1>4, <1>6 DEF Open
<1> QED BY <1>4, <1>7, <1>8 DEF more, d, n

LEMMA HeaderGrows ==
  ASSUME NEW text \in Seq(Bytes), NEW byte \in Bytes \ LineEnds,
         Open(text), Begins(FirstOf(text)), Len(FirstOf(text)) < LineCap,
         Begins(Append(FirstOf(text), byte))
  PROVE  Meant(Append(text, byte)) = Meant(text)
<1> DEFINE more == Append(text, byte)
<1>1. more \in Seq(Bytes)
  BY MoreText
<1>2. At(more) = At(text) /\ FirstOf(more) = Append(FirstOf(text), byte) /\ Open(more)
  BY OpenMore
<1>3. Len(FirstOf(more)) = Len(FirstOf(text)) + 1 /\ Len(FirstOf(text)) \in Nat
  BY <1>2, Around, AppendProperties
<1>4. Len(FirstOf(more)) <= LineCap /\ Len(FirstOf(text)) <= LineCap
  BY <1>3, CapAssumption
<1>5. Upto(more, At(text) - 1) = Upto(text, At(text) - 1)
  BY UptoBefore
<1> HIDE DEF more
<1>6. Meant(more) = Upto(more, At(more) - 1)
  BY <1>1, <1>2, <1>4, HeldSilent
<1>7. Meant(text) = Upto(text, At(text) - 1)
  BY <1>4, HeldSilent
<1> QED BY <1>2, <1>5, <1>6, <1>7 DEF more

\* Held bytes that turn out to be no header, and what each of them says.
NoHeader(text, byte) ==
  /\ Open(text) /\ Begins(FirstOf(text)) /\ Len(FirstOf(text)) < Len(HeaderPrefix)
  /\ byte \in LineEnds \/ ~Begins(Append(FirstOf(text), byte))

LEMMA HeldSpoken ==
  ASSUME NEW text \in Seq(Bytes), NEW byte \in Bytes, NoHeader(text, byte)
  PROVE  /\ (At(text) - 1) + Len(FirstOf(text)) = Len(text) /\ At(text) - 1 \in Nat
         /\ Len(FirstOf(text)) \in Nat
         /\ Meant(text) = Upto(Append(text, byte), At(text) - 1)
         /\ \A k \in 1..Len(FirstOf(text)) :
              /\ FirstOf(text)[k] # "cr"
              /\ Meaning(Append(text, byte), (At(text) - 1) + k)
                   = Says(FirstOf(text)[k], FALSE)
         /\ Meaning(Append(text, byte), Len(text) + 1) = Says(byte, FALSE)
<1> DEFINE more == Append(text, byte)
           d == At(text)
           n == Len(text)
           first == FirstOf(text)
<1>1. /\ Open(text) /\ Begins(first) /\ Len(first) < Len(HeaderPrefix)
      /\ byte \in LineEnds \/ ~Begins(Append(first, byte))
  BY DEF NoHeader
<1>2. /\ n \in Nat /\ d \in 1..(n + 1) /\ first \in Seq(Bytes) /\ Len(first) \in Nat
      /\ Len(first) = (n + 1) - d
      /\ \A k \in 1..Len(first) : first[k] = text[d + k - 1] /\ first[k] \notin LineEnds
  BY <1>1, Around
<1>3. /\ more \in Seq(Bytes) /\ Len(more) = n + 1 /\ more[n + 1] = byte
      /\ \A k \in 1..n : more[k] = text[k]
  BY MoreText
<1>4. \A i \in d..(n + 1) : DocFirst(more, i) = d
  BY AroundMore
<1>5. /\ byte \in LineEnds => LineEnd(more, d) = n + 1 /\ FirstLine(more, d) = first
      /\ byte \notin LineEnds =>
           LineEnd(more, d) = n + 2 /\ FirstLine(more, d) = Append(first, byte)
  BY <1>1, OpenMore
<1>6. Meant(text) = Upto(text, d - 1)
  <2>1. Len(first) <= LineCap
    BY <1>1, <1>2, PrefixIs, CapAssumption
  <2> QED BY <1>1, <2>1, HeldSilent
<1>7. Upto(more, d - 1) = Upto(text, d - 1)
  BY UptoBefore
<1>8. d \in 1..(Len(more) + 1) /\ d - 1 \in Nat
  BY <1>2, <1>3
<1> HIDE DEF more, d, n, first
<1>9. ~HasHeader(more, d) /\ ~Undecided(more, d)
  <2>1. CASE byte \in LineEnds
    <3>1. LineEnd(more, d) >= Len(more) /\ ~(LineEnd(more, d) > Len(more))
      BY <1>2, <1>3, <1>5, <2>1
    <3>2. ~(Len(FirstLine(more, d)) >= Len(HeaderPrefix))
      BY <1>1, <1>2, <1>5, <2>1, PrefixIs
    <3> QED BY <1>3, <1>8, <3>1, <3>2, HeaderByLine
  <2>2. CASE byte \notin LineEnds
    <3>1. LineEnd(more, d) >= Len(more)
      BY <1>2, <1>3, <1>5, <2>2
    <3>2. ~Begins(FirstLine(more, d))
      BY <1>1, <1>5, <2>2
    <3> QED BY <1>3, <1>8, <3>1, <3>2, HeaderByLine
  <2> QED BY <2>1, <2>2
<1>10. \A k \in 1..Len(first) : (d - 1) + k \in d..n /\ (d - 1) + k = d + k - 1
  BY <1>2
<1>11. \A k \in 1..Len(first) : first[k] = more[(d - 1) + k] /\ first[k] # "cr"
  <2>1. \A i \in d..n : i \in 1..n
    BY <1>2
  <2>2. "cr" \in LineEnds
    BY DEF LineEnds
  <2> QED BY <1>2, <1>3, <1>10, <2>1, <2>2
<1>12. \A i \in d..n : \E k \in 1..Len(first) : i = (d - 1) + k
  <2>1. \A i \in d..n : i - (d - 1) \in 1..Len(first) /\ i = (d - 1) + (i - (d - 1))
    BY <1>2
  <2> QED BY <2>1
<1>13. \A i \in d..n : more[i] # "cr"
  BY <1>11, <1>12
<1>14. ASSUME NEW i \in d..(n + 1) PROVE Meaning(more, i) = Says(more[i], FALSE)
  <2>1. i > d => i - 1 \in d..n
    BY <1>2
  <2>2. (i > d /\ more[i - 1] = "cr") = FALSE
    BY <1>13, <2>1
  <2>3. Meaning(more, i) = Says(more[i], i > d /\ more[i - 1] = "cr")
    BY <1>4, <1>9, MeaningIs
  <2> QED BY <2>2, <2>3
<1>15. \A k \in 1..Len(first) : Meaning(more, (d - 1) + k) = Says(first[k], FALSE)
  <2>1. \A i \in d..n : i \in d..(n + 1)
    BY <1>2
  <2> QED BY <1>10, <1>11, <1>14, <2>1
<1>16. Meaning(more, n + 1) = Says(byte, FALSE)
  <2>1. n + 1 \in d..(n + 1)
    BY <1>2
  <2> QED BY <1>3, <1>14, <2>1
<1>17. (d - 1) + Len(first) = n
  BY <1>2
<1> QED BY <1>2, <1>6, <1>7, <1>8, <1>11, <1>15, <1>16, <1>17 DEF more, d, n, first

\* The byte that decides is replayed with the others, or as what stands for it.
LEMMA ReplayedWith ==
  ASSUME NEW text \in Seq(Bytes), NEW byte \in Bytes, NoHeader(text, byte),
         NEW last \in Bytes, last # "cr", Says(last, FALSE) = Says(byte, FALSE)
  PROVE  /\ Replay(Append(FirstOf(text), last)).job = Body
         /\ Replay(Append(FirstOf(text), last)).out \in Seq(Tokens)
         /\ Meant(Append(text, byte))
              = Meant(text) \o Replay(Append(FirstOf(text), last)).out
<1> DEFINE more == Append(text, byte)
           a == At(text) - 1
           n == Len(text)
           first == FirstOf(text)
           held == Append(first, last)
<1>1. /\ a + Len(first) = n /\ a \in Nat /\ Len(first) \in Nat
      /\ Meant(text) = Upto(more, a)
      /\ \A k \in 1..Len(first) :
           first[k] # "cr" /\ Meaning(more, a + k) = Says(first[k], FALSE)
      /\ Meaning(more, n + 1) = Says(byte, FALSE)
  BY HeldSpoken
<1>2. first \in Seq(Bytes)
  BY Around
<1>3. more \in Seq(Bytes) /\ Len(more) = n + 1
  BY MoreText
<1> HIDE DEF more, a, n, first
<1>4. /\ held \in Seq(Bytes) /\ Len(held) = Len(first) + 1 /\ held[Len(first) + 1] = last
      /\ \A k \in 1..Len(first) : held[k] = first[k]
  BY <1>2, AppendProperties
<1> HIDE DEF held
<1>5. a + Len(held) = n + 1 /\ a + Len(held) <= Len(more)
  BY <1>1, <1>3, <1>4
<1>6. ASSUME NEW k \in 1..Len(held)
      PROVE  held[k] # "cr" /\ Meaning(more, a + k) = Says(held[k], FALSE)
  <2>1. CASE k \in 1..Len(first)
    BY <1>1, <1>4, <2>1
  <2>2. CASE k = Len(first) + 1
    <3>1. a + k = n + 1
      BY <1>1, <2>2
    <3> QED BY <1>1, <1>4, <2>2, <3>1
  <2>3. k \in 1..Len(first) \/ k = Len(first) + 1
    <3>1. k \in 1..(Len(first) + 1)
      BY <1>4
    <3> QED BY <1>1, <3>1
  <2> QED BY <2>1, <2>2, <2>3
<1>7. /\ Replay(held).job = Body /\ Replay(held).out \in Seq(Tokens)
      /\ Upto(more, a + Len(held)) = Upto(more, a) \o Replay(held).out
  BY <1>1, <1>3, <1>4, <1>5, <1>6, Replayed
<1>8. Meant(more) = Upto(more, n + 1)
  BY <1>3, UptoAll
<1> QED BY <1>1, <1>5, <1>7, <1>8 DEF more, a, n, first, held

LEMMA ReplayedBefore ==
  ASSUME NEW text \in Seq(Bytes), NEW byte \in Bytes, NoHeader(text, byte)
  PROVE  /\ Replay(FirstOf(text)).job = Body
         /\ Replay(FirstOf(text)).out \in Seq(Tokens)
         /\ Meant(Append(text, byte))
              = (Meant(text) \o Replay(FirstOf(text)).out) \o Says(byte, FALSE)
<1> DEFINE more == Append(text, byte)
           a == At(text) - 1
           n == Len(text)
           first == FirstOf(text)
<1>1. /\ a + Len(first) = n /\ a \in Nat /\ Len(first) \in Nat
      /\ Meant(text) = Upto(more, a)
      /\ \A k \in 1..Len(first) :
           first[k] # "cr" /\ Meaning(more, a + k) = Says(first[k], FALSE)
      /\ Meaning(more, n + 1) = Says(byte, FALSE)
  BY HeldSpoken
<1>2. first \in Seq(Bytes)
  BY Around
<1>3. more \in Seq(Bytes) /\ Len(more) = n + 1
  BY MoreText
<1> HIDE DEF more, a, n, first
<1>4. n \in Nat /\ a + Len(first) <= Len(more) /\ n + 1 <= Len(more)
  BY <1>1, <1>3
<1>5. /\ Replay(first).job = Body /\ Replay(first).out \in Seq(Tokens)
      /\ Upto(more, a + Len(first)) = Upto(more, a) \o Replay(first).out
  BY <1>1, <1>2, <1>3, <1>4, Replayed
<1>6. Upto(more, n + 1) = Upto(more, n) \o Meaning(more, n + 1)
  BY <1>3, <1>4, UptoNext
<1>7. Meant(more) = Upto(more, n + 1)
  BY <1>3, UptoAll
<1> QED BY <1>1, <1>5, <1>6, <1>7 DEF more, a, n, first

\* A header line as a whole.
LEMMA HeaderMeant ==
  ASSUME NEW text \in Seq(Bytes), NEW byte \in Bytes,
         Open(text), Begins(FirstOf(text)),
         Len(HeaderPrefix) <= Len(FirstOf(text)), Len(FirstOf(text)) <= LineCap
  PROVE  Meant(Append(text, byte)) =
           (Meant(text) \o HeaderTokens(Append(text, byte), At(text)))
             \o (IF byte = "ff" THEN <<Token("formfeed", <<>>)>> ELSE <<>>)
<1> DEFINE more == Append(text, byte)
           d == At(text)
           n == Len(text)
           first == FirstOf(text)
           tokens == HeaderTokens(more, d)
           end == IF byte = "ff" THEN <<Token("formfeed", <<>>)>> ELSE <<>>
<1>1. /\ n \in Nat /\ d \in 1..(n + 1) /\ first \in Seq(Bytes) /\ Len(first) \in Nat
      /\ Len(first) = (n + 1) - d
  BY Around
<1>2. d \in 1..n
  <2>1. Len(first) >= 1
    BY <1>1, PrefixIs
  <2> HIDE DEF first, d, n
  <2> QED BY <1>1, <2>1
<1>3. more \in Seq(Bytes) /\ Len(more) = n + 1 /\ more[n + 1] = byte
  BY MoreText
<1>4. \A i \in d..(n + 1) : DocFirst(more, i) = d
  BY AroundMore
<1>5. /\ byte \in LineEnds => LineEnd(more, d) = n + 1 /\ FirstLine(more, d) = first
      /\ byte \notin LineEnds =>
           LineEnd(more, d) = n + 2 /\ FirstLine(more, d) = Append(first, byte)
  BY OpenMore
<1>6. Meant(text) = Upto(text, d - 1) /\ Upto(more, d - 1) = Upto(text, d - 1)
  BY HeldSilent, UptoBefore
<1>7. Begins(first) /\ Len(first) >= Len(HeaderPrefix)
  BY <1>1, PrefixIs
<1>8. /\ Begins(Append(first, byte)) /\ Append(first, byte) \in Seq(Bytes)
      /\ Len(Append(first, byte)) = Len(first) + 1
  BY <1>1, <1>7, AppendFit, AppendProperties
<1> HIDE DEF more, d, n, first
<1>9. /\ HasHeader(more, d) /\ ~Undecided(more, d) /\ LineEnd(more, d) \in {n + 1, n + 2}
      /\ LineEnd(more, d) = n + 1 <=> byte \in LineEnds
  <2>1. d \in 1..(Len(more) + 1)
    BY <1>1, <1>3
  <2>2. CASE byte \in LineEnds
    <3>1. LineEnd(more, d) >= Len(more) /\ LineEnd(more, d) = n + 1
      BY <1>1, <1>3, <1>5, <2>2
    <3>2. ~(Len(FirstLine(more, d)) < Len(HeaderPrefix)) /\ Begins(FirstLine(more, d))
          /\ Len(FirstLine(more, d)) >= Len(HeaderPrefix)
      BY <1>1, <1>5, <1>7, <2>2, PrefixIs
    <3> QED BY <1>3, <2>1, <2>2, <3>1, <3>2, HeaderByLine
  <2>3. CASE byte \notin LineEnds
    <3>1. LineEnd(more, d) >= Len(more) /\ LineEnd(more, d) = n + 2 /\ n + 1 # n + 2
      BY <1>1, <1>3, <1>5, <2>3
    <3>2. ~(Len(FirstLine(more, d)) < Len(HeaderPrefix)) /\ Begins(FirstLine(more, d))
          /\ Len(FirstLine(more, d)) >= Len(HeaderPrefix)
      <4>1. FirstLine(more, d) = Append(first, byte)
        BY <1>5, <2>3
      <4>2. Len(first) + 1 >= Len(HeaderPrefix) /\ ~(Len(first) + 1 < Len(HeaderPrefix))
        BY <1>1, <1>7, PrefixIs
      <4> QED BY <1>8, <4>1, <4>2
    <3> QED BY <1>3, <2>1, <2>3, <3>1, <3>2, HeaderByLine
  <2> QED BY <2>2, <2>3
<1>10. Meaning(more, d) = tokens
  <2>1. d \in d..(n + 1) /\ d < LineEnd(more, d)
    BY <1>1, <1>2, <1>9
  <2> QED BY <1>4, <1>9, <2>1, MeaningIs
<1>11. ASSUME NEW i \in (d + 1)..n PROVE Meaning(more, i) = <<>>
  <2>1. i \in d..(n + 1) /\ i < LineEnd(more, d) /\ i # d
    BY <1>1, <1>9
  <2> QED BY <1>4, <1>9, <2>1, MeaningIs
<1>12. Meaning(more, n + 1) = end
  <2>1. n + 1 \in d..(n + 1) /\ n + 1 # d /\ n + 1 < n + 2 /\ ~(n + 1 < n + 1)
    BY <1>1, <1>2
  <2>2. DocFirst(more, n + 1) = d
    BY <1>4, <2>1
  <2>3. "ff" \in LineEnds
    BY DEF LineEnds
  <2>4. CASE byte \in LineEnds
    <3>1. Meaning(more, n + 1) = IF byte # "ff" THEN <<>>
            ELSE Says(byte, n + 1 > d /\ more[(n + 1) - 1] = "cr")
      BY <1>3, <1>9, <2>1, <2>2, <2>4, MeaningIs
    <3>2. byte = "ff" => \A b \in BOOLEAN : Says(byte, b) = <<Token("formfeed", <<>>)>>
      BY ControlAssumption DEF Says
    <3>3. (n + 1 > d /\ more[(n + 1) - 1] = "cr") \in BOOLEAN
      OBVIOUS
    <3> QED BY <3>1, <3>2, <3>3
  <2>5. CASE byte \notin LineEnds
    <3>1. LineEnd(more, d) = n + 2
      BY <1>9, <2>5
    <3>2. Meaning(more, n + 1) = <<>>
      BY <1>9, <2>1, <2>2, <3>1, MeaningIs
    <3> QED BY <2>3, <2>5, <3>2
  <2> QED BY <2>4, <2>5
<1> HIDE DEF tokens, end
<1>13. Upto(more, d) = Upto(more, d - 1) \o tokens
  <2>1. d - 1 \in Nat /\ (d - 1) + 1 = d /\ (d - 1) + 1 <= Len(more)
    BY <1>1, <1>2, <1>3
  <2>2. Upto(more, (d - 1) + 1) = Upto(more, d - 1) \o Meaning(more, (d - 1) + 1)
    BY <1>3, <2>1, UptoNext
  <2> QED BY <1>10, <2>1, <2>2
<1>14. Upto(more, n) = Upto(more, d)
  <2>1. d \in Nat /\ n \in d..Len(more)
    BY <1>1, <1>2, <1>3
  <2> QED BY <1>3, <1>11, <2>1, UptoQuiet
<1>15. Upto(more, n + 1) = Upto(more, n) \o end
  <2>1. n + 1 <= Len(more)
    BY <1>1, <1>3
  <2> QED BY <1>1, <1>3, <1>12, <2>1, UptoNext
<1>16. Meant(more) = Upto(more, n + 1)
  BY <1>3, UptoAll
<1> QED BY <1>6, <1>13, <1>14, <1>15, <1>16 DEF more, d, n, first, tokens, end

-----------------------------------------------------------------------------
(* The parser's next step                                                  *)

Overflows(tokens) == \E i \in DOMAIN tokens : tokens[i].op = "overflow"

\* What a call of the parser for one byte owes the grammar.
Tells(p, text, byte) ==
  /\ p.out \in Seq(Tokens)
  /\ Meant(Append(text, byte)) = Meant(text) \o p.out
  /\ byte \notin Stops /\ ~Overflows(p.out) => Reads(p.job, Append(text, byte))

LEMMA AfterCrMore ==
  ASSUME NEW text \in Seq(Bytes), NEW byte \in Bytes \ Stops
  PROVE  AfterCr(Append(text, byte)) = (byte = "cr")
<1>1. /\ Len(Append(text, byte)) = Len(text) + 1 /\ Len(text) \in Nat
      /\ Append(text, byte)[Len(text) + 1] = byte
  BY MoreText
<1>2. At(Append(text, byte)) = At(text) /\ At(text) \in 1..(Len(text) + 1)
  BY AroundMore, Around
<1>3. Len(text) + 1 >= At(text)
  BY <1>1, <1>2
<1> QED BY <1>1, <1>2, <1>3 DEF AfterCr

LEMMA ParsedIs ==
  ASSUME NEW j, NEW tokens
  PROVE  Parsed(j, tokens).job = j /\ Parsed(j, tokens).out = tokens
  BY DEF Parsed

LEMMA BodyTyped ==
  ASSUME NEW b \in BOOLEAN
  PROVE  /\ [Body EXCEPT !.swallow = b] \in Jobs
         /\ [Body EXCEPT !.swallow = b].hdr = "body"
         /\ [Body EXCEPT !.swallow = b].line = <<>>
         /\ [Body EXCEPT !.swallow = b].swallow = b
         /\ ~b => [Body EXCEPT !.swallow = b] = Body
<1>1. <<>> \in Seq(Bytes)
  OBVIOUS
<1>2. [Body EXCEPT !.swallow = b] = [hdr |-> "body", line |-> <<>>, swallow |-> b]
  BY DEF Body
<1>3. ~b => [hdr |-> "body", line |-> <<>>, swallow |-> b] = Body
  BY DEF Body
<1>4. [hdr |-> "body", line |-> <<>>, swallow |-> b] \in Jobs
  BY <1>1 DEF Jobs
<1> QED BY <1>2, <1>3, <1>4

\* The parser reads a body whose first line has just ended, or is none.
LEMMA BodyBegins ==
  ASSUME NEW text \in Seq(Bytes), NEW byte \in Bytes \ Stops,
         ~Open(Append(text, byte)) \/ ~Begins(FirstOf(Append(text, byte)))
  PROVE  Reads([Body EXCEPT !.swallow = (byte = "cr")], Append(text, byte))
<1> DEFINE b == byte = "cr"
           j == [Body EXCEPT !.swallow = b]
<1>1. AfterCr(Append(text, byte)) = b
  BY AfterCrMore
<1>2. j \in Jobs /\ j.hdr = "body" /\ j.line = <<>> /\ j.swallow = b
  <2>1. b \in BOOLEAN
    OBVIOUS
  <2> HIDE DEF b
  <2> QED BY <2>1, BodyTyped
<1> HIDE DEF b, j
<1>3. BodyRead(j, Append(text, byte))
  BY <1>1, <1>2 DEF BodyRead
<1>4. Reads(j, Append(text, byte))
  BY <1>2, <1>3 DEF Reads
<1> QED BY <1>4 DEF b, j

LEMMA BodyByte ==
  ASSUME NEW text \in Seq(Bytes), NEW byte \in Bytes,
         NEW j \in Jobs, BodyRead(j, text)
  PROVE  Tells(Content(j, byte), text, byte)
<1> DEFINE more == Append(text, byte)
           p == Content(j, byte)
<1>1. j.hdr = "body" /\ j.line = <<>> /\ j.swallow = AfterCr(text)
      /\ (Open(text) => ~Begins(FirstOf(text)))
  BY DEF BodyRead
<1>2. p \in Parses /\ p.out = Says(byte, j.swallow)
      /\ p.job = [j EXCEPT !.swallow = (byte = "cr")]
  BY ContentIs
<1>3. /\ Meant(more) = Meant(text) \o Says(byte, AfterCr(text))
      /\ byte \notin Stops /\ Open(more) => ~Begins(FirstOf(more))
  BY <1>1, BodyNext
<1>4. p.out \in Seq(Tokens)
  BY <1>2 DEF Parses
<1>5. ASSUME byte \notin Stops PROVE Reads(p.job, more)
  <2>1. p.job = [Body EXCEPT !.swallow = (byte = "cr")]
    BY <1>1, <1>2 DEF Jobs, Body
  <2>2. Reads([Body EXCEPT !.swallow = (byte = "cr")], more)
    BY <1>3, <1>5, BodyBegins
  <2> QED BY <2>1, <2>2
<1> HIDE DEF p
<1> QED BY <1>1, <1>2, <1>3, <1>4, <1>5 DEF Tells, p

LEMMA MaybeByte ==
  ASSUME NEW text \in Seq(Bytes), NEW byte \in Bytes \ LineEnds,
         NEW j \in Jobs, MayRead(j, text)
  PROVE  Tells(MaybeHeader(j, byte), text, byte)
<1> DEFINE more == Append(text, byte)
           first == FirstOf(text)
           next == Append(first, byte)
           p == MaybeHeader(j, byte)
<1>1. /\ j.hdr = "maybe" /\ j.line = first /\ Open(text) /\ Begins(first)
      /\ Len(first) < Len(HeaderPrefix)
  BY DEF MayRead
<1>2. first \in Seq(Bytes) /\ Len(first) \in Nat
  BY Around
<1>3. next \in Seq(Bytes) /\ Len(next) = Len(first) + 1
  BY <1>2, AppendProperties
<1>4. At(more) = At(text) /\ FirstOf(more) = next /\ Open(more)
  BY <1>1, OpenMore
<1>5. Begins(next) <=> FitsPrefix(first, byte)
  BY <1>1, <1>2, AppendFit
<1>6. byte # "cr" /\ byte \notin Stops
  BY DEF LineEnds, Stops
<1>7. CASE FitsPrefix(first, byte)
  <2> DEFINE k == [j EXCEPT !.line = next,
                            !.hdr = IF Len(next) = Len(HeaderPrefix) THEN "filename" ELSE "maybe"]
  <2>1. p = Parsed(k, <<>>)
    BY <1>1, <1>7 DEF MaybeHeader
  <2>2. k \in Jobs /\ k.line = next
        /\ k.hdr = IF Len(next) = Len(HeaderPrefix) THEN "filename" ELSE "maybe"
    BY <1>3 DEF Jobs
  <2>3. Meant(more) = Meant(text)
    <3>1. Len(first) < LineCap
      BY <1>1, <1>2, PrefixIs, CapAssumption
    <3> QED BY <1>1, <1>5, <1>7, <3>1, HeaderGrows
  <2>4. MayRead(k, more) \/ NameRead(k, more)
    <3> HIDE DEF k, next, first, more
    <3>1. CASE Len(next) = Len(HeaderPrefix)
      BY <1>4, <1>5, <1>7, <2>2, <3>1, PrefixIs, CapAssumption DEF NameRead
    <3>2. CASE Len(next) # Len(HeaderPrefix)
      <4>1. Len(next) < Len(HeaderPrefix)
        BY <1>1, <1>2, <1>3, <3>2, PrefixIs
      <4> QED BY <1>4, <1>5, <1>7, <2>2, <3>2, <4>1 DEF MayRead
    <3> QED BY <3>1, <3>2
  <2>5. Reads(k, more)
    BY <2>2, <2>4 DEF Reads
  <2>6. Meant(text) \o <<>> = Meant(text)
    <3>1. Meant(text) \in Seq(Tokens)
      <4>1. Len(text) \in 0..Len(text)
        BY Around
      <4> QED BY <4>1, UptoAll, UptoTyped
    <3> QED BY <3>1, ConcatEmptySeq
  <2>7. p.job = k /\ p.out = <<>> /\ <<>> \in Seq(Tokens)
    BY <2>1, ParsedIs
  <2> HIDE DEF k, p
  <2> QED BY <2>3, <2>5, <2>6, <2>7 DEF Tells, p
<1>8. CASE ~FitsPrefix(first, byte)
  <2>1. p = Replay(next)
    BY <1>1, <1>8 DEF MaybeHeader
  <2>2. NoHeader(text, byte)
    BY <1>1, <1>5, <1>8 DEF NoHeader
  <2>3. /\ Replay(next).job = Body /\ Replay(next).out \in Seq(Tokens)
        /\ Meant(more) = Meant(text) \o Replay(next).out
    BY <1>6, <2>2, ReplayedWith
  <2>4. Reads([Body EXCEPT !.swallow = (byte = "cr")], more)
    BY <1>4, <1>5, <1>6, <1>8, BodyBegins
  <2>5. [Body EXCEPT !.swallow = (byte = "cr")] = Body
    <3> DEFINE b == byte = "cr"
    <3>1. b \in BOOLEAN /\ ~b
      BY <1>6
    <3> HIDE DEF b
    <3>2. [Body EXCEPT !.swallow = b] = Body
      BY <3>1, BodyTyped
    <3> QED BY <3>2 DEF b
  <2> HIDE DEF p
  <2> QED BY <2>1, <2>3, <2>4, <2>5 DEF Tells, p
<1> QED BY <1>7, <1>8

LEMMA NameByte ==
  ASSUME NEW text \in Seq(Bytes), NEW byte \in Bytes \ LineEnds,
         NEW j \in Jobs, NameRead(j, text)
  PROVE  Tells(FilenameByte(j, byte), text, byte)
<1> DEFINE more == Append(text, byte)
           first == FirstOf(text)
           next == Append(first, byte)
           p == FilenameByte(j, byte)
<1>1. /\ j.hdr = "filename" /\ j.line = first /\ Open(text) /\ Begins(first)
      /\ Len(HeaderPrefix) <= Len(first) /\ Len(first) <= LineCap
  BY DEF NameRead
<1>2. first \in Seq(Bytes) /\ Len(first) \in Nat
  BY Around
<1>3. next \in Seq(Bytes) /\ Len(next) = Len(first) + 1
  BY <1>2, AppendProperties
<1>4. At(more) = At(text) /\ FirstOf(more) = next /\ Open(more)
      /\ FirstLine(more, At(text)) = next
  BY <1>1, OpenMore
<1>5. Begins(next)
  <2>1. Len(first) >= Len(HeaderPrefix)
    BY <1>1, <1>2, PrefixIs
  <2> QED BY <1>1, <1>2, <2>1, AppendFit
<1>6. Meant(text) \in Seq(Tokens)
  <2>1. Len(text) \in 0..Len(text)
    BY Around
  <2> QED BY <2>1, UptoAll, UptoTyped
<1>7. CASE Len(first) >= LineCap
  <2>1. p = Parsed(j, <<Token("overflow", <<>>)>>)
    BY <1>1, <1>7 DEF FilenameByte
  <2>2. HeaderTokens(more, At(text)) = <<Token("overflow", <<>>)>>
    <3>1. Len(next) > LineCap
      BY <1>2, <1>3, <1>7, CapAssumption
    <3> QED BY <1>4, <3>1 DEF HeaderTokens
  <2>3. Meant(more) = (Meant(text) \o HeaderTokens(more, At(text)))
          \o (IF byte = "ff" THEN <<Token("formfeed", <<>>)>> ELSE <<>>)
    BY <1>1, HeaderMeant
  <2> DEFINE tokens == <<Token("overflow", <<>>)>>
  <2>4. tokens \in Seq(Tokens)
    <3>1. Token("overflow", <<>>) \in Tokens
      <4>1. <<>> \in Seq(Bytes)
        OBVIOUS
      <4> QED BY <4>1 DEF Token, Tokens
    <3> HIDE DEF Tokens
    <3> QED BY <3>1
  <2>5. Overflows(tokens)
    BY DEF Overflows, Token
  <2>6. p.out = tokens
    BY <2>1, ParsedIs
  <2>7. byte # "ff"
    BY DEF LineEnds
  <2> HIDE DEF tokens, p
  <2>8. (Meant(text) \o tokens) \o <<>> = Meant(text) \o tokens
    <3>1. Meant(text) \o tokens \in Seq(Tokens)
      BY <1>6, <2>4, ConcatProperties
    <3> QED BY <3>1, ConcatEmptySeq
  <2> QED BY <2>2, <2>3, <2>4, <2>5, <2>6, <2>7, <2>8 DEF Tells, p, tokens
<1>8. CASE ~(Len(first) >= LineCap)
  <2> DEFINE k == [j EXCEPT !.line = next]
  <2>1. p = Parsed(k, <<>>)
    BY <1>1, <1>8 DEF FilenameByte
  <2>2. k \in Jobs /\ k.line = next /\ k.hdr = "filename"
    BY <1>1, <1>3 DEF Jobs
  <2>3. Len(first) < LineCap
    BY <1>2, <1>8, CapAssumption
  <2>4. Meant(more) = Meant(text)
    BY <1>1, <1>5, <2>3, HeaderGrows
  <2>5. NameRead(k, more)
    <3>1. Len(HeaderPrefix) <= Len(next) /\ Len(next) <= LineCap
      BY <1>1, <1>2, <1>3, <2>3, PrefixIs, CapAssumption
    <3> HIDE DEF k, next, first, more
    <3> QED BY <1>4, <1>5, <2>2, <3>1 DEF NameRead
  <2>6. Reads(k, more)
    BY <2>2, <2>5 DEF Reads
  <2>7. Meant(text) \o <<>> = Meant(text)
    BY <1>6, ConcatEmptySeq
  <2>8. p.job = k /\ p.out = <<>> /\ <<>> \in Seq(Tokens)
    BY <2>1, ParsedIs
  <2> HIDE DEF k, p
  <2> QED BY <2>4, <2>6, <2>7, <2>8 DEF Tells, p
<1> QED BY <1>7, <1>8

LEMMA NameTokens ==
  ASSUME NEW first \in Seq(Bytes) PROVE StoreFilename(first) \in Seq(Tokens)
<1> DEFINE name == Trim(SubSeq(first, Len(HeaderPrefix) + 1, Len(first)))
<1>1. name \in Seq(Bytes)
  BY NameTyped
<1>2. StoreFilename(first) \in {<<Token("overflow", <<>>)>>, <<Token("filename", name)>>}
  BY DEF StoreFilename
<1> HIDE DEF name
<1>3. Token("overflow", <<>>) \in Tokens /\ Token("filename", name) \in Tokens
  BY <1>1 DEF Token, Tokens
<1>4. \A t \in Tokens : <<t>> \in Seq(Tokens)
  OBVIOUS
<1> HIDE DEF Tokens
<1> QED BY <1>2, <1>3, <1>4

\* A first line that ends: what is told of it, and what is left to say.
Closes(p, text, byte) ==
  /\ p.job = Body /\ p.out \in Seq(Tokens)
  /\ Meant(Append(text, byte)) =
       (Meant(text) \o p.out)
         \o (IF byte = "ff" THEN <<Token("formfeed", <<>>)>> ELSE <<>>)

LEMMA NameCloses ==
  ASSUME NEW text \in Seq(Bytes), NEW byte \in Bytes, byte \in LineEnds,
         NEW j \in Jobs, NameRead(j, text)
  PROVE  Closes(Parsed(Body, StoreFilename(j.line)), text, byte)
<1> DEFINE more == Append(text, byte)
           first == FirstOf(text)
           d == At(text)
<1>1. /\ j.line = first /\ Open(text) /\ Begins(first)
      /\ Len(HeaderPrefix) <= Len(first) /\ Len(first) <= LineCap
  BY DEF NameRead
<1>2. first \in Seq(Bytes) /\ Len(first) \in Nat /\ Len(text) \in Nat
  BY Around
<1>3. Len(more) = Len(text) + 1
  BY MoreText
<1>4. LineEnd(more, d) = Len(text) + 1 /\ FirstLine(more, d) = first
  BY <1>1, OpenMore
<1>5. HeaderTokens(more, d) = StoreFilename(first)
  <2>1. LineEnd(more, d) <= Len(more) /\ ~(Len(first) > LineCap)
    BY <1>1, <1>2, <1>3, <1>4, CapAssumption
  <2> HIDE DEF more, first, d
  <2> QED BY <1>4, <2>1 DEF HeaderTokens, StoreFilename
<1>6. Meant(more) = (Meant(text) \o HeaderTokens(more, d))
        \o (IF byte = "ff" THEN <<Token("formfeed", <<>>)>> ELSE <<>>)
  BY <1>1, HeaderMeant
<1>7. StoreFilename(first) \in Seq(Tokens)
  BY <1>2, NameTokens
<1>8. Parsed(Body, StoreFilename(first)).job = Body
      /\ Parsed(Body, StoreFilename(first)).out = StoreFilename(first)
  BY ParsedIs
<1>9. Closes(Parsed(Body, StoreFilename(first)), text, byte)
  <2> HIDE DEF first, d
  <2> QED BY <1>5, <1>6, <1>7, <1>8 DEF Closes
<1> QED BY <1>1, <1>9

LEMMA MeantTyped ==
  ASSUME NEW text \in Seq(Bytes) PROVE Meant(text) \in Seq(Tokens)
<1>1. Len(text) \in 0..Len(text)
  BY Around
<1> QED BY <1>1, UptoAll, UptoTyped

LEMMA MaybeCloses ==
  ASSUME NEW text \in Seq(Bytes), NEW byte \in Bytes, byte \in LineEnds,
         NEW j \in Jobs, MayRead(j, text)
  PROVE  Closes(Replay(IF byte \in {"cr", "lf"} THEN Append(j.line, "lf") ELSE j.line),
                text, byte)
<1> DEFINE more == Append(text, byte)
           first == FirstOf(text)
<1>1. /\ j.line = first /\ Open(text) /\ Begins(first)
      /\ Len(first) < Len(HeaderPrefix)
  BY DEF MayRead
<1>2. NoHeader(text, byte)
  BY <1>1 DEF NoHeader
<1>3. byte \in {"cr", "lf", "ff", "finish"}
  BY DEF LineEnds
<1>4. CASE byte \in {"cr", "lf"}
  <2> DEFINE p == Replay(Append(first, "lf"))
  <2>1. Says("lf", FALSE) = <<Token("newline", <<>>)>>
        /\ Says(byte, FALSE) = <<Token("newline", <<>>)>>
    BY <1>4, ControlAssumption DEF Says
  <2>2. "lf" \in Bytes
    BY DEF Bytes
  <2>3. p.job = Body /\ p.out \in Seq(Tokens) /\ Meant(more) = Meant(text) \o p.out
    BY <1>2, <2>1, <2>2, ReplayedWith
  <2> HIDE DEF p
  <2>4. (Meant(text) \o p.out) \o <<>> = Meant(text) \o p.out
    <3>1. Meant(text) \o p.out \in Seq(Tokens)
      BY <2>3, MeantTyped, ConcatProperties
    <3> QED BY <3>1, ConcatEmptySeq
  <2> QED BY <1>1, <1>4, <2>3, <2>4 DEF Closes, p
<1>5. CASE byte \in {"ff", "finish"}
  <2> DEFINE p == Replay(first)
  <2>1. p.job = Body /\ p.out \in Seq(Tokens)
        /\ Meant(more) = (Meant(text) \o p.out) \o Says(byte, FALSE)
    BY <1>2, ReplayedBefore
  <2>2. Says(byte, FALSE) = IF byte = "ff" THEN <<Token("formfeed", <<>>)>> ELSE <<>>
    BY <1>5, ControlAssumption, FinishAssumption DEF Says
  <2> HIDE DEF p
  <2> QED BY <1>1, <1>5, <2>1, <2>2 DEF Closes, p
<1> QED BY <1>3, <1>4, <1>5

LEMMA FirstLineEndTells ==
  ASSUME NEW text \in Seq(Bytes), NEW byte \in {"cr", "lf", "ff"},
         NEW j \in Jobs, MayRead(j, text) \/ NameRead(j, text)
  PROVE  Tells(FirstLineEnd(j, byte), text, byte)
<1> DEFINE more == Append(text, byte)
           closed == CloseFirstLine(j, byte # "ff")
           p == FirstLineEnd(j, byte)
           end == <<Token("formfeed", <<>>)>>
<1>1. byte \in Bytes /\ byte \in LineEnds /\ ((byte # "ff") <=> byte \in {"cr", "lf"})
      /\ byte # "finish"
  BY DEF Bytes, LineEnds
<1>2. Closes(closed, text, byte)
  <2>1. CASE NameRead(j, text)
    <3>1. closed = Parsed(Body, StoreFilename(j.line))
      BY <2>1 DEF CloseFirstLine, NameRead
    <3> QED BY <1>1, <2>1, <3>1, NameCloses
  <2>2. CASE MayRead(j, text)
    <3>1. closed = Replay(IF byte \in {"cr", "lf"} THEN Append(j.line, "lf") ELSE j.line)
      BY <1>1, <2>2 DEF CloseFirstLine, MayRead
    <3> QED BY <1>1, <2>2, <3>1, MaybeCloses
  <2> QED BY <2>1, <2>2
<1>3. /\ p.job = [closed.job EXCEPT !.swallow = (byte = "cr")]
      /\ p.out = IF byte = "ff" THEN Append(closed.out, Token("formfeed", <<>>)) ELSE closed.out
  BY ParsedIs DEF FirstLineEnd
<1> HIDE DEF closed, p, end
<1>4. closed.job = Body /\ closed.out \in Seq(Tokens) /\ Meant(text) \in Seq(Tokens)
      /\ Meant(more) = (Meant(text) \o closed.out) \o (IF byte = "ff" THEN end ELSE <<>>)
  BY <1>2, MeantTyped DEF Closes, end
<1>5. Token("formfeed", <<>>) \in Tokens
  <2>1. <<>> \in Seq(Bytes)
    OBVIOUS
  <2> QED BY <2>1 DEF Token, Tokens
<1>6. end \in Seq(Tokens)
  <2> HIDE DEF Tokens
  <2> QED BY <1>5 DEF end
<1>7. /\ p.out \in Seq(Tokens)
      /\ p.out = closed.out \o (IF byte = "ff" THEN end ELSE <<>>)
  <2>1. CASE byte = "ff"
    <3>1. Append(closed.out, Token("formfeed", <<>>)) = closed.out \o end
      BY <1>4, <1>5, AppendIsConcat DEF end
    <3>2. closed.out \o end \in Seq(Tokens)
      BY <1>4, <1>6, ConcatProperties
    <3> QED BY <1>3, <2>1, <3>1, <3>2
  <2>2. CASE byte # "ff"
    BY <1>3, <1>4, <2>2, ConcatEmptySeq
  <2> QED BY <2>1, <2>2
<1>8. Meant(more) = Meant(text) \o p.out
  <2> DEFINE e == IF byte = "ff" THEN end ELSE <<>>
  <2>1. e \in Seq(Tokens)
    <3>1. <<>> \in Seq(Tokens)
      OBVIOUS
    <3> QED BY <1>6, <3>1
  <2> HIDE DEF e
  <2>2. \A u, v, w \in Seq(Tokens) : (u \o v) \o w = u \o (v \o w)
    BY ConcatAssociative
  <2>3. (Meant(text) \o closed.out) \o e = Meant(text) \o (closed.out \o e)
    BY <1>4, <2>1, <2>2
  <2> QED BY <1>4, <1>7, <2>3 DEF e
<1>9. ASSUME byte \notin Stops PROVE Reads(p.job, more)
  <2>1. ~Open(more)
    BY <1>1, <1>9, OpenMore DEF MayRead, NameRead
  <2>2. Reads([Body EXCEPT !.swallow = (byte = "cr")], more)
    BY <1>1, <1>9, <2>1, BodyBegins
  <2> QED BY <1>3, <1>4, <2>2
<1> QED BY <1>7, <1>8, <1>9 DEF Tells, p

\* Whatever the parser has read, a byte makes it tell what the grammar says.
LEMMA ByteTells ==
  ASSUME NEW text \in Seq(Bytes), NEW byte \in Bytes, byte # "finish",
         NEW j, Reads(j, text)
  PROVE  Tells(OnByte(j, byte), text, byte)
<1>1. j \in Jobs
  BY DEF Reads
<1>2. byte \in LineEnds <=> byte \in {"cr", "lf", "ff"}
  BY DEF LineEnds
<1>3. CASE BodyRead(j, text)
  <2>1. OnByte(j, byte) = Content(j, byte)
    BY <1>3 DEF OnByte, BodyRead
  <2> QED BY <1>1, <1>3, <2>1, BodyByte
<1>4. CASE MayRead(j, text)
  <2>1. CASE byte \in LineEnds
    <3>1. OnByte(j, byte) = FirstLineEnd(j, byte)
      BY <1>2, <1>4, <2>1 DEF OnByte, MayRead
    <3> QED BY <1>1, <1>2, <1>4, <2>1, <3>1, FirstLineEndTells
  <2>2. CASE byte \notin LineEnds
    <3>1. OnByte(j, byte) = MaybeHeader(j, byte)
      BY <1>2, <1>4, <2>2 DEF OnByte, MayRead
    <3> QED BY <1>1, <1>4, <2>2, <3>1, MaybeByte
  <2> QED BY <2>1, <2>2
<1>5. CASE NameRead(j, text)
  <2>1. CASE byte \in LineEnds
    <3>1. OnByte(j, byte) = FirstLineEnd(j, byte)
      BY <1>2, <1>5, <2>1 DEF OnByte, NameRead
    <3> QED BY <1>1, <1>2, <1>5, <2>1, <3>1, FirstLineEndTells
  <2>2. CASE byte \notin LineEnds
    <3>1. OnByte(j, byte) = FilenameByte(j, byte)
      BY <1>2, <1>5, <2>2 DEF OnByte, NameRead
    <3> QED BY <1>1, <1>5, <2>2, <3>1, NameByte
  <2> QED BY <2>1, <2>2
<1> QED BY <1>3, <1>4, <1>5 DEF Reads

\* And so does a finish.
LEMMA FinishTells ==
  ASSUME NEW text \in Seq(Bytes), NEW j, Reads(j, text)
  PROVE  /\ JobFinish(j).out \in Seq(Tokens)
         /\ Meant(Append(text, "finish")) = Meant(text) \o JobFinish(j).out
<1> DEFINE more == Append(text, "finish")
           p == JobFinish(j)
<1>1. j \in Jobs
  BY DEF Reads
<1>2. "finish" \in Bytes /\ "finish" \in LineEnds /\ "finish" \notin {"cr", "lf", "ff"}
  BY DEF Bytes, LineEnds
<1>3. CASE BodyRead(j, text)
  <2>1. p.out = <<>>
    BY <1>3, ParsedIs DEF JobFinish, BodyRead
  <2>2. Meant(more) = Meant(text) \o Says("finish", AfterCr(text))
    BY <1>2, <1>3, BodyNext DEF BodyRead
  <2>3. Says("finish", AfterCr(text)) = <<>>
    BY FinishAssumption DEF Says
  <2>4. <<>> \in Seq(Tokens)
    OBVIOUS
  <2> QED BY <2>1, <2>2, <2>3, <2>4
<1>4. CASE MayRead(j, text) \/ NameRead(j, text)
  <2>1. Closes(p, text, "finish")
    <3>1. CASE NameRead(j, text)
      <4>1. p = Parsed(Body, StoreFilename(j.line))
        BY <3>1 DEF JobFinish, CloseFirstLine, NameRead
      <4> QED BY <1>1, <1>2, <3>1, <4>1, NameCloses
    <3>2. CASE MayRead(j, text)
      <4>1. p = Replay(IF "finish" \in {"cr", "lf"} THEN Append(j.line, "lf") ELSE j.line)
        BY <3>2 DEF JobFinish, CloseFirstLine, MayRead
      <4> QED BY <1>1, <1>2, <3>2, <4>1, MaybeCloses
    <3> QED BY <1>4, <3>1, <3>2
  <2> HIDE DEF p
  <2>2. p.out \in Seq(Tokens) /\ Meant(more) = (Meant(text) \o p.out) \o <<>>
    BY <2>1 DEF Closes
  <2>3. (Meant(text) \o p.out) \o <<>> = Meant(text) \o p.out
    <3>1. Meant(text) \o p.out \in Seq(Tokens)
      BY <2>2, MeantTyped, ConcatProperties
    <3> QED BY <3>1, ConcatEmptySeq
  <2> QED BY <2>2, <2>3 DEF p
<1> QED BY <1>3, <1>4 DEF Reads

LEMMA OverflowsConcat ==
  ASSUME NEW a \in Seq(Tokens), NEW b \in Seq(Tokens), Overflows(b)
  PROVE  Overflows(a \o b)
<1>1. PICK i \in 1..Len(b) : b[i].op = "overflow"
  BY DEF Overflows
<1>2. /\ a \o b \in Seq(Tokens) /\ Len(a \o b) = Len(a) + Len(b)
      /\ \A k \in 1..(Len(a) + Len(b)) :
           (a \o b)[k] = IF k <= Len(a) THEN a[k] ELSE b[k - Len(a)]
  BY ConcatProperties
<1>3. DOMAIN (a \o b) = 1..Len(a \o b)
  BY <1>2, LenProperties
<1>4. Len(a) \in Nat /\ Len(b) \in Nat
  OBVIOUS
<1>5. Len(a) + i \in 1..(Len(a) + Len(b)) /\ ~(Len(a) + i <= Len(a))
      /\ (Len(a) + i) - Len(a) = i
  BY <1>1, <1>4
<1>6. (a \o b)[Len(a) + i] = b[i]
  BY <1>2, <1>5
<1> QED BY <1>1, <1>2, <1>3, <1>5, <1>6 DEF Overflows

-----------------------------------------------------------------------------
(* The parser by itself                                                    *)

StreamInv ==
  /\ sent \in Seq(Bytes)
  /\ out = Meant(sent)
  /\ ~Overflowed => Reads(job, sent)

LEMMA StreamStep ==
  ASSUME Resets, StreamInv, [StreamNext]_streamVars
  PROVE  StreamInv'
<1>1. sent \in Seq(Bytes) /\ out = Meant(sent) /\ (~Overflowed => Reads(job, sent))
  BY DEF StreamInv
<1>2. out \in Seq(Tokens)
  BY <1>1, MeantTyped
<1>3. ASSUME NEW byte \in Alphabet, FeedByte(byte) PROVE StreamInv'
  <2> DEFINE p == OnByte(job, byte)
             more == Append(sent, byte)
  <2>1. byte \in Bytes /\ byte # "finish"
    BY FinishAssumption DEF Bytes
  <2>2. /\ Reads(job, sent) /\ sent' = more /\ out' = out \o p.out
        /\ job' = IF byte = "ff" THEN NewJob ELSE p.job
    BY <1>1, <1>3 DEF FeedByte, Going, Emit
  <2>3. Tells(p, sent, byte)
    BY <1>1, <2>1, <2>2, ByteTells
  <2>4. more \in Seq(Bytes) /\ Len(more) = Len(sent) + 1 /\ more[Len(sent) + 1] = byte
    BY <1>1, <2>1, MoreText
  <2> HIDE DEF p, more
  <2>5. /\ p.out \in Seq(Tokens) /\ Meant(more) = Meant(sent) \o p.out
        /\ byte \notin Stops /\ ~Overflows(p.out) => Reads(p.job, more)
    BY <2>3 DEF Tells, more
  <2>6. ASSUME ~Overflowed' PROVE Reads(job', more)
    <3>1. CASE byte = "ff"
      <4>1. Fresh(more)
        BY <2>4, <3>1 DEF Stops, Fresh
      <4> QED BY <2>2, <2>4, <3>1, <4>1, FreshReads
    <3>2. CASE byte # "ff"
      <4>1. byte \notin Stops
        BY <2>1, <3>2 DEF Stops
      <4>2. ~Overflows(out')
        BY <2>6 DEF Overflowed, Overflows
      <4>3. ~Overflows(p.out)
        BY <1>2, <2>2, <2>5, <4>2, OverflowsConcat
      <4> QED BY <2>2, <2>5, <3>2, <4>1, <4>3
    <3> QED BY <3>1, <3>2
  <2> QED BY <1>1, <2>2, <2>4, <2>5, <2>6 DEF StreamInv
<1>4. ASSUME FinishJob PROVE StreamInv'
  <2> DEFINE p == JobFinish(job)
             more == Append(sent, "finish")
  <2>1. "finish" \in Bytes
    BY DEF Bytes
  <2>2. Reads(job, sent) /\ sent' = more /\ out' = out \o p.out /\ job' = NewJob
    BY <1>1, <1>4 DEF FinishJob, Going, Emit
  <2>3. p.out \in Seq(Tokens) /\ Meant(more) = Meant(sent) \o p.out
    BY <1>1, <2>2, FinishTells
  <2>4. more \in Seq(Bytes) /\ Len(more) = Len(sent) + 1 /\ more[Len(sent) + 1] = "finish"
    BY <1>1, <2>1, MoreText
  <2> HIDE DEF p, more
  <2>5. Reads(NewJob, more)
    <3>1. Fresh(more)
      BY <2>4 DEF Stops, Fresh
    <3> QED BY <2>4, <3>1, FreshReads
  <2> QED BY <1>1, <2>2, <2>3, <2>4, <2>5 DEF StreamInv
<1>5. ASSUME UNCHANGED streamVars PROVE StreamInv'
  BY <1>1, <1>5 DEF StreamInv, streamVars, Overflowed
<1> QED BY <1>3, <1>4, <1>5 DEF StreamNext

LEMMA MeantNothing == Meant(<<>>) = <<>>
<1>1. <<>> \in Seq(Bytes) /\ Len(<<>>) = 0
  OBVIOUS
<1> QED BY <1>1, UptoAll, UptoNone

\* As long as every document's end resets the parser, as emboss_pipeline.c
\* does, the callbacks of emboss_job.c receive what the cable grammar says,
\* whatever bytes come, wherever they are cut and whatever the header prefix,
\* the table and the capacities.
THEOREM DocumentsAreParsed ==
  ASSUME Resets PROVE StreamSpec => []ParsesDocuments
<1>1. StreamInit => StreamInv
  <2> SUFFICES ASSUME StreamInit PROVE StreamInv
    OBVIOUS
  <2>1. <<>> \in Seq(Bytes)
    OBVIOUS
  <2>2. sent = <<>> /\ out = <<>> /\ job = NewJob
    BY DEF StreamInit
  <2>3. Reads(NewJob, sent)
    BY <2>1, <2>2, FreshReads DEF Fresh
  <2> QED BY <2>1, <2>2, <2>3, MeantNothing DEF StreamInv
<1>2. StreamInv /\ [StreamNext]_streamVars => StreamInv'
  BY StreamStep
<1>3. StreamInv => ParsesDocuments
  BY DEF StreamInv, ParsesDocuments
<1> QED BY <1>1, <1>2, <1>3, PTL DEF StreamSpec

-----------------------------------------------------------------------------
(* The parser inside the pipeline                                          *)

\* The open document is over: its form feed is still to be acted upon or under
\* way, or finish is.
Ends(tokens) == \E i \in DOMAIN tokens : tokens[i].op = "formfeed"
Ending == call = "finish" \/ ff # "no" \/ Ends(todo)

\* Where the thread is: a fault leaves a command only at a callback, form_feed
\* is on its way only in a newline or between two, and only finish drains.
FlowInv ==
  /\ state \in JobStates
  /\ regs.then \in {"cell", "newline", "drain"}
  /\ state = "fault" => pc \in Callbacks \cup {"ready", "drain"}
  /\ pc \in {"ready", "drain"} \cup Submits => ff = "no"
  /\ pc \in Travels /\ regs.then # "newline" => ff = "no"
  /\ pc = "drain" \/ (pc \in Travels /\ regs.then = "drain") =>
       call = "finish" /\ todo = <<>>
  /\ call = "none" => todo = <<>>

\* What the bytes mean has been acted upon or is about to be; between two
\* documents the parser may be reset, inside one it has read what was sent.
TextInv ==
  /\ sent \in Seq(Bytes) /\ out \in Seq(Tokens) /\ todo \in Seq(Tokens)
  /\ out \o todo = Meant(sent)
  /\ call = "feed" => sent # <<>> /\ sent[Len(sent)] # "finish"
  /\ Ending \/ state \in {"idle", "done"} => Fresh(sent)
  /\ ~Ending /\ ~Overflows(todo) => Reads(job, sent)

FeedInv == FlowInv /\ (state # "fault" => TextInv)

LEMMA EndsConcat ==
  ASSUME NEW a \in Seq(Tokens), NEW b \in Seq(Tokens)
  PROVE  Ends(a \o b) <=> Ends(a) \/ Ends(b)
<1>1. /\ a \o b \in Seq(Tokens) /\ Len(a \o b) = Len(a) + Len(b)
      /\ \A k \in 1..(Len(a) + Len(b)) :
           (a \o b)[k] = IF k <= Len(a) THEN a[k] ELSE b[k - Len(a)]
  BY ConcatProperties
<1>2. /\ DOMAIN (a \o b) = 1..Len(a \o b) /\ DOMAIN a = 1..Len(a)
      /\ DOMAIN b = 1..Len(b)
  BY <1>1, LenProperties
<1>3. Len(a) \in Nat /\ Len(b) \in Nat
  OBVIOUS
<1>4. ASSUME Ends(a) PROVE Ends(a \o b)
  <2>1. PICK i \in 1..Len(a) : a[i].op = "formfeed"
    BY <1>2, <1>4 DEF Ends
  <2>2. i \in 1..(Len(a) + Len(b)) /\ i <= Len(a)
    BY <1>3
  <2>3. (a \o b)[i] = a[i]
    BY <1>1, <2>2
  <2> QED BY <1>1, <1>2, <2>1, <2>2, <2>3 DEF Ends
<1>5. ASSUME Ends(b) PROVE Ends(a \o b)
  <2>1. PICK i \in 1..Len(b) : b[i].op = "formfeed"
    BY <1>2, <1>5 DEF Ends
  <2>2. Len(a) + i \in 1..(Len(a) + Len(b)) /\ ~(Len(a) + i <= Len(a))
        /\ (Len(a) + i) - Len(a) = i
    BY <1>3
  <2>3. (a \o b)[Len(a) + i] = b[i]
    BY <1>1, <2>2
  <2> QED BY <1>1, <1>2, <2>1, <2>2, <2>3 DEF Ends
<1>6. ASSUME Ends(a \o b) PROVE Ends(a) \/ Ends(b)
  <2>1. PICK k \in 1..(Len(a) + Len(b)) : (a \o b)[k].op = "formfeed"
    BY <1>1, <1>2, <1>6 DEF Ends
  <2>2. CASE k <= Len(a)
    <3>1. (a \o b)[k] = a[k] /\ k \in 1..Len(a)
      BY <1>1, <1>3, <2>2
    <3> QED BY <1>2, <2>1, <3>1 DEF Ends
  <2>3. CASE ~(k <= Len(a))
    <3>1. (a \o b)[k] = b[k - Len(a)] /\ k - Len(a) \in 1..Len(b)
      BY <1>1, <1>3, <2>3
    <3> QED BY <1>2, <2>1, <3>1 DEF Ends
  <2> QED BY <2>2, <2>3
<1> QED BY <1>4, <1>5, <1>6

\* Cells and line ends: no form feed, and no name.
Plain(tokens) == \A i \in DOMAIN tokens : tokens[i].op \notin {"formfeed", "filename"}

\* What a byte tells before its form feed: at most one name, at the head.
Leading(tokens) ==
  \A i \in DOMAIN tokens : tokens[i].op # "formfeed" /\ (tokens[i].op = "filename" => i = 1)

LEMMA SaysPlain ==
  ASSUME NEW byte \in Bytes, byte # "ff", NEW b \in BOOLEAN
  PROVE  Plain(Says(byte, b))
<1>1. \/ Says(byte, b) = <<>>
      \/ Says(byte, b) = <<Token("newline", <<>>)>>
      \/ Says(byte, b) = <<Token("cell", byte)>>
  BY ControlAssumption DEF Says
<1> QED BY <1>1 DEF Token, Plain

LEMMA PlainConcat ==
  ASSUME NEW a \in Seq(Tokens), NEW b \in Seq(Tokens), Plain(a), Plain(b)
  PROVE  Plain(a \o b)
<1>1. /\ a \o b \in Seq(Tokens) /\ Len(a \o b) = Len(a) + Len(b)
      /\ \A k \in 1..(Len(a) + Len(b)) :
           (a \o b)[k] = IF k <= Len(a) THEN a[k] ELSE b[k - Len(a)]
  BY ConcatProperties
<1>2. /\ DOMAIN (a \o b) = 1..Len(a \o b) /\ DOMAIN a = 1..Len(a)
      /\ DOMAIN b = 1..Len(b)
  BY <1>1, LenProperties
<1>3. Len(a) \in Nat /\ Len(b) \in Nat
  OBVIOUS
<1>4. ASSUME NEW k \in 1..(Len(a) + Len(b))
      PROVE  (a \o b)[k].op \notin {"formfeed", "filename"}
  <2>1. CASE k <= Len(a)
    <3>1. (a \o b)[k] = a[k] /\ k \in DOMAIN a
      BY <1>1, <1>2, <1>3, <2>1
    <3> QED BY <3>1 DEF Plain
  <2>2. CASE ~(k <= Len(a))
    <3>1. (a \o b)[k] = b[k - Len(a)] /\ k - Len(a) \in DOMAIN b
      BY <1>1, <1>2, <1>3, <2>2
    <3> QED BY <3>1 DEF Plain
  <2> QED BY <2>1, <2>2
<1> QED BY <1>1, <1>2, <1>4 DEF Plain

LEMMA PlainNone == Plain(<<>>)
  BY DEF Plain

\* Held bytes are replayed plainly.
LEMMA ReplayPlain ==
  ASSUME NEW held \in Seq(Bytes), \A i \in 1..Len(held) : held[i] # "ff"
  PROVE  Replay(held).out \in Seq(Tokens) /\ Plain(Replay(held).out)
<1> DEFINE n == Len(held)
           Q(p) == p \in Parses /\ Plain(p.out)
<1>1. PICK f : Plays(f, held) /\ Replay(held) = f[Len(held)]
  BY ReplayIs
<1> DEFINE T == {i \in Nat : i <= n => Q(f[i])}
<1>2. n \in Nat /\ \A i \in 1..n : held[i] \in Bytes
  OBVIOUS
<1>3. 0 \in T
  <2>1. f[0] = Parsed(Body, <<>>)
    BY <1>1 DEF Plays
  <2>2. <<>> \in Seq(Bytes) /\ <<>> \in Seq(Tokens)
    OBVIOUS
  <2>3. Body \in Jobs
    BY <2>2 DEF Body, Jobs
  <2>4. f[0] \in Parses /\ f[0].out = <<>>
    BY <2>1, <2>2, <2>3 DEF Parsed, Parses
  <2> QED BY <2>4, PlainNone
<1>4. ASSUME NEW i \in Nat, i \in T PROVE i + 1 \in T
  <2> SUFFICES ASSUME i + 1 <= n PROVE Q(f[i + 1])
    OBVIOUS
  <2> DEFINE p == f[i]
             q == f[i + 1]
             byte == held[i + 1]
  <2>1. Q(p)
    BY <1>4
  <2>2. i + 1 \in 1..n /\ (i + 1) - 1 = i
    BY <1>2
  <2>3. q = Then(p, byte) /\ byte \in Bytes /\ byte # "ff"
    BY <1>1, <1>2, <2>2 DEF Plays
  <2> HIDE DEF q, p, byte
  <2>4. q \in Parses /\ q.out = p.out \o Says(byte, p.job.swallow)
    BY <2>1, <2>3, ThenIs
  <2>5. p.job.swallow \in BOOLEAN /\ p.out \in Seq(Tokens)
    BY <2>1 DEF Parses, Jobs
  <2>6. Says(byte, p.job.swallow) \in Seq(Tokens) /\ Plain(Says(byte, p.job.swallow))
    BY <2>3, <2>5, SaysTyped, SaysPlain
  <2> QED BY <2>1, <2>4, <2>5, <2>6, PlainConcat DEF q
<1> HIDE DEF T
<1>5. n \in T
  BY <1>2, <1>3, <1>4, Induction
<1>6. Q(f[n])
  BY <1>2, <1>5 DEF T
<1> QED BY <1>1, <1>6 DEF Parses

\* A first line is closed by its name, or plainly.
LEMMA CloseParts ==
  ASSUME NEW text \in Seq(Bytes), NEW asNewline \in BOOLEAN,
         NEW j \in Jobs, MayRead(j, text) \/ NameRead(j, text)
  PROVE  LET lead == CloseFirstLine(j, asNewline).out IN
         /\ lead \in Seq(Tokens)
         /\ NameRead(j, text) => lead = StoreFilename(j.line)
         /\ ~NameRead(j, text) => Plain(lead)
<1>1. j.line \in Seq(Bytes) /\ \A i \in 1..Len(j.line) : j.line[i] # "ff"
  BY Around DEF MayRead, NameRead, LineEnds, Jobs
<1>2. CASE NameRead(j, text)
  <2>1. CloseFirstLine(j, asNewline).out = StoreFilename(j.line)
    BY <1>2, ParsedIs DEF CloseFirstLine, NameRead
  <2> QED BY <1>1, <1>2, <2>1, NameTokens
<1>3. CASE MayRead(j, text) /\ ~NameRead(j, text)
  <2> DEFINE more == Append(j.line, "lf")
  <2>1. CloseFirstLine(j, asNewline) = Replay(IF asNewline THEN more ELSE j.line)
    BY <1>3 DEF CloseFirstLine, MayRead
  <2>2. more \in Seq(Bytes) /\ \A i \in 1..Len(more) : more[i] # "ff"
    <3>1. "lf" \in Bytes
      BY DEF Bytes
    <3>2. /\ more \in Seq(Bytes) /\ Len(more) = Len(j.line) + 1
          /\ \A i \in 1..(Len(j.line) + 1) :
               more[i] = IF i = Len(j.line) + 1 THEN "lf" ELSE j.line[i]
      BY <1>1, <3>1, AppendProperties
    <3>3. \A i \in 1..(Len(j.line) + 1) : i # Len(j.line) + 1 => i \in 1..Len(j.line)
      BY <1>1
    <3> HIDE DEF more
    <3> QED BY <1>1, <3>2, <3>3
  <2> HIDE DEF more
  <2>3. CASE asNewline
    BY <1>3, <2>1, <2>2, <2>3, ReplayPlain
  <2>4. CASE ~asNewline
    BY <1>1, <1>3, <2>1, <2>4, ReplayPlain
  <2> QED BY <2>3, <2>4
<1> QED BY <1>2, <1>3

\* What a byte tells: the end of its document if it is a form feed, and before
\* that the name if it ends a header.
Ended(lead, byte) ==
  IF byte = "ff" THEN Append(lead, Token("formfeed", <<>>)) ELSE lead
Names(j, text, byte) == NameRead(j, text) /\ byte \in LineEnds

Parts(tokens, lead, j, text, byte) ==
  /\ tokens = Ended(lead, byte) /\ lead \in Seq(Tokens)
  /\ Names(j, text, byte) => lead = StoreFilename(j.line)
  /\ ~Names(j, text, byte) => Plain(lead)

LEMMA ByteParts ==
  ASSUME NEW text \in Seq(Bytes), NEW byte \in Bytes, byte # "finish",
         NEW j, Reads(j, text)
  PROVE  \E lead : Parts(OnByte(j, byte).out, lead, j, text, byte)
<1>1. j \in Jobs /\ j.swallow \in BOOLEAN /\ j.line \in Seq(Bytes)
      /\ (BodyRead(j, text) \/ MayRead(j, text) \/ NameRead(j, text))
  BY DEF Reads, Jobs
<1>2. byte \in LineEnds <=> byte \in {"cr", "lf", "ff"}
  BY DEF LineEnds
<1>3. <<>> \in Seq(Tokens)
  OBVIOUS
<1>4. CASE BodyRead(j, text)
  <2>1. OnByte(j, byte) = Content(j, byte) /\ ~NameRead(j, text)
    BY <1>4 DEF OnByte, BodyRead, NameRead
  <2>2. OnByte(j, byte).out = Says(byte, j.swallow)
    BY <1>1, <2>1, ContentIs
  <2>3. CASE byte = "ff"
    <3>1. Says(byte, j.swallow) = <<Token("formfeed", <<>>)>>
      BY <2>3, ControlAssumption DEF Says
    <3>2. OnByte(j, byte).out = Ended(<<>>, byte)
      BY <2>2, <2>3, <3>1 DEF Ended
    <3> QED BY <1>3, <2>1, <3>2, PlainNone DEF Parts, Names
  <2>4. CASE byte # "ff"
    <3>1. Says(byte, j.swallow) \in Seq(Tokens) /\ Plain(Says(byte, j.swallow))
      BY <1>1, <2>4, SaysTyped, SaysPlain
    <3> QED BY <2>1, <2>2, <2>4, <3>1 DEF Parts, Names, Ended
  <2> QED BY <2>3, <2>4
<1>5. CASE MayRead(j, text) \/ NameRead(j, text)
  <2>1. CASE byte \in LineEnds
    <3> DEFINE b == byte # "ff"
               lead == CloseFirstLine(j, b).out
    <3>1. OnByte(j, byte) = FirstLineEnd(j, byte)
      BY <1>2, <1>5, <2>1 DEF OnByte, MayRead, NameRead
    <3>2. OnByte(j, byte).out = Ended(lead, byte)
      BY <3>1, ParsedIs DEF FirstLineEnd, Ended
    <3>3. b \in BOOLEAN
      OBVIOUS
    <3> HIDE DEF b
    <3>4. /\ lead \in Seq(Tokens)
          /\ NameRead(j, text) => lead = StoreFilename(j.line)
          /\ ~NameRead(j, text) => Plain(lead)
      BY <1>1, <1>5, <3>3, CloseParts
    <3> QED BY <2>1, <3>2, <3>4 DEF Parts, Names
  <2>2. CASE byte \notin LineEnds
    <3>1. byte \in Bytes /\ byte # "ff"
      BY <2>2 DEF LineEnds
    <3>2. CASE MayRead(j, text)
      <4> DEFINE more == Append(j.line, byte)
      <4>1. OnByte(j, byte) = MaybeHeader(j, byte)
        BY <1>2, <2>2, <3>2 DEF OnByte, MayRead
      <4>2. MaybeHeader(j, byte).out = <<>> \/ MaybeHeader(j, byte) = Replay(more)
        BY ParsedIs DEF MaybeHeader
      <4>3. more \in Seq(Bytes) /\ \A i \in 1..Len(more) : more[i] # "ff"
        <5>1. /\ more \in Seq(Bytes) /\ Len(more) = Len(j.line) + 1
              /\ \A i \in 1..(Len(j.line) + 1) :
                   more[i] = IF i = Len(j.line) + 1 THEN byte ELSE j.line[i]
          BY <1>1, AppendProperties
        <5>2. \A i \in 1..(Len(j.line) + 1) : i # Len(j.line) + 1 => i \in 1..Len(j.line)
          BY <1>1
        <5>3. \A i \in 1..Len(j.line) : j.line[i] # "ff"
          BY <3>2, Around DEF MayRead, LineEnds
        <5> HIDE DEF more
        <5> QED BY <3>1, <5>1, <5>2, <5>3
      <4>4. Replay(more).out \in Seq(Tokens) /\ Plain(Replay(more).out)
        BY <4>3, ReplayPlain
      <4> HIDE DEF more
      <4> QED BY <1>3, <2>2, <3>1, <4>1, <4>2, <4>4, PlainNone DEF Parts, Names, Ended
    <3>3. CASE NameRead(j, text)
      <4>1. OnByte(j, byte) = FilenameByte(j, byte)
        BY <1>2, <2>2, <3>3 DEF OnByte, NameRead
      <4>2. FilenameByte(j, byte).out = <<>>
            \/ FilenameByte(j, byte).out = <<Token("overflow", <<>>)>>
        BY ParsedIs DEF FilenameByte
      <4>3. Plain(<<Token("overflow", <<>>)>>)
        BY DEF Plain, Token
      <4>4. Token("overflow", <<>>) \in Tokens
        <5>1. <<>> \in Seq(Bytes)
          OBVIOUS
        <5> QED BY <5>1 DEF Token, Tokens
      <4>5. <<Token("overflow", <<>>)>> \in Seq(Tokens)
        <5> HIDE DEF Tokens
        <5> QED BY <4>4
      <4> QED BY <1>3, <2>2, <3>1, <4>1, <4>2, <4>3, <4>5, PlainNone DEF Parts, Names, Ended
    <3> QED BY <1>5, <3>2, <3>3
  <2> QED BY <2>1, <2>2
<1> QED BY <1>1, <1>4, <1>5

LEMMA FinishParts ==
  ASSUME NEW text \in Seq(Bytes), NEW j, Reads(j, text)
  PROVE  Parts(JobFinish(j).out, JobFinish(j).out, j, text, "finish")
<1>1. j \in Jobs /\ (BodyRead(j, text) \/ MayRead(j, text) \/ NameRead(j, text))
  BY DEF Reads
<1>2. "finish" \in LineEnds /\ "finish" # "ff"
  BY DEF LineEnds
<1>3. CASE BodyRead(j, text)
  <2>1. JobFinish(j).out = <<>> /\ ~NameRead(j, text)
    BY <1>3, ParsedIs DEF JobFinish, BodyRead, NameRead
  <2>2. <<>> \in Seq(Tokens)
    OBVIOUS
  <2> QED BY <1>2, <2>1, <2>2, PlainNone DEF Parts, Names, Ended
<1>4. CASE MayRead(j, text) \/ NameRead(j, text)
  <2>1. JobFinish(j) = CloseFirstLine(j, FALSE)
    BY <1>4 DEF JobFinish, MayRead, NameRead
  <2> DEFINE lead == JobFinish(j).out
  <2>2. /\ lead \in Seq(Tokens)
        /\ NameRead(j, text) => lead = StoreFilename(j.line)
        /\ ~NameRead(j, text) => Plain(lead)
    BY <1>1, <1>4, <2>1, CloseParts
  <2> HIDE DEF lead
  <2>3. Parts(lead, lead, j, text, "finish")
    BY <1>2, <2>2 DEF Parts, Names, Ended
  <2> QED BY <2>3 DEF lead
<1> QED BY <1>1, <1>3, <1>4

LEMMA PartsLead ==
  ASSUME NEW tokens, NEW lead, NEW text \in Seq(Bytes), NEW byte, NEW j \in Jobs,
         Parts(tokens, lead, j, text, byte)
  PROVE  Leading(lead)
<1>1. CASE Names(j, text, byte)
  <2> DEFINE name == Trim(SubSeq(j.line, Len(HeaderPrefix) + 1, Len(j.line)))
  <2>1. lead = <<Token("overflow", <<>>)>> \/ lead = <<Token("filename", name)>>
    BY <1>1 DEF Parts, StoreFilename
  <2> HIDE DEF name
  <2> QED BY <2>1 DEF Leading, Token
<1>2. CASE ~Names(j, text, byte)
  BY <1>2 DEF Parts, Plain, Leading
<1> QED BY <1>1, <1>2

LEMMA EndedEnds ==
  ASSUME NEW lead \in Seq(Tokens), Leading(lead), NEW byte
  PROVE  Ends(Ended(lead, byte)) <=> byte = "ff"
<1>1. CASE byte = "ff"
  <2> DEFINE all == Append(lead, Token("formfeed", <<>>))
  <2>1. Token("formfeed", <<>>) \in Tokens /\ Token("formfeed", <<>>).op = "formfeed"
    <3>1. <<>> \in Seq(Bytes)
      OBVIOUS
    <3> QED BY <3>1 DEF Token, Tokens
  <2>2. Len(all) = Len(lead) + 1 /\ all[Len(lead) + 1] = Token("formfeed", <<>>)
        /\ all \in Seq(Tokens) /\ Len(lead) \in Nat
    <3> HIDE DEF Tokens
    <3> QED BY <2>1, AppendProperties
  <2> HIDE DEF all
  <2>3. DOMAIN all = 1..Len(all)
    BY <2>2, LenProperties
  <2>4. Len(lead) + 1 \in DOMAIN all
    BY <2>2, <2>3
  <2>5. Ends(all)
    BY <2>1, <2>2, <2>4 DEF Ends
  <2> QED BY <1>1, <2>5 DEF all, Ended
<1>2. CASE byte # "ff"
  BY <1>2 DEF Ended, Ends, Leading
<1> QED BY <1>1, <1>2

\* A byte says that the document is over if, and only if, it is a form feed.
LEMMA ByteEnds ==
  ASSUME NEW text \in Seq(Bytes), NEW byte \in Bytes, byte # "finish",
         NEW j, Reads(j, text)
  PROVE  Ends(OnByte(j, byte).out) <=> byte = "ff"
<1>1. PICK lead : Parts(OnByte(j, byte).out, lead, j, text, byte)
  BY ByteParts
<1>2. lead \in Seq(Tokens) /\ OnByte(j, byte).out = Ended(lead, byte)
  BY <1>1 DEF Parts
<1>3. Leading(lead)
  BY <1>1, PartsLead DEF Reads
<1> QED BY <1>2, <1>3, EndedEnds

-----------------------------------------------------------------------------
(* What a stretch of the running command does to the parser                *)

\* Nothing, or it is the end of the open document: form_feed or finish resets.
Quiet ==
  /\ job' = job /\ call' = call /\ (ff' = "no" <=> ff = "no")
  /\ state' \in {"idle", "done"} <=> state \in {"idle", "done"}
Over ==
  /\ ff # "no" \/ (call = "finish" /\ todo = <<>>)
  /\ job' = NewJob /\ call' \in {call, "none"} /\ state' \in {"idle", "done"}

LEMMA Motionless == FlowInv /\ Running /\ ~(PageDone \/ (pc = "drain" /\ pc' = "ready"))
                      => job' = job /\ call' = call /\ todo' = todo
  <1>1. CASE pc = "drain" /\ pc' = "ready"
    BY <1>1
  <1> QED BY <1>1 DEF Running

LEMMA RunningSubmits ==
  ASSUME FlowInv, Running, StrikeRowA \/ QueueRowB
  PROVE  FlowInv' /\ (state' # "fault" => state # "fault" /\ Quiet)
<1>1. job' = job /\ call' = call /\ todo' = todo
  BY Motionless DEF PageDone, StrikeRowA, QueueRowB
<1>2. CASE StrikeRowA
  BY <1>1, <1>2 DEF StrikeRowA, ctl, FlowInv, JobStates, Quiet, Callbacks, Travels, Submits
<1>3. CASE QueueRowB
  <2>1. CASE Return /\ UNCHANGED ctl
    BY <1>1, <1>3, <2>1
    DEF QueueRowB, Return, NoRegs, Travelling, Locals, ctl, FlowInv, JobStates, Quiet, Callbacks,
        Travels, Submits
  <2>2. CASE EnterFault("overflow") /\ Return
    BY <1>1, <2>2
    DEF EnterFault, Return, NoRegs, Travelling, Locals, FlowInv, JobStates, Callbacks, Travels, Submits
  <2>3. CASE /\ pc' = "travel" /\ regs' = Travelling(x + CellPitch, "cell")
             /\ UNCHANGED <<ctl, ff, feeds>> /\ state # "fault"
    BY <1>1, <1>3, <2>3
    DEF QueueRowB, Travelling, Locals, ctl, FlowInv, JobStates, Quiet, Callbacks, Travels, Submits
  <2> QED BY <1>3, <2>1, <2>2, <2>3 DEF QueueRowB
<1> QED BY <1>2, <1>3

LEMMA RunningTravels ==
  ASSUME FlowInv, Running, TakeDue \/ StrikeRowB \/ AfterRowB \/ CoverRest \/ ReachTarget
  PROVE  FlowInv' /\ (state' # "fault" => state # "fault" /\ Quiet)
<1>1. job' = job /\ call' = call /\ todo' = todo
  BY Motionless DEF PageDone, TakeDue, StrikeRowB, AfterRowB, CoverRest, ReachTarget
<1>2. ASSUME Return, state' = state, pc \in Travels,
             state = "fault"
      PROVE  FlowInv' /\ (state' # "fault" => state # "fault" /\ Quiet)
  BY <1>1, <1>2 DEF Return, NoRegs, Travelling, Locals, FlowInv, JobStates, Callbacks, Travels, Submits
<1>3. CASE TakeDue
  <2>1. regs'.then = regs.then
    BY <1>3 DEF TakeDue, Locals
  <2> QED BY <1>1, <1>3, <2>1 DEF TakeDue, ctl, FlowInv, JobStates, Quiet, Callbacks, Travels, Submits
<1>4. CASE StrikeRowB
  BY <1>1, <1>2, <1>4 DEF StrikeRowB, ctl, FlowInv, JobStates, Quiet, Callbacks, Travels, Submits
<1>5. CASE AfterRowB
  BY <1>1, <1>2, <1>5 DEF AfterRowB, ctl, FlowInv, JobStates, Quiet, Callbacks, Travels, Submits
<1>6. ASSUME Travelled, pc \in {"travel", "toTarget"}, UNCHANGED ctl
      PROVE  FlowInv' /\ (state' # "fault" => state # "fault" /\ Quiet)
  <2>1. CASE Return /\ regs.then = "newline" /\ state = "fault"
    BY <1>2, <1>6, <2>1 DEF ctl, Travels
  <2>2. CASE Return /\ regs.then = "cell"
    BY <1>1, <1>6, <2>2
    DEF Return, NoRegs, Travelling, Locals, ctl, FlowInv, JobStates, Quiet, Callbacks, Travels, Submits
  <2>3. CASE ~(regs.then = "cell" \/ (regs.then = "newline" /\ state = "fault"))
    BY <1>1, <1>6, <2>3 DEF Travelled, ctl, FlowInv, JobStates, Quiet, Callbacks, Travels, Submits
  <2> QED BY <1>6, <2>1, <2>2, <2>3 DEF Travelled
<1>7. CASE CoverRest
  <2>1. CASE Travelled
    BY <1>6, <1>7, <2>1 DEF CoverRest
  <2>2. CASE ~Travelled
    BY <1>1, <1>7, <2>2 DEF CoverRest, ctl, FlowInv, JobStates, Quiet, Callbacks, Travels, Submits
  <2> QED BY <2>1, <2>2
<1>8. CASE ReachTarget
  BY <1>6, <1>8 DEF ReachTarget
<1> QED BY <1>3, <1>4, <1>5, <1>7, <1>8

LEMMA RunningLines ==
  ASSUME FlowInv, Running, GoHome \/ AtHome \/ FeedLine \/ LineDone
  PROVE  FlowInv' /\ (state' # "fault" => state # "fault" /\ Quiet)
<1>1. job' = job /\ call' = call /\ todo' = todo
  BY Motionless DEF PageDone, GoHome, AtHome, FeedLine, LineDone
<1> USE DEF FlowInv, JobStates, Quiet, Callbacks, Travels, Submits
<1>2. CASE GoHome
  BY <1>1, <1>2 DEF GoHome, ctl
<1>3. CASE AtHome
  BY <1>1, <1>3 DEF AtHome, Return, NoRegs, Travelling, Locals, ctl
<1>4. CASE FeedLine
  BY <1>1, <1>4 DEF FeedLine, ctl
<1>5. CASE LineDone
  <2>1. CASE Return
    BY <1>1, <1>5, <2>1 DEF LineDone, Return, NoRegs, Travelling, Locals
  <2>2. CASE ~Return
    BY <1>1, <1>5, <2>2 DEF LineDone
  <2> QED BY <2>1, <2>2
<1> QED BY <1>2, <1>3, <1>4, <1>5

LEMMA RunningPages ==
  ASSUME FlowInv, Running, MeasurePage \/ EjectLine \/ PageDone \/ Drain
  PROVE  FlowInv' /\ (state' # "fault" => state # "fault" /\ (Quiet \/ Over))
<1> USE DEF FlowInv, JobStates, Callbacks, Travels, Submits
<1>1. CASE MeasurePage
  <2>1. job' = job /\ call' = call /\ todo' = todo
    BY <1>1, Motionless DEF PageDone, MeasurePage
  <2> QED BY <1>1, <2>1 DEF MeasurePage, ctl, Quiet
<1>2. CASE EjectLine
  <2>1. job' = job /\ call' = call /\ todo' = todo
    BY <1>2, Motionless DEF PageDone, EjectLine
  <2>2. CASE Refuse
    BY <2>1, <2>2 DEF Refuse, EnterFault, Return, NoRegs, Travelling, Locals
  <2>3. CASE ~Refuse
    <3>1. regs'.then = "newline"
      BY <1>2, <2>3 DEF EjectLine, StartNewline, Travelling, Locals
    <3> QED BY <1>2, <2>1, <2>3, <3>1 DEF EjectLine, StartNewline, ctl, Quiet
  <2> QED BY <2>2, <2>3
<1>3. CASE PageDone
  <2>1. job' = NewJob /\ call' = call /\ todo' = todo
    BY <1>3 DEF Running, PageDone
  <2> QED BY <1>3, <2>1 DEF PageDone, Return, NoRegs, Travelling, Locals, Over
<1>4. CASE Drain
  <2>1. call = "finish" /\ todo' = todo /\ ff = "no"
    BY <1>4 DEF Running, Drain
  <2>2. CASE pc' = "travel" /\ regs' = Travelling(Head(pending).due, "drain")
             /\ UNCHANGED <<ctl, ff, feeds>> /\ state # "fault"
    <3>1. job' = job /\ call' = call
      BY <1>4, <2>2, Motionless DEF PageDone, Drain
    <3> QED BY <1>4, <2>1, <2>2, <3>1 DEF Drain, Travelling, Locals, ctl, Quiet
  <2>3. CASE Return /\ state' = IF state \in {"receiving", "printing", "queued"}
                                  THEN "done" ELSE state
    <3>1. job' = NewJob /\ call' = "none"
      BY <1>4, <2>3 DEF Running, Drain, Return
    <3> QED BY <1>4, <2>1, <2>3, <3>1 DEF Drain, Return, NoRegs, Travelling, Locals, Over
  <2> QED BY <1>4, <2>2, <2>3 DEF Drain
<1> QED BY <1>1, <1>2, <1>3, <1>4

LEMMA RunningIs ==
  ASSUME FlowInv, Running
  PROVE  FlowInv' /\ (state' # "fault" => state # "fault" /\ (Quiet \/ Over))
<1>1. Step
  BY DEF Running
<1> QED BY <1>1, RunningSubmits, RunningTravels, RunningLines, RunningPages DEF Step

\* The running command keeps what the parser has read.
LEMMA RunningText ==
  ASSUME FlowInv, TextInv, Running, Quiet \/ Over
  PROVE  TextInv'
<1>1. UNCHANGED <<todo, sent, out>>
  BY DEF Running
<1>2. Ends(todo)' <=> Ends(todo)
  BY <1>1 DEF Ends
<1>3. Overflows(todo)' <=> Overflows(todo)
  BY <1>1 DEF Overflows
<1>4. CASE Quiet
  <2>1. Ending' <=> Ending
    BY <1>2, <1>4 DEF Ending, Quiet
  <2>2. Reads(job, sent)' <=> Reads(job, sent)
    BY <1>1, <1>4 DEF Quiet
  <2>3. Fresh(sent)' <=> Fresh(sent)
    BY <1>1
  <2> QED BY <1>1, <1>3, <1>4, <2>1, <2>2, <2>3 DEF TextInv, Quiet
<1>5. CASE Over
  <2>1. Fresh(sent)
    BY <1>5 DEF TextInv, Ending, Over
  <2>2. Reads(NewJob, sent)
    BY <2>1, FreshReads DEF TextInv
  <2> QED BY <1>1, <1>5, <2>1, <2>2 DEF TextInv, Over
<1> QED BY <1>4, <1>5

-----------------------------------------------------------------------------
(* The calls                                                               *)

\* A byte is taken by a parser that has read what was sent.
LEMMA TakeText ==
  ASSUME NEW before, NEW byte \in Alphabet, Take(before, byte), Reads(before, sent),
         sent \in Seq(Bytes), out \in Seq(Tokens), out = Meant(sent), out' = out,
         call' = "feed", ff' = "no",
         state' \notin {"idle", "done"}
  PROVE  TextInv'
<1> DEFINE p == OnByte(before, byte)
           more == Append(sent, byte)
<1>1. byte \in Bytes /\ byte # "finish"
  BY FinishAssumption DEF Bytes
<1>2. sent' = more /\ job' = p.job /\ todo' = p.out
  BY DEF Take
<1>3. more \in Seq(Bytes) /\ Len(more) = Len(sent) + 1 /\ more[Len(sent) + 1] = byte
  BY <1>1, MoreText
<1>4. Tells(p, sent, byte)
  BY <1>1, ByteTells
<1>5. Ends(p.out) <=> byte = "ff"
  BY <1>1, ByteEnds
<1> HIDE DEF p, more
<1>6. /\ p.out \in Seq(Tokens) /\ Meant(more) = Meant(sent) \o p.out
      /\ byte \notin Stops /\ ~Overflows(p.out) => Reads(p.job, more)
  BY <1>4 DEF Tells, more
<1>7. more # <<>> /\ more[Len(more)] = byte
  <2>1. Len(sent) \in Nat
    OBVIOUS
  <2>2. Len(more) # 0
    BY <1>3, <2>1
  <2> QED BY <1>3, <2>2
<1>8. byte = "ff" <=> byte \in Stops
  BY <1>1 DEF Stops
<1>9. Ending' <=> byte = "ff"
  BY <1>2, <1>5 DEF Ending
<1>10. byte = "ff" => Fresh(more)
  BY <1>7, <1>8 DEF Fresh
<1> QED BY <1>1, <1>2, <1>3, <1>6, <1>7, <1>8, <1>9, <1>10 DEF TextInv

LEMMA NothingLeft ==
  ASSUME TextInv, todo = <<>> PROVE out = Meant(sent) /\ ~Ends(todo) /\ ~Overflows(todo)
<1>1. out \o <<>> = out
  BY ConcatEmptySeq DEF TextInv
<1> QED BY <1>1 DEF TextInv, Ends, Overflows

LEMMA FeedCallKeeps ==
  ASSUME FeedInv, NEW byte \in Alphabet, FeedCall(byte)
  PROVE  FeedInv'
<1>1. /\ state # "fault" /\ pc = "ready" /\ todo = <<>> /\ call = "none"
      /\ call' = "feed" /\ state' = Begun /\ Take(Parser, byte) /\ out' = out
      /\ pc' = pc /\ regs' = regs /\ ff' = ff
  BY DEF FeedCall, Between, Idle, flow
<1>2. FlowInv /\ TextInv /\ ff = "no"
  BY <1>1 DEF FeedInv, FlowInv
<1>3. state' # "fault" /\ state' \notin {"idle", "done"}
  BY <1>1 DEF Begun
<1>4. FlowInv'
  BY <1>1, <1>2, <1>3 DEF Begun, FlowInv, JobStates, Travels, Submits
<1>5. Reads(Parser, sent)
  <2>1. CASE state \in {"idle", "done"}
    BY <1>2, <2>1, FreshReads DEF TextInv, Parser
  <2>2. CASE state \notin {"idle", "done"}
    BY <1>1, <1>2, <2>2, NothingLeft DEF TextInv, Ending, Parser
  <2> QED BY <2>1, <2>2
<1>6. TextInv'
  <2>1. sent \in Seq(Bytes) /\ out \in Seq(Tokens) /\ out = Meant(sent)
    BY <1>1, <1>2, NothingLeft DEF TextInv
  <2> QED BY <1>1, <1>2, <1>3, <1>5, <2>1, TakeText
<1> QED BY <1>4, <1>6 DEF FeedInv

LEMMA NextByteKeeps ==
  ASSUME FFEndsCall, FeedInv, NEW byte \in Alphabet, NextByte(byte)
  PROVE  FeedInv'
<1>1. /\ state # "fault" /\ pc = "ready" /\ todo = <<>> /\ call = "feed"
      /\ call' = "feed" /\ state' = state /\ Take(job, byte) /\ out' = out
      /\ pc' = pc /\ regs' = regs /\ ff' = ff
      /\ sent # <<>> => sent[Len(sent)] # "ff"
  BY DEF NextByte, Idle, vars
<1>2. FlowInv /\ TextInv /\ ff = "no"
  BY <1>1 DEF FeedInv, FlowInv
<1>3. ~Fresh(sent)
  BY <1>1, <1>2 DEF TextInv, Fresh, Stops
<1>4. state' \notin {"idle", "done"} /\ Reads(job, sent)
  BY <1>1, <1>2, <1>3, NothingLeft DEF TextInv
<1>5. FlowInv'
  BY <1>1, <1>2 DEF FlowInv, JobStates, Travels, Submits
<1>6. TextInv'
  <2>1. sent \in Seq(Bytes) /\ out \in Seq(Tokens) /\ out = Meant(sent)
    BY <1>1, <1>2, NothingLeft DEF TextInv
  <2> QED BY <1>1, <1>2, <1>4, <2>1, TakeText
<1> QED BY <1>5, <1>6 DEF FeedInv

LEMMA FinishCallKeeps ==
  ASSUME FeedInv, FinishCall PROVE FeedInv'
<1> DEFINE p == JobFinish(job)
           more == Append(sent, "finish")
<1>1. /\ state # "fault" /\ pc = "ready" /\ todo = <<>> /\ call = "none"
      /\ call' = "finish" /\ state' = state /\ out' = out
      /\ pc' = pc /\ regs' = regs /\ ff' = ff
      /\ sent' = more /\ job' = p.job /\ todo' = p.out
  BY DEF FinishCall, Between, Idle, vars
<1>2. FlowInv /\ TextInv /\ ff = "no"
  BY <1>1 DEF FeedInv, FlowInv
<1>3. sent \in Seq(Bytes) /\ out \in Seq(Tokens) /\ out = Meant(sent)
  BY <1>1, <1>2, NothingLeft DEF TextInv
<1>4. Reads(job, sent)
  BY <1>1, <1>2, NothingLeft DEF TextInv, Ending
<1>5. p.out \in Seq(Tokens) /\ Meant(more) = Meant(sent) \o p.out
  BY <1>3, <1>4, FinishTells
<1>6. more \in Seq(Bytes) /\ Len(more) = Len(sent) + 1 /\ more[Len(sent) + 1] = "finish"
  <2>1. "finish" \in Bytes
    BY DEF Bytes
  <2> QED BY <1>3, <2>1, MoreText
<1> HIDE DEF p, more
<1>7. Fresh(more)
  BY <1>6 DEF Fresh, Stops
<1>8. FlowInv'
  BY <1>1, <1>2 DEF FlowInv, JobStates, Travels, Submits
<1>9. Ending'
  BY <1>1 DEF Ending
<1>10. TextInv'
  BY <1>1, <1>3, <1>5, <1>6, <1>7, <1>9 DEF TextInv
<1> QED BY <1>8, <1>10 DEF FeedInv

LEMMA CallsKeep ==
  ASSUME FeedInv, FeedReturns \/ StartDrain PROVE FeedInv'
<1>1. UNCHANGED <<job, todo, sent, out, state, ff, regs>> /\ todo = <<>> /\ pc = "ready"
      /\ ff = "no"
  BY DEF FeedReturns, StartDrain, Idle, vars, parser, ctl, FeedInv, FlowInv
<1>2. Ends(todo)' <=> Ends(todo)
  BY <1>1 DEF Ends
<1>3. CASE FeedReturns
  <2>1. call = "feed" /\ call' = "none" /\ pc' = pc
    BY <1>3 DEF FeedReturns, vars
  <2>2. FlowInv'
    BY <1>1, <2>1 DEF FeedInv, FlowInv, JobStates, Travels, Submits
  <2>3. Ending' <=> Ending
    BY <1>1, <1>2, <2>1 DEF Ending
  <2>4. ASSUME TextInv PROVE TextInv'
    BY <1>1, <2>1, <2>3, <2>4 DEF TextInv
  <2> QED BY <1>1, <2>2, <2>4 DEF FeedInv
<1>4. CASE StartDrain
  <2>1. call = "finish" /\ call' = call /\ pc' = "drain"
    BY <1>4 DEF StartDrain, parser
  <2>2. FlowInv'
    BY <1>1, <2>1 DEF FeedInv, FlowInv, JobStates, Travels, Submits, Callbacks
  <2>3. Ending' <=> Ending
    BY <1>1, <1>2, <2>1 DEF Ending
  <2>4. ASSUME TextInv PROVE TextInv'
    BY <1>1, <2>1, <2>3, <2>4 DEF TextInv
  <2> QED BY <1>1, <2>2, <2>4 DEF FeedInv
<1> QED BY <1>3, <1>4

-----------------------------------------------------------------------------
(* The callbacks                                                           *)

LEMMA TokenTaken ==
  ASSUME NEW done \in Seq(Tokens), NEW left \in Seq(Tokens), left # <<>>
  PROVE  /\ Head(left) \in Tokens /\ Tail(left) \in Seq(Tokens)
         /\ Append(done, Head(left)) \in Seq(Tokens)
         /\ Append(done, Head(left)) \o Tail(left) = done \o left
         /\ Ends(left) <=> Head(left).op = "formfeed" \/ Ends(Tail(left))
         /\ Overflows(left) => Head(left).op = "overflow" \/ Overflows(Tail(left))
<1> HIDE DEF Tokens
<1> DEFINE t == Head(left)
           rest == Tail(left)
<1>1. t \in Tokens /\ rest \in Seq(Tokens) /\ Len(left) \in Nat /\ Len(left) > 0
      /\ Len(rest) = Len(left) - 1
  OBVIOUS
<1>2. left = <<t>> \o rest
  BY <1>1
<1>3. <<t>> \in Seq(Tokens)
  BY <1>1
<1>4. Append(done, t) = done \o <<t>> /\ Append(done, t) \in Seq(Tokens)
  BY <1>1
<1>5. (done \o <<t>>) \o rest = done \o left
  <2>1. \A u, v, w \in Seq(Tokens) : (u \o v) \o w = u \o (v \o w)
    BY ConcatAssociative
  <2> HIDE DEF t, rest
  <2> QED BY <1>1, <1>2, <1>3, <2>1
<1> HIDE DEF t, rest
<1>6. Ends(left) <=> Ends(<<t>>) \/ Ends(rest)
  BY <1>1, <1>2, <1>3, EndsConcat
<1>7. Ends(<<t>>) <=> t.op = "formfeed"
  BY DEF Ends
<1>8. ASSUME Overflows(left), t.op # "overflow" PROVE Overflows(rest)
  <2>1. /\ <<t>> \o rest \in Seq(Tokens) /\ Len(<<t>> \o rest) = 1 + Len(rest)
        /\ \A k \in 1..(1 + Len(rest)) :
             (<<t>> \o rest)[k] = IF k <= 1 THEN <<t>>[k] ELSE rest[k - 1]
    BY <1>1, <1>3, ConcatProperties
  <2>2. DOMAIN left = 1..(1 + Len(rest)) /\ DOMAIN rest = 1..Len(rest)
        /\ Len(rest) \in Nat
    BY <1>1, <1>2, <2>1, LenProperties
  <2>3. PICK i \in 1..(1 + Len(rest)) : left[i].op = "overflow"
    BY <1>8, <2>2 DEF Overflows
  <2>4. i # 1
    <3>1. CASE i = 1
      <4>1. 1 \in 1..(1 + Len(rest)) /\ left[1] = <<t>>[1] /\ <<t>>[1] = t
        BY <1>2, <2>1, <2>3, <3>1
      <4> QED BY <1>8, <2>3, <3>1, <4>1
    <3> QED BY <3>1
  <2>5. i - 1 \in 1..Len(rest) /\ ~(i <= 1)
    BY <2>2, <2>4
  <2>6. left[i] = rest[i - 1]
    BY <1>2, <2>1, <2>5
  <2> QED BY <2>2, <2>3, <2>5, <2>6 DEF Overflows
<1> QED BY <1>1, <1>4, <1>5, <1>6, <1>7, <1>8 DEF t, rest

\* The commands a token may begin.
LEMMA Refused ==
  ASSUME FlowInv, Refuse, call' = call, pc = "ready", call # "none" \/ todo' = <<>>
  PROVE  FlowInv' /\ state' = "fault"
BY DEF FlowInv, JobStates, Refuse, EnterFault, Return, NoRegs, Travelling, Locals, Travels, Submits

LEMMA TokenFlow ==
  ASSUME FeedInv, OnToken
  PROVE  FlowInv' /\ (state' # "fault" =>
           /\ state # "fault" /\ call' = call /\ sent' = sent
           /\ \/ /\ Head(todo).op # "formfeed" /\ Head(todo).op # "overflow"
                 /\ job' = job /\ ff' = "no" /\ ff = "no"
                 /\ state' \in {"idle", "done"} => state \in {"idle", "done"}
              \/ /\ Head(todo).op = "formfeed"
                 /\ \/ ff' # "no"
                    \/ job' = NewJob /\ ff' = "no")
<1>1. /\ pc = "ready" /\ todo # <<>> /\ state # "fault" /\ call' = call /\ sent' = sent
      /\ FlowInv /\ ff = "no" /\ call # "none"
  BY DEF OnToken, FeedInv, FlowInv
<1> DEFINE t == Head(todo)
<1>2. ASSUME Refuse PROVE FlowInv' /\ state' = "fault"
  BY <1>1, <1>2, Refused
<1>3. ASSUME t.op = "cell", OnCell(t.arg)
      PROVE  FlowInv' /\ (state' # "fault" => job' = job /\ ff' = "no" /\ state' \notin {"idle", "done"})
  <2>1. CASE Refuse
    BY <1>2, <2>1
  <2>2. CASE Unpowered
    BY <1>1, <1>3, <2>2 DEF OnCell, Unpowered, Begun, flow, FlowInv, JobStates, Travels, Submits
  <2>3. CASE ~Refuse /\ ~Unpowered
    <3>1. PICK c : SubmitCell(c)
      BY <1>3, <2>3 DEF OnCell
    <3>2. regs'.then = "cell"
      BY <2>3, <3>1 DEF SubmitCell, Locals
    <3> QED BY <1>1, <1>3, <2>3, <3>1, <3>2
            DEF OnCell, SubmitCell, FlowInv, JobStates, Travels, Submits
  <2> QED BY <2>1, <2>2, <2>3
<1>4. ASSUME t.op = "newline", OnNewline
      PROVE  FlowInv' /\ (state' # "fault" => job' = job /\ ff' = "no" /\ state' \notin {"idle", "done"})
  <2>1. CASE Refuse
    BY <1>2, <2>1
  <2>2. CASE Unpowered
    BY <1>1, <1>4, <2>2 DEF OnNewline, Unpowered, Begun, flow, FlowInv, JobStates, Travels, Submits
  <2>3. CASE ~Refuse /\ ~Unpowered
    <3>1. SubmitNewline
      BY <1>4, <2>3 DEF OnNewline
    <3>2. regs'.then = "newline" /\ pc' = "travel"
      BY <2>3, <3>1 DEF SubmitNewline, StartNewline, Travelling, Locals
    <3> QED BY <1>1, <1>4, <2>3, <3>1, <3>2
            DEF OnNewline, SubmitNewline, Begun, FlowInv, JobStates, Travels, Submits
  <2> QED BY <2>1, <2>2, <2>3
<1>5. ASSUME t.op = "formfeed", OnFormFeed
      PROVE  FlowInv' /\ (state' # "fault" => ff' # "no" \/ (job' = NewJob /\ ff' = "no"))
  <2>1. CASE Refuse
    BY <1>2, <2>1
  <2>2. CASE SubmitFormFeed /\ ~Refuse
    <3>1. /\ ff' = "close" /\ state' = Begun
          /\ \/ pc' = "eject" /\ regs' = regs
             \/ pc' = "travel" /\ regs'.then = "newline"
      BY <2>2 DEF SubmitFormFeed, StartNewline, Travelling, Locals
    <3> QED BY <1>1, <3>1 DEF Begun, FlowInv, JobStates, Travels, Submits
  <2>3. CASE state' = "done" /\ job' = NewJob /\ UNCHANGED flow
    BY <1>1, <2>3 DEF flow, FlowInv, JobStates, Travels, Submits
  <2> QED BY <1>5, <2>1, <2>2, <2>3 DEF OnFormFeed
<1>6. ASSUME t.op = "filename", OnFilename(t.arg)
      PROVE  FlowInv' /\ (state' # "fault" => job' = job /\ ff' = "no" /\ state' = state)
  BY <1>1, <1>6 DEF OnFilename, vars, FlowInv, JobStates, Travels, Submits
<1>7. ASSUME t.op = "overflow", OnOverflow
      PROVE  FlowInv' /\ state' = "fault"
  BY <1>1, <1>7 DEF OnOverflow, EnterFault, flow, FlowInv, JobStates, Travels, Submits
<1>8. \/ t.op = "cell" /\ OnCell(t.arg)
      \/ t.op = "newline" /\ OnNewline
      \/ t.op = "formfeed" /\ OnFormFeed
      \/ t.op = "filename" /\ OnFilename(t.arg)
      \/ t.op = "overflow" /\ OnOverflow
  BY DEF OnToken
<1> HIDE DEF t
<1>9. CASE t.op = "cell" /\ OnCell(t.arg)
  BY <1>1, <1>3, <1>9 DEF t
<1>10. CASE t.op = "newline" /\ OnNewline
  BY <1>1, <1>4, <1>10 DEF t
<1>11. CASE t.op = "formfeed" /\ OnFormFeed
  BY <1>1, <1>5, <1>11 DEF t
<1>12. CASE t.op = "filename" /\ OnFilename(t.arg)
  BY <1>1, <1>6, <1>12 DEF t
<1>13. CASE t.op = "overflow" /\ OnOverflow
  BY <1>1, <1>7, <1>13 DEF t
<1> QED BY <1>8, <1>9, <1>10, <1>11, <1>12, <1>13

LEMMA OnTokenKeeps ==
  ASSUME FeedInv, OnToken PROVE FeedInv'
<1> DEFINE t == Head(todo)
           rest == Tail(todo)
<1>1. ASSUME state' # "fault" PROVE TextInv'
  <2>1. state # "fault" /\ call' = call /\ sent' = sent /\ todo # <<>>
        /\ out' = Append(out, t) /\ todo' = rest
    BY <1>1, TokenFlow DEF OnToken
  <2>2. TextInv
    BY <2>1 DEF FeedInv
  <2>3. /\ rest \in Seq(Tokens) /\ Append(out, t) \in Seq(Tokens)
        /\ Append(out, t) \o rest = out \o todo
        /\ Ends(todo) <=> t.op = "formfeed" \/ Ends(rest)
        /\ Overflows(todo) => t.op = "overflow" \/ Overflows(rest)
    BY <2>1, <2>2, TokenTaken DEF TextInv
  <2>4. CASE /\ t.op # "formfeed" /\ t.op # "overflow"
             /\ job' = job /\ ff' = "no" /\ ff = "no"
             /\ state' \in {"idle", "done"} => state \in {"idle", "done"}
    <3> HIDE DEF t, rest
    <3>1. Ending' <=> Ending
      BY <2>1, <2>3, <2>4 DEF Ending
    <3> QED BY <2>1, <2>2, <2>3, <2>4, <3>1 DEF TextInv
  <2>5. CASE t.op = "formfeed" /\ (ff' # "no" \/ (job' = NewJob /\ ff' = "no"))
    <3> HIDE DEF t, rest
    <3>1. Fresh(sent)
      BY <2>2, <2>3, <2>5 DEF TextInv, Ending
    <3>2. Reads(NewJob, sent)
      BY <2>2, <3>1, FreshReads DEF TextInv
    <3>3. ff' # "no" => Ending'
      BY DEF Ending
    <3> QED BY <2>1, <2>2, <2>3, <2>5, <3>1, <3>2, <3>3 DEF TextInv
  <2> QED BY <1>1, <2>4, <2>5, TokenFlow
<1> QED BY <1>1, TokenFlow DEF FeedInv

-----------------------------------------------------------------------------
(* Every cut                                                               *)

LEMMA OutsideKeeps ==
  ASSUME FeedInv,
         \/ DropTokens
         \/ \E r \in Reasons : Faulted(r)
         \/ \E b \in BOOLEAN : Cleared(b) \/ Armed(b) \/ Paper(b)
         \/ UNCHANGED fvars
  PROVE  FeedInv'
<1> USE DEF FlowInv, JobStates, Travels, Submits
<1>1. CASE DropTokens
  BY <1>1 DEF DropTokens, vars, FeedInv
<1>2. ASSUME NEW r \in Reasons, Faulted(r) PROVE FeedInv'
  BY <1>2 DEF Faulted, Fault, EnterFault, flow, parser, FeedInv
<1>3. ASSUME NEW b \in BOOLEAN, Cleared(b) PROVE FeedInv'
  <2>1. /\ pc = "ready" /\ todo = <<>> /\ call = "none" /\ ff = "no"
        /\ job' = NewJob /\ sent' = <<>> /\ out' = <<>> /\ UNCHANGED <<flow, todo, call>>
        /\ state' = "idle"
    BY <1>3 DEF Cleared, Between, Idle, LeaveFault, FeedInv
  <2>2. <<>> \in Seq(Bytes) /\ <<>> \in Seq(Tokens)
    OBVIOUS
  <2>3. Fresh(<<>>)
    BY DEF Fresh
  <2>4. Reads(NewJob, <<>>)
    BY <2>2, <2>3, FreshReads
  <2>5. FlowInv'
    BY <2>1 DEF flow, FeedInv
  <2>6. out' \o todo' = Meant(sent')
    BY <2>1, MeantNothing
  <2>7. call' # "feed"
    BY <2>1
  <2>8. TextInv'
    BY <2>1, <2>2, <2>3, <2>4, <2>6, <2>7 DEF TextInv
  <2> QED BY <2>5, <2>8 DEF FeedInv
<1>4. ASSUME UNCHANGED <<state, flow, job, todo, call, sent, out>> PROVE FeedInv'
  <2>1. TextInv' <=> TextInv
    BY <1>4 DEF TextInv, Ending, flow
  <2>2. FlowInv' <=> FlowInv
    BY <1>4 DEF flow
  <2> QED BY <1>4, <2>1, <2>2 DEF FeedInv
<1>5. ASSUME NEW b \in BOOLEAN, Armed(b) \/ Paper(b) PROVE FeedInv'
  BY <1>4, <1>5 DEF Armed, Paper, SetArmed, SetPaperPresent, parser, ctl
<1>6. CASE UNCHANGED fvars
  BY <1>4, <1>6 DEF fvars, vars, parser, flow
<1> QED BY <1>1, <1>2, <1>3, <1>5, <1>6

LEMMA FeedStep ==
  ASSUME FFEndsCall, FeedInv, [FeedNext]_fvars PROVE FeedInv'
<1>1. ASSUME Running PROVE FeedInv'
  BY <1>1, RunningIs, RunningText DEF FeedInv
<1> QED
  BY <1>1, FeedCallKeeps, NextByteKeeps, FinishCallKeeps, CallsKeep, OnTokenKeeps,
     OutsideKeeps
  DEF FeedNext

LEMMA FeedBegins == ASSUME FeedInit PROVE FeedInv
<1>1. /\ job = NewJob /\ todo = <<>> /\ call = "none" /\ sent = <<>> /\ out = <<>>
      /\ pc = "ready" /\ ff = "no" /\ state = "idle" /\ regs = NoRegs
  BY DEF FeedInit, Init
<1>2. <<>> \in Seq(Bytes) /\ <<>> \in Seq(Tokens)
  OBVIOUS
<1>3. Fresh(<<>>)
  BY DEF Fresh
<1>4. Reads(NewJob, <<>>)
  BY <1>2, <1>3, FreshReads
<1>5. out \o todo = Meant(sent)
  BY <1>1, MeantNothing
<1>6. TextInv
  BY <1>1, <1>2, <1>3, <1>4, <1>5 DEF TextInv
<1>7. FlowInv
  BY <1>1 DEF FlowInv, JobStates, NoRegs, Travelling, Locals, Travels, Submits
<1> QED BY <1>6, <1>7 DEF FeedInv

\* However a sender cuts its bytes into feed calls, whatever faults and whatever
\* power come between and during them, what was acted upon and what is still to
\* be acted upon are the tokens of the documents sent, as long as no call goes
\* on past a form feed.
THEOREM CutsKeepDocuments ==
  ASSUME FFEndsCall PROVE FeedSpec => []CutsDoNotMatter
<1>1. FeedInit => FeedInv
  BY FeedBegins
<1>2. FeedInv /\ [FeedNext]_fvars => FeedInv'
  BY FeedStep
<1>3. FeedInv => CutsDoNotMatter
  BY DEF FeedInv, TextInv, CutsDoNotMatter
<1> QED BY <1>1, <1>2, <1>3, PTL DEF FeedSpec

-----------------------------------------------------------------------------
(* The name of a document                                                  *)

\* What the grammar calls the document of the last byte.
Named(text) ==
  IF /\ HasHeader(text, DocFirst(text, Len(text)))
     /\ LineEnd(text, DocFirst(text, Len(text))) <= Len(text)
    THEN HeaderTokens(text, DocFirst(text, Len(text)))[1].arg ELSE <<>>

\* What it is called before the next byte: a new document has no name.
NameSoFar(text) == IF Fresh(text) THEN <<>> ELSE Named(text)

\* The name that is left when tokens are acted upon.
Final(name, tokens) ==
  IF tokens # <<>> /\ tokens[1].op = "filename" THEN tokens[1].arg ELSE name

LEMMA SameCurrent ==
  ASSUME NEW text \in Seq(Bytes), ~Fresh(text)
  PROVE  DocFirst(text, Len(text)) = At(text)
<1> DEFINE n == Len(text)
           d == At(text)
<1>1. n \in Nat /\ n + 1 \in 1..(n + 1) /\ n # 0 /\ text[n] \notin Stops
  BY DEF Fresh
<1>2. DocAt(text, n + 1, d)
  BY <1>1, DocFirstAt DEF At
<1>3. n \in d..(n + 1)
  <2> HIDE DEF n, d
  <2>1. d \in 1..(n + 1) /\ (d > 1 => text[d - 1] \in Stops)
    BY <1>2 DEF DocAt
  <2>2. d # n + 1
    <3> SUFFICES ASSUME d = n + 1 PROVE FALSE
      OBVIOUS
    <3>1. d > 1 /\ d - 1 = n
      BY <1>1
    <3> QED BY <1>1, <2>1, <3>1
  <2> QED BY <1>1, <2>1, <2>2
<1> QED BY <1>3, DocSince

\* A form feed after the tokens of a byte.
LEMMA EndedTokens ==
  ASSUME NEW lead \in Seq(Tokens), NEW byte
  PROVE  LET tokens == Ended(lead, byte) IN
         /\ tokens \in Seq(Tokens) /\ DOMAIN tokens = 1..Len(tokens)
         /\ Len(lead) \in Nat /\ DOMAIN lead = 1..Len(lead)
         /\ Len(tokens) = IF byte = "ff" THEN Len(lead) + 1 ELSE Len(lead)
         /\ \A i \in 1..Len(lead) : tokens[i] = lead[i]
         /\ byte = "ff" => tokens[Len(lead) + 1] = Token("formfeed", <<>>)
<1>1. Token("formfeed", <<>>) \in Tokens
  <2>1. <<>> \in Seq(Bytes)
    OBVIOUS
  <2> QED BY <2>1 DEF Token, Tokens
<1> HIDE DEF Tokens
<1>2. Len(lead) \in Nat /\ DOMAIN lead = 1..Len(lead)
  BY LenProperties
<1>3. CASE byte = "ff"
  <2> DEFINE end == Token("formfeed", <<>>)
             all == Append(lead, end)
  <2>1. end \in Tokens
    BY <1>1
  <2> HIDE DEF end
  <2>2. /\ all \in Seq(Tokens) /\ Len(all) = Len(lead) + 1
        /\ \A i \in 1..(Len(lead) + 1) :
             all[i] = IF i = Len(lead) + 1 THEN end ELSE lead[i]
    BY <2>1, AppendProperties
  <2> HIDE DEF all
  <2>3. DOMAIN all = 1..Len(all)
    BY <2>2, LenProperties
  <2>4. /\ Len(lead) + 1 \in 1..(Len(lead) + 1)
        /\ \A i \in 1..Len(lead) : i \in 1..(Len(lead) + 1) /\ i # Len(lead) + 1
    BY <1>2
  <2>5. all[Len(lead) + 1] = end /\ \A i \in 1..Len(lead) : all[i] = lead[i]
    BY <2>2, <2>4
  <2> QED BY <1>2, <1>3, <2>2, <2>3, <2>5 DEF Ended, end, all
<1>4. CASE byte # "ff"
  BY <1>2, <1>4 DEF Ended
<1> QED BY <1>3, <1>4

LEMMA EndedHead ==
  ASSUME NEW lead \in Seq(Tokens), lead # <<>>, NEW byte
  PROVE  LET tokens == Ended(lead, byte) IN 1 \in DOMAIN tokens /\ tokens[1] = lead[1]
<1> DEFINE tokens == Ended(lead, byte)
<1>1. /\ DOMAIN tokens = 1..Len(tokens) /\ Len(lead) \in Nat
      /\ Len(tokens) = IF byte = "ff" THEN Len(lead) + 1 ELSE Len(lead)
      /\ \A i \in 1..Len(lead) : tokens[i] = lead[i]
  BY EndedTokens
<1>2. Len(lead) # 0
  <2> HIDE DEF Tokens
  <2> QED BY EmptySeq
<1> HIDE DEF tokens
<1>3. 1 \in 1..Len(lead) /\ 1 \in 1..Len(tokens)
  BY <1>1, <1>2
<1> QED BY <1>1, <1>3 DEF tokens

\* One byte changes the name only by ending a header, or a document.
LEMMA NamedMore ==
  ASSUME NEW text \in Seq(Bytes), NEW byte \in Bytes, NEW j, Reads(j, text),
         NEW tokens, NEW lead, Parts(tokens, lead, j, text, byte), ~Overflows(tokens)
  PROVE  Named(Append(text, byte)) = Final(NameSoFar(text), lead)
<1> DEFINE more == Append(text, byte)
           n == Len(text)
           d == At(text)
           first == FirstOf(text)
<1>1. more \in Seq(Bytes) /\ Len(more) = n + 1 /\ n \in Nat
  BY MoreText
<1>2. d \in 1..(n + 1) /\ LineEnd(text, d) \in d..(n + 1) /\ (~Open(text) => LineEnd(text, d) <= n)
  BY Around
<1>3. DocFirst(more, n + 1) = d
  <2>1. n + 1 \in 1..(n + 1)
    BY <1>1
  <2> QED BY <2>1, SameDoc DEF At
<1>4. d \in 1..(Len(more) + 1)
  <2> HIDE DEF d, n, more
  <2> QED BY <1>1, <1>2
<1>5. Open(text) => LineEnd(text, d) = n + 1
  BY DEF Open
<1>6. Named(more) = IF HasHeader(more, d) /\ LineEnd(more, d) <= n + 1
                      THEN HeaderTokens(more, d)[1].arg ELSE <<>>
  <2> HIDE DEF more, d, n
  <2> QED BY <1>1, <1>3 DEF Named
<1>7. ~Fresh(text) => Named(text) = IF HasHeader(text, d) /\ LineEnd(text, d) <= n
                                      THEN HeaderTokens(text, d)[1].arg ELSE <<>>
  BY SameCurrent DEF Named
<1>8. CASE Names(j, text, byte)
  <2>1. /\ j.line = first /\ Open(text) /\ Begins(first) /\ byte \in LineEnds
        /\ Len(HeaderPrefix) <= Len(first) /\ Len(first) <= LineCap
    BY <1>8 DEF Names, NameRead
  <2>2. LineEnd(more, d) = n + 1 /\ FirstLine(more, d) = first
    BY <2>1, OpenMore
  <2>3. Len(first) \in Nat
    BY Around
  <2>4. HasHeader(more, d)
    <3>1. LineEnd(more, d) >= Len(more)
      <4> HIDE DEF more, d, n
      <4> QED BY <1>1, <2>2
    <3>2. HasHeader(more, d) <=> /\ Begins(FirstLine(more, d))
                                 /\ Len(FirstLine(more, d)) >= Len(HeaderPrefix)
      BY <1>1, <1>4, <3>1, HeaderByLine
    <3> HIDE DEF more, d, first
    <3> QED BY <2>1, <2>2, <2>3, <3>2, PrefixIs
  <2>5. HeaderTokens(more, d) = StoreFilename(first)
    <3>1. LineEnd(more, d) <= Len(more) /\ ~(Len(first) > LineCap)
      <4> HIDE DEF more, d, n, first
      <4> QED BY <1>1, <2>1, <2>2, <2>3, CapAssumption
    <3> HIDE DEF more, first, d
    <3> QED BY <2>2, <3>1 DEF HeaderTokens, StoreFilename
  <2>6. lead = StoreFilename(first) /\ lead \in Seq(Tokens) /\ tokens = Ended(lead, byte)
    BY <1>8, <2>1 DEF Parts
  <2> DEFINE name == Trim(SubSeq(first, Len(HeaderPrefix) + 1, Len(first)))
  <2>7. lead = <<Token("overflow", <<>>)>> \/ lead = <<Token("filename", name)>>
    BY <2>6 DEF StoreFilename
  <2>8. Named(more) = lead[1].arg
    <3>1. n + 1 <= n + 1
      BY <1>1
    <3> HIDE DEF more, d, n, first
    <3> QED BY <1>6, <2>2, <2>4, <2>5, <2>6, <3>1
  <2> HIDE DEF name
  <2>9. lead # <<Token("overflow", <<>>)>>
    <3> SUFFICES ASSUME lead = <<Token("overflow", <<>>)>> PROVE FALSE
      OBVIOUS
    <3>1. lead # <<>> /\ lead[1] = Token("overflow", <<>>)
      OBVIOUS
    <3>2. 1 \in DOMAIN tokens /\ tokens[1] = Token("overflow", <<>>)
      BY <2>6, <3>1, EndedHead
    <3>3. Token("overflow", <<>>).op = "overflow"
      BY DEF Token
    <3> QED BY <3>2, <3>3 DEF Overflows
  <2>10. lead = <<Token("filename", name)>>
    BY <2>7, <2>9
  <2>11. lead # <<>> /\ lead[1] = Token("filename", name)
    BY <2>10
  <2>12. lead[1].op = "filename"
    BY <2>11 DEF Token
  <2> QED BY <2>8, <2>11, <2>12 DEF Final
<1>9. CASE ~Names(j, text, byte)
  <2>1. Final(NameSoFar(text), lead) = NameSoFar(text)
    <3>1. lead \in Seq(Tokens) /\ Plain(lead)
      BY <1>9 DEF Parts
    <3>2. lead # <<>> => 1 \in DOMAIN lead
      <4> HIDE DEF Tokens
      <4> QED BY <3>1
    <3> QED BY <3>1, <3>2 DEF Plain, Final
  <2>2. CASE Open(text)
    <3>1. NameSoFar(text) = <<>>
      <4>1. ~(LineEnd(text, d) <= n)
        <5> HIDE DEF n, d
        <5> QED BY <1>1, <1>5, <2>2
      <4> QED BY <1>7, <4>1 DEF NameSoFar
    <3>2. ~(HasHeader(more, d) /\ LineEnd(more, d) <= n + 1)
      <4>1. CASE byte \in LineEnds
        <5>1. LineEnd(more, d) = n + 1 /\ FirstLine(more, d) = first
          BY <2>2, <4>1, OpenMore
        <5>2. LineEnd(more, d) >= Len(more)
          <6> HIDE DEF more, d, n
          <6> QED BY <1>1, <5>1
        <5>3. HasHeader(more, d) <=> /\ Begins(FirstLine(more, d))
                                     /\ Len(FirstLine(more, d)) >= Len(HeaderPrefix)
          BY <1>1, <1>4, <5>2, HeaderByLine
        <5>4. ~NameRead(j, text)
          BY <1>9, <4>1 DEF Names
        <5>5. ~Begins(first) \/ Len(first) < Len(HeaderPrefix)
          BY <2>2, <5>4 DEF Reads, MayRead, BodyRead
        <5>6. Len(first) \in Nat
          BY Around
        <5> HIDE DEF more, d, first
        <5> QED BY <5>1, <5>3, <5>5, <5>6, PrefixIs
      <4>2. CASE byte \notin LineEnds
        <5>1. LineEnd(more, d) = n + 2
          BY <2>2, <4>2, OpenMore
        <5> HIDE DEF more, d, n
        <5> QED BY <1>1, <5>1
      <4> QED BY <4>1, <4>2
    <3> QED BY <1>6, <2>1, <3>1, <3>2
  <2>3. CASE ~Open(text)
    <3>1. ~Fresh(text)
      BY <2>3, FreshOpen
    <3>2. LineEnd(more, d) = LineEnd(text, d) /\ FirstLine(more, d) = FirstLine(text, d)
          /\ LineEnd(text, d) <= n
      BY <1>2, <2>3, ClosedLine
    <3>3. HasHeader(more, d) <=> HasHeader(text, d)
      <4> HIDE DEF more, d, n
      <4> QED BY <3>2 DEF HasHeader
    <3>4. LineEnd(text, d) <= n + 1
      <4> HIDE DEF d, n
      <4> QED BY <1>1, <1>2, <3>2
    <3>5. HeaderTokens(more, d) = HeaderTokens(text, d)
      <4> HIDE DEF more, d
      <4> QED BY <1>1, <3>2, <3>4 DEF HeaderTokens, n
    <3>6. Named(more) = Named(text)
      <4> HIDE DEF more, d, n
      <4> QED BY <1>6, <1>7, <3>1, <3>2, <3>3, <3>4, <3>5
    <3> QED BY <2>1, <3>1, <3>6 DEF NameSoFar
  <2> QED BY <2>2, <2>3
<1> QED BY <1>8, <1>9

\* A name is the first token of its byte, a form feed the last.
Shape(tokens) ==
  \A i \in DOMAIN tokens : /\ tokens[i].op = "filename" => i = 1
                           /\ tokens[i].op = "formfeed" => i = Len(tokens)

LEMMA EndedShape ==
  ASSUME NEW lead \in Seq(Tokens), Leading(lead), NEW byte
  PROVE  Shape(Ended(lead, byte))
<1> DEFINE tokens == Ended(lead, byte)
<1>1. /\ DOMAIN tokens = 1..Len(tokens) /\ Len(lead) \in Nat /\ DOMAIN lead = 1..Len(lead)
      /\ Len(tokens) = IF byte = "ff" THEN Len(lead) + 1 ELSE Len(lead)
      /\ \A i \in 1..Len(lead) : tokens[i] = lead[i]
      /\ byte = "ff" => tokens[Len(lead) + 1] = Token("formfeed", <<>>)
  BY EndedTokens
<1>2. Token("formfeed", <<>>).op = "formfeed"
  BY DEF Token
<1> HIDE DEF tokens
<1>3. ASSUME NEW i \in DOMAIN tokens
      PROVE  /\ tokens[i].op = "filename" => i = 1
             /\ tokens[i].op = "formfeed" => i = Len(tokens)
  <2>1. CASE i \in 1..Len(lead)
    BY <1>1, <2>1 DEF Leading
  <2>2. CASE i \notin 1..Len(lead)
    <3>1. byte = "ff" /\ i = Len(lead) + 1 /\ i = Len(tokens)
      BY <1>1, <1>3, <2>2
    <3> QED BY <1>1, <1>2, <3>1
  <2> QED BY <2>1, <2>2
<1> QED BY <1>3 DEF Shape, tokens

LEMMA EndedFinal ==
  ASSUME NEW lead \in Seq(Tokens), NEW byte, NEW name
  PROVE  Final(name, Ended(lead, byte)) = Final(name, lead)
<1>1. CASE lead # <<>>
  <2> DEFINE tokens == Ended(lead, byte)
  <2>1. 1 \in DOMAIN tokens /\ tokens[1] = lead[1]
    BY <1>1, EndedHead
  <2> HIDE DEF tokens
  <2>2. tokens # <<>>
    BY <2>1
  <2> QED BY <1>1, <2>1, <2>2 DEF Final, tokens
<1>2. CASE lead = <<>>
  <2>1. CASE byte = "ff"
    <3>1. Ended(lead, byte) = <<Token("formfeed", <<>>)>>
      BY <1>2, <2>1 DEF Ended
    <3>2. Token("formfeed", <<>>).op # "filename"
      BY DEF Token
    <3> QED BY <1>2, <3>1, <3>2 DEF Final
  <2>2. CASE byte # "ff"
    BY <2>2 DEF Ended
  <2> QED BY <2>1, <2>2
<1> QED BY <1>1, <1>2

\* What a byte tells leaves the name of the document it is in.
Naming(tokens, name, text) ==
  Shape(tokens) /\ (~Overflows(tokens) => Final(name, tokens) = Named(text))

LEMMA PartsName ==
  ASSUME NEW text \in Seq(Bytes), NEW byte \in Bytes, NEW j, Reads(j, text),
         NEW tokens, NEW lead, Parts(tokens, lead, j, text, byte)
  PROVE  Naming(tokens, NameSoFar(text), Append(text, byte))
<1>1. lead \in Seq(Tokens) /\ tokens = Ended(lead, byte)
  BY DEF Parts
<1>2. Shape(tokens)
  BY <1>1, PartsLead, EndedShape DEF Reads
<1>3. Final(NameSoFar(text), tokens) = Final(NameSoFar(text), lead)
  BY <1>1, EndedFinal
<1>4. ~Overflows(tokens) => Named(Append(text, byte)) = Final(NameSoFar(text), lead)
  BY NamedMore
<1> QED BY <1>2, <1>3, <1>4 DEF Naming

LEMMA ByteNames ==
  ASSUME NEW text \in Seq(Bytes), NEW byte \in Bytes, byte # "finish",
         NEW j, Reads(j, text)
  PROVE  Naming(OnByte(j, byte).out, NameSoFar(text), Append(text, byte))
<1>1. PICK lead : Parts(OnByte(j, byte).out, lead, j, text, byte)
  BY ByteParts
<1> QED BY <1>1, PartsName

LEMMA FinishNames ==
  ASSUME NEW text \in Seq(Bytes), NEW j, Reads(j, text)
  PROVE  Naming(JobFinish(j).out, NameSoFar(text), Append(text, "finish"))
<1>1. Parts(JobFinish(j).out, JobFinish(j).out, j, text, "finish")
  BY FinishParts
<1>2. "finish" \in Bytes
  BY DEF Bytes
<1> QED BY <1>1, <1>2, PartsName

\* Between two documents the pipeline is idle or done, and drops the name; once
\* the tokens of the last byte are acted upon the name is that of its document.
NameInv ==
  /\ ff # "no" => todo = <<>>
  /\ Fresh(sent) /\ ~Ending => state \in {"idle", "done"}
  /\ todo # <<>> => state \notin {"idle", "done"}
  /\ Shape(todo)
  /\ sent # <<>> /\ ~Overflows(todo) => Final(filename, todo) = Named(sent)

NamesInv == FeedInv /\ (state # "fault" => NameInv)

LEMMA NoTokens == Shape(<<>>) /\ ~Overflows(<<>>) /\ ~Ends(<<>>)
                  /\ \A name : Final(name, <<>>) = name
BY DEF Shape, Overflows, Ends, Final

LEMMA TakeName ==
  ASSUME FeedInv', NEW before, NEW byte \in Alphabet, Take(before, byte), Reads(before, sent),
         sent \in Seq(Bytes), filename' = NameSoFar(sent), ff' = "no",
         state' \notin {"idle", "done", "fault"}, call' = "feed"
  PROVE  NameInv'
<1> DEFINE p == OnByte(before, byte)
           more == Append(sent, byte)
<1>1. byte \in Bytes /\ byte # "finish"
  BY FinishAssumption DEF Bytes
<1>2. sent' = more /\ todo' = p.out
  BY DEF Take
<1>3. Naming(p.out, NameSoFar(sent), more)
  BY <1>1, ByteNames
<1>4. Ends(p.out) <=> byte = "ff"
  BY <1>1, ByteEnds
<1>5. Fresh(more) => byte = "ff"
  <2>1. Len(more) = Len(sent) + 1 /\ more[Len(sent) + 1] = byte /\ Len(sent) \in Nat
    BY <1>1, MoreText
  <2> HIDE DEF more
  <2>2. more # <<>>
    BY <2>1
  <2> QED BY <1>1, <2>1, <2>2 DEF Fresh, Stops
<1> HIDE DEF p, more
<1>6. Fresh(sent') => Ending'
  BY <1>2, <1>4, <1>5 DEF Ending
<1> QED BY <1>2, <1>3, <1>6 DEF NameInv, Naming

LEMMA FeedCallNames ==
  ASSUME NamesInv, FeedInv', NEW byte \in Alphabet, FeedCall(byte)
  PROVE  NamesInv'
<1>1. /\ state # "fault" /\ pc = "ready" /\ todo = <<>> /\ call = "none"
      /\ call' = "feed" /\ state' = Begun /\ Take(Parser, byte)
      /\ ff' = ff /\ BeginJob
  BY DEF FeedCall, Between, Idle, flow
<1>2. FlowInv /\ TextInv /\ NameInv /\ ff = "no"
  BY <1>1 DEF NamesInv, FeedInv, FlowInv
<1>3. state' \notin {"idle", "done", "fault"}
  BY <1>1 DEF Begun
<1>4. ~Ending /\ ~Overflows(todo) /\ Final(filename, todo) = filename
  BY <1>1, <1>2, NoTokens DEF Ending
<1>5. Fresh(sent) <=> state \in {"idle", "done"}
  BY <1>2, <1>4 DEF TextInv, NameInv
<1>6. Reads(Parser, sent)
  BY <1>2, <1>4, <1>5, FreshReads DEF TextInv, Parser
<1>7. filename' = NameSoFar(sent)
  <2>1. CASE Fresh(sent)
    BY <1>1, <1>5, <2>1 DEF BeginJob, NameSoFar
  <2>2. CASE ~Fresh(sent)
    <3>1. sent # <<>>
      BY <2>2 DEF Fresh
    <3> QED BY <1>1, <1>2, <1>4, <1>5, <2>2, <3>1 DEF BeginJob, NameSoFar, NameInv
  <2> QED BY <2>1, <2>2
<1>8. sent \in Seq(Bytes)
  BY <1>2 DEF TextInv
<1>9. NameInv'
  BY <1>1, <1>2, <1>3, <1>6, <1>7, <1>8, TakeName
<1> QED BY <1>9 DEF NamesInv

LEMMA NextByteNames ==
  ASSUME FFEndsCall, NamesInv, FeedInv', NEW byte \in Alphabet, NextByte(byte)
  PROVE  NamesInv'
<1>1. /\ state # "fault" /\ pc = "ready" /\ todo = <<>> /\ call = "feed"
      /\ call' = "feed" /\ state' = state /\ Take(job, byte)
      /\ ff' = ff /\ filename' = filename
      /\ sent # <<>> => sent[Len(sent)] # "ff"
  BY DEF NextByte, Idle, vars
<1>2. FlowInv /\ TextInv /\ NameInv /\ ff = "no"
  BY <1>1 DEF NamesInv, FeedInv, FlowInv
<1>3. ~Fresh(sent) /\ sent # <<>>
  BY <1>1, <1>2 DEF TextInv, Fresh, Stops
<1>4. ~Ending /\ ~Overflows(todo) /\ Final(filename, todo) = filename
  BY <1>1, <1>2, NoTokens DEF Ending
<1>5. state' \notin {"idle", "done", "fault"} /\ Reads(job, sent)
  BY <1>1, <1>2, <1>3, <1>4 DEF TextInv
<1>6. filename' = NameSoFar(sent)
  BY <1>1, <1>2, <1>3, <1>4 DEF NameSoFar, NameInv
<1>7. sent \in Seq(Bytes)
  BY <1>2 DEF TextInv
<1>8. NameInv'
  BY <1>1, <1>2, <1>5, <1>6, <1>7, TakeName
<1> QED BY <1>8 DEF NamesInv

\* finish begins only with bytes held back, which no reset parser has.
LEMMA FinishCallNames ==
  ASSUME NamesInv, FeedInv', FinishCall PROVE NamesInv'
<1> DEFINE p == JobFinish(job)
           more == Append(sent, "finish")
<1>1. /\ state # "fault" /\ pc = "ready" /\ todo = <<>> /\ call = "none"
      /\ call' = "finish" /\ state' = state /\ ff' = ff /\ filename' = filename
      /\ sent' = more /\ todo' = p.out
      /\ state \in {"idle", "done"} => job.hdr # "maybe" \/ job.line # <<>>
  BY DEF FinishCall, Between, Idle, vars
<1>2. FlowInv /\ TextInv /\ NameInv /\ ff = "no"
  BY <1>1 DEF NamesInv, FeedInv, FlowInv
<1>3. ~Ending /\ ~Overflows(todo) /\ Final(filename, todo) = filename
  BY <1>1, <1>2, NoTokens DEF Ending
<1>4. sent \in Seq(Bytes) /\ Reads(job, sent)
  BY <1>2, <1>3 DEF TextInv
<1>5. Fresh(sent) => job.hdr = "maybe" /\ job.line = <<>>
  <2> SUFFICES ASSUME Fresh(sent) PROVE job.hdr = "maybe" /\ job.line = <<>>
    OBVIOUS
  <2>1. Open(sent) /\ FirstOf(sent) = <<>> /\ Begins(<<>>)
    BY <1>4, FreshOpen
  <2>2. MayRead(job, sent) \/ NameRead(job, sent) \/ BodyRead(job, sent)
    BY <1>4 DEF Reads
  <2>3. ~(Len(HeaderPrefix) <= Len(<<>>))
    BY PrefixIs
  <2> QED BY <2>1, <2>2, <2>3 DEF MayRead, NameRead, BodyRead
<1>6. ~Fresh(sent) /\ state \notin {"idle", "done"}
  BY <1>1, <1>2, <1>3, <1>5 DEF TextInv, NameInv
<1>7. sent # <<>>
  BY <1>6 DEF Fresh
<1>8. filename' = NameSoFar(sent)
  BY <1>1, <1>2, <1>3, <1>6, <1>7 DEF NameSoFar, NameInv
<1>9. Naming(p.out, NameSoFar(sent), more)
  BY <1>4, FinishNames
<1> HIDE DEF p, more
<1>10. Ending'
  BY <1>1 DEF Ending
<1>11. NameInv'
  BY <1>1, <1>2, <1>6, <1>8, <1>9, <1>10 DEF NameInv, Naming
<1> QED BY <1>11 DEF NamesInv

\* Acting upon the tokens in turn leaves the name they tell.
LEMMA TokenName ==
  ASSUME NEW left \in Seq(Tokens), left # <<>>, Shape(left), NEW name
  PROVE  LET now == IF Head(left).op = "filename" THEN Head(left).arg ELSE name IN
         /\ Shape(Tail(left)) /\ Final(name, left) = now /\ Final(now, Tail(left)) = now
         /\ Head(left).op = "formfeed" => Tail(left) = <<>>
<1> DEFINE t == Head(left)
           rest == Tail(left)
           now == IF t.op = "filename" THEN t.arg ELSE name
<1> HIDE DEF Tokens
<1>1. /\ Len(left) \in Nat /\ Len(left) > 0 /\ t = left[1] /\ DOMAIN left = 1..Len(left)
      /\ rest \in Seq(Tokens) /\ Len(rest) = Len(left) - 1 /\ DOMAIN rest = 1..Len(rest)
      /\ \A i \in 1..Len(rest) : rest[i] = left[i + 1]
  BY HeadTailProperties, LenProperties
<1>2. rest = <<>> <=> Len(rest) = 0
  BY <1>1, EmptySeq
<1> HIDE DEF t, rest
<1>3. ASSUME NEW i \in 1..Len(rest)
      PROVE  rest[i].op # "filename" /\ (rest[i].op = "formfeed" => i = Len(rest))
  <2>1. i + 1 \in 1..Len(left) /\ i + 1 # 1 /\ (i + 1 = Len(left) => i = Len(rest))
    <3>1. Len(left) \in Nat /\ Len(rest) = Len(left) - 1
      BY <1>1
    <3> QED BY <3>1
  <2>2. rest[i] = left[i + 1]
    BY <1>1
  <2> QED BY <1>1, <2>1, <2>2 DEF Shape
<1>4. Shape(rest)
  BY <1>1, <1>3 DEF Shape
<1>5. Final(name, left) = now
  BY <1>1 DEF Final
<1>6. Final(now, rest) = now
  <2>1. rest # <<>> => 1 \in 1..Len(rest)
    BY <1>1, <1>2
  <2> HIDE DEF now
  <2> QED BY <1>3, <2>1 DEF Final
<1>7. t.op = "formfeed" => rest = <<>>
  <2>1. 1 \in 1..Len(left)
    BY <1>1
  <2>2. t.op = "formfeed" => Len(left) = 1
    BY <1>1, <2>1 DEF Shape
  <2> QED BY <1>1, <1>2, <2>2
<1> QED BY <1>4, <1>5, <1>6, <1>7 DEF t, rest

LEMMA TokenActs ==
  ASSUME NamesInv, FeedInv', OnToken, state' # "fault"
  PROVE  LET t == Head(todo) IN
         /\ filename' = IF t.op = "filename" THEN t.arg ELSE filename
         /\ t.op = "formfeed" => ff' # "no" \/ state' = "done"
         /\ t.op \in {"cell", "newline", "filename"} => ff' = "no" /\ state' \notin {"idle", "done"}
         /\ t.op \in {"cell", "newline", "filename", "formfeed"}
<1> DEFINE t == Head(todo)
<1>1. /\ pc = "ready" /\ todo # <<>> /\ state # "fault"
      /\ FlowInv /\ ff = "no" /\ state \notin {"idle", "done"}
  BY DEF OnToken, NamesInv, NameInv, FeedInv, FlowInv
<1>2. ~Refuse
  BY DEF Refuse, EnterFault
<1>3. NoteNewJob => filename' = filename
  BY <1>1 DEF NoteNewJob
<1>4. \/ t.op = "cell" /\ OnCell(t.arg)
      \/ t.op = "newline" /\ OnNewline
      \/ t.op = "formfeed" /\ OnFormFeed
      \/ t.op = "filename" /\ OnFilename(t.arg)
      \/ t.op = "overflow" /\ OnOverflow
  BY DEF OnToken
<1> HIDE DEF t
<1>5. CASE t.op = "cell" /\ OnCell(t.arg)
  <2>1. ff' = "no" /\ state' \notin {"idle", "done"} /\ filename' = filename
    BY <1>1, <1>2, <1>3, <1>5 DEF OnCell, Unpowered, Begun, flow, SubmitCell
  <2> QED BY <1>5, <2>1 DEF t
<1>6. CASE t.op = "newline" /\ OnNewline
  <2>1. ff' = "no" /\ state' \notin {"idle", "done"} /\ filename' = filename
    BY <1>1, <1>2, <1>3, <1>6 DEF OnNewline, Unpowered, Begun, flow, SubmitNewline
  <2> QED BY <1>6, <2>1 DEF t
<1>7. CASE t.op = "formfeed" /\ OnFormFeed
  <2>1. (ff' # "no" \/ state' = "done") /\ filename' = filename
    BY <1>1, <1>2, <1>3, <1>7 DEF OnFormFeed, SubmitFormFeed
  <2> QED BY <1>7, <2>1 DEF t
<1>8. CASE t.op = "filename" /\ OnFilename(t.arg)
  <2>1. ff' = "no" /\ state' \notin {"idle", "done"} /\ filename' = t.arg
    BY <1>1, <1>8 DEF OnFilename, vars
  <2> QED BY <1>8, <2>1 DEF t
<1>9. CASE t.op = "overflow" /\ OnOverflow
  BY <1>9 DEF OnOverflow, EnterFault
<1> QED BY <1>4, <1>5, <1>6, <1>7, <1>8, <1>9

LEMMA OnTokenNames ==
  ASSUME NamesInv, FeedInv', OnToken PROVE NamesInv'
<1> DEFINE t == Head(todo)
           rest == Tail(todo)
           now == IF t.op = "filename" THEN t.arg ELSE filename
<1>1. ASSUME state' # "fault" PROVE NameInv'
  <2>1. /\ state # "fault" /\ todo # <<>> /\ call' = call /\ sent' = sent /\ todo' = rest
    BY <1>1, TokenFlow DEF OnToken, NamesInv
  <2>2. TextInv /\ NameInv /\ todo \in Seq(Tokens)
    BY <2>1 DEF NamesInv, FeedInv, TextInv
  <2>3. /\ Shape(rest) /\ Final(filename, todo) = now /\ Final(now, rest) = now
        /\ t.op = "formfeed" => rest = <<>>
    BY <2>1, <2>2, TokenName DEF NameInv
  <2>4. /\ Ends(todo) <=> t.op = "formfeed" \/ Ends(rest)
        /\ Overflows(todo) => t.op = "overflow" \/ Overflows(rest)
    BY <2>1, <2>2, TokenTaken DEF TextInv
  <2>5. /\ filename' = now
        /\ t.op = "formfeed" => ff' # "no" \/ state' = "done"
        /\ t.op \in {"cell", "newline", "filename"} => ff' = "no" /\ state' \notin {"idle", "done"}
        /\ t.op \in {"cell", "newline", "filename", "formfeed"}
    BY <1>1, TokenActs
  <2>6. ff = "no"
    BY DEF OnToken, NamesInv, FeedInv, FlowInv
  <2> HIDE DEF t, rest, now
  <2>7. Fresh(sent) /\ ~Ending' => state' \in {"idle", "done"}
    <3>1. CASE t.op = "formfeed"
      BY <2>5, <3>1 DEF Ending
    <3>2. CASE t.op # "formfeed"
      <4>1. Ending' <=> Ending
        BY <2>1, <2>4, <2>5, <2>6, <3>2 DEF Ending
      <4> QED BY <2>1, <2>2, <4>1 DEF NameInv
    <3> QED BY <3>1, <3>2
  <2>8. sent # <<>> /\ ~Overflows(rest) => Final(filename', rest) = Named(sent)
    BY <2>2, <2>3, <2>4, <2>5 DEF NameInv
  <2> QED BY <2>1, <2>3, <2>5, <2>7, <2>8 DEF NameInv
<1> QED BY <1>1 DEF NamesInv

LEMMA RunningNames ==
  ASSUME NamesInv, FeedInv', Running PROVE NamesInv'
<1>1. ASSUME state' # "fault" PROVE NameInv'
  <2>1. state # "fault" /\ (Quiet \/ Over)
    BY <1>1, RunningIs DEF NamesInv, FeedInv
  <2>2. NameInv
    BY <2>1 DEF NamesInv
  <2>3. UNCHANGED <<todo, filename, sent>>
    BY DEF Running
  <2>4. Ends(todo)' <=> Ends(todo)
    BY <2>3 DEF Ends
  <2>5. /\ Shape(todo)' <=> Shape(todo)
        /\ Fresh(sent)' <=> Fresh(sent)
        /\ Overflows(todo)' <=> Overflows(todo)
        /\ Final(filename, todo)' = Final(filename, todo) /\ Named(sent)' = Named(sent)
    BY <2>3
  <2>6. CASE Quiet
    <3>1. Ending' <=> Ending
      BY <2>4, <2>6 DEF Ending, Quiet
    <3> QED BY <2>2, <2>3, <2>5, <2>6, <3>1 DEF NameInv, Quiet
  <2>7. CASE Over
    <3>1. todo = <<>>
      BY <2>2, <2>7 DEF NameInv, Over
    <3> QED BY <2>2, <2>3, <2>5, <2>7, <3>1 DEF NameInv, Over
  <2> QED BY <2>1, <2>6, <2>7
<1> QED BY <1>1 DEF NamesInv

LEMMA OutsideNames ==
  ASSUME NamesInv, FeedInv',
         \/ FeedReturns \/ StartDrain \/ DropTokens
         \/ \E r \in Reasons : Faulted(r)
         \/ \E b \in BOOLEAN : Cleared(b) \/ Armed(b) \/ Paper(b)
         \/ UNCHANGED fvars
  PROVE  NamesInv'
<1>1. CASE DropTokens \/ \E r \in Reasons : Faulted(r)
  BY <1>1 DEF DropTokens, Faulted, Fault, EnterFault, vars, NamesInv
<1>2. ASSUME NEW b \in BOOLEAN, Cleared(b) PROVE NamesInv'
  <2>1. /\ todo' = <<>> /\ ff' = "no" /\ sent' = <<>> /\ state' = "idle"
    BY <1>2 DEF Cleared, Between, Idle, LeaveFault, flow, NamesInv, FeedInv, FlowInv
  <2> QED BY <2>1, NoTokens DEF NameInv, NamesInv
<1>3. ASSUME UNCHANGED <<state, ff, todo, filename, sent>>,
             call' = call \/ (call = "feed" /\ call' = "none")
      PROVE  NamesInv'
  <2>1. Ending' <=> Ending
    <3>1. Ends(todo)' <=> Ends(todo)
      BY <1>3
    <3> QED BY <1>3, <3>1 DEF Ending
  <2>2. NameInv' <=> NameInv
    BY <1>3, <2>1 DEF NameInv
  <2> QED BY <1>3, <2>2 DEF NamesInv
<1>4. CASE FeedReturns
  BY <1>3, <1>4 DEF FeedReturns, vars, flow
<1>5. CASE StartDrain
  BY <1>3, <1>5 DEF StartDrain, parser, ctl
<1>6. ASSUME NEW b \in BOOLEAN, Armed(b) \/ Paper(b) PROVE NamesInv'
  BY <1>3, <1>6 DEF Armed, Paper, SetArmed, SetPaperPresent, parser, ctl, flow
<1>7. CASE UNCHANGED fvars
  BY <1>3, <1>7 DEF fvars, vars, parser, flow
<1> QED BY <1>1, <1>2, <1>4, <1>5, <1>6, <1>7

LEMMA NamesStep ==
  ASSUME FFEndsCall, NamesInv, [FeedNext]_fvars PROVE NamesInv'
<1>1. FeedInv'
  BY FeedStep DEF NamesInv
<1> QED
  BY <1>1, FeedCallNames, NextByteNames, FinishCallNames, OnTokenNames, RunningNames,
     OutsideNames
  DEF FeedNext

\* The filename the pipeline reports is the one the header of the current
\* document names, and none while no header names one, whatever documents,
\* faults and resets went before.
THEOREM FilenamesAreCurrent ==
  ASSUME FFEndsCall PROVE FeedSpec => []FilenameIsCurrent
<1>1. FeedInit => NamesInv
  <2> SUFFICES ASSUME FeedInit PROVE NamesInv
    OBVIOUS
  <2>1. FeedInv
    BY FeedBegins
  <2>2. todo = <<>> /\ sent = <<>> /\ ff = "no" /\ state = "idle"
    BY DEF FeedInit, Init
  <2> QED BY <2>1, <2>2, NoTokens DEF NamesInv, NameInv
<1>2. NamesInv /\ [FeedNext]_fvars => NamesInv'
  BY NamesStep
<1>3. NamesInv => FilenameIsCurrent
  <2> SUFFICES ASSUME NamesInv, todo = <<>>, state # "fault", sent # <<>>,
                      ~Undecided(sent, Current)
               PROVE  filename = Named(sent)
    BY DEF FilenameIsCurrent, Named, Current
  <2>1. Final(filename, todo) = Named(sent) /\ Final(filename, todo) = filename
    BY NoTokens DEF NamesInv, NameInv
  <2> QED BY <2>1
<1> QED BY <1>1, <1>2, <1>3, PTL DEF FeedSpec

-----------------------------------------------------------------------------
(* The motors under the parser                                             *)

LEMMA ReplayTyped ==
  ASSUME NEW held \in Seq(Bytes) PROVE Replay(held) \in Parses
<1> DEFINE n == Len(held)
<1>1. PICK f : Plays(f, held) /\ Replay(held) = f[n]
  BY ReplayIs
<1>2. n \in Nat /\ n \in 0..n /\ \A i \in 1..n : held[i] \in Bytes
  OBVIOUS
<1>3. f[0] \in Parses
  <2>1. <<>> \in Seq(Bytes) /\ <<>> \in Seq(Tokens)
    OBVIOUS
  <2>2. Body \in Jobs
    BY <2>1 DEF Body, Jobs
  <2> QED BY <1>1, <2>1, <2>2 DEF Plays, Parsed, Parses
<1>4. ASSUME NEW i \in 1..n, f[i - 1] \in Parses PROVE f[i] \in Parses
  <2>1. f[i] = Then(f[i - 1], held[i]) /\ held[i] \in Bytes
    BY <1>1, <1>2 DEF Plays
  <2> QED BY <1>4, <2>1, ThenIs, ZenonT(30)
<1> HIDE DEF n
<1>5. \A i \in 0..n : f[i] \in Parses
  BY <1>2, <1>3, <1>4, AllAlong
<1> QED BY <1>1, <1>2, <1>5

LEMMA PlainTokens ==
  /\ Token("overflow", <<>>) \in Tokens /\ Token("formfeed", <<>>) \in Tokens
  /\ \A t \in Tokens : <<t>> \in Seq(Tokens)
  /\ <<>> \in Seq(Tokens)
<1>1. <<>> \in Seq(Bytes)
  OBVIOUS
<1>2. Token("overflow", <<>>) \in Tokens /\ Token("formfeed", <<>>) \in Tokens
  BY <1>1 DEF Token, Tokens
<1>3. \A t \in Tokens : <<t>> \in Seq(Tokens)
  OBVIOUS
<1>4. <<>> \in Seq(Tokens)
  OBVIOUS
<1> QED BY <1>2, <1>3, <1>4

LEMMA CloseTyped ==
  ASSUME NEW j \in Jobs, NEW asNewline \in BOOLEAN
  PROVE  CloseFirstLine(j, asNewline) \in Parses
<1> DEFINE named == Trim(SubSeq(j.line, Len(HeaderPrefix) + 1, Len(j.line)))
<1>1. j.line \in Seq(Bytes) /\ "lf" \in Bytes
  BY DEF Jobs, Bytes
<1>2. Append(j.line, "lf") \in Seq(Bytes)
  BY <1>1
<1>3. named \in Seq(Bytes)
  BY <1>1, NameTyped
<1>4. StoreFilename(j.line) \in {<<Token("overflow", <<>>)>>, <<Token("filename", named)>>}
  BY DEF StoreFilename
<1> HIDE DEF named
<1>5. Token("filename", named) \in Tokens
  BY <1>3 DEF Token, Tokens
<1>6. StoreFilename(j.line) \in Seq(Tokens)
  BY <1>4, <1>5, PlainTokens
<1>7. Body \in Jobs
  <2>1. <<>> \in Seq(Bytes)
    OBVIOUS
  <2> QED BY <2>1 DEF Body, Jobs
<1>8. Parsed(Body, StoreFilename(j.line)) \in Parses
  BY <1>6, <1>7 DEF Parsed, Parses
<1> QED BY <1>1, <1>2, <1>8, ReplayTyped DEF CloseFirstLine

\* Whatever the parser holds, a byte leaves it well-formed, with tokens to act
\* upon whose cells have dots.
LEMMA ByteTyped ==
  ASSUME NEW j \in Jobs, NEW byte \in Bytes
  PROVE  OnByte(j, byte) \in Parses
<1>1. j.line \in Seq(Bytes) /\ j.hdr \in {"maybe", "filename", "body"}
  BY DEF Jobs
<1>2. Append(j.line, byte) \in Seq(Bytes)
  BY <1>1
<1>3. CASE j.hdr = "body"
  BY <1>3, ContentIs DEF OnByte
<1>4. CASE j.hdr # "body" /\ byte \in {"cr", "lf", "ff"}
  <2> DEFINE closed == CloseFirstLine(j, byte # "ff")
             next == [closed.job EXCEPT !.swallow = (byte = "cr")]
             tokens == IF byte = "ff" THEN Append(closed.out, Token("formfeed", <<>>))
                                      ELSE closed.out
  <2>1. closed \in Parses
    BY CloseTyped
  <2>2. OnByte(j, byte) = Parsed(next, tokens)
    BY <1>4 DEF OnByte, FirstLineEnd
  <2> HIDE DEF closed
  <2>3. closed.job \in Jobs /\ closed.out \in Seq(Tokens)
    BY <2>1 DEF Parses
  <2>4. next \in Jobs
    BY <2>3 DEF Jobs
  <2>5. tokens \in Seq(Tokens)
    <3> HIDE DEF Tokens
    <3> QED BY <2>3, PlainTokens, AppendProperties
  <2> HIDE DEF next, tokens
  <2> QED BY <2>2, <2>4, <2>5 DEF Parsed, Parses
<1>5. CASE j.hdr = "maybe" /\ byte \notin {"cr", "lf", "ff"}
  <2> DEFINE next == [j EXCEPT !.line = Append(j.line, byte),
                               !.hdr = IF Len(Append(j.line, byte)) = Len(HeaderPrefix)
                                         THEN "filename" ELSE "maybe"]
  <2>1. \/ OnByte(j, byte) = Parsed(next, <<>>)
        \/ OnByte(j, byte) = Replay(Append(j.line, byte))
    BY <1>5 DEF OnByte, MaybeHeader
  <2>2. next \in Jobs
    BY <1>2 DEF Jobs
  <2> HIDE DEF next
  <2>3. Parsed(next, <<>>) \in Parses
    BY <2>2, PlainTokens DEF Parsed, Parses
  <2> QED BY <1>2, <2>1, <2>3, ReplayTyped
<1>6. CASE j.hdr = "filename" /\ byte \notin {"cr", "lf", "ff"}
  <2> DEFINE next == [j EXCEPT !.line = Append(j.line, byte)]
  <2>1. \/ OnByte(j, byte) = Parsed(next, <<>>)
        \/ OnByte(j, byte) = Parsed(j, <<Token("overflow", <<>>)>>)
    BY <1>6 DEF OnByte, FilenameByte
  <2>2. next \in Jobs
    BY <1>2 DEF Jobs
  <2> HIDE DEF next
  <2>3. Parsed(next, <<>>) \in Parses
    BY <2>2, PlainTokens DEF Parsed, Parses
  <2>4. Parsed(j, <<Token("overflow", <<>>)>>) \in Parses
    <3>1. <<Token("overflow", <<>>)>> \in Seq(Tokens)
      BY PlainTokens
    <3> QED BY <3>1 DEF Parsed, Parses
  <2> QED BY <2>1, <2>3, <2>4
<1> QED BY <1>1, <1>3, <1>4, <1>5, <1>6

LEMMA FinishTyped ==
  ASSUME NEW j \in Jobs PROVE JobFinish(j) \in Parses
<1>1. Parsed(j, <<>>) \in Parses
  BY PlainTokens DEF Parsed, Parses
<1> QED BY <1>1, CloseTyped DEF JobFinish

\* The parser and the tokens under way are well-formed, faults or none.
Loaded == job \in Jobs /\ todo \in Seq(Tokens)

LEMMA LoadedStep ==
  ASSUME Loaded, [FeedNext]_fvars PROVE Loaded'
<1>1. NewJob \in Jobs
  <2>1. <<>> \in Seq(Bytes)
    OBVIOUS
  <2> QED BY <2>1 DEF NewJob, Jobs
<1>2. ASSUME NEW p \in Parses, job' = p.job, todo' = p.out PROVE Loaded'
  BY <1>2 DEF Loaded, Parses
<1>3. ASSUME NEW byte \in Alphabet, FeedCall(byte) \/ NextByte(byte) PROVE Loaded'
  <2>1. byte \in Bytes
    BY DEF Bytes
  <2>2. OnByte(job, byte) \in Parses /\ OnByte(NewJob, byte) \in Parses
    BY <1>1, <2>1, ByteTyped DEF Loaded
  <2>3. Take(job, byte) \/ Take(NewJob, byte)
    BY <1>3 DEF FeedCall, NextByte, Parser
  <2>4. \/ job' = OnByte(job, byte).job /\ todo' = OnByte(job, byte).out
        \/ job' = OnByte(NewJob, byte).job /\ todo' = OnByte(NewJob, byte).out
    BY <2>3 DEF Take
  <2> QED BY <2>2, <2>4, <1>2
<1>4. CASE FinishCall
  <2>1. JobFinish(job) \in Parses
    BY FinishTyped DEF Loaded
  <2>2. job' = JobFinish(job).job /\ todo' = JobFinish(job).out
    BY <1>4 DEF FinishCall
  <2> QED BY <2>1, <2>2, <1>2
<1>5. CASE OnToken
  <2>1. todo # <<>> /\ todo \in Seq(Tokens)
    BY <1>5 DEF OnToken, Loaded
  <2>2. Tail(todo) \in Seq(Tokens)
    BY <2>1, TokenTaken, PlainTokens
  <2>3. todo' = Tail(todo) /\ (job' = job \/ job' = NewJob)
    BY <1>5 DEF OnToken, OnCell, OnNewline, OnFormFeed, OnFilename, OnOverflow
  <2> QED BY <1>1, <2>2, <2>3 DEF Loaded
<1>6. CASE Running
  BY <1>1, <1>6 DEF Running, Loaded
<1>7. CASE DropTokens
  BY <1>7, PlainTokens DEF DropTokens, Loaded
<1>8. ASSUME NEW b \in BOOLEAN, Cleared(b) PROVE Loaded'
  BY <1>1, <1>8 DEF Cleared, Loaded
<1>9. ASSUME UNCHANGED <<job, todo>> PROVE Loaded'
  BY <1>9 DEF Loaded
<1>10. CASE FeedReturns \/ StartDrain \/ UNCHANGED fvars
  BY <1>9, <1>10 DEF FeedReturns, StartDrain, fvars, parser
<1>11. ASSUME NEW r \in Reasons, Faulted(r) PROVE Loaded'
  BY <1>9, <1>11 DEF Faulted, parser
<1>12. ASSUME NEW b \in BOOLEAN, Armed(b) \/ Paper(b) PROVE Loaded'
  BY <1>9, <1>12 DEF Armed, Paper, parser
<1> QED
  BY <1>3, <1>4, <1>5, <1>6, <1>7, <1>8, <1>10, <1>11, <1>12 DEF FeedNext

\* Everything the bytes make the pipeline do is a move it is proved for.
LEMMA TokenMoves ==
  ASSUME TypeOK, Loaded, OnToken PROVE [Move]_vars
<1>1. pc = "ready" /\ todo # <<>> /\ state # "fault"
  BY DEF OnToken
<1> DEFINE t == Head(todo)
<1>2. t \in Tokens
  BY <1>1, PlainTokens, TokenTaken DEF Loaded
<1>3. t.op = "cell" => DotsOf[t.arg] \in Cells
  BY <1>2, DotsAssumption DEF Tokens
<1>4. \/ t.op = "cell"     /\ OnCell(t.arg)
      \/ t.op = "newline"  /\ OnNewline
      \/ t.op = "formfeed" /\ OnFormFeed
      \/ t.op = "filename" /\ OnFilename(t.arg)
      \/ t.op = "overflow" /\ OnOverflow
  BY DEF OnToken
<1> HIDE DEF t
<1>5. state \in JobStates
  BY DEF TypeOK
<1>6. ASSUME Unpowered PROVE Opening
  BY <1>1, <1>5, <1>6 DEF Unpowered, Opening, Begun, JobStates
<1>7. CASE t.op = "cell" /\ OnCell(t.arg)
  <2>1. CASE motors
    <3>1. AnyCell(DotsOf[t.arg])
      BY <1>1, <1>7, <2>1 DEF OnCell, AnyCell, Accepting
    <3> QED BY <1>3, <1>7, <3>1 DEF Move, Usual, AnyCommand
  <2>2. CASE ~motors
    BY <1>6, <1>7, <2>2 DEF OnCell, Move, Usual, AnyCommand
  <2> QED BY <2>1, <2>2
<1>8. CASE OnNewline
  BY <1>1, <1>6, <1>8 DEF OnNewline, AnyNewline, Accepting, Move, Usual, AnyCommand
<1>9. CASE OnFormFeed
  BY <1>1, <1>9
  DEF OnFormFeed, AnyFormFeed, Accepting, Opening, Move, Usual, AnyCommand
<1>10. CASE OnFilename(t.arg)
  BY <1>10 DEF OnFilename
<1>11. CASE OnOverflow
  BY <1>1, <1>11 DEF OnOverflow, Overrun, Fault, Move
<1> QED BY <1>4, <1>7, <1>8, <1>9, <1>10, <1>11

LEMMA FeedMaps ==
  ASSUME TypeOK, Loaded, [FeedNext]_fvars PROVE [Move]_vars
<1>1. ASSUME NEW byte \in Alphabet, FeedCall(byte) PROVE Opening
  BY <1>1 DEF FeedCall, Between, Idle, Opening, Begun, TypeOK, JobStates
<1>2. ASSUME NEW byte \in Alphabet, NextByte(byte) PROVE UNCHANGED vars
  BY <1>2 DEF NextByte
<1>3. FeedReturns \/ FinishCall \/ DropTokens => UNCHANGED vars
  BY DEF FeedReturns, FinishCall, DropTokens
<1>4. StartDrain => AnyFinish
  BY DEF StartDrain, Idle, AnyFinish
<1>5. Running => Step
  BY DEF Running
<1>6. ASSUME NEW r \in Reasons, Faulted(r) PROVE Caller
  BY <1>6 DEF Faulted, Caller
<1>7. ASSUME NEW b \in BOOLEAN, Cleared(b) \/ Armed(b) \/ Paper(b) PROVE Caller
  BY <1>7 DEF Cleared, Armed, Paper, Caller
<1>8. UNCHANGED fvars => UNCHANGED vars
  BY DEF fvars
<1> QED
  BY <1>1, <1>2, <1>3, <1>4, <1>5, <1>6, <1>7, <1>8, TokenMoves
  DEF FeedNext, Move, Usual, AnyCommand

\* Whatever bytes come, wherever they are cut into calls, and with whatever
\* documents, resets, refusals and faults between, the pipeline below keeps its
\* invariant: no dot is lost, moved or struck twice.
THEOREM FeedKeepsLine == FeedSpec => []IInv
<1>1. FeedInit => IInv /\ Loaded
  <2> SUFFICES ASSUME FeedInit PROVE IInv /\ Loaded
    OBVIOUS
  <2>1. <<>> \in Seq(Bytes)
    OBVIOUS
  <2>2. Loaded
    BY <2>1, PlainTokens DEF FeedInit, Loaded, NewJob, Jobs
  <2> QED BY <2>2, InvInit DEF FeedInit
<1>2. IInv /\ Loaded /\ [FeedNext]_fvars => (IInv /\ Loaded)'
  <2> SUFFICES ASSUME IInv, Loaded, [FeedNext]_fvars PROVE IInv' /\ Loaded'
    OBVIOUS
  <2>1. [Move]_vars
    BY FeedMaps DEF IInv
  <2> QED BY <2>1, InvStep, LoadedStep
<1> QED BY <1>1, <1>2, PTL DEF FeedSpec

LEMMA FeedWellFormed == FeedSpec => [](IInv /\ Loaded)
<1>1. FeedInit => Loaded
  <2>1. <<>> \in Seq(Bytes)
    OBVIOUS
  <2> QED BY <2>1, PlainTokens DEF FeedInit, Loaded, NewJob, Jobs
<1>2. Loaded /\ [FeedNext]_fvars => Loaded'
  BY LoadedStep
<1> QED BY <1>1, <1>2, FeedKeepsLine, PTL DEF FeedSpec

\* Seen from the paper, an embosser fed with bytes is a line contract: the cells
\* of its documents are struck where they belong, or a fault gives the line up.
THEOREM FeedImplementsContract == FeedSpec => KeepsContract
<1>1. FeedInit => Contract!Init
  BY DEF FeedInit, Init, Contract!Init
<1>2. IInv /\ Loaded /\ [FeedNext]_fvars => [Contract!Next]_(Contract!vars)
  <2> SUFFICES ASSUME IInv, Loaded, [FeedNext]_fvars
               PROVE  [Contract!Next]_(Contract!vars)
    OBVIOUS
  <2>1. [Move]_vars
    BY FeedMaps DEF IInv
  <2> QED BY <2>1, ContractStep
<1> QED BY <1>1, <1>2, FeedWellFormed, PTL DEF FeedSpec, KeepsContract, Contract!Spec

\* The form feed that ends a document ends its page, however the document was cut
\* into calls and whatever follows the form feed in its call.
THEOREM FeedEndsPages == FeedSpec => FormFeedEndsPage
<1>1. IInv /\ Loaded /\ [FeedNext]_fvars =>
        [pc = "eject" /\ state' = "done" =>
           yLine' % PageLines = 0 /\ yLine' > 0 /\ x' = 0]_vars
  <2> SUFFICES ASSUME IInv, Loaded, [FeedNext]_fvars
               PROVE  [pc = "eject" /\ state' = "done" =>
                         yLine' % PageLines = 0 /\ yLine' > 0 /\ x' = 0]_vars
    OBVIOUS
  <2>1. [Move]_vars
    BY FeedMaps DEF IInv
  <2> QED BY <2>1, PageEnds DEF IInv
<1> QED BY <1>1, FeedWellFormed, PTL DEF FeedSpec, FormFeedEndsPage

-----------------------------------------------------------------------------
(* From the bytes to the paper                                             *)

LEMMA RowAfterType ==
  ASSUME NEW row \in Seq(CellBytes), NEW t \in Tokens
  PROVE  RowAfter(row, t) \in Seq(CellBytes)
BY DEF RowAfter, Tokens

Rows(f, tokens) ==
  f[0] = <<>> /\ \A i \in 1..Len(tokens) : f[i] = RowAfter(f[i - 1], tokens[i])

LEMMA RowIs ==
  ASSUME NEW tokens \in Seq(Tokens)
  PROVE  \E f : Rows(f, tokens) /\ Row(tokens) = f[Len(tokens)]
<1> DEFINE n == Len(tokens)
           V == Seq(CellBytes)
           step == [row \in V |-> [t \in Tokens |-> RowAfter(row, t)]]
           Up(f) == f = [i \in 0..n |-> IF i = 0 THEN <<>>
                                        ELSE RowAfter(f[i - 1], tokens[i])]
           up == CHOOSE f : Up(f)
<1>1. n \in Nat /\ (\A i \in 1..n : tokens[i] \in Tokens)
  OBVIOUS
<1>2. <<>> \in V
  OBVIOUS
<1>3. step \in [V -> [Tokens -> V]]
  BY RowAfterType
<1>4. \A row \in V, t \in Tokens : step[row][t] = RowAfter(row, t)
  OBVIOUS
<1> HIDE DEF step, V
<1>5. PICK g \in [0..Len(tokens) -> V] : Through(g, <<>>, tokens, step)
  BY <1>2, <1>3, GoesThrough
<1>6. /\ g \in [0..n -> V] /\ g[0] = <<>>
      /\ \A i \in 1..n : g[i] = step[g[i - 1]][tokens[i]]
  BY <1>5 DEF Through
<1>7. \A i \in 0..n : i # 0 => i - 1 \in 0..n /\ i \in 1..n
  BY <1>1
<1>8. n \in 0..n /\ 0 \in 0..n /\ \A i \in 1..n : i \in 0..n /\ i # 0
  BY <1>1
<1> HIDE DEF n
<1>9. \A i \in 0..n : i # 0 => g[i] = RowAfter(g[i - 1], tokens[i])
  BY <1>1, <1>4, <1>6, <1>7
<1>10. Up(g)
  <2>1. g = [i \in 0..n |-> g[i]]
    BY <1>6
  <2> QED BY <1>6, <1>9, <2>1
<1> HIDE DEF Up
<1>11. Up(up)
  BY <1>10, Zenon
<1>12. Row(tokens) = up[n]
  BY Zenon DEF Row, Up, n
<1> HIDE DEF up
<1>13. Rows(up, tokens)
  BY <1>8, <1>11 DEF Rows, Up, n
<1> QED BY <1>12, <1>13 DEF n

LEMMA RowType ==
  ASSUME NEW tokens \in Seq(Tokens) PROVE Row(tokens) \in Seq(CellBytes)
<1> DEFINE n == Len(tokens)
<1>1. PICK f : Rows(f, tokens) /\ Row(tokens) = f[n]
  BY RowIs
<1>2. n \in Nat /\ n \in 0..n /\ \A i \in 1..n : tokens[i] \in Tokens
  OBVIOUS
<1>3. f[0] \in Seq(CellBytes)
  <2>1. <<>> \in Seq(CellBytes)
    OBVIOUS
  <2> QED BY <1>1, <2>1 DEF Rows
<1>4. ASSUME NEW i \in 1..n, f[i - 1] \in Seq(CellBytes) PROVE f[i] \in Seq(CellBytes)
  BY <1>1, <1>2, <1>4, RowAfterType DEF Rows
<1> HIDE DEF n
<1>5. \A i \in 0..n : f[i] \in Seq(CellBytes)
  BY <1>2, <1>3, <1>4, AllAlong
<1> QED BY <1>1, <1>2, <1>5

\* One more token.
LEMMA RowNext ==
  ASSUME NEW tokens \in Seq(Tokens), NEW t \in Tokens
  PROVE  Row(Append(tokens, t)) = RowAfter(Row(tokens), t)
<1> DEFINE n == Len(tokens)
           more == Append(tokens, t)
<1>1. /\ n \in Nat /\ more \in Seq(Tokens) /\ Len(more) = n + 1
      /\ more[n + 1] = t /\ \A i \in 1..n : more[i] = tokens[i]
  OBVIOUS
<1>2. PICK f : Rows(f, tokens) /\ Row(tokens) = f[n]
  BY RowIs
<1> HIDE DEF more
<1>3. PICK g : Rows(g, more) /\ Row(more) = g[n + 1]
  BY <1>1, RowIs
<1>4. f[0] = g[0]
  BY <1>2, <1>3 DEF Rows
<1>5. ASSUME NEW i \in 1..n, f[i - 1] = g[i - 1] PROVE f[i] = g[i]
  <2>1. i \in 1..Len(more)
    BY <1>1
  <2> QED BY <1>1, <1>2, <1>3, <1>5, <2>1 DEF Rows
<1> DEFINE T == {i \in Nat : i \in 0..n => f[i] = g[i]}
<1>6. 0 \in T
  BY <1>4
<1>7. ASSUME NEW i \in Nat, i \in T PROVE i + 1 \in T
  <2> SUFFICES ASSUME i + 1 \in 0..n PROVE f[i + 1] = g[i + 1]
    OBVIOUS
  <2>1. i \in 0..n /\ i + 1 \in 1..n /\ (i + 1) - 1 = i
    BY <1>1
  <2>2. f[i] = g[i]
    BY <1>7, <2>1
  <2> HIDE DEF T
  <2> QED BY <1>5, <2>1, <2>2
<1> HIDE DEF T
<1>8. Nat \subseteq T
  BY <1>6, <1>7, Induction
<1>9. f[n] = g[n]
  <2>1. n \in Nat /\ n \in 0..n
    BY <1>1
  <2> QED BY <1>8, <2>1 DEF T
<1>10. g[n + 1] = RowAfter(g[n], t)
  <2>1. n + 1 \in 1..Len(more) /\ (n + 1) - 1 = n
    BY <1>1
  <2> QED BY <1>1, <1>3, <2>1 DEF Rows
<1> QED BY <1>2, <1>3, <1>9, <1>10 DEF more

LEMMA RowNothing == Row(<<>>) = <<>>
<1>1. <<>> \in Seq(Tokens) /\ Len(<<>>) = 0
  OBVIOUS
<1>2. PICK f : Rows(f, <<>>) /\ Row(<<>>) = f[0]
  BY <1>1, RowIs
<1> QED BY <1>2 DEF Rows

\* Where the carriage is, or is on its way to, when next is the place of the next
\* cell.  A drain moves nothing: no strike was left behind.
Carriage(next) ==
  /\ pc \in {"ready", "drain"} => x = next
  /\ pc \in Submits => x + CellPitch = next
  /\ pc \in Travels => regs.then # "drain" /\ (regs.then = "cell" => regs.target = next)

Unended(tokens) == \A i \in DOMAIN tokens : ~LineEnding(tokens[i])
NextColumn(row, from) == from + Len(row) * CellPitch

\* The open line is what was told, from a column that only a fault can have left
\* off the margin.
Laid(told, from) ==
  /\ line = Placed(Row(told), from)
  /\ from # 0 => Unended(told)
  /\ Carriage(NextColumn(Row(told), from))

PaperOK ==
  /\ Closing => out # <<>> /\ LineEnding(out[Len(out)])
  /\ pc = "eject" \/ ff = "eject" => Row(out) = <<>>
  /\ line # {} /\ pc \notin Submits => lineOpen
  /\ \E from \in Int : Laid(Told(out), from)

PaperInv == state # "fault" /\ ~dark => PaperOK

LEMMA PlacedNone ==
  ASSUME NEW from PROVE Placed(<<>>, from) = {}
BY DEF Placed

LEMMA PlacedNext ==
  ASSUME NEW row \in Seq(CellBytes), NEW byte \in CellBytes, NEW from \in Int
  PROVE  /\ Placed(Append(row, byte), from) =
              Placed(row, from) \cup {[at |-> NextColumn(row, from), cell |-> DotsOf[byte]]}
         /\ NextColumn(Append(row, byte), from) = NextColumn(row, from) + CellPitch
<1> DEFINE n == Len(row)
           more == Append(row, byte)
           place(r, i) == [at |-> from + (i - 1) * CellPitch, cell |-> DotsOf[r[i]]]
<1>1. /\ n \in Nat /\ Len(more) = n + 1 /\ more[n + 1] = byte
      /\ DOMAIN row = 1..n /\ DOMAIN more = 1..(n + 1)
      /\ \A i \in 1..n : more[i] = row[i]
  OBVIOUS
<1>2. CellPitch \in Nat
  BY GeometryAssumption
<1> HIDE DEF n, more
<1>3. 1..(n + 1) = (1..n) \cup {n + 1}
  BY <1>1
<1>4. \A i \in 1..n : place(more, i) = place(row, i)
  BY <1>1
<1>5. place(more, n + 1) = [at |-> NextColumn(row, from), cell |-> DotsOf[byte]]
  <2>1. from + ((n + 1) - 1) * CellPitch = from + n * CellPitch
    BY <1>1, <1>2
  <2> QED BY <1>1, <2>1 DEF NextColumn, n
<1>6. /\ Placed(more, from) = {place(more, i) : i \in 1..(n + 1)}
      /\ Placed(row, from) = {place(row, i) : i \in 1..n}
  BY <1>1 DEF Placed
<1>7. Placed(more, from) = {place(more, i) : i \in 1..n} \cup {place(more, n + 1)}
  <2> HIDE DEF place
  <2> QED BY <1>3, <1>6
<1>8. {place(more, i) : i \in 1..n} = {place(row, i) : i \in 1..n}
  <2> HIDE DEF place
  <2> QED BY <1>4
<1>9. NextColumn(more, from) = NextColumn(row, from) + CellPitch
  <2>1. \A a, b, c \in Int : a + (b + 1) * c = (a + b * c) + c
    OBVIOUS
  <2> QED BY <1>1, <1>2, <2>1 DEF NextColumn, n
<1> HIDE DEF place
<1> QED BY <1>5, <1>6, <1>7, <1>8, <1>9 DEF more

LEMMA ColumnType ==
  ASSUME NEW row \in Seq(CellBytes), NEW from \in Int
  PROVE  NextColumn(row, from) \in Int
<1>1. Len(row) \in Nat /\ CellPitch \in Nat
  BY GeometryAssumption
<1> QED BY <1>1 DEF NextColumn

LEMMA ColumnNone ==
  ASSUME NEW from \in Int PROVE NextColumn(<<>>, from) = from
<1>1. Len(<<>>) = 0 /\ CellPitch \in Nat
  BY GeometryAssumption
<1>2. 0 * CellPitch = 0
  BY <1>1
<1> QED BY <1>1, <1>2 DEF NextColumn

LEMMA ToldTyped ==
  ASSUME out \in Seq(Tokens) PROVE Told(out) \in Seq(Tokens)
<1>1. SubSeq(out, 1, Len(out) - 1) \in Seq(Tokens)
  OBVIOUS
<1> QED BY <1>1 DEF Told

LEMMA NoDrain ==
  ASSUME PaperOK PROVE pc \in Travels => regs.then # "drain"
BY DEF PaperOK, Laid, Carriage

\* A step that changes neither the tokens nor the line, and keeps the carriage
\* where it should be.
LEMMA Onward ==
  ASSUME PaperOK, out' = out, line' = line, Closing' <=> Closing,
         pc' = "eject" \/ ff' = "eject" => pc = "eject" \/ ff = "eject",
         line # {} /\ pc' \notin Submits => lineOpen',
         \A next \in Int : Carriage(next) => Carriage(next)',
         out \in Seq(Tokens)
  PROVE  PaperOK'
<1>1. PICK from \in Int : Laid(Told(out), from)
  BY DEF PaperOK
<1>2. Told(out)' = Told(out)
  BY DEF Told
<1>3. NextColumn(Row(Told(out)), from) \in Int
  BY ToldTyped, RowType, ColumnType
<1>4. Laid(Told(out), from)'
  BY <1>1, <1>2, <1>3 DEF Laid
<1> QED BY <1>4 DEF PaperOK

\* What keeps the carriage where it should be and the line's end undone.
Kept ==
  /\ line' = line /\ (Closing' <=> Closing)
  /\ pc' = "eject" \/ ff' = "eject" => pc = "eject" \/ ff = "eject"
  /\ line # {} /\ pc' \notin Submits => lineOpen'
  /\ \A next \in Int : Carriage(next) => Carriage(next)'

LEMMA KeptOnward ==
  ASSUME PaperOK, Kept, out' = out, out \in Seq(Tokens) PROVE PaperOK'
BY Onward DEF Kept

LEMMA PaperSubmits ==
  ASSUME TypeOK, PageInv, PaperOK, state' # "fault", StrikeRowA \/ QueueRowB
  PROVE  Kept
<1> USE DEF Kept, Carriage, Closing, Submits, Travels, Returning
<1>1. CASE StrikeRowA
  BY <1>1 DEF StrikeRowA, pos, PageInv
<1>2. CASE QueueRowB
  <2>1. /\ pc' = "travel" /\ regs' = Travelling(x + CellPitch, "cell") /\ lineOpen'
        /\ line' = line /\ ff' = ff /\ x' = x
    BY <1>2 DEF QueueRowB, EnterFault, ctl, hist
  <2>2. regs'.target = x + CellPitch /\ regs'.then = "cell"
    BY <2>1, LocalsFields
  <2>3. pc \in Submits /\ ff = "no"
    BY <1>2 DEF QueueRowB, PageInv
  <2> QED BY <2>1, <2>2, <2>3
<1> QED BY <1>1, <1>2

LEMMA PaperTravelled ==
  ASSUME TypeOK, PageInv, PaperOK, state # "fault", pc \in Travels, Travelled,
         line' = line, lineOpen' = lineOpen
  PROVE  Kept
<1> USE DEF Kept, Carriage, Closing, Submits, Travels, Returning
<1>1. regs.then \in {"cell", "newline", "drain"} /\ regs.then # "drain"
  BY NoDrain, RegsFields DEF TypeOK
<1>2. line # {} => lineOpen
  BY DEF PaperOK
<1>3. CASE regs.then = "cell"
  <2>1. x' = regs.target /\ pc' = "ready" /\ ff' = "no" /\ ff = "no"
    BY <1>3 DEF Travelled, Return, PageInv
  <2> QED BY <1>2, <1>3, <2>1
<1>4. CASE regs.then = "newline"
  <2>1. pc' = "home" /\ regs' = regs /\ ff' = ff
    BY <1>4 DEF Travelled
  <2> QED BY <1>2, <1>4, <2>1
<1> QED BY <1>1, <1>3, <1>4

LEMMA PaperTravels ==
  ASSUME TypeOK, PageInv, PaperOK, state # "fault", state' # "fault",
         TakeDue \/ StrikeRowB \/ AfterRowB \/ CoverRest \/ ReachTarget
  PROVE  Kept
<1>0. line # {} /\ pc \notin Submits => lineOpen
  BY DEF PaperOK
<1>1. CASE TakeDue
  <2>1. regs'.target = regs.target /\ regs'.then = regs.then
    BY <1>1, LocalsFields DEF TakeDue
  <2> QED BY <1>0, <1>1, <2>1
      DEF TakeDue, pos, hist, Kept, Carriage, Closing, Submits, Travels, Returning
<1>2. CASE StrikeRowB
  BY <1>0, <1>2 DEF StrikeRowB, Kept, Carriage, Closing, Submits, Travels, Returning
<1>3. CASE AfterRowB
  BY <1>0, <1>3 DEF AfterRowB, pos, hist, Kept, Carriage, Closing, Submits, Travels, Returning
<1>4. CASE CoverRest
  <2>1. CASE Travelled
    BY <1>4, <2>1, PaperTravelled DEF CoverRest, hist, Travels
  <2>2. CASE ~Travelled
    BY <1>0, <1>4, <2>2
    DEF CoverRest, hist, Kept, Carriage, Closing, Submits, Travels, Returning
  <2> QED BY <2>1, <2>2
<1>5. CASE ReachTarget
  BY <1>5, PaperTravelled DEF ReachTarget, hist, Travels
<1> QED BY <1>1, <1>2, <1>3, <1>4, <1>5

LEMMA PaperLines ==
  ASSUME TypeOK, PageInv, PaperOK, state # "fault", state' # "fault",
         Narrow(FaultCauses),
         GoHome \/ AtHome \/ FeedLine \/ MeasurePage \/ EjectLine \/ Drain
  PROVE  Kept
<1>0. line # {} /\ pc \notin Submits => lineOpen
  BY DEF PaperOK
<1> USE DEF Kept, Carriage, Closing, Submits, Travels, Returning
<1>1. CASE GoHome
  BY <1>0, <1>1 DEF GoHome, hist
<1>2. CASE AtHome
  BY <1>0, <1>2 DEF AtHome, hist
<1>3. CASE FeedLine
  BY <1>0, <1>3 DEF FeedLine, pos, hist
<1>4. CASE MeasurePage
  BY <1>0, <1>4 DEF MeasurePage, pos, hist
<1>5. CASE EjectLine
  <2>1. ~Refuse
    BY DEF Refuse, EnterFault
  <2>2. pc' = "travel" /\ regs'.then = "newline"
    BY <1>5, <2>1, PageStartNewline DEF EjectLine
  <2> QED BY <1>0, <1>5, <2>1, <2>2 DEF EjectLine, pos, hist
<1>6. CASE Drain
  <2>1. pending = <<>> /\ ff = "no"
    BY <1>6 DEF Drain, Narrow, PageInv
  <2> QED BY <1>0, <1>6, <2>1 DEF Drain, Return, pos, hist
<1> QED BY <1>1, <1>2, <1>3, <1>4, <1>5, <1>6

\* The rows told are typed, and so are their ends.
LEMMA ToldEnded ==
  ASSUME NEW tokens \in Seq(Tokens), tokens # <<>>, LineEnding(tokens[Len(tokens)])
  PROVE  Row(tokens) = <<>>
<1> DEFINE most == SubSeq(tokens, 1, Len(tokens) - 1)
           t == tokens[Len(tokens)]
<1>1. most \in Seq(Tokens) /\ t \in Tokens /\ tokens = Append(most, t)
  OBVIOUS
<1> HIDE DEF most, t
<1>2. Row(tokens) = RowAfter(Row(most), t)
  BY <1>1, RowNext
<1> QED BY <1>2 DEF RowAfter, t

LEMMA PaperLineDone ==
  ASSUME TypeOK, PageInv, PaperOK, state # "fault", LineDone, out' = out,
         out \in Seq(Tokens)
  PROVE  PaperOK'
<1>1. /\ pc = "feeding" /\ line' = {} /\ x' = 0 /\ regs.then = "newline"
      /\ IF ff = "no" THEN Return
                      ELSE pc' = "eject" /\ UNCHANGED <<regs, ff, feeds>>
  BY DEF LineDone, PageInv, Returning
<1>2. ~Closing'
  BY <1>1 DEF Closing, Return, Returning, Travels
<1>3. Row(out) = <<>>
  <2>1. CASE ff = "eject"
    BY <2>1 DEF PaperOK
  <2>2. CASE ff # "eject"
    <3>1. Closing
      BY <1>1, <2>2 DEF Closing, Returning
    <3> QED BY <3>1, ToldEnded DEF PaperOK
  <2> QED BY <2>1, <2>2
<1>4. Told(out)' = out
  BY <1>2 DEF Told
<1>5. Carriage(0)'
  BY <1>1 DEF Carriage, Return, Submits, Travels
<1>6. Placed(<<>>, 0) = {} /\ NextColumn(<<>>, 0) = 0
  BY PlacedNone, ColumnNone
<1>7. Laid(Told(out), 0)'
  BY <1>1, <1>3, <1>4, <1>5, <1>6 DEF Laid
<1> QED BY <1>1, <1>2, <1>3, <1>3, <1>7 DEF PaperOK

LEMMA PaperPageDone ==
  ASSUME TypeOK, PageInv, PaperOK, PageDone, out' = out, out \in Seq(Tokens)
  PROVE  PaperOK'
<1>1. /\ pc = "eject" /\ ff = "eject" /\ x = 0 /\ x' = x /\ line' = line
      /\ lineOpen' = lineOpen /\ pc' = "ready" /\ ff' = "no"
  BY DEF PageDone, PageInv, Return, pos, hist
<1>2. ~Closing /\ ~Closing'
  BY <1>1 DEF Closing, Returning, Travels
<1>3. Row(out) = <<>> /\ Told(out) = out /\ Told(out)' = out
  BY <1>1, <1>2 DEF PaperOK, Told
<1>4. PICK from \in Int : Laid(out, from)
  BY <1>3 DEF PaperOK
<1>5. /\ Placed(<<>>, 0) = {} /\ NextColumn(<<>>, 0) = 0
      /\ Placed(<<>>, from) = {}
  BY PlacedNone, ColumnNone
<1>6. line = {}
  BY <1>3, <1>4, <1>5 DEF Laid
<1>7. Carriage(0)'
  BY <1>1 DEF Carriage, Submits, Travels
<1>8. Laid(Told(out), 0)'
  BY <1>1, <1>3, <1>5, <1>6, <1>7 DEF Laid
<1> QED BY <1>1, <1>2, <1>3, <1>6, <1>8 DEF PaperOK

LEMMA PaperRuns ==
  ASSUME TypeOK, PageInv, PaperOK, Narrow(FaultCauses), state # "fault", state' # "fault",
         Step, out' = out, out \in Seq(Tokens)
  PROVE  PaperOK'
<1>1. CASE StrikeRowA \/ QueueRowB
  BY <1>1, PaperSubmits, KeptOnward
<1>2. CASE TakeDue \/ StrikeRowB \/ AfterRowB \/ CoverRest \/ ReachTarget
  BY <1>2, PaperTravels, KeptOnward
<1>3. CASE GoHome \/ AtHome \/ FeedLine \/ MeasurePage \/ EjectLine \/ Drain
  BY <1>3, PaperLines, KeptOnward
<1> QED BY <1>1, <1>2, <1>3, PaperLineDone, PaperPageDone DEF Step

\* Between commands the line is that of all tokens acted upon.
LEMMA PaperReady ==
  ASSUME PaperOK, PageInv, pc = "ready"
  PROVE  /\ ~Closing /\ Told(out) = out /\ ff = "no"
         /\ line # {} => lineOpen
         /\ \E from \in Int : Laid(out, from) /\ x = NextColumn(Row(out), from)
<1>1. ~Closing /\ ff = "no"
  BY DEF Closing, Returning, Travels, PageInv
<1>2. Told(out) = out
  BY <1>1 DEF Told
<1> QED BY <1>1, <1>2 DEF PaperOK, Laid, Carriage, Submits

LEMMA PaperCell ==
  ASSUME TypeOK, PageInv, PaperOK, pc = "ready", out \in Seq(Tokens),
         NEW t \in Tokens, t.op = "cell", SubmitCell(DotsOf[t.arg]), ~Refuse,
         out' = Append(out, t)
  PROVE  PaperOK'
<1> DEFINE row == Row(out)
           c == DotsOf[t.arg]
<1>1. PICK from \in Int : Laid(out, from) /\ x = NextColumn(row, from)
  BY PaperReady
<1>2. /\ line' = line \cup {[at |-> x, cell |-> c]} /\ x' = x /\ pc' \in {"queue", "rowA"}
      /\ ff' = ff /\ ff = "no"
  BY PaperReady DEF SubmitCell, pos
<1>3. t.arg \in CellBytes /\ row \in Seq(CellBytes)
  BY RowType DEF Tokens
<1>4. Row(Append(out, t)) = Append(row, t.arg)
  BY RowNext DEF RowAfter, LineEnding
<1> HIDE DEF row
<1>5. /\ Placed(Append(row, t.arg), from) = line'
      /\ NextColumn(Append(row, t.arg), from) = x + CellPitch
  BY <1>1, <1>2, <1>3, PlacedNext DEF Laid, row
<1>6. ~Closing' /\ Told(out)' = out'
  BY <1>2 DEF Closing, Told, Returning, Travels
<1>7. from # 0 => Unended(Append(out, t))
  <2>1. from # 0 => Unended(out)
    BY <1>1 DEF Laid
  <2> QED BY <2>1 DEF Unended, LineEnding
<1>8. /\ Row(out') = Append(row, t.arg)
      /\ NextColumn(Row(out'), from) = x + CellPitch
  BY <1>4, <1>5
<1>9. \A next : next = x + CellPitch => Carriage(next)'
  BY <1>2 DEF Carriage, Submits, Travels
<1>10. Laid(Told(out), from)'
  BY <1>5, <1>6, <1>7, <1>8, <1>9 DEF Laid
<1> QED BY <1>2, <1>6, <1>10 DEF PaperOK, Submits

\* A line end: what was told before it is carried out first.
LEMMA PaperEnd ==
  ASSUME TypeOK, PageInv, PaperOK, pc = "ready", out \in Seq(Tokens),
         NEW t \in Tokens, LineEnding(t), out' = Append(out, t),
         StartNewline, ff' \in {"no", "close"}, UNCHANGED <<pos, line>>
  PROVE  PaperOK'
<1>1. pc' = "travel" /\ regs'.then = "newline" /\ line' = line /\ lineOpen' = lineOpen
  BY PageStartNewline DEF pos
<1>2. Closing'
  BY <1>1 DEF Closing, Travels
<1>3. PICK from \in Int : Laid(out, from)
  BY PaperReady
<1>4. out' # <<>> /\ out'[Len(out')] = t /\ SubSeq(out', 1, Len(out') - 1) = out
  OBVIOUS
<1>5. Told(out)' = out
  BY <1>2, <1>4 DEF Told
<1>6. \A next : Carriage(next)'
  BY <1>1 DEF Carriage, Submits, Travels
<1>7. Laid(Told(out), from)'
  BY <1>1, <1>3, <1>5, <1>6 DEF Laid
<1>8. line # {} => lineOpen
  BY PaperReady
<1> QED BY <1>1, <1>4, <1>7, <1>8 DEF PaperOK

\* A form feed on a closed line.
LEMMA PaperFeed ==
  ASSUME TypeOK, PageInv, PaperOK, pc = "ready", out \in Seq(Tokens),
         NEW t \in Tokens, LineEnding(t), out' = Append(out, t),
         pc' = "eject", ~lineOpen, UNCHANGED line
  PROVE  PaperOK'
<1>1. line = {}
  BY PaperReady
<1>2. Row(Append(out, t)) = <<>>
  BY RowNext DEF RowAfter
<1>3. ~Closing' /\ Told(out)' = out'
  BY DEF Closing, Told, Returning, Travels
<1>4. Placed(<<>>, 0) = {} /\ NextColumn(<<>>, 0) = 0
  BY PlacedNone, ColumnNone
<1>5. Carriage(0)'
  BY DEF Carriage, Submits, Travels
<1>6. Laid(Told(out), 0)'
  BY <1>1, <1>2, <1>3, <1>4, <1>5 DEF Laid
<1> QED BY <1>1, <1>2, <1>3, <1>6 DEF PaperOK

LEMMA PaperSame ==
  ASSUME PaperOK, UNCHANGED <<pc, x, regs, ff, line, lineOpen, out>>
  PROVE  PaperOK'
BY DEF PaperOK, Closing, Told, Laid, Carriage

\* A name moves nothing.
LEMMA PaperName ==
  ASSUME TypeOK, PageInv, PaperOK, pc = "ready", out \in Seq(Tokens),
         NEW t \in Tokens, t.op = "filename", out' = Append(out, t), UNCHANGED vars
  PROVE  PaperOK'
<1>1. PICK from \in Int : Laid(out, from)
  BY PaperReady
<1>2. /\ pc' = pc /\ x' = x /\ regs' = regs /\ ff' = ff /\ line' = line
      /\ lineOpen' = lineOpen
  BY DEF vars
<1>3. ~Closing' /\ Told(out)' = out' /\ ff = "no"
  BY <1>2, PaperReady DEF Closing, Told
<1>4. Row(Append(out, t)) = Row(out)
  BY RowNext DEF RowAfter, LineEnding
<1>5. from # 0 => Unended(Append(out, t))
  <2>1. from # 0 => Unended(out)
    BY <1>1 DEF Laid
  <2> QED BY <2>1 DEF Unended, LineEnding
<1>6. \A next : next = NextColumn(Row(out), from) => Carriage(next)'
  BY <1>1, <1>2 DEF Laid, Carriage
<1>7. Laid(Told(out), from)'
  BY <1>1, <1>2, <1>3, <1>4, <1>5, <1>6 DEF Laid
<1>8. line # {} => lineOpen
  BY PaperReady
<1> QED BY <1>2, <1>3, <1>7, <1>8 DEF PaperOK

LEMMA PaperToken ==
  ASSUME IInv, Loaded, out \in Seq(Tokens), PaperOK, state' # "fault", ~dark', OnToken
  PROVE  PaperOK'
<1> DEFINE t == Head(todo)
<1>1. /\ pc = "ready" /\ motors /\ out' = Append(out, t)
      /\ \/ t.op = "cell"     /\ OnCell(t.arg)
         \/ t.op = "newline"  /\ OnNewline
         \/ t.op = "formfeed" /\ OnFormFeed
         \/ t.op = "filename" /\ OnFilename(t.arg)
         \/ t.op = "overflow" /\ OnOverflow
  BY DEF OnToken
<1>2. t \in Tokens
  BY PlainTokens, TokenTaken DEF Loaded, OnToken
<1>3. TypeOK /\ PageInv /\ ~Refuse /\ ff = "no"
  BY <1>1 DEF IInv, Refuse, EnterFault, PageInv
<1> HIDE DEF t
<1>4. CASE t.op = "cell" /\ OnCell(t.arg)
  BY <1>1, <1>2, <1>3, <1>4, PaperCell DEF OnCell
<1>5. CASE t.op = "newline" /\ OnNewline
  <2>1. LineEnding(t)
    BY <1>5 DEF LineEnding
  <2>2. StartNewline /\ ff' = ff /\ UNCHANGED <<pos, line>>
    BY <1>1, <1>3, <1>5 DEF OnNewline, SubmitNewline, hist
  <2> QED BY <1>1, <1>2, <1>3, <2>1, <2>2, PaperEnd
<1>6. CASE t.op = "formfeed" /\ OnFormFeed
  <2>1. LineEnding(t)
    BY <1>6 DEF LineEnding
  <2>2. /\ ff' = "close" /\ UNCHANGED <<pos, line>>
        /\ IF lineOpen THEN StartNewline ELSE pc' = "eject"
    BY <1>1, <1>3, <1>6 DEF OnFormFeed, SubmitFormFeed, hist
  <2>3. CASE lineOpen
    BY <1>1, <1>2, <1>3, <2>1, <2>2, <2>3, PaperEnd
  <2>4. CASE ~lineOpen
    BY <1>1, <1>2, <1>3, <2>1, <2>2, <2>4, PaperFeed
  <2> QED BY <2>3, <2>4
<1>7. CASE t.op = "filename" /\ OnFilename(t.arg)
  BY <1>1, <1>2, <1>3, <1>7, PaperName DEF OnFilename
<1>8. CASE OnOverflow
  BY <1>8 DEF OnOverflow, EnterFault
<1> QED BY <1>1, <1>4, <1>5, <1>6, <1>7, <1>8

LEMMA PaperDrains ==
  ASSUME PageInv, PaperOK, StartDrain, out \in Seq(Tokens) PROVE PaperOK'
<1>1. /\ pc = "ready" /\ pc' = "drain" /\ out' = out /\ UNCHANGED <<x, regs, ff, line, lineOpen>>
  BY DEF StartDrain, Idle, pos, hist
<1>2. ff = "no" /\ (line # {} => lineOpen)
  BY <1>1, PaperReady
<1>3. Kept
  BY <1>1, <1>2 DEF Kept, Carriage, Closing, Returning, Travels, Submits
<1> QED BY <1>1, <1>3, KeptOnward

LEMMA PaperCleared ==
  ASSUME TypeOK, PageInv, NEW enable, Cleared(enable) PROVE PaperOK'
<1>1. /\ pc = "ready" /\ pc' = pc /\ x' = x /\ ff' = ff /\ line' = {} /\ out' = <<>>
      /\ x \in Int /\ ff = "no"
  BY DEF Cleared, LeaveFault, flow, PageInv, TypeOK
<1>2. ~Closing' /\ Told(out)' = <<>>
  BY <1>1 DEF Closing, Told, Returning, Travels
<1>3. Placed(<<>>, x) = {} /\ NextColumn(<<>>, x) = x /\ Row(<<>>) = <<>>
  BY <1>1, PlacedNone, ColumnNone, RowNothing
<1>4. PICK from : from = x /\ from \in Int
  BY <1>1
<1>5. Carriage(from)'
  BY <1>1, <1>4 DEF Carriage, Submits, Travels
<1>6. Laid(Told(out), from)'
  BY <1>1, <1>2, <1>3, <1>4, <1>5 DEF Laid, Unended
<1> QED BY <1>1, <1>2, <1>3, <1>4, <1>6 DEF PaperOK

LEMMA PaperStep ==
  ASSUME IInv, Loaded, FeedInv, Narrow(FaultCauses), PaperInv, [FeedNext]_fvars
  PROVE  PaperInv'
<1> SUFFICES ASSUME state' # "fault", ~dark' PROVE PaperOK'
  BY DEF PaperInv
<1>1. TypeOK /\ PageInv
  BY DEF IInv
<1>2. ASSUME state # "fault", ~dark PROVE PaperOK /\ out \in Seq(Tokens)
  BY <1>2 DEF PaperInv, FeedInv, TextInv
<1>3. ASSUME UNCHANGED <<state, pc, x, regs, ff, line, lineOpen, out, dark>> PROVE PaperOK'
  BY <1>2, <1>3, PaperSame
<1>4. ASSUME NEW byte \in Alphabet, FeedCall(byte) PROVE PaperOK'
  BY <1>2, <1>4, PaperSame DEF FeedCall, pos, flow, hist
<1>5. ASSUME NEW byte \in Alphabet, NextByte(byte) PROVE PaperOK'
  BY <1>3, <1>5 DEF NextByte, vars
<1>6. CASE FeedReturns \/ FinishCall \/ DropTokens \/ UNCHANGED fvars
  BY <1>3, <1>6 DEF FeedReturns, FinishCall, DropTokens, vars, fvars
<1>7. CASE StartDrain
  <2>1. state # "fault" /\ ~dark
    BY <1>7 DEF StartDrain, ctl
  <2> QED BY <1>1, <1>2, <1>7, <2>1, PaperDrains
<1>8. CASE OnToken
  <2>1. state # "fault" /\ ~dark
    BY <1>8 DEF OnToken
  <2> QED BY <1>2, <1>8, <2>1, PaperToken
<1>9. CASE Running
  <2>1. Step /\ out' = out /\ dark' = dark
    BY <1>9 DEF Running
  <2>2. state # "fault"
    BY <1>9, RunningIs DEF FeedInv
  <2> QED BY <1>1, <1>2, <2>1, <2>2, PaperRuns
<1>10. ASSUME NEW r \in Reasons, Faulted(r) PROVE PaperOK'
  BY <1>10 DEF Faulted, Fault, EnterFault
<1>11. ASSUME NEW b \in BOOLEAN, Cleared(b) PROVE PaperOK'
  BY <1>1, <1>11, PaperCleared
<1>12. ASSUME NEW b \in BOOLEAN, Armed(b) \/ Paper(b) PROVE PaperOK'
  BY <1>3, <1>12 DEF Armed, Paper, SetArmed, SetPaperPresent, ctl, pos, flow, hist
<1> QED
  BY <1>4, <1>5, <1>6, <1>7, <1>8, <1>9, <1>10, <1>11, <1>12 DEF FeedNext

LEMMA PaperBegins == FeedInit => PaperInv
<1> SUFFICES ASSUME FeedInit PROVE PaperOK
  BY DEF PaperInv
<1>1. /\ pc = "ready" /\ x = 0 /\ ff = "no" /\ line = {} /\ out = <<>>
  BY DEF FeedInit, Init
<1>2. ~Closing /\ Told(out) = <<>>
  BY <1>1 DEF Closing, Told, Returning, Travels
<1>3. Placed(<<>>, 0) = {} /\ NextColumn(<<>>, 0) = 0 /\ Row(<<>>) = <<>>
  BY PlacedNone, ColumnNone, RowNothing
<1>4. Laid(Told(out), 0)
  BY <1>1, <1>2, <1>3 DEF Laid, Carriage, Submits, Travels
<1> QED BY <1>1, <1>2, <1>4 DEF PaperOK

\* What the invariant says once the tokens of a byte are acted upon.
LEMMA PaperTold ==
  ASSUME IInv, FeedInv, PaperInv PROVE TextOnPaper
<1> SUFFICES ASSUME ~dark, state # "fault", todo = <<>>
             PROVE  LET told == Told(Meant(sent))
                    IN \E from \in {0} \cup {e.at : e \in line} :
                         /\ line = Placed(Row(told), from)
                         /\ from # 0 => \A i \in DOMAIN told : ~LineEnding(told[i])
                         /\ pc \in Returning =>
                              marks = UNION {CellMarks(e) : e \in Placed(Row(told), from)}
  BY DEF TextOnPaper
<1>1. out \in Seq(Tokens) /\ out \o todo = Meant(sent)
  BY DEF FeedInv, TextInv
<1>2. Meant(sent) = out
  BY <1>1
<1> DEFINE told == Told(out)
           row == Row(told)
<1>3. PICK from \in Int : Laid(told, from)
  BY DEF PaperInv, PaperOK
<1>4. row \in Seq(CellBytes)
  BY <1>1, ToldTyped, RowType
<1>5. line = Placed(row, from) /\ (from # 0 => Unended(told))
  BY <1>3 DEF Laid
<1>6. pc \in Returning => marks = UNION {CellMarks(e) : e \in line}
  BY DEF IInv, LineComplete, Expected, Returning
<1> HIDE DEF told, row
<1>7. CASE row = <<>>
  <2>1. line = {} /\ Placed(row, 0) = {}
    BY <1>5, <1>7, PlacedNone
  <2>2. line = Placed(row, 0) /\ 0 \in {0} \cup {e.at : e \in line}
    BY <2>1
  <2> QED BY <1>2, <1>6, <2>2 DEF told, row
<1>8. CASE row # <<>>
  <2> DEFINE first == [at |-> from + (1 - 1) * CellPitch, cell |-> DotsOf[row[1]]]
  <2>1. 1 \in DOMAIN row
    BY <1>4, <1>8
  <2>2. first \in line
    BY <1>5, <2>1 DEF Placed
  <2>3. first.at = from
    <3>1. CellPitch \in Nat /\ from + 0 * CellPitch = from
      BY <1>3, GeometryAssumption
    <3> QED BY <3>1
  <2> HIDE DEF first
  <2>4. from \in {0} \cup {e.at : e \in line}
    BY <2>2, <2>3
  <2> QED BY <1>2, <1>5, <1>6, <2>4 DEF told, row, Unended
<1> QED BY <1>7, <1>8

\* From the bytes to the paper: while there is power and no fault, the open line
\* is the text after its last line end, cell by cell and column by column, and
\* the paper is moved when just its dots are on it.
THEOREM TextReachesPaper ==
  ASSUME FFEndsCall PROVE FeedSpec => []TextOnPaper
<1>1. CASE RowBOffset <= CellPitch
  <2>1. FeedInit => FeedInv /\ Narrow(FaultCauses) /\ PaperInv
    <3>1. FeedInit => Narrow(FaultCauses)
      BY DEF FeedInit, Init, Narrow
    <3> QED BY <3>1, FeedBegins, PaperBegins
  <2>2. /\ IInv /\ Loaded /\ FeedInv /\ Narrow(FaultCauses) /\ PaperInv /\ [FeedNext]_fvars
        => (FeedInv /\ Narrow(FaultCauses) /\ PaperInv)'
    <3> SUFFICES ASSUME IInv, Loaded, FeedInv, Narrow(FaultCauses), PaperInv, [FeedNext]_fvars
                 PROVE  FeedInv' /\ Narrow(FaultCauses)' /\ PaperInv'
      OBVIOUS
    <3>1. [Move]_vars
      BY FeedMaps DEF IInv
    <3>2. [Usual]_vars \/ ("overflow" \in FaultCauses /\ Overrun)
      BY <3>1 DEF Move, FaultCauses
    <3>3. Narrow(FaultCauses)'
      BY <1>1, <3>2, NarrowStep, ReasonsAssumption
    <3> QED BY <3>3, FeedStep, PaperStep
  <2>3. IInv /\ FeedInv /\ PaperInv => TextOnPaper
    BY PaperTold
  <2> QED BY <2>1, <2>2, <2>3, FeedWellFormed, PTL DEF FeedSpec
<1>2. CASE ~(RowBOffset <= CellPitch)
  <2>1. TextOnPaper
    BY <1>2 DEF TextOnPaper
  <2> QED BY <2>1, PTL
<1> QED BY <1>1, <1>2

===============================================================================
