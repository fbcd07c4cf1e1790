---------------------------- MODULE PiMotionProofs ----------------------------
(********************************************************************************)
(* Where the Pi's dots come to lie, for all documents, pitches and bounds.      *)
(* As long as the code is right about the positions (steady), what is punched   *)
(* and what the strikes under way still owe is what was asked for: Row B never  *)
(* waits longer than its own cell, because the offset is shorter than the pitch.*)
(* And which jobs of the cable a key may still emboss.                          *)
(********************************************************************************)
EXTENDS PiMotion, SequenceTheorems, TLAPS

Pins == {s \in SUBSET (1..6) : s # {}}
Strikes == [pins : Pins, at : Nat]

\* The dots of strikes ss on line p.
Dots(p, s) == {p} \X {s.at} \X s.pins
Owed(p, ss) == UNION {Dots(p, ss[i]) : i \in 1..Len(ss)}

Types ==
  /\ x \in Nat /\ y \in Nat /\ lastX \in Nat /\ feeds \in Int /\ failures \in Nat
  /\ paper \in Int /\ carriage \in Int /\ steady \in BOOLEAN
  /\ strikes \in Seq(Strikes)

\* While the code is right about the positions: what it takes them for, and the dots.
Places ==
  /\ haveX => carriage = lastX
  /\ paper = y
  /\ punched \subseteq wanted /\ Owed(paper, strikes) \subseteq wanted
  /\ failures = 0 => wanted \subseteq punched \cup Owed(paper, strikes)

\* Nothing waits in the delay line between two calls, and a retreat has no strikes.
Core ==
  /\ Types /\ delayed = <<>> /\ (feeds < 0 => strikes = <<>>)
  /\ steady => Places

\* The gate is closed, and the telemetry read, only when nothing is under way.
Calls == Blocked \/ ui = "sync" => Idle

MotionInv == Core /\ Calls

-----------------------------------------------------------------------------
(* Strikes                                                                 *)

\* No strike owes nothing.
LEMMA OwedNothing == \A p : Owed(p, <<>>) = {}
BY DEF Owed

\* The dots of the first strike, and those of the others.
LEMMA OwedHead ==
  ASSUME NEW p, NEW ss \in Seq(Strikes), ss # <<>>
  PROVE  Owed(p, ss) = Dots(p, Head(ss)) \cup Owed(p, Tail(ss))
<1>1. Head(ss) = ss[1] /\ Len(Tail(ss)) = Len(ss) - 1 /\ Len(ss) \in Nat \ {0}
  OBVIOUS
<1>2. \A i \in 1..Len(Tail(ss)) : Tail(ss)[i] = ss[i + 1]
  OBVIOUS
<1>3. ASSUME NEW m \in Owed(p, ss) PROVE m \in Dots(p, Head(ss)) \cup Owed(p, Tail(ss))
  <2>1. PICK i \in 1..Len(ss) : m \in Dots(p, ss[i])
    BY <1>3 DEF Owed
  <2>2. CASE i = 1
    BY <1>1, <2>1, <2>2
  <2>3. CASE i # 1
    <3>1. i - 1 \in 1..Len(Tail(ss)) /\ Tail(ss)[i - 1] = ss[i]
      BY <1>1, <1>2, <2>3
    <3>2. QED
      BY <2>1, <3>1 DEF Owed
  <2>4. QED
    BY <2>2, <2>3
<1>4. Dots(p, Head(ss)) \subseteq Owed(p, ss)
  BY <1>1 DEF Owed
<1>5. ASSUME NEW m \in Owed(p, Tail(ss)) PROVE m \in Owed(p, ss)
  <2>1. PICK i \in 1..Len(Tail(ss)) : m \in Dots(p, Tail(ss)[i])
    BY <1>5 DEF Owed
  <2>2. i + 1 \in 1..Len(ss) /\ m \in Dots(p, ss[i + 1])
    BY <1>1, <1>2, <2>1
  <2>3. QED
    BY <2>2 DEF Owed
<1>6. QED
  BY <1>3, <1>4, <1>5

\* One strike owes its own dots.
LEMMA OwedOne == ASSUME NEW p, NEW s PROVE Owed(p, <<s>>) = Dots(p, s)
BY DEF Owed

\* So do two of them: Row A of a cell and its Row B.
LEMMA OwedTwo == ASSUME NEW p, NEW s, NEW t PROVE Owed(p, <<s, t>>) = Dots(p, s) \cup Dots(p, t)
<1>1. 1..Len(<<s, t>>) = {1, 2}
  OBVIOUS
<1>2. QED
  BY <1>1 DEF Owed

\* The strikes of a cell follow one another.
LEMMA TwoStrikes ==
  ASSUME NEW s \in Strikes, NEW t \in Strikes PROVE <<s>> \o <<t>> = <<s, t>>
<1>1. <<s>> \in Seq(Strikes) /\ <<t>> \in Seq(Strikes) /\ <<s, t>> \in Seq(Strikes)
  OBVIOUS
<1>2. Len(<<s>> \o <<t>>) = 2 /\ <<s>> \o <<t>> \in Seq(Strikes)
  BY <1>1
<1>3. \A i \in 1..2 : (<<s>> \o <<t>>)[i] = <<s, t>>[i]
  BY <1>1
<1>4. QED
  BY <1>1, <1>2, <1>3, SeqEqual

\* EMBOSS_DOT takes the smallest dot of a strike, which there is.
LEMMA FirstDotIsOne == ASSUME NEW pins \in Pins PROVE FirstDot(pins) \in pins
<1>1. \E d \in pins : \A e \in pins : d <= e
  <2>1. \A d \in pins : d = 1 \/ d = 2 \/ d = 3 \/ d = 4 \/ d = 5 \/ d = 6
    BY DEF Pins
  <2>2. PICK d : d \in pins
    BY DEF Pins
  <2>3. CASE 1 \in pins
    BY <2>1, <2>3
  <2>4. CASE 1 \notin pins /\ 2 \in pins
    BY <2>1, <2>4
  <2>5. CASE 1 \notin pins /\ 2 \notin pins /\ 3 \in pins
    BY <2>1, <2>5
  <2>6. CASE \A e \in pins : e = 4 \/ e = 5 \/ e = 6
    <3>1. CASE 4 \in pins
      BY <2>6, <3>1
    <3>2. CASE 4 \notin pins /\ 5 \in pins
      BY <2>6, <3>2
    <3>3. CASE 4 \notin pins /\ 5 \notin pins
      BY <2>2, <2>6, <3>3
    <3>4. QED
      BY <3>1, <3>2, <3>3
  <2>7. QED
    BY <2>1, <2>3, <2>4, <2>5, <2>6
<1>2. QED
  BY <1>1 DEF FirstDot

\* drain_due takes an entry that is due, and finds nothing in an empty line.
LEMMA TravelEmpty ==
  ASSUME NEW from, NEW delta
  PROVE  /\ Travel(<<>>, from, delta).due = <<>> /\ Travel(<<>>, from, delta).rest = <<>>
         /\ Travel(<<>>, from, delta).at = from + delta
<1> DEFINE n == DueCount(<<>>, from + delta)
<1>1. n = 0
  BY DEF DueCount
<1> HIDE DEF n
<1>2. SubSeq(<<>>, 1, n) = <<>> /\ SubSeq(<<>>, n + 1, Len(<<>>)) = <<>>
  BY <1>1
<1>3. QED
  BY <1>2 DEF Travel, n

\* An entry that is due by the end of the travel leaves the line.
LEMMA TravelOne ==
  ASSUME NEW e \in Strikes, NEW from \in Int, NEW delta \in Int, e.at <= from + delta
  PROVE  /\ Travel(<<e>>, from, delta).due = <<e>> /\ Travel(<<e>>, from, delta).rest = <<>>
         /\ Travel(<<e>>, from, delta).at = from + delta
<1> DEFINE n == DueCount(<<e>>, from + delta)
<1>1. n = 1
  <2>1. e.at \in Int /\ ~(e.at > from + delta)
    BY DEF Strikes
  <2>2. \A k \in 0..1 : (/\ \A i \in 1..k : <<e>>[i].at <= from + delta
                         /\ k < 1 => <<e>>[k + 1].at > from + delta) <=> k = 1
    BY <2>1
  <2>3. QED
    BY <2>2 DEF DueCount
<1> HIDE DEF n
<1>2. SubSeq(<<e>>, 1, n) = <<e>> /\ SubSeq(<<e>>, n + 1, Len(<<e>>)) = <<>>
  <2>1. <<e>> \in Seq(Strikes) /\ Len(<<e>>) = 1
    OBVIOUS
  <2>2. SubSeq(<<e>>, 1, 1) = <<e>>
    BY <2>1, SubSeqFull
  <2>3. SubSeq(<<e>>, 2, 1) = <<>>
    BY <2>1, SubSeqEmpty
  <2>4. QED
    BY <1>1, <2>1, <2>2, <2>3
<1>3. QED
  BY <1>2 DEF Travel, n

-----------------------------------------------------------------------------
(* The motion path                                                         *)

\* A cell: what it adds to the dots asked for is what its strikes owe, because its
\* Row B is due before the carriage leaves the cell.
LEMMA EmbossCellKeeps == ASSUME Core, EmbossCell PROVE Core'
<1> DEFINE dots == Head(doc).dots
           A == dots \cap RowADots
           B == dots \cap RowBDots
           a == [pins |-> A, at |-> x]
           b == [pins |-> B, at |-> x + RowBOffset]
           t == Travel(delayed \o RowB(dots, x), x, CellPitch)
           new == ({paper} \X {x} \X A) \cup ({paper} \X {x + RowBOffset} \X B)
<1>1. /\ strikes = <<>> /\ feeds = 0 /\ delayed = <<>> /\ x \in Nat
      /\ strikes' = RowA(dots, x) \o t.due /\ delayed' = t.rest /\ x' = t.at
      /\ wanted' = wanted \cup new
      /\ UNCHANGED <<feeds, y, haveX, lastX, carriage, paper, punched, steady, failures>>
  BY DEF EmbossCell, Core, Types, world
<1>2. /\ RowBOffset \in Nat /\ CellPitch \in Nat /\ RowBOffset < CellPitch
      /\ RowBOffset \in Int /\ CellPitch \in Int
  BY PitchAssumption
<1>3. (A # {} => a \in Strikes) /\ (B # {} => b \in Strikes)
  <2>1. A \in SUBSET (1..6) /\ B \in SUBSET (1..6)
    BY DotsAssumption
  <2>2. x \in Nat /\ x + RowBOffset \in Nat
    BY <1>1, <1>2
  <2> HIDE DEF A, B
  <2>3. (A # {} => A \in Pins) /\ (B # {} => B \in Pins)
    BY <2>1 DEF Pins
  <2>4. QED
    BY <2>2, <2>3 DEF Strikes
<1> HIDE DEF dots
<1>4. /\ RowA(dots, x) = IF A = {} THEN <<>> ELSE <<a>>
      /\ RowB(dots, x) = IF B = {} THEN <<>> ELSE <<b>>
  BY DEF RowA, RowB
<1> HIDE DEF A, B
<1>5. /\ t.due = RowB(dots, x) /\ t.rest = <<>> /\ t.at = x + CellPitch
  <2>1. CASE B = {}
    <3>1. delayed \o RowB(dots, x) = <<>> /\ RowB(dots, x) = <<>>
      BY <1>1, <1>4, <2>1
    <3>2. QED
      BY <3>1, TravelEmpty
  <2>2. CASE B # {}
    <3>1. b.at <= x + CellPitch /\ b \in Strikes
      BY <1>1, <1>2, <1>3, <2>2
    <3> HIDE DEF b
    <3>2. delayed \o RowB(dots, x) = <<b>> /\ RowB(dots, x) = <<b>>
      BY <1>1, <1>4, <2>2
    <3>3. QED
      BY <1>1, <1>2, <3>1, <3>2, TravelOne
  <2>3. QED
    BY <2>1, <2>2
<1>6. strikes' \in Seq(Strikes) /\ Owed(paper, strikes') = new
  <2> HIDE DEF t
  <2>1. CASE A = {} /\ B = {}
    BY <1>1, <1>4, <1>5, <2>1, OwedNothing
  <2>2. CASE A # {} /\ B = {}
    <3>1. new = Dots(paper, a)
      BY <2>2 DEF Dots
    <3> HIDE DEF a, new
    <3>2. strikes' = <<a>> /\ a \in Strikes
      BY <1>1, <1>3, <1>4, <1>5, <2>2
    <3>3. QED
      BY <3>1, <3>2, OwedOne
  <2>3. CASE A = {} /\ B # {}
    <3>1. new = Dots(paper, b)
      BY <2>3 DEF Dots
    <3> HIDE DEF b, new
    <3>2. strikes' = <<b>> /\ b \in Strikes
      BY <1>1, <1>3, <1>4, <1>5, <2>3
    <3>3. QED
      BY <3>1, <3>2, OwedOne
  <2>4. CASE A # {} /\ B # {}
    <3>1. new = Dots(paper, a) \cup Dots(paper, b)
      BY DEF Dots
    <3> HIDE DEF a, b, new
    <3>2. strikes' = <<a, b>> /\ a \in Strikes /\ b \in Strikes
      <4>1. a \in Strikes /\ b \in Strikes
        BY <1>3, <2>4
      <4>2. <<a>> \o <<b>> = <<a, b>>
        BY <4>1, TwoStrikes
      <4>3. QED
        BY <1>1, <1>4, <1>5, <2>4, <4>1, <4>2
    <3>3. QED
      BY <3>1, <3>2, OwedTwo
  <2>5. QED
    BY <2>1, <2>2, <2>3, <2>4
<1> HIDE DEF new, t
<1>7. Types'
  BY <1>1, <1>2, <1>5, <1>6 DEF Core, Types
<1>8. ASSUME steady' PROVE Places'
  <2>1. Owed(paper, <<>>) = {}
    BY OwedNothing
  <2>2. QED
    BY <1>1, <1>6, <1>8, <2>1 DEF Core, Places
<1>9. QED
  BY <1>1, <1>5, <1>7, <1>8 DEF Core

\* A feed begins with nothing due, since nothing waits.
LEMMA StartFeedKeeps ==
  ASSUME Core, strikes = <<>>, NEW n \in Int, StartFeed(n),
         UNCHANGED <<y, haveX, lastX, world, marks>>
  PROVE  Core'
<1>1. /\ feeds' = n /\ delayed = <<>> /\ x \in Nat /\ RowBOffset \in Nat
      /\ IF n > 0 THEN /\ strikes' = Travel(<<>>, x, RowBOffset).due
                       /\ delayed' = Travel(<<>>, x, RowBOffset).rest
                       /\ x' = Travel(<<>>, x, RowBOffset).at
                  ELSE UNCHANGED <<strikes, delayed, x>>
  BY PitchAssumption DEF StartFeed, Core, Types
<1>2. strikes' = <<>> /\ delayed' = <<>> /\ x' \in Nat
  BY <1>1, TravelEmpty
<1>3. QED
  BY <1>1, <1>2 DEF Core, Types, Places, world, marks

\* A newline or a form feed: a feed of as many lines as are left.
LEMMA MarkKeeps == ASSUME Core, Mark PROVE Core'
<1>1. FeedsFor(Head(doc)) \in Int
  <2>1. IntoPage \in Int
    BY PitchAssumption DEF Core, Types, IntoPage
  <2>2. QED
    BY <2>1, PitchAssumption DEF FeedsFor
<1>2. QED
  BY <1>1, StartFeedKeeps DEF Mark

\* A paper command, which a closed gate refuses.
LEMMA FeedKeeps == ASSUME Core, Idle, NEW n \in Int, Feed(n) PROVE Core'
<1>1. strikes = <<>> /\ UNCHANGED <<y, haveX, lastX, world, marks>>
  BY DEF Idle, Feed
<1>2. CASE Blocked
  BY <1>1, <1>2 DEF Feed, Core, Types, Places, world, marks
<1>3. CASE ~Blocked
  BY <1>1, <1>3, StartFeedKeeps DEF Feed
<1>4. QED
  BY <1>2, <1>3

\* What is given up owes nothing: only tokens and feeds are.
LEMMA DroppedKeeps == ASSUME Core, Dropped PROVE Core'
BY DEF Dropped, Core, Types, Places, belief, world, marks

\* A script counts as failed once at least.
LEMMA FailedCounts ==
  ASSUME failures \in Nat, failures' = IF failures < MaxFailures THEN failures + 1 ELSE failures
  PROVE  failures' \in Nat \ {0}
BY FailuresAssumption

\* The strike in hand, and what it and the others owe.
LEMMA HeadTail ==
  ASSUME Core, strikes # <<>>
  PROVE  /\ Head(strikes) \in Strikes /\ Tail(strikes) \in Seq(Strikes)
         /\ Head(strikes).at \in Nat /\ Head(strikes).pins \in Pins
         /\ Owed(paper, strikes) = Dots(paper, Head(strikes)) \cup Owed(paper, Tail(strikes))
<1>1. strikes \in Seq(Strikes)
  BY DEF Core, Types
<1>2. Head(strikes) \in Strikes /\ Tail(strikes) \in Seq(Strikes)
  BY <1>1
<1>3. QED
  BY <1>1, <1>2, OwedHead DEF Strikes

\* The first strike tells where the carriage is, rightly or not.
LEMMA FirstStrikeKeeps == ASSUME Core, FirstStrike PROVE Core'
BY HeadTail DEF FirstStrike, Core, Types, Places, job, world

\* The move ends at the strike, because it began where the last one was made.
LEMMA MoveXKeeps == ASSUME Core, MoveX PROVE Core'
<1>1. /\ strikes # <<>> /\ haveX
      /\ UNCHANGED <<feeds, delayed, x, y, haveX, wanted>>
      /\ failures \in Nat /\ carriage \in Int /\ lastX \in Nat
  BY DEF MoveX, Core, Types
<1>2. /\ Tail(strikes) \in Seq(Strikes) /\ Head(strikes).at \in Nat
      /\ Owed(paper, Tail(strikes)) \subseteq Owed(paper, strikes)
  BY <1>1, HeadTail
<1>3. CASE /\ lastX' = Head(strikes).at /\ UNCHANGED <<strikes, failures>>
           /\ \/ /\ carriage' = carriage + Head(strikes).at - lastX
                 /\ UNCHANGED <<paper, punched>> /\ steady' = (steady /\ TRUE)
              \/ UNCHANGED <<carriage, paper, punched>> /\ steady' = FALSE
  <2>1. carriage' \in Int /\ lastX' \in Nat /\ steady' \in BOOLEAN /\ paper' = paper
    <3>1. steady' \in BOOLEAN
      BY <1>3
    <3>2. carriage' \in Int /\ lastX' \in Nat /\ paper' = paper
      BY <1>1, <1>2, <1>3
    <3>3. QED
      BY <3>1, <3>2
  <2>2. Types'
    BY <1>1, <1>3, <2>1 DEF Core, Types
  <2>3. ASSUME steady' PROVE Places'
    <3>1. steady /\ Places /\ carriage = lastX /\ UNCHANGED punched
      BY <1>1, <1>3, <2>3 DEF Core, Places
    <3>2. carriage' = lastX'
      BY <1>1, <1>2, <1>3, <2>3, <3>1
    <3>3. QED
      BY <1>1, <1>3, <2>1, <3>1, <3>2 DEF Places
  <2>4. QED
    BY <1>1, <1>3, <2>2, <2>3 DEF Core
<1>4. CASE /\ strikes' = Tail(strikes) /\ UNCHANGED lastX
           /\ failures' = IF failures < MaxFailures THEN failures + 1 ELSE failures
           /\ \/ UNCHANGED <<carriage, paper, punched, steady>>
              \/ /\ carriage' = carriage + Head(strikes).at - lastX
                 /\ UNCHANGED <<paper, punched>> /\ steady' = FALSE
  <2>1. failures' \in Nat /\ failures' # 0
    BY <1>1, <1>4, FailedCounts
  <2>2. carriage' \in Int /\ steady' \in BOOLEAN /\ paper' = paper
    <3>1. steady' \in BOOLEAN
      BY <1>4 DEF Core, Types
    <3>2. carriage' \in Int /\ paper' = paper
      BY <1>1, <1>2, <1>4
    <3>3. QED
      BY <3>1, <3>2
  <2>3. Types'
    BY <1>1, <1>2, <1>4, <2>1, <2>2 DEF Core, Types
  <2>4. ASSUME steady' PROVE Places'
    BY <1>1, <1>2, <1>4, <2>1, <2>2, <2>4 DEF Core, Places
  <2>5. QED
    BY <1>1, <1>4, <2>3, <2>4 DEF Core
<1>5. QED
  BY <1>3, <1>4 DEF MoveX, Scripted

\* What a strike owes once its dot d is punched.
After(ss, d) ==
  IF Head(ss).pins = {d} THEN Tail(ss)
  ELSE <<[Head(ss) EXCEPT !.pins = @ \ {d}]>> \o Tail(ss)

\* A dot punched is owed no more, and the other dots still are.
LEMMA PunchOwes ==
  ASSUME NEW p, NEW ss \in Seq(Strikes), ss # <<>>, NEW d \in Head(ss).pins
  PROVE  /\ After(ss, d) \in Seq(Strikes)
         /\ Owed(p, ss) = Owed(p, After(ss, d)) \cup {<<p, Head(ss).at, d>>}
<1> DEFINE s == Head(ss)
           rest == s.pins \ {d}
           t == [s EXCEPT !.pins = rest]
<1>1. /\ s \in Strikes /\ Tail(ss) \in Seq(Strikes) /\ s.pins \in Pins /\ d \in s.pins
      /\ Owed(p, ss) = Dots(p, s) \cup Owed(p, Tail(ss))
  <2>1. s \in Strikes /\ Tail(ss) \in Seq(Strikes)
    OBVIOUS
  <2>2. Owed(p, ss) = Dots(p, s) \cup Owed(p, Tail(ss))
    BY OwedHead
  <2>3. QED
    BY <2>1, <2>2 DEF Strikes
<1>2. After(ss, d) = IF s.pins = {d} THEN Tail(ss) ELSE <<t>> \o Tail(ss)
  BY DEF After
<1> HIDE DEF s
<1>3. CASE s.pins = {d}
  <2>1. Dots(p, s) = {<<p, s.at, d>>}
    BY <1>3 DEF Dots
  <2>2. QED
    BY <1>1, <1>2, <1>3, <2>1 DEF s
<1>4. CASE s.pins # {d}
  <2>1. rest \in Pins
    BY <1>1, <1>4 DEF Pins
  <2>2. t \in Strikes /\ t.pins = rest /\ t.at = s.at
    BY <1>1, <2>1 DEF Strikes
  <2>3. Dots(p, s) = Dots(p, t) \cup {<<p, s.at, d>>}
    BY <1>1, <2>2 DEF Dots
  <2> HIDE DEF t
  <2>4. /\ <<t>> \o Tail(ss) \in Seq(Strikes) /\ <<t>> \o Tail(ss) # <<>>
        /\ Head(<<t>> \o Tail(ss)) = t /\ Tail(<<t>> \o Tail(ss)) = Tail(ss)
    <3>1. <<t>> \in Seq(Strikes) /\ Len(<<t>>) = 1 /\ <<t>>[1] = t
      BY <2>2
    <3> DEFINE u == <<t>> \o Tail(ss)
    <3>2. /\ u \in Seq(Strikes) /\ Len(u) = 1 + Len(Tail(ss)) /\ u[1] = t
          /\ \A i \in 1..Len(Tail(ss)) : u[i + 1] = Tail(ss)[i]
      BY <1>1, <3>1, ConcatProperties
    <3> HIDE DEF u
    <3>3. u # <<>> /\ Head(u) = t
      BY <1>1, <3>2
    <3>4. /\ Tail(u) \in Seq(Strikes) /\ Len(Tail(u)) = Len(Tail(ss))
          /\ \A i \in 1..Len(Tail(u)) : Tail(u)[i] = Tail(ss)[i]
      BY <1>1, <3>2, <3>3
    <3>5. Tail(u) = Tail(ss)
      BY <1>1, <3>4, SeqEqual
    <3>6. QED
      BY <3>2, <3>3, <3>5 DEF u
  <2>5. Owed(p, <<t>> \o Tail(ss)) = Dots(p, t) \cup Owed(p, Tail(ss))
    BY <2>4, OwedHead, ZenonT(30)
  <2>6. QED
    BY <1>1, <1>2, <1>4, <2>3, <2>4, <2>5 DEF s
<1>5. QED
  BY <1>3, <1>4

\* A dot is punched where the strike owes it.
LEMMA PunchKeeps == ASSUME Core, Punch PROVE Core'
<1> DEFINE s == Head(strikes)
           d == FirstDot(s.pins)
<1>1. /\ strikes # <<>> /\ haveX /\ lastX = s.at /\ failures \in Nat
      /\ UNCHANGED <<feeds, delayed, x, y, haveX, lastX, wanted>>
      /\ strikes \in Seq(Strikes)
  BY DEF Punch, Core, Types, belief
<1>2. /\ s \in Strikes /\ Tail(strikes) \in Seq(Strikes) /\ s.pins \in Pins
      /\ Owed(paper, Tail(strikes)) \subseteq Owed(paper, strikes)
  BY <1>1, HeadTail
<1>3. d \in s.pins
  BY <1>2, FirstDotIsOne
<1>4. /\ After(strikes, d) \in Seq(Strikes)
      /\ Owed(paper, strikes) = Owed(paper, After(strikes, d)) \cup {<<paper, s.at, d>>}
  BY <1>1, <1>3, PunchOwes
<1>5. \/ /\ strikes' = After(strikes, d) /\ UNCHANGED <<carriage, paper, failures>>
         /\ \/ punched' = punched \cup {<<paper, carriage, d>>} /\ steady' = (steady /\ TRUE)
            \/ UNCHANGED punched /\ steady' = FALSE
      \/ /\ strikes' = Tail(strikes) /\ UNCHANGED <<carriage, paper>>
         /\ failures' = IF failures < MaxFailures THEN failures + 1 ELSE failures
         /\ UNCHANGED <<punched, steady>> \/ steady' = FALSE
  BY DEF Punch, Scripted, After
<1> HIDE DEF s, d
<1>6. steady' \in BOOLEAN /\ failures' \in Nat /\ UNCHANGED <<carriage, paper>>
  <2>1. steady' \in BOOLEAN
    BY <1>5 DEF Core, Types
  <2>2. QED
    BY <1>1, <1>5, <2>1, FailedCounts
<1>7. Types'
  BY <1>1, <1>2, <1>4, <1>5, <1>6 DEF Core, Types
<1>8. ASSUME steady' PROVE Places'
  <2>1. CASE /\ strikes' = After(strikes, d) /\ UNCHANGED failures /\ steady
             /\ punched' = punched \cup {<<paper, carriage, d>>}
    BY <1>1, <1>4, <1>6, <2>1 DEF Core, Places
  <2>2. CASE /\ strikes' = Tail(strikes) /\ UNCHANGED punched /\ steady
             /\ failures' = IF failures < MaxFailures THEN failures + 1 ELSE failures
    <3>1. failures' # 0
      BY <1>1, <2>2, FailedCounts
    <3>2. QED
      BY <1>1, <1>2, <1>6, <2>2, <3>1 DEF Core, Places
  <2>3. QED
    BY <1>5, <1>8, <2>1, <2>2
<1>9. feeds' < 0 => strikes' = <<>>
  BY <1>1 DEF Core
<1>10. QED
  BY <1>1, <1>7, <1>8, <1>9 DEF Core

\* Strikes are dropped only behind a closed gate, and then there are none.
LEMMA StrikeDroppedNever == Calls => ~StrikeDropped
BY DEF Calls, StrikeDropped, Idle

\* The carriage goes back by where it was last told to be.
LEMMA ReturnKeeps == ASSUME Core, Return PROVE Core'
<1>1. /\ strikes = <<>> /\ haveX /\ feeds \in Int /\ failures \in Nat
      /\ carriage \in Int /\ lastX \in Nat
      /\ UNCHANGED <<strikes, delayed, x, y, haveX, wanted>>
  BY DEF Return, Core, Types
<1>2. \/ /\ lastX' = 0 /\ UNCHANGED <<feeds, failures>>
         /\ \/ /\ carriage' = carriage - lastX /\ UNCHANGED <<paper, punched>>
               /\ steady' = (steady /\ TRUE)
            \/ UNCHANGED <<carriage, paper, punched>> /\ steady' = FALSE
      \/ /\ feeds' = 0 /\ UNCHANGED lastX
         /\ failures' = IF failures < MaxFailures THEN failures + 1 ELSE failures
         /\ \/ UNCHANGED <<carriage, paper, punched, steady>>
            \/ /\ carriage' = carriage - lastX /\ UNCHANGED <<paper, punched>>
               /\ steady' = FALSE
  BY DEF Return, Scripted
<1>3. /\ steady' \in BOOLEAN /\ failures' \in Nat /\ carriage' \in Int /\ lastX' \in Nat
      /\ feeds' \in Int /\ UNCHANGED <<paper, punched>>
  <2>1. steady' \in BOOLEAN
    BY <1>2 DEF Core, Types
  <2>2. QED
    BY <1>1, <1>2, <2>1, FailedCounts
<1>4. Types'
  BY <1>1, <1>3 DEF Core, Types
<1>5. ASSUME steady' PROVE Places'
  <2>1. steady /\ Places
    BY <1>2, <1>5 DEF Core
  <2>2. \/ lastX' = 0 /\ carriage' = carriage - lastX
        \/ UNCHANGED <<carriage, lastX>>
    BY <1>2, <1>5
  <2>3. carriage = lastX
    BY <1>1, <2>1 DEF Places
  <2>4. carriage' = lastX'
    BY <1>1, <2>2, <2>3
  <2>5. failures' = 0 => failures = 0
    BY <1>1, <1>2, FailedCounts
  <2>6. QED
    BY <1>1, <1>3, <2>1, <2>4, <2>5 DEF Places
<1>6. QED
  BY <1>1, <1>4, <1>5 DEF Core

\* So does a feed of a session that has moved nothing yet.
LEMMA TakenAsReturnedKeeps == ASSUME Core, TakenAsReturned PROVE Core'
BY DEF TakenAsReturned, Core, Types, Places, job, world

\* A line further: nothing is owed, and index and paper move together.
LEMMA FeedForwardKeeps == ASSUME Core, FeedForward PROVE Core'
<1>1. /\ feeds > 0 /\ feeds \in Int /\ strikes = <<>> /\ delayed = <<>> /\ failures \in Nat
      /\ x \in Nat /\ y \in Nat /\ paper \in Int /\ RowBOffset \in Nat
      /\ UNCHANGED <<haveX, lastX, wanted>>
  BY PitchAssumption DEF FeedForward, Core, Types
<1>2. \/ /\ y' = y + 1 /\ feeds' = feeds - 1 /\ UNCHANGED failures
         /\ \/ x' = 0 /\ UNCHANGED <<strikes, delayed>>
            \/ /\ x' = Travel(<<>>, 0, RowBOffset).at
               /\ strikes' = Travel(<<>>, 0, RowBOffset).due
               /\ delayed' = Travel(<<>>, 0, RowBOffset).rest
         /\ \/ /\ paper' = paper + 1 /\ UNCHANGED <<carriage, punched>>
               /\ steady' = (steady /\ TRUE)
            \/ UNCHANGED <<carriage, paper, punched>> /\ steady' = FALSE
      \/ /\ feeds' = 0 /\ UNCHANGED <<x, y, strikes, delayed>>
         /\ failures' = IF failures < MaxFailures THEN failures + 1 ELSE failures
         /\ \/ UNCHANGED <<carriage, paper, punched, steady>>
            \/ /\ paper' = paper + 1 /\ UNCHANGED <<carriage, punched>>
               /\ steady' = FALSE
  BY <1>1 DEF FeedForward, Scripted
<1>3. strikes' = <<>> /\ delayed' = <<>> /\ x' \in Nat /\ UNCHANGED <<carriage, punched>>
  BY <1>1, <1>2, TravelEmpty
<1>4. /\ steady' \in BOOLEAN /\ failures' \in Nat /\ paper' \in Int
      /\ y' \in Nat /\ feeds' \in Int
  <2>1. steady' \in BOOLEAN
    BY <1>2 DEF Core, Types
  <2>2. QED
    BY <1>1, <1>2, <2>1, FailedCounts
<1>5. Types'
  BY <1>1, <1>3, <1>4 DEF Core, Types
<1>6. ASSUME steady' PROVE Places'
  <2>1. steady /\ Places /\ (paper' = y')
    BY <1>1, <1>2, <1>6 DEF Core, Places
  <2>2. failures' = 0 => failures = 0
    BY <1>1, <1>2, FailedCounts
  <2>3. QED
    BY <1>1, <1>3, <2>1, <2>2, OwedNothing DEF Places
<1>7. QED
  BY <1>3, <1>5, <1>6 DEF Core

\* A retreat: the index stops at the top, where the code is no longer right.
LEMMA FeedBackKeeps == ASSUME Core, FeedBack PROVE Core'
<1> DEFINE up == IF y + feeds < 0 THEN 0 ELSE y + feeds
<1>1. /\ feeds < 0 /\ feeds \in Int /\ strikes = <<>> /\ failures \in Nat
      /\ y \in Nat /\ paper \in Int /\ feeds' = 0
      /\ UNCHANGED <<strikes, delayed, x, haveX, lastX, wanted>>
  BY DEF FeedBack, Core, Types
<1>2. \/ /\ y' = up /\ UNCHANGED failures
         /\ \/ /\ paper' = paper + feeds /\ UNCHANGED <<carriage, punched>>
               /\ steady' = (steady /\ y + feeds >= 0)
            \/ UNCHANGED <<carriage, paper, punched>> /\ steady' = FALSE
      \/ /\ UNCHANGED y
         /\ failures' = IF failures < MaxFailures THEN failures + 1 ELSE failures
         /\ \/ UNCHANGED <<carriage, paper, punched, steady>>
            \/ /\ paper' = paper + feeds /\ UNCHANGED <<carriage, punched>>
               /\ steady' = FALSE
  BY DEF FeedBack, Scripted
<1>3. up \in Nat /\ UNCHANGED <<carriage, punched>>
  BY <1>1, <1>2
<1>4. /\ steady' \in BOOLEAN /\ failures' \in Nat /\ paper' \in Int /\ y' \in Nat
  <2>1. steady' \in BOOLEAN
    BY <1>2 DEF Core, Types
  <2>2. QED
    BY <1>1, <1>2, <1>3, <2>1, FailedCounts
<1>5. Types'
  BY <1>1, <1>3, <1>4 DEF Core, Types
<1>6. ASSUME steady' PROVE Places'
  <2>1. steady /\ Places
    BY <1>2, <1>6 DEF Core
  <2>2. \/ y' = up /\ paper' = paper + feeds /\ y + feeds >= 0
        \/ UNCHANGED <<y, paper>>
    BY <1>2, <1>6
  <2>3. paper = y
    BY <2>1 DEF Places
  <2>4. paper' = y'
    BY <1>1, <2>2, <2>3
  <2>5. failures' = 0 => failures = 0
    BY <1>1, <1>2, FailedCounts
  <2>6. QED
    BY <1>1, <1>3, <2>1, <2>4, <2>5, OwedNothing DEF Places
<1>7. QED
  BY <1>1, <1>5, <1>6 DEF Core

-----------------------------------------------------------------------------
(* The poll                                                                *)

positions == <<strikes, feeds, belief, carriage, paper, marks>>

\* A step that leaves the motion path alone.
LEMMA CoreStays == ASSUME Core, UNCHANGED positions PROVE Core'
BY DEF positions, belief, marks, Core, Types, Places

\* A step that begins no call and leaves the gate alone.
LEMMA CallsStay == ASSUME Calls, UNCHANGED <<gate, job, ui>> PROVE Calls'
BY DEF Calls, Blocked, Idle, job

\* A document is taken up with the gate open, or not at all.
LEMMA BeginKeeps ==
  ASSUME Core, Idle, NEW d, Begin(d), ui' # "sync" PROVE MotionInv'
<1>1. Core'
  BY CoreStays DEF Begin, positions, belief, world, marks
<1>2. Calls'
  BY DEF Begin, Calls, Blocked, Idle
<1>3. QED
  BY <1>1, <1>2 DEF MotionInv

\* While a document or a feed is under way the gate is open, and stays open.
LEMMA StepKeepsCalls ==
  ASSUME Core, Calls, EmbossStep, UNCHANGED <<gate, ui>> PROVE Calls'
<1>1. ~Idle
  <2>1. CASE EmbossCell \/ Mark
    BY <2>1 DEF EmbossCell, Mark, Idle
  <2>2. CASE Dropped
    BY <2>2 DEF Dropped
  <2>3. CASE FirstStrike \/ MoveX \/ Punch \/ StrikeDropped
    BY <2>3 DEF FirstStrike, MoveX, Punch, StrikeDropped, Idle
  <2>4. CASE Return \/ TakenAsReturned \/ FeedForward \/ FeedBack
    <3>1. feeds \in Int /\ (feeds # 0 \/ feeds > 0 \/ feeds < 0)
      BY <2>4 DEF Return, TakenAsReturned, FeedForward, FeedBack, Core, Types
    <3>2. QED
      BY <3>1 DEF Idle
  <2>5. QED
    BY <2>1, <2>2, <2>3, <2>4 DEF EmbossStep
<1>2. QED
  BY <1>1 DEF Calls, Blocked

\* The steps of the motion path, each by its lemma.
LEMMA MotionStepKeeps == ASSUME MotionInv, MotionStep PROVE MotionInv'
<1>1. Core /\ Calls /\ EmbossStep /\ UNCHANGED <<gate, ui>>
  BY DEF MotionInv, MotionStep, EmbossStep, EmbossCell, Mark, Dropped, FirstStrike, MoveX, Punch,
         StrikeDropped, Return, TakenAsReturned, FeedForward, FeedBack
<1>2. Core'
  BY <1>1, EmbossCellKeeps, MarkKeeps, DroppedKeeps, FirstStrikeKeeps, MoveXKeeps, PunchKeeps,
     StrikeDroppedNever, ReturnKeeps, TakenAsReturnedKeeps, FeedForwardKeeps, FeedBackKeeps
     DEF EmbossStep
<1>3. QED
  BY <1>1, <1>2, StepKeepsCalls DEF MotionInv

\* What a frame or the telemetry does to the gate, it does between two calls.
LEMMA GateKeeps ==
  ASSUME MotionInv, Idle, UNCHANGED <<job, belief, carriage, paper, marks>> PROVE MotionInv'
<1>1. Core'
  BY CoreStays DEF MotionInv, positions, job
<1>2. Idle'
  BY DEF Idle, job
<1>3. QED
  BY <1>1, <1>2 DEF MotionInv, Calls

\* A cable job is embossed at once, or nothing of it is.
LEMMA JobKeeps == ASSUME MotionInv, Job PROVE MotionInv'
<1>1. Core /\ Idle /\ ui' = "keys"
  BY DEF MotionInv, Job, Drain
<1>2. (\E d : Begin(d)) \/ UNCHANGED embossVars
  <2>1. PICK mode \in Modes, d \in Docs :
          /\ mode = "always" => Begin(d)
          /\ mode = "ask" => UNCHANGED embossVars
          /\ mode = "store" => UNCHANGED embossVars
    BY DEF Job
  <2>2. QED
    BY <2>1, ModesAssumption
<1>3. CASE \E d : Begin(d)
  BY <1>1, <1>3, BeginKeeps
<1>4. CASE UNCHANGED embossVars
  BY <1>1, <1>4, GateKeeps DEF embossVars, world
<1>5. QED
  BY <1>2, <1>3, <1>4

\* The frames of a poll are handled one after the other, each with the one before it done.
LEMMA KeysKeep ==
  ASSUME MotionInv, Recover \/ Enter \/ Backspace \/ Emboss \/ Paper \/ \E f \in Faults : Safety(f)
  PROVE  MotionInv'
<1>1. Core /\ Calls
  BY DEF MotionInv
<1>2. CASE Enter
  <2>1. Idle /\ ui' # "sync"
    BY <1>2 DEF Enter, Take
  <2>2. CASE Begin(pending)
    BY <1>1, <2>1, <2>2, BeginKeeps
  <2>3. CASE UNCHANGED embossVars
    BY <2>1, <2>3, GateKeeps DEF embossVars, world
  <2>4. QED
    BY <1>2, <2>2, <2>3 DEF Enter
<1>3. CASE Emboss
  <2>1. Idle /\ ui' # "sync" /\ \E d \in Docs : Begin(d)
    BY <1>3 DEF Emboss, Take
  <2>2. QED
    BY <1>1, <2>1, BeginKeeps
<1>4. CASE Paper
  <2>1. Idle /\ ui' # "sync" /\ (Feed(-1) \/ Feed(1))
    BY <1>4 DEF Paper, Take
  <2>2. Core'
    BY <1>1, <2>1, FeedKeeps
  <2>3. Calls'
    BY <2>1 DEF Feed, Calls, Blocked, Idle
  <2>4. QED
    BY <2>2, <2>3 DEF MotionInv
<1>5. CASE Recover \/ Backspace \/ \E f \in Faults : Safety(f)
  <2>1. Idle /\ UNCHANGED <<job, belief, carriage, paper, marks>>
    BY <1>5 DEF Recover, Backspace, Safety, Take, embossVars, world
  <2>2. QED
    BY <2>1, GateKeeps
<1>6. QED
  BY <1>2, <1>3, <1>4, <1>5

\* Between the polls: nothing of a document is under way.
LEMMA PollKeeps == ASSUME MotionInv, NoJob \/ Expire \/ KeysDone \/ Sync PROVE MotionInv'
<1>1. UNCHANGED <<job, belief, carriage, paper, marks>>
  BY DEF NoJob, Expire, KeysDone, Sync, embossVars, world
<1>2. Idle
  BY DEF NoJob, Expire, KeysDone, Sync, MotionInv, Calls
<1>3. QED
  BY <1>1, <1>2, GateKeeps

\* A restart that finds other coordinates than it left is one the code is wrong about.
LEMMA RestartKeeps == ASSUME MotionInv, Restart PROVE MotionInv'
<1>1. /\ Core /\ Idle /\ x' \in {0, x} /\ y' \in {0, y} /\ x \in Nat /\ y \in Nat
      /\ delayed' = <<>> /\ haveX' = FALSE /\ lastX' = 0 /\ steady' = (steady /\ x' = x /\ y' = y)
      /\ gate' = "clear" /\ ui' = "cable"
      /\ UNCHANGED <<strikes, feeds, carriage, paper, wanted, punched, failures>>
  BY DEF MotionInv, Core, Types, Restart, job, world
<1>2. steady' \in BOOLEAN
  BY <1>1
<1>3. x' \in Nat /\ y' \in Nat /\ lastX' \in Nat
  BY <1>1
<1>4. Types'
  BY <1>1, <1>2, <1>3 DEF Core, Types
<1>5. ASSUME steady' PROVE Places'
  <2>1. steady /\ UNCHANGED <<x, y>>
    BY <1>1, <1>5
  <2>2. QED
    BY <1>1, <2>1 DEF Core, Places
<1>6. QED
  BY <1>1, <1>4, <1>5 DEF MotionInv, Core, Calls, Blocked

\* Cables, sensors and the battery do not touch carriage, paper or documents.
LEMMA WorldKeeps == ASSUME MotionInv, World PROVE MotionInv'
<1>1. UNCHANGED <<gate, job, belief, carriage, paper, marks, ui>>
  BY DEF World, Raise, CommsLoss, Latch, Broadcast, ClearArrives, Unplug, Type, Publish,
         embossVars, world
<1>2. QED
  BY <1>1, CoreStays, CallsStay DEF MotionInv, positions, job

\* The invariant, from which all the theorems below follow.
LEMMA MotionInvHolds == Spec => []MotionInv
<1>1. Init => MotionInv
  <2> SUFFICES ASSUME Init PROVE MotionInv
    OBVIOUS
  <2>1. Types
    BY DEF Init, Types
  <2>2. Places
    BY OwedNothing DEF Init, Places
  <2>3. QED
    BY <2>1, <2>2 DEF Init, MotionInv, Core, Calls, Idle
<1>2. MotionInv /\ [Next]_vars => MotionInv'
  <2> SUFFICES ASSUME MotionInv, [Next]_vars PROVE MotionInv'
    OBVIOUS
  <2>1. CASE UNCHANGED vars
    BY <2>1, CoreStays, CallsStay DEF MotionInv, vars, embossVars, positions, job, world
  <2>2. CASE UiStep
    BY <2>2, PollKeeps, JobKeeps, KeysKeep, MotionStepKeeps DEF UiStep
  <2>3. CASE Restart \/ World
    BY <2>3, RestartKeeps, WorldKeeps
  <2>4. QED
    BY <2>1, <2>2, <2>3 DEF Next
<1>3. QED
  BY <1>1, <1>2, PTL DEF Spec

-----------------------------------------------------------------------------
(* Theorems                                                                *)

\* For all documents, pitches and bounds, whichever scripts fail and whatever
\* the sensors and the user do: a dot on the paper is one that was asked for at that
\* line and position, unless a script was answered late or run without supply, or
\* carriage and coordinates disagreed where the bridge takes them to agree.
THEOREM DotsAreInPlace == Spec => []DotsInPlace
<1>1. MotionInv => DotsInPlace
  BY DEF MotionInv, Core, Places, DotsInPlace
<1>2. QED
  BY <1>1, MotionInvHolds, PTL

\* With no script failed, no dot is left behind once nothing is under way: the delay
\* line of Row B empties with the cell that filled it.
THEOREM DotsAreComplete == Spec => []DotsComplete
<1>1. MotionInv => DotsComplete
  <2> SUFFICES ASSUME MotionInv, steady, failures = 0, Idle PROVE punched = wanted
    BY DEF DotsComplete
  <2>1. Places /\ Owed(paper, strikes) = {}
    BY OwedNothing DEF MotionInv, Core, Idle
  <2>2. QED
    BY <2>1 DEF Places
<1>2. QED
  BY <1>1, MotionInvHolds, PTL

\* The index of MotionService says on which line the paper is, also after a feed that failed.
THEOREM PaperIndexIsTrue == Spec => []PaperIndexTrue
<1>1. MotionInv => PaperIndexTrue
  BY DEF MotionInv, Core, Places, PaperIndexTrue
<1>2. QED
  BY <1>1, MotionInvHolds, PTL

\* The gate closes between two documents only, so that what emboss_brf and
\* on_row_strike do behind a closed gate is never done: the loops of the motion
\* path never meet the gate they keep asking for.
THEOREM GateWaits == Spec => [](Blocked => Idle)
<1>1. MotionInv => (Blocked => Idle)
  BY DEF MotionInv, Calls
<1>2. QED
  BY <1>1, MotionInvHolds, PTL

-----------------------------------------------------------------------------
(* The cable's jobs                                                        *)

\* The job that waits is one the user was asked about, and not yet dealt with.
PendingInv ==
  /\ cable \in [Docs -> {"none", "asked", "kept", "embossed"}]
  /\ pending # "none" => pending \in Docs /\ cable[pending] = "asked"
  /\ budget \in [{"faults", "keys", "jobs"} -> Int]

\* What one step does to the jobs: it may not emboss one that was kept, unless it
\* received a job.
KeptStep ==
  \A d \in Docs : cable[d] = "kept" /\ cable'[d] = "embossed" => budget'.jobs < budget.jobs

\* Of a bound one is spent, and the bounds stay numbers.
LEMMA SpendKeeps ==
  ASSUME PendingInv, NEW what \in {"faults", "keys", "jobs"}, Spend(what)
  PROVE  /\ budget' \in [{"faults", "keys", "jobs"} -> Int]
         /\ budget'[what] = budget[what] - 1 /\ budget[what] \in Int
BY DEF PendingInv, Spend

\* To keep the job that waits embosses none.
LEMMA KeptKeeps ==
  ASSUME PendingInv
  PROVE  /\ Kept \in [Docs -> {"none", "asked", "kept", "embossed"}]
         /\ \A d \in Docs : Kept[d] = "embossed" => cable[d] = "embossed"
BY DEF PendingInv, Kept

\* A step that has nothing to do with the jobs.
LEMMA JobsStay ==
  ASSUME PendingInv, UNCHANGED <<cable, pending>>,
         budget' \in [{"faults", "keys", "jobs"} -> Int]
  PROVE  PendingInv' /\ KeptStep
BY DEF PendingInv, KeptStep

\* The end of a wait that Enter did not end.
LEMMA KeptPending ==
  ASSUME PendingInv, cable' = Kept, pending' = "none",
         budget' \in [{"faults", "keys", "jobs"} -> Int]
  PROVE  PendingInv' /\ KeptStep
BY KeptKeeps DEF PendingInv, KeptStep

\* A job that comes may be embossed at once; the one before it is kept.
LEMMA JobReceived == ASSUME PendingInv, Job PROVE PendingInv' /\ KeptStep
<1>1. budget' \in [{"faults", "keys", "jobs"} -> Int] /\ budget'.jobs < budget.jobs
  BY SpendKeeps DEF Job
<1>2. PICK mode \in Modes, d \in Docs :
        /\ mode = "always" => pending' = "none" /\ cable' = [Kept EXCEPT ![d] = "embossed"]
        /\ mode = "ask" => pending' = d /\ cable' = [Kept EXCEPT ![d] = "asked"]
        /\ mode = "store" => pending' = "none" /\ cable' = [Kept EXCEPT ![d] = "kept"]
  BY DEF Job
<1>3. mode = "always" \/ mode = "ask" \/ mode = "store"
  BY ModesAssumption
<1>4. QED
  BY <1>1, <1>2, <1>3, KeptKeeps DEF PendingInv, KeptStep

\* Enter embosses the job that waits, which was asked about.
LEMMA EnterTaken == ASSUME PendingInv, Enter PROVE PendingInv' /\ KeptStep
<1>1. budget' \in [{"faults", "keys", "jobs"} -> Int]
  BY DEF Enter, PendingInv
<1>2. CASE pending = "none"
  BY <1>1, <1>2, JobsStay DEF Enter
<1>3. CASE pending # "none"
  <2>1. /\ cable' = [cable EXCEPT ![pending] = "embossed"] /\ pending' = "none"
        /\ pending \in Docs /\ cable[pending] = "asked"
    BY <1>3 DEF Enter, PendingInv
  <2>2. QED
    BY <1>1, <2>1 DEF PendingInv, KeptStep
<1>4. QED
  BY <1>2, <1>3

\* No other step embosses a job of the cable.
LEMMA OthersKeepJobs ==
  ASSUME PendingInv, [Next]_vars, ~Job, ~Enter PROVE PendingInv' /\ KeptStep
<1>1. CASE Expire \/ Backspace
  BY <1>1, KeptPending DEF Expire, Backspace, PendingInv
<1>2. CASE Restart
  BY <1>2, KeptPending, SpendKeeps DEF Restart
<1>3. CASE Raise \/ Type
  <2>1. UNCHANGED <<cable, pending>>
    BY <1>3 DEF Raise, Type, Latch
  <2>2. QED
    BY <1>3, <2>1, JobsStay, SpendKeeps DEF Raise, Type
<1>4. CASE \/ NoJob \/ (\E f \in Faults : Safety(f)) \/ Recover \/ Emboss \/ Paper \/ KeysDone
           \/ Sync \/ MotionStep \/ CommsLoss \/ Broadcast \/ ClearArrives \/ Unplug \/ Publish
           \/ UNCHANGED vars
  <2>1. UNCHANGED <<cable, pending, budget>>
    BY <1>4 DEF NoJob, Safety, Recover, Emboss, Paper, KeysDone, Sync, MotionStep, CommsLoss, Latch,
                Broadcast, ClearArrives, Unplug, Publish, vars
  <2>2. QED
    BY <2>1, JobsStay DEF PendingInv
<1>5. QED
  BY <1>1, <1>2, <1>3, <1>4 DEF Next, UiStep, World

\* A job on the cable that was kept, by a key, by the deadline or for the next job, is
\* not embossed by any later key: what waits for Enter is never one that was kept.
THEOREM KeptIsKept == Spec => KeptStaysKept
<1>1. Init => PendingInv
  BY BudgetAssumption DEF Init, PendingInv
<1>2. PendingInv /\ [Next]_vars => PendingInv' /\ KeptStep
  BY JobReceived, EnterTaken, OthersKeepJobs
<1>3. PendingInv /\ [Next]_vars => [KeptStep]_vars
  BY <1>2
<1>4. QED
  BY <1>1, <1>2, <1>3, PTL DEF Spec, KeptStaysKept, KeptStep

===============================================================================
