----------------------------- MODULE PiAppsProofs -----------------------------
(***************************************************************************)
(* The apps of the shell keep their promises to the reader for all texts,  *)
(* lists, durations and answers: the timers, the document editor, the      *)
(* reference apps, and mail and messages, each from its own invariant.     *)
(***************************************************************************)
EXTENDS TimerService, ContactsApp, ReferenceApps, CommsApps, RecursionProofs,
        SequenceTheorems, TLAPS

-----------------------------------------------------------------------------
(*****************************************************************************)
(* The timers keep the time for all durations, and however late the loop is. *)
(*****************************************************************************)

Modes == {"idle", "countdown", "stopwatch", "pomodoro_work", "pomodoro_break"}
Timers ==
  [mode : Modes, paused : BOOLEAN, duration : Nat, remaining : Int, elapsed : Nat,
   late : -1..MaxLate]
Setups ==
  [at : {"PickMode", "SetDuration"}, mode : {"countdown", "stopwatch", "pomodoro"},
   seconds : Nat]

\* What the timer has taken, and what the next tick finds.
Taken(t) == 2 * t.elapsed + (IF t.late > 0 THEN t.late ELSE 0)
Balanced(t, r, n) ==
  /\ Taken(t) <= r /\ r - Taken(t) <= MaxLate * n
  /\ t.mode # "stopwatch" => t.remaining = t.duration - t.elapsed

TimerInv ==
  /\ timer \in Timers /\ setup \in Setups /\ ran \in Nat /\ stops \in Nat
  /\ active => Balanced(timer, ran, stops)

LEMMA InvKeepsTime == TimerInv => KeepsTime
BY DEF TimerInv, Balanced, Taken, KeepsTime

\* A mode begins with nothing taken.
LEMMA ModeBegins ==
  ASSUME NEW m \in Modes, NEW n \in Nat
  PROVE  Mode(m, n) \in Timers /\ Balanced(Mode(m, n), 0, 0)
<1>1. -1 \in -1..MaxLate /\ MaxLate \in Nat
  BY TimesAssumption
<1>2. Idle \in Timers /\ Idle.elapsed = 0 /\ Idle.late = -1
  BY <1>1 DEF Idle, Timers, Modes
<1>3. /\ Mode(m, n) \in Timers
      /\ Mode(m, n).elapsed = 0 /\ Mode(m, n).late = -1
      /\ Mode(m, n).duration = n /\ Mode(m, n).remaining = n
  <2> DEFINE i == Idle
             t == [i EXCEPT !.mode = m, !.duration = n, !.remaining = n]
  <2>1. Mode(m, n) = t /\ n \in Int
    BY DEF Mode
  <2>2. i \in Timers /\ i.elapsed = 0 /\ i.late = -1
    BY <1>2
  <2> HIDE DEF i
  <2>3. t \in Timers
    BY <2>1, <2>2 DEF Timers
  <2>4. t.elapsed = 0 /\ t.late = -1 /\ t.duration = n /\ t.remaining = n
    BY <2>1, <2>2 DEF Timers
  <2>5. QED
    BY <2>1, <2>3, <2>4
<1>4. QED
  BY <1>1, <1>3 DEF Balanced, Taken

LEMMA BeginKeeps ==
  ASSUME TimerInv, NEW m \in Modes, NEW n \in Nat, Begin(m, n), setup' \in Setups
  PROVE  TimerInv'
<1>1. Mode(m, n) \in Timers /\ Balanced(Mode(m, n), 0, 0)
  BY ModeBegins
<1>2. timer' = Mode(m, n) /\ ran' = 0 /\ stops' = 0
  BY DEF Begin
<1> HIDE DEF Mode
<1>3. QED
  BY <1>1, <1>2 DEF TimerInv, active, Balanced, Taken

LEMMA IdleKeeps ==
  ASSUME TimerInv, timer' = Idle, ran' = 0, stops' = 0, setup' \in Setups PROVE TimerInv'
<1>1. Idle \in Timers /\ Idle.mode = "idle"
  BY TimesAssumption DEF Idle, Timers, Modes
<1>2. QED
  BY <1>1 DEF TimerInv, active

\* What a late tick takes and leaves adds up.
LEMMA AdvancedBalances ==
  ASSUME NEW t \in Timers, t.late >= 2
  PROVE  /\ Advanced(t) \in Timers /\ Taken(Advanced(t)) = Taken(t)
         /\ Advanced(t).mode = t.mode /\ Advanced(t).duration = t.duration
         /\ t.mode # "stopwatch" =>
              Advanced(t).remaining + Advanced(t).elapsed = t.remaining + t.elapsed
<1> DEFINE steps == t.late \div 2
           r == IF t.mode = "stopwatch" THEN t.remaining ELSE t.remaining - steps
           a == [t EXCEPT !.late = t.late - 2 * steps, !.elapsed = t.elapsed + steps,
                          !.remaining = r]
<1>1. t.late \in Nat /\ t.late <= MaxLate /\ t.elapsed \in Nat /\ t.remaining \in Int
  BY TimesAssumption DEF Timers
<1>2. steps \in Nat /\ t.late - 2 * steps \in 0..1 /\ 2 * steps <= t.late
  BY <1>1
<1>3. t.late - 2 * steps \in -1..MaxLate /\ t.elapsed + steps \in Nat /\ r \in Int
  BY <1>1, <1>2, TimesAssumption
<1>4. Advanced(t) = a
  BY DEF Advanced
<1> HIDE DEF steps, r
<1>5. a \in Timers
  BY <1>3 DEF Timers
<1>6. /\ a.mode = t.mode /\ a.duration = t.duration
      /\ a.late = t.late - 2 * steps /\ a.elapsed = t.elapsed + steps /\ a.remaining = r
  BY DEF Timers
<1> HIDE DEF a
<1>7. Taken(a) = Taken(t)
  BY <1>1, <1>2, <1>6 DEF Taken
<1>8. t.mode # "stopwatch" => a.remaining + a.elapsed = t.remaining + t.elapsed
  BY <1>1, <1>2, <1>6 DEF r
<1>9. QED
  BY <1>4, <1>5, <1>6, <1>7, <1>8

\* A pause or a restart drops no more than one late tick would have found.
LEMMA StopBalances ==
  ASSUME TimerInv, active, NEW t, t \in {[timer EXCEPT !.paused = FALSE, !.late = -1],
                                         [timer EXCEPT !.late = -1]}
  PROVE  t \in Timers /\ Balanced(t, ran, stops + 1)
<1>1. timer \in Timers /\ Balanced(timer, ran, stops) /\ ran \in Nat /\ stops \in Nat
  BY DEF TimerInv
<1>2. t \in Timers
  <2>1. -1 \in -1..MaxLate
    BY TimesAssumption
  <2>2. CASE t = [timer EXCEPT !.late = -1]
    BY <1>1, <2>1, <2>2 DEF Timers
  <2>3. CASE t = [timer EXCEPT !.paused = FALSE, !.late = -1]
    BY <1>1, <2>1, <2>3 DEF Timers
  <2>4. QED
    BY <2>2, <2>3
<1>3. /\ t.mode = timer.mode /\ t.late = -1 /\ t.elapsed = timer.elapsed
      /\ t.remaining = timer.remaining /\ t.duration = timer.duration
  BY <1>1 DEF Timers
<1>4. timer.late \in -1..MaxLate /\ timer.elapsed \in Nat /\ MaxLate \in Nat
  BY <1>1, TimesAssumption DEF Timers
<1>5. MaxLate * (stops + 1) = MaxLate * stops + MaxLate /\ MaxLate * stops \in Int
  BY <1>1, <1>4
<1>6. Taken(t) <= ran /\ ran - Taken(t) <= MaxLate * (stops + 1)
  <2> DEFINE m == MaxLate * stops
  <2>1. m \in Int /\ MaxLate * (stops + 1) = m + MaxLate
    BY <1>5
  <2>2. Taken(timer) <= ran /\ ran - Taken(timer) <= m
    BY <1>1 DEF Balanced
  <2> HIDE DEF m
  <2>3. QED
    BY <1>1, <1>3, <1>4, <2>1, <2>2 DEF Taken
<1>7. QED
  BY <1>1, <1>2, <1>3, <1>6 DEF Balanced

-----------------------------------------------------------------------------
(* The steps                                                               *)

\* A tick goes on, or begins the next mode when the time is over.
LEMMA TickKeeps == ASSUME TimerInv, Tick PROVE TimerInv'
<1> DEFINE t == Advanced(timer)
<1>1. timer \in Timers /\ timer.late >= 2 /\ active /\ setup' \in Setups
  BY DEF TimerInv, Tick, Running
<1>2. /\ t \in Timers /\ Taken(t) = Taken(timer)
      /\ t.mode = timer.mode /\ t.duration = timer.duration
      /\ t.mode # "stopwatch" => t.remaining + t.elapsed = timer.remaining + timer.elapsed
  BY <1>1, AdvancedBalances
<1>3. \/ timer' = t /\ UNCHANGED <<ran, stops>>
      \/ timer' = Idle /\ ran' = 0 /\ stops' = 0
      \/ Begin("pomodoro_break", BreakSec) \/ Begin("pomodoro_work", WorkSec)
  <2>1. t.mode \in Modes \ {"idle"} /\ t.remaining \in Int
    BY <1>1, <1>2 DEF Timers, active
  <2> HIDE DEF t
  <2>2. /\ t.mode = "stopwatch" \/ t.remaining > 0 \/ t.remaining <= 0
        /\ t.mode \in {"countdown", "stopwatch", "pomodoro_work", "pomodoro_break"}
    BY <2>1 DEF Modes
  <2>3. CASE t.mode = "stopwatch" \/ t.remaining > 0
    BY <2>1, <2>2, <2>3 DEF Tick, t
  <2>4. CASE ~(t.mode = "stopwatch" \/ t.remaining > 0)
    BY <2>1, <2>2, <2>4 DEF Tick, t
  <2>5. QED
    BY <2>3, <2>4
<1>4. CASE timer' = t /\ UNCHANGED <<ran, stops>>
  <2>1. t.remaining \in Int /\ t.elapsed \in Nat /\ t.duration \in Nat
        /\ timer.remaining \in Int /\ timer.elapsed \in Nat
    BY <1>1, <1>2 DEF Timers
  <2> HIDE DEF t
  <2>2. Balanced(t, ran, stops)
    BY <1>1, <1>2, <2>1 DEF TimerInv, Balanced
  <2>3. QED
    BY <1>1, <1>2, <1>4, <2>2 DEF TimerInv, Balanced, Taken
<1>5. QED
  BY <1>1, <1>3, <1>4, BeginKeeps, IdleKeeps, TimesAssumption DEF Modes

LEMMA HalfSecondKeeps == ASSUME TimerInv, HalfSecond PROVE TimerInv'
<1>1. /\ timer \in Timers /\ active /\ timer.late < MaxLate
      /\ Balanced(timer, ran, stops) /\ ran \in Nat /\ stops \in Nat
      /\ UNCHANGED <<setup, stops>>
  BY DEF TimerInv, HalfSecond, Running
<1>2. CASE timer.late < 0
  BY <1>1, <1>2 DEF HalfSecond, TimerInv, active
<1>3. CASE timer.late >= 0
  <2>1. /\ timer' = [timer EXCEPT !.late = timer.late + 1] /\ ran' = ran + 1
        /\ timer.late + 1 \in -1..MaxLate
    BY <1>1, <1>3, TimesAssumption DEF HalfSecond, Timers
  <2>2. /\ timer' \in Timers /\ timer'.late = timer.late + 1
        /\ timer'.mode = timer.mode /\ timer'.elapsed = timer.elapsed
        /\ timer'.remaining = timer.remaining /\ timer'.duration = timer.duration
    BY <1>1, <2>1 DEF Timers
  <2>3. timer.elapsed \in Nat /\ timer.late \in Int
    BY <1>1, TimesAssumption DEF Timers
  <2>4. Taken(timer') = Taken(timer) + 1
    BY <1>3, <2>2, <2>3 DEF Taken
  <2>5. Balanced(timer', ran', stops)
    <3> DEFINE m == MaxLate * stops
    <3>1. m \in Int /\ Taken(timer) \in Int
      BY <1>1, <2>3, TimesAssumption DEF Taken
    <3> HIDE DEF m
    <3>2. Taken(timer') <= ran' /\ ran' - Taken(timer') <= m
      BY <1>1, <2>1, <2>4, <3>1 DEF Balanced, m
    <3>3. QED
      BY <1>1, <2>2, <3>2 DEF Balanced, m
  <2>6. QED
    BY <1>1, <2>1, <2>2, <2>5 DEF TimerInv, active, Balanced, Taken
<1>4. QED
  BY <1>1, <1>2, <1>3, TimesAssumption DEF Timers

\* The tick of the loop after a start: the clock is read for the first time.
LEMMA FirstTickKeeps == ASSUME TimerInv, FirstTick PROVE TimerInv'
<1>1. /\ timer \in Timers /\ timer.late < 0 /\ timer' = [timer EXCEPT !.late = 0]
      /\ UNCHANGED <<setup, ran, stops>> /\ active
  BY DEF TimerInv, FirstTick, Running
<1>2. 0 \in -1..MaxLate
  BY TimesAssumption
<1>3. /\ timer' \in Timers /\ timer'.late = 0
      /\ timer'.mode = timer.mode /\ timer'.elapsed = timer.elapsed
      /\ timer'.remaining = timer.remaining /\ timer'.duration = timer.duration
  BY <1>1, <1>2 DEF Timers
<1>4. Taken(timer') = Taken(timer)
  <2>1. timer.late \in Int /\ timer.elapsed \in Nat
    BY <1>1, TimesAssumption DEF Timers
  <2>2. QED
    BY <1>1, <1>3, <2>1 DEF Taken
<1>5. QED
  BY <1>1, <1>3, <1>4 DEF TimerInv, active, Balanced, Taken

LEMMA PauseKeeps == ASSUME TimerInv, Pause PROVE TimerInv'
<1>1. /\ timer \in Timers /\ timer' = [timer EXCEPT !.paused = TRUE]
      /\ UNCHANGED <<setup, ran, stops>> /\ active
  BY DEF TimerInv, Pause, Running
<1>2. /\ timer' \in Timers /\ timer'.late = timer.late
      /\ timer'.mode = timer.mode /\ timer'.elapsed = timer.elapsed
      /\ timer'.remaining = timer.remaining /\ timer'.duration = timer.duration
  BY <1>1 DEF Timers
<1>3. QED
  BY <1>1, <1>2 DEF TimerInv, active, Balanced, Taken

\* Resume, and a start of the UI.
LEMMA StopKeeps == ASSUME TimerInv, Resume \/ TimerRestart PROVE TimerInv'
<1>1. /\ active /\ stops' = stops + 1 /\ UNCHANGED <<setup, ran>>
      /\ timer' \in {[timer EXCEPT !.paused = FALSE, !.late = -1], [timer EXCEPT !.late = -1]}
  BY DEF Resume, TimerRestart
<1>2. timer' \in Timers /\ Balanced(timer', ran, stops + 1)
  BY <1>1, StopBalances
<1>3. QED
  BY <1>1, <1>2 DEF TimerInv, active, Balanced, Taken

LEMMA ResetKeeps == ASSUME TimerInv, Reset PROVE TimerInv'
<1> DEFINE r == IF timer.mode = "stopwatch" THEN timer.remaining ELSE timer.duration
           t == [timer EXCEPT !.paused = FALSE, !.late = -1, !.elapsed = 0, !.remaining = r]
<1>1. /\ timer \in Timers /\ timer' = t /\ ran' = 0 /\ stops' = 0 /\ UNCHANGED setup
      /\ -1 \in -1..MaxLate /\ MaxLate \in Nat
  BY TimesAssumption DEF TimerInv, Reset
<1>2. r \in Int /\ timer.duration \in Nat
  BY <1>1 DEF Timers
<1>3. timer.mode # "stopwatch" => r = timer.duration
  OBVIOUS
<1> HIDE DEF r
<1>4. t \in Timers
  BY <1>1, <1>2 DEF Timers
<1>5. /\ t.late = -1 /\ t.elapsed = 0 /\ t.remaining = r
      /\ t.mode = timer.mode /\ t.duration = timer.duration
  BY <1>1 DEF Timers
<1> HIDE DEF t
<1>6. Balanced(t, 0, 0)
  BY <1>1, <1>2, <1>3, <1>5 DEF Balanced, Taken
<1>7. QED
  BY <1>1, <1>4, <1>6 DEF TimerInv, active, Balanced, Taken

\* The screen of the timer changes its own record until it starts a mode.
LEMMA ScreenKeeps ==
  ASSUME TimerInv, TimerEnter \/ TimerBack \/ TimerPick \/ TimerStart PROVE TimerInv'
<1>1. setup \in Setups /\ timer \in Timers
  BY DEF TimerInv
<1>2. CASE TimerEnter
  <2>1. (CHOOSE d \in Durations : TRUE) \in Nat
    BY TimesAssumption
  <2>2. setup' \in Setups
    BY <1>1, <1>2, <2>1 DEF TimerEnter, Setups, Timers
  <2>3. QED
    BY <1>2, <2>2 DEF TimerEnter, TimerInv, active, Balanced, Taken
<1>3. CASE TimerBack
  <2>1. setup' \in Setups
    BY <1>1, <1>3 DEF TimerBack, Setups
  <2>2. QED
    BY <1>3, <2>1 DEF TimerBack, TimerInv, active, Balanced, Taken
<1>4. CASE TimerPick
  <2>1. setup' \in Setups
    BY <1>1, <1>4, TimesAssumption DEF TimerPick, Setups
  <2>2. QED
    BY <1>4, <2>1 DEF TimerPick, TimerInv, active, Balanced, Taken
<1>5. CASE TimerStart
  <2>1. setup' \in Setups /\ setup.seconds \in Nat
    BY <1>1, <1>5 DEF TimerStart, Setups
  <2>2. \/ Begin("countdown", setup.seconds) \/ Begin("stopwatch", 0)
        \/ Begin("pomodoro_work", WorkSec)
    BY <1>1, <1>5 DEF TimerStart, Setups
  <2>3. QED
    BY <2>1, <2>2, BeginKeeps, TimesAssumption DEF Modes
<1>6. QED
  BY <1>2, <1>3, <1>4, <1>5

\* For all durations and however late the loop is: a timer has never taken more time
\* than went by, is behind by at most the fractions that pauses and restarts dropped,
\* and what remains is what has not run (TimerService::tick).
THEOREM TimeIsKept == TimerSpec => []KeepsTime
<1>1. TimerInit => TimerInv
  BY TimesAssumption DEF TimerInit, TimerInv, Idle, Timers, Modes, Setups, active
<1>2. TimerInv /\ [TimerKey \/ TimerWork]_timerVars => TimerInv'
  <2> SUFFICES ASSUME TimerInv, [TimerKey \/ TimerWork]_timerVars PROVE TimerInv'
    OBVIOUS
  <2>1. CASE Cancel
    BY <2>1, IdleKeeps DEF Cancel, TimerInv
  <2>2. CASE UNCHANGED timerVars
    BY <2>2 DEF timerVars, TimerInv, active, Balanced, Taken
  <2>3. QED
    BY <2>1, <2>2, TickKeeps, HalfSecondKeeps, FirstTickKeeps, PauseKeeps, StopKeeps,
       ResetKeeps, ScreenKeeps DEF TimerKey, TimerWork
<1>3. QED
  BY <1>1, <1>2, InvKeepsTime, PTL DEF TimerSpec

-----------------------------------------------------------------------------
(*****************************************************************************)
(* The line that replaces a selection replaces what was selected.            *)
(*****************************************************************************)

States == {"EmbossMode", "LineReview", "AwaitFullCell", "ReplacementLine"}
Units == {"Line", "Word", "Letter"}
Edits ==
  [st : States, unit : Units, line : Nat \ {0}, col : Nat \ {0},
   span : [from : Nat \ {0}, len : Nat], target : Seq(Marks)]

\* The span lies in its line, and covers the target.
Targets(lines, e) ==
  /\ e.span.from + e.span.len - 1 <= Len(LineAt(lines, e.line))
  /\ Covered(lines, e.line, e.span) = e.target

DocumentInv ==
  /\ doc \in Lines /\ edit \in Edits /\ brl \in [chords : Nat, queue : Nat]
  /\ edit.st = "ReplacementLine" /\ edit.span.len > 0 => Targets(doc, edit)

LEMMA DocumentTargets == DocumentInv => TargetStays
BY DEF DocumentInv, Targets, TargetStays

-----------------------------------------------------------------------------
(* Words in a line                                                         *)

LEMMA LeastOf ==
  ASSUME NEW S \in SUBSET Nat, S # {}
  PROVE  Least(S) \in S /\ \A j \in S : Least(S) <= j
<1>1. \E i \in S : \A j \in S : i <= j
  BY LeastNat
<1> QED BY <1>1 DEF Least

LEMMA GreatestOf ==
  ASSUME NEW S \in SUBSET Nat, S # {}, NEW b \in Nat, \A j \in S : j <= b
  PROVE  Greatest(S) \in S /\ \A j \in S : Greatest(S) >= j
<1> DEFINE T == {b - j : j \in S}
<1>1. T \in SUBSET Nat /\ T # {}
  <2>1. \A j \in S : b - j \in Nat
    OBVIOUS
  <2> QED BY <2>1
<1>2. PICK t \in T : \A u \in T : t <= u
  BY <1>1, LeastNat
<1>3. PICK i \in S : t = b - i
  BY <1>2
<1>4. ASSUME NEW j \in S PROVE i >= j
  <2>1. b - j \in T
    OBVIOUS
  <2>2. b - i <= b - j
    BY <1>2, <1>3, <2>1
  <2> QED BY <2>2
<1>5. \E k \in S : \A j \in S : k >= j
  BY <1>4
<1> QED BY <1>5 DEF Greatest

\* A word, or a space, lies in its line, with the column in it.
LEMMA WordInLine ==
  ASSUME NEW l \in Seq(Marks), l # <<>>, NEW c \in Nat \ {0}
  PROVE  /\ WordAt(l, c) \in [from : Nat \ {0}, len : Nat]
         /\ WordAt(l, c).from + WordAt(l, c).len - 1 <= Len(l)
<1> DEFINE n == Len(l)
           k == IF c > n THEN n ELSE c
           spaces == (1..n) \ Letters(l, 1, n)
           B == {0} \cup {s \in spaces : s < k}
           A == {n + 1} \cup {s \in spaces : s > k}
<1>1. n \in Nat \ {0}
  BY LenProperties, EmptySeq
<1>2. k \in 1..n
  BY <1>1
<1>3. spaces \subseteq 1..n
  OBVIOUS
<1> HIDE DEF n, k, spaces
<1>4. Greatest(B) \in B
  <2>1. \A j \in B : j \in Nat /\ j <= n
    BY <1>1, <1>3
  <2>2. B # {} /\ n \in Nat
    BY <1>1
  <2> HIDE DEF B
  <2>3. B \in SUBSET Nat
    BY <2>1
  <2> QED BY <2>1, <2>2, <2>3, GreatestOf
<1>5. Least(A) \in A
  <2>1. \A j \in A : j \in Nat
    BY <1>1, <1>3
  <2>2. A # {}
    OBVIOUS
  <2> HIDE DEF A
  <2>3. A \in SUBSET Nat
    BY <2>1
  <2> QED BY <2>2, <2>3, LeastOf
<1>6. Greatest(B) \in Nat /\ Greatest(B) < k /\ Least(A) \in Nat /\ Least(A) > k /\ Least(A) <= n + 1
  <2>1. \A j \in B : j \in Nat /\ j < k
    BY <1>2, <1>3
  <2>2. \A j \in A : j \in Nat /\ j > k /\ j <= n + 1
    BY <1>1, <1>2, <1>3
  <2> HIDE DEF A, B
  <2> QED BY <1>4, <1>5, <2>1, <2>2
<1> DEFINE w == [from |-> Greatest(B) + 1, len |-> (Least(A) - 1) - (Greatest(B) + 1) + 1]
<1>7. WordAt(l, c) = IF k \in spaces THEN [from |-> k, len |-> 1] ELSE w
  BY DEF WordAt, n, k, spaces
<1>8. CASE k \in spaces
  <2>1. WordAt(l, c) = [from |-> k, len |-> 1] /\ k \in Nat \ {0}
    BY <1>1, <1>2, <1>7, <1>8
  <2>2. k + 1 - 1 <= Len(l)
    BY <1>1, <1>2 DEF n
  <2> QED BY <2>1, <2>2
<1>9. CASE k \notin spaces
  <2> DEFINE x == Greatest(B) + 1
             y == (Least(A) - 1) - (Greatest(B) + 1) + 1
  <2>1. WordAt(l, c) = [from |-> x, len |-> y]
    BY <1>7, <1>9
  <2>2. x \in Nat \ {0} /\ y \in Nat /\ x + y - 1 <= n
    <3> HIDE DEF A, B
    <3> QED BY <1>1, <1>2, <1>6
  <2> HIDE DEF x, y
  <2> QED BY <2>1, <2>2 DEF n
<1> QED BY <1>8, <1>9

-----------------------------------------------------------------------------
(* The editing of a document                                               *)

LEMMA LineIsText ==
  ASSUME NEW lines \in Lines, NEW i \in Nat \ {0}
  PROVE  LineAt(lines, i) \in Seq(Marks)
<1>1. lines \in Seq(Seq(Marks))
  BY DEF Lines
<1>2. CASE i <= Len(lines)
  BY <1>1, <1>2, LenProperties DEF LineAt
<1>3. CASE ~(i <= Len(lines))
  BY <1>3, EmptySeq DEF LineAt
<1> QED BY <1>2, <1>3

\* Every line of the document is a beginning of the line in the other.
Grown(lines, more) ==
  \A i \in Nat \ {0} :
    LET l == LineAt(lines, i)
        m == LineAt(more, i)
    IN Len(l) <= Len(m) /\ \A c \in 1..Len(l) : m[c] = l[c]

LEMMA GrownKeepsTarget ==
  ASSUME NEW lines \in Lines, NEW more \in Lines, Grown(lines, more),
         NEW e \in Edits, Targets(lines, e)
  PROVE  Targets(more, e)
<1> DEFINE l == LineAt(lines, e.line)
           m == LineAt(more, e.line)
           f == e.span.from
           t == e.span.from + e.span.len - 1
<1>1. e.line \in Nat \ {0} /\ f \in Nat \ {0} /\ t \in Int
  BY DEF Edits
<1>2. l \in Seq(Marks) /\ m \in Seq(Marks)
  BY <1>1, LineIsText
<1>3. Len(l) <= Len(m) /\ \A c \in 1..Len(l) : m[c] = l[c]
  BY <1>1 DEF Grown
<1>4. t <= Len(l) /\ SubSeq(l, f, t) = e.target
  BY DEF Targets, Covered
<1>5. Targets(more, e) <=> (t <= Len(m) /\ SubSeq(m, f, t) = e.target)
  BY DEF Targets, Covered
<1>6. Len(l) \in Nat /\ Len(m) \in Nat
  BY <1>2, LenProperties
<1> HIDE DEF l, m, f, t
<1>7. SubSeq(m, f, t) = SubSeq(l, f, t)
  <2>1. \A i \in 1..(1 + t - f) : i + f - 1 \in 1..Len(l)
    BY <1>1, <1>4, <1>6
  <2>2. \A i \in 1..(1 + t - f) : m[i + f - 1] = l[i + f - 1]
    BY <1>3, <2>1
  <2> DEFINE a == SubSeq(m, f, t)
             b == SubSeq(l, f, t)
  <2>3. \A i \in f..t : i \in 1..Len(l) /\ i \in 1..Len(m)
    BY <1>1, <1>3, <1>4, <1>6
  <2>4. \A i \in f..t : l[i] \in Marks /\ m[i] \in Marks
    BY <1>2, <2>3, LenProperties
  <2>5. /\ a \in Seq(Marks) /\ Len(a) = (IF f <= t THEN t - f + 1 ELSE 0)
        /\ \A i \in 1..(t - f + 1) : a[i] = m[f + i - 1]
    BY <1>1, <2>4, SubSeqProperties
  <2>6. /\ b \in Seq(Marks) /\ Len(b) = (IF f <= t THEN t - f + 1 ELSE 0)
        /\ \A i \in 1..(t - f + 1) : b[i] = l[f + i - 1]
    BY <1>1, <2>4, SubSeqProperties
  <2> HIDE DEF a, b
  <2>7. Len(a) = Len(b) /\ \A i \in 1..Len(a) : i \in 1..(t - f + 1) /\ f + i - 1 = i + f - 1 /\ i \in 1..(1 + t - f)
    BY <1>1, <2>5, <2>6
  <2>8. \A i \in 1..Len(a) : a[i] = b[i]
    BY <2>2, <2>5, <2>6, <2>7
  <2>9. a = b
    BY <2>5, <2>6, <2>7, <2>8, SeqEqual
  <2> QED BY <2>9 DEF a, b
<1> QED BY <1>3, <1>4, <1>5, <1>6, <1>7, <1>1

LEMMA TypedGrows ==
  ASSUME NEW lines \in Lines, NEW w \in Seq(Marks)
  PROVE  Typed(lines, w) \in Lines /\ Grown(lines, Typed(lines, w)) /\ Len(Typed(lines, w)) = Len(lines)
<1> DEFINE n == Len(lines)
           t == Typed(lines, w)
<1>1. lines \in Seq(Seq(Marks)) /\ n \in Nat \ {0} /\ DOMAIN lines = 1..n
  BY LenProperties, EmptySeq DEF Lines
<1>2. lines[n] \in Seq(Marks)
  BY <1>1
<1>3. /\ lines[n] \o w \in Seq(Marks) /\ Len(lines[n] \o w) = Len(lines[n]) + Len(w)
      /\ \A c \in 1..(Len(lines[n]) + Len(w)) :
           (lines[n] \o w)[c] = IF c <= Len(lines[n]) THEN lines[n][c] ELSE w[c - Len(lines[n])]
  BY <1>2, ConcatProperties
<1>4. Len(lines[n]) \in Nat /\ Len(w) \in Nat
  BY <1>2, LenProperties
<1>5. t = [lines EXCEPT ![n] = lines[n] \o w]
  BY DEF Typed
<1>6. t \in Seq(Seq(Marks)) /\ Len(t) = n /\ t[n] = lines[n] \o w /\ \A i \in 1..n : i # n => t[i] = lines[i]
  <2> DEFINE v == lines[n] \o w
  <2>1. v \in Seq(Marks) /\ n \in 1..n
    BY <1>1, <1>3
  <2> HIDE DEF v
  <2> DEFINE u == [lines EXCEPT ![n] = v]
  <2>2. u \in Seq(Seq(Marks)) /\ Len(u) = n /\ \A i \in 1..n : u[i] = IF i = n THEN v ELSE lines[i]
    BY <1>1, <2>1, ExceptSeq
  <2>3. t = u
    BY <1>5 DEF v
  <2> HIDE DEF u, t
  <2> QED BY <2>1, <2>2, <2>3 DEF v
<1>7. t \in Lines
  BY <1>1, <1>6, EmptySeq DEF Lines
<1> HIDE DEF n, t
<1>8. ASSUME NEW i \in Nat \ {0}
      PROVE  /\ Len(LineAt(lines, i)) <= Len(LineAt(t, i))
             /\ \A c \in 1..Len(LineAt(lines, i)) : LineAt(t, i)[c] = LineAt(lines, i)[c]
  <2>1. CASE i = n
    <3>1. LineAt(lines, i) = lines[n] /\ LineAt(t, i) = lines[n] \o w
      <4>1. Len(lines) = n /\ Len(t) = n
        BY <1>6 DEF n
      <4>2. i <= Len(lines) /\ i <= Len(t)
        BY <1>1, <2>1, <4>1
      <4>3. lines[i] = lines[n] /\ t[i] = lines[n] \o w
        BY <1>6, <2>1
      <4> QED BY <4>2, <4>3 DEF LineAt
    <3>2. \A c \in 1..Len(lines[n]) : c \in 1..(Len(lines[n]) + Len(w)) /\ c <= Len(lines[n])
      BY <1>4
    <3> QED BY <1>3, <1>4, <3>1, <3>2
  <2>2. CASE i # n
    <3>1. LineAt(t, i) = LineAt(lines, i)
      <4>1. Len(lines) = n /\ Len(t) = n
        BY <1>6 DEF n
      <4>2. i <= n => t[i] = lines[i]
        BY <1>1, <1>6, <2>2
      <4> QED BY <4>1, <4>2 DEF LineAt
    <3>2. Len(LineAt(lines, i)) \in Nat
      BY LineIsText, LenProperties
    <3> QED BY <3>1, <3>2
  <2> QED BY <2>1, <2>2
<1> QED BY <1>6, <1>7, <1>8 DEF Grown, t, n

LEMMA AppendGrows ==
  ASSUME NEW lines \in Lines, NEW l \in Seq(Marks)
  PROVE  Append(lines, l) \in Lines /\ Grown(lines, Append(lines, l))
<1> DEFINE n == Len(lines)
           t == Append(lines, l)
<1>1. lines \in Seq(Seq(Marks)) /\ n \in Nat /\ DOMAIN lines = 1..n
  BY LenProperties DEF Lines
<1>2. t \in Seq(Seq(Marks)) /\ t # <<>> /\ Len(t) = n + 1 /\ \A i \in 1..n : t[i] = lines[i]
  BY <1>1, AppendProperties
<1> HIDE DEF t
<1>3. ASSUME NEW i \in Nat \ {0}
      PROVE  /\ Len(LineAt(lines, i)) <= Len(LineAt(t, i))
             /\ \A c \in 1..Len(LineAt(lines, i)) : LineAt(t, i)[c] = LineAt(lines, i)[c]
  <2>1. CASE i <= n
    <3>1. LineAt(t, i) = LineAt(lines, i)
      BY <1>1, <1>2, <2>1 DEF LineAt
    <3>2. Len(LineAt(lines, i)) \in Nat
      BY LineIsText, LenProperties
    <3> QED BY <3>1, <3>2
  <2>2. CASE ~(i <= n)
    <3>1. t \in Lines
      BY <1>2 DEF Lines
    <3>2. LineAt(lines, i) = <<>> /\ Len(LineAt(t, i)) \in Nat
      BY <2>2, <3>1, LineIsText, LenProperties DEF LineAt
    <3> QED BY <3>2, EmptySeq
  <2> QED BY <2>1, <2>2
<1> QED BY <1>2, <1>3 DEF Grown, Lines, t

\* Loading loses no line that has text.
LEMMA ReloadedGrows ==
  ASSUME NEW lines \in Lines
  PROVE  Reloaded(lines) \in Lines /\ Grown(lines, Reloaded(lines))
<1> DEFINE n == Len(lines)
           t == Front(lines)
<1>1. lines \in Seq(Seq(Marks)) /\ n \in Nat \ {0} /\ DOMAIN lines = 1..n
  BY LenProperties, EmptySeq DEF Lines
<1>2. Grown(lines, lines)
  <2>1. \A i \in Nat \ {0} : Len(LineAt(lines, i)) \in Nat
    BY LineIsText, LenProperties
  <2> QED BY <2>1 DEF Grown
<1>3. CASE ~(n > 1 /\ Last(lines) = <<>>)
  BY <1>2, <1>3 DEF Reloaded
<1>4. CASE n > 1 /\ Last(lines) = <<>>
  <2>1. lines[n] = <<>>
    BY <1>4 DEF Last
  <2>2. t \in Seq(Seq(Marks)) /\ Len(t) = n - 1 /\ \A i \in 1..(n - 1) : t[i] = lines[i]
    <3>1. \A i \in 1..(n - 1) : lines[i] \in Seq(Marks)
      BY <1>1
    <3> QED BY <1>1, <1>4, <3>1, SubSeqProperties DEF Front
  <2>3. t \in Lines
    BY <1>4, <1>1, <2>2, EmptySeq DEF Lines
  <2> HIDE DEF t
  <2>4. ASSUME NEW i \in Nat \ {0}
        PROVE  LineAt(t, i) = LineAt(lines, i)
    <3>1. CASE i <= n - 1
      <4>1. i \in 1..(n - 1) /\ i <= n
        BY <1>1, <3>1
      <4>2. t[i] = lines[i]
        BY <2>2, <4>1
      <4>3. i <= Len(t) /\ i <= Len(lines)
        BY <2>2, <3>1, <4>1
      <4> QED BY <4>2, <4>3 DEF LineAt
    <3>2. CASE i = n
      <4>1. i <= Len(lines) /\ ~(i <= Len(t))
        BY <1>1, <2>2, <3>2
      <4>2. LineAt(lines, i) = lines[i] /\ LineAt(t, i) = <<>>
        BY <4>1 DEF LineAt
      <4>3. lines[i] = <<>>
        BY <2>1, <3>2
      <4> QED BY <4>2, <4>3
    <3>3. CASE i > n
      <4>1. ~(i <= Len(lines)) /\ ~(i <= Len(t))
        BY <1>1, <2>2, <3>3
      <4> QED BY <4>1 DEF LineAt
    <3>4. i <= n - 1 \/ i = n \/ i > n
      <4>1. n \in Nat
        BY <1>1
      <4> HIDE DEF n
      <4> QED BY <4>1
    <3> QED BY <3>1, <3>2, <3>3, <3>4
  <2>5. Grown(lines, t)
    BY <1>2, <2>4 DEF Grown
  <2> QED BY <1>4, <2>3, <2>5 DEF Reloaded, t
<1> QED BY <1>3, <1>4

-----------------------------------------------------------------------------
(* The edit session                                                        *)

LEMMA WordInserts ==
  ASSUME NEW l \in Seq(Marks), NEW f \in Nat \ {0}, f <= Len(l) + 1, NEW w \in Seq(Marks)
  PROVE  SubSeq(l, 1, f - 1) \o w \o SubSeq(l, f, Len(l)) \in Seq(Marks)
<1>1. Len(l) \in Nat /\ \A i \in 1..Len(l) : l[i] \in Marks
  BY LenProperties
<1>2. SubSeq(l, 1, f - 1) \in Seq(Marks)
  BY <1>1, SubSeqProperties
<1>3. SubSeq(l, f, Len(l)) \in Seq(Marks)
  BY <1>1, SubSeqProperties
<1> QED BY <1>2, <1>3, ConcatProperties

LEMMA LineReplaced ==
  ASSUME NEW lines \in Lines, NEW i \in Nat \ {0}, i <= Len(lines), NEW l \in Seq(Marks)
  PROVE  [lines EXCEPT ![i] = l] \in Lines
<1>1. lines \in Seq(Seq(Marks)) /\ Len(lines) \in Nat \ {0} /\ i \in 1..Len(lines)
  BY LenProperties, EmptySeq DEF Lines
<1>2. [lines EXCEPT ![i] = l] \in Seq(Seq(Marks)) /\ Len([lines EXCEPT ![i] = l]) = Len(lines)
  BY <1>1, ExceptSeq
<1> QED BY <1>1, <1>2, EmptySeq DEF Lines

LEMMA InsertedIsText ==
  ASSUME NEW lines \in Lines, NEW i \in Nat \ {0}, NEW f \in Nat \ {0}, NEW w \in Seq(Marks)
  PROVE  WordInserted(lines, i, f, w) \in Lines
<1>1. CASE i > Len(lines) \/ f > Len(lines[i]) + 1
  BY <1>1 DEF WordInserted
<1>2. CASE ~(i > Len(lines) \/ f > Len(lines[i]) + 1)
  <2> DEFINE l == SubSeq(lines[i], 1, f - 1) \o w \o SubSeq(lines[i], f, Len(lines[i]))
  <2>1. Len(lines) \in Nat /\ i \in 1..Len(lines) /\ lines[i] \in Seq(Marks)
    BY <1>2, LenProperties DEF Lines
  <2>2. l \in Seq(Marks)
    BY <1>2, <2>1, LenProperties, WordInserts
  <2>3. WordInserted(lines, i, f, w) = [lines EXCEPT ![i] = l]
    BY <1>2 DEF WordInserted
  <2> HIDE DEF l
  <2>4. i <= Len(lines)
    BY <2>1
  <2> QED BY <2>2, <2>3, <2>4, LineReplaced
<1> QED BY <1>1, <1>2

LEMMA DeletedIsText ==
  ASSUME NEW lines \in Lines, NEW i \in Nat \ {0}, NEW s \in [from : Nat \ {0}, len : Nat]
  PROVE  WordDeleted(lines, i, s) \in Lines
<1>1. CASE i > Len(lines) \/ s.from + s.len - 1 > Len(lines[i])
  BY <1>1 DEF WordDeleted
<1>2. CASE ~(i > Len(lines) \/ s.from + s.len - 1 > Len(lines[i]))
  <2> DEFINE a == SubSeq(lines[i], 1, s.from - 1)
             b == SubSeq(lines[i], s.from + s.len, Len(lines[i]))
  <2>1. Len(lines) \in Nat /\ i \in 1..Len(lines) /\ lines[i] \in Seq(Marks)
    BY <1>2, LenProperties DEF Lines
  <2>2. Len(lines[i]) \in Nat /\ \A c \in 1..Len(lines[i]) : lines[i][c] \in Marks
    BY <2>1, LenProperties
  <2>3. a \in Seq(Marks)
    <3>1. s.from - 1 \in Int /\ \A c \in 1..(s.from - 1) : c \in 1..Len(lines[i])
      BY <1>2, <2>2
    <3> QED BY <2>2, <3>1, SubSeqProperties
  <2>4. b \in Seq(Marks)
    <3>1. s.from + s.len \in Int /\ \A c \in (s.from + s.len)..Len(lines[i]) : c \in 1..Len(lines[i])
      BY <2>2
    <3> QED BY <2>2, <3>1, SubSeqProperties
  <2>5. a \o b \in Seq(Marks)
    BY <2>3, <2>4, ConcatProperties
  <2> DEFINE l == a \o b
  <2>6. WordDeleted(lines, i, s) = [lines EXCEPT ![i] = l]
    BY <1>2 DEF WordDeleted
  <2>7. i <= Len(lines) /\ l \in Seq(Marks)
    BY <2>1, <2>5
  <2> HIDE DEF l
  <2>8. [lines EXCEPT ![i] = l] \in Lines
    BY <2>7, LineReplaced
  <2> QED BY <2>6, <2>8
<1> QED BY <1>1, <1>2

LEMMA ErasedIsText ==
  ASSUME NEW lines \in Lines
  PROVE  Erased(lines) \in Lines
<1> DEFINE n == Len(lines)
<1>1. lines \in Seq(Seq(Marks)) /\ n \in Nat \ {0} /\ n \in 1..n /\ DOMAIN lines = 1..n
  BY LenProperties, EmptySeq DEF Lines
<1>2. lines[n] \in Seq(Marks) /\ Last(lines) = lines[n]
  BY <1>1 DEF Last
<1>3. CASE Last(lines) # <<>>
  <2>1. Len(lines[n]) \in Nat /\ \A c \in 1..(Len(lines[n]) - 1) : lines[n][c] \in Marks
    BY <1>2, LenProperties
  <2>2. Front(lines[n]) \in Seq(Marks)
    BY <2>1, SubSeqProperties DEF Front
  <2>3. Erased(lines) = [lines EXCEPT ![n] = Front(lines[n])]
    BY <1>3 DEF Erased
  <2> DEFINE f == Front(lines[n])
  <2> HIDE DEF f
  <2>4. f \in Seq(Marks) /\ n <= Len(lines) /\ n \in Nat \ {0}
    BY <1>1, <2>2 DEF f
  <2> HIDE DEF n
  <2>5. [lines EXCEPT ![n] = f] \in Lines
    BY <2>4, LineReplaced
  <2> QED BY <2>3, <2>5 DEF f
<1>4. CASE ~(Last(lines) # <<>>) /\ n > 1
  <2>1. \A i \in 1..(n - 1) : lines[i] \in Seq(Marks)
    BY <1>1
  <2>2. Front(lines) \in Seq(Seq(Marks)) /\ Len(Front(lines)) = n - 1
    BY <1>1, <1>4, <2>1, SubSeqProperties DEF Front
  <2>3. Front(lines) # <<>>
    BY <1>1, <1>4, <2>2, EmptySeq
  <2>4. Erased(lines) = Front(lines)
    BY <1>4 DEF Erased
  <2> QED BY <2>2, <2>3, <2>4 DEF Lines
<1>5. CASE ~(Last(lines) # <<>>) /\ ~(n > 1)
  BY <1>5 DEF Erased
<1> QED BY <1>3, <1>4, <1>5

\* What a full cell takes lies in its line.
LEMMA SpanInLine ==
  ASSUME doc \in Lines, NEW e \in Edits
  PROVE  /\ SpanOf(e) \in [from : Nat \ {0}, len : Nat]
         /\ SpanOf(e).from + SpanOf(e).len - 1 <= Len(LineAt(doc, e.line))
<1> DEFINE l == LineAt(doc, e.line)
<1>1. e.line \in Nat \ {0} /\ e.col \in Nat \ {0} /\ e.unit \in Units
  BY DEF Edits
<1>2. l \in Seq(Marks) /\ Len(l) \in Nat
  BY <1>1, LineIsText, LenProperties
<1>3. NoSpan \in [from : Nat \ {0}, len : Nat] /\ NoSpan.from + NoSpan.len - 1 = 0
  BY DEF NoSpan
<1> HIDE DEF l
<1>4. CASE l = <<>>
  BY <1>2, <1>3, <1>4 DEF SpanOf, l
<1>5. CASE l # <<>> /\ e.unit = "Line"
  <2>1. SpanOf(e) = [from |-> 1, len |-> Len(l)]
    BY <1>5 DEF SpanOf, l
  <2> QED BY <1>2, <2>1 DEF l
<1>6. CASE l # <<>> /\ e.unit = "Word"
  <2>1. SpanOf(e) = WordAt(l, e.col)
    BY <1>6 DEF SpanOf, l
  <2> QED BY <1>1, <1>2, <1>6, <2>1, WordInLine DEF l
<1>7. CASE l # <<>> /\ e.unit = "Letter"
  <2>1. SpanOf(e) = IF e.col <= Len(l) THEN [from |-> e.col, len |-> 1] ELSE NoSpan
    BY <1>7 DEF SpanOf, l
  <2>2. CASE e.col <= Len(l)
    BY <1>1, <1>2, <2>1, <2>2 DEF l
  <2>3. CASE ~(e.col <= Len(l))
    BY <1>2, <1>3, <2>1, <2>3 DEF l
  <2> QED BY <2>2, <2>3
<1> QED BY <1>1, <1>4, <1>5, <1>6, <1>7 DEF Units

LEMMA FullCellTargets ==
  ASSUME doc \in Lines, edit \in Edits, NEW full \in BOOLEAN
  PROVE  /\ FullCell(edit, full) \in Edits
         /\ FullCell(edit, full).st = "ReplacementLine" => Targets(doc, FullCell(edit, full))
<1> DEFINE sp == SpanOf(edit)
           tg == Covered(doc, edit.line, sp)
           f == [edit EXCEPT !.st = "ReplacementLine", !.span = sp, !.target = tg]
<1>1. sp \in [from : Nat \ {0}, len : Nat] /\ sp.from + sp.len - 1 <= Len(LineAt(doc, edit.line))
  BY SpanInLine
<1>2. tg \in Seq(Marks)
  <2>1. LineAt(doc, edit.line) \in Seq(Marks)
    BY LineIsText DEF Edits
  <2>2. /\ Len(LineAt(doc, edit.line)) \in Nat
        /\ \A c \in 1..Len(LineAt(doc, edit.line)) : LineAt(doc, edit.line)[c] \in Marks
    BY <2>1, LenProperties
  <2> HIDE DEF sp
  <2>3. /\ sp.from \in Int /\ sp.from + sp.len - 1 \in Int
        /\ \A c \in sp.from..(sp.from + sp.len - 1) : c \in 1..Len(LineAt(doc, edit.line))
    BY <1>1, <2>2
  <2> QED BY <2>2, <2>3, SubSeqProperties DEF Covered
<1>3. CASE ~full
  BY <1>3 DEF FullCell, Edits, States
<1>4. CASE full
  <2>1. FullCell(edit, full) = f
    BY <1>4 DEF FullCell
  <2> HIDE DEF sp
  <2>2. Targets(doc, f) <=> (sp.from + sp.len - 1 <= Len(LineAt(doc, edit.line)) /\ tg = tg)
    <3> HIDE DEF tg
    <3>1. f.span = sp /\ f.line = edit.line /\ f.target = tg
      BY DEF Edits
    <3> HIDE DEF f
    <3> QED BY <3>1 DEF Targets, tg
  <2> HIDE DEF tg
  <2>3. f \in Edits
    BY <1>1, <1>2 DEF Edits, States
  <2> QED BY <1>1, <2>1, <2>2, <2>3
<1> QED BY <1>3, <1>4

\* Where a review goes is a place of the document.
LEMMA ColumnsAreCounted ==
  ASSUME NEW l \in Seq(Marks), l # <<>>
  PROVE  /\ Len(l) \in Nat \ {0} /\ LastWord(l) \in Nat \ {0}
         /\ \A c \in Nat \ {0} : WordAt(l, c).from \in Nat \ {0}
<1>1. Len(l) \in Nat \ {0}
  BY LenProperties, EmptySeq
<1>2. \A c \in Nat \ {0} : WordAt(l, c).from \in Nat \ {0}
  BY WordInLine
<1> QED BY <1>1, <1>2 DEF LastWord

LEMMA AtIsPlace ==
  ASSUME NEW e \in Edits, NEW i \in Nat \ {0}, NEW c \in Nat \ {0}
  PROVE  At(e, i, c) \in Edits /\ At(e, i, c).st = "LineReview"
BY DEF At, Edits, States

LEMMA LettersCounted ==
  ASSUME NEW l \in Seq(Marks), NEW a \in Nat, NEW b \in Int
  PROVE  /\ Letters(l, a, b) \in SUBSET (Nat \ {0})
         /\ \A i \in Letters(l, a, b) : i <= Len(l)
<1>1. DOMAIN l = 1..Len(l) /\ Len(l) \in Nat
  BY LenProperties
<1>2. \A i \in Letters(l, a, b) : i \in 1..Len(l)
  BY <1>1 DEF Letters
<1> QED BY <1>1, <1>2

LEMMA BackIsPlace ==
  ASSUME doc \in Lines, NEW e \in Edits, e.st # "ReplacementLine"
  PROVE  MovedBack(e) \in Edits /\ MovedBack(e).st # "ReplacementLine"
<1> DEFINE l == LineAt(doc, e.line)
           before == Letters(l, 1, e.col - 1)
           prev == LineAt(doc, e.line - 1)
           col == IF e.unit = "Line" \/ prev = <<>> THEN 1
                  ELSE IF e.unit = "Letter" THEN Len(prev) ELSE LastWord(prev)
<1>1. e.line \in Nat \ {0} /\ e.col \in Nat \ {0}
  BY DEF Edits
<1>2. l \in Seq(Marks)
  BY <1>1, LineIsText
<1>3. e.line # 1 => e.line - 1 \in Nat \ {0} /\ prev \in Seq(Marks)
  BY <1>1, LineIsText
<1>4. e.line # 1 => col \in Nat \ {0}
  BY <1>3, ColumnsAreCounted
<1>5. e.unit = "Word" /\ e.col > 1 /\ before # {} => WordAt(l, Greatest(before)).from \in Nat \ {0}
  <2> SUFFICES ASSUME before # {} PROVE WordAt(l, Greatest(before)).from \in Nat \ {0}
    OBVIOUS
  <2>1. before \in SUBSET (Nat \ {0}) /\ \A i \in before : i <= Len(l)
    BY <1>1, <1>2, LettersCounted
  <2>2. Len(l) \in Nat
    BY <1>2, LenProperties
  <2> HIDE DEF before, l
  <2>3. Greatest(before) \in before
    BY <2>1, <2>2, GreatestOf
  <2>4. l # <<>>
    <3>1. Greatest(before) \in Nat \ {0} /\ Greatest(before) <= Len(l)
      BY <2>1, <2>3
    <3>2. Len(l) # 0
      BY <2>2, <3>1
    <3> QED BY <3>2, EmptySeq
  <2> QED BY <1>2, <2>1, <2>3, <2>4, ColumnsAreCounted
<1>6. MovedBack(e) =
        CASE e.unit = "Letter" /\ e.col > 1 -> At(e, e.line, e.col - 1)
          [] e.unit = "Word" /\ e.col > 1 /\ before # {} ->
               At(e, e.line, WordAt(l, Greatest(before)).from)
          [] OTHER -> IF e.line = 1 THEN e ELSE At(e, e.line - 1, col)
  BY DEF MovedBack
<1> HIDE DEF l, before, prev, col
<1>7. CASE e.unit = "Letter" /\ e.col > 1
  <2>1. MovedBack(e) = At(e, e.line, e.col - 1)
    BY <1>6, <1>7
  <2>2. e.col - 1 \in Nat \ {0}
    BY <1>1, <1>7
  <2> QED BY <1>1, <2>1, <2>2, AtIsPlace
<1>8. CASE e.unit = "Word" /\ e.col > 1 /\ before # {}
  <2>1. MovedBack(e) = At(e, e.line, WordAt(l, Greatest(before)).from)
    BY <1>6, <1>8
  <2> QED BY <1>1, <1>5, <1>8, <2>1, AtIsPlace
<1>9. CASE ~(e.unit = "Letter" /\ e.col > 1) /\ ~(e.unit = "Word" /\ e.col > 1 /\ before # {})
  <2>1. MovedBack(e) = IF e.line = 1 THEN e ELSE At(e, e.line - 1, col)
    BY <1>6, <1>9
  <2> QED BY <1>3, <1>4, <2>1, AtIsPlace
<1> QED BY <1>7, <1>8, <1>9

LEMMA OnIsPlace ==
  ASSUME doc \in Lines, NEW e \in Edits, e.st # "ReplacementLine"
  PROVE  MovedOn(e) \in Edits /\ MovedOn(e).st # "ReplacementLine"
<1> DEFINE l == LineAt(doc, e.line)
           word == WordAt(l, e.col)
           after == Letters(l, word.from + word.len, Len(l))
           next == LineAt(doc, e.line + 1)
           first == Letters(next, 1, Len(next))
           col == IF e.unit = "Word" /\ first # {} THEN Least(first) ELSE 1
<1>1. e.line \in Nat \ {0} /\ e.col \in Nat \ {0} /\ e.line + 1 \in Nat \ {0} /\ e.col + 1 \in Nat \ {0}
  BY DEF Edits
<1>2. l \in Seq(Marks) /\ next \in Seq(Marks) /\ Len(l) \in Nat /\ Len(next) \in Nat
  BY <1>1, LineIsText, LenProperties
<1>3. col \in Nat \ {0}
  <2>1. first \in SUBSET (Nat \ {0})
    BY <1>2, LettersCounted
  <2> HIDE DEF first
  <2>2. first # {} => Least(first) \in first
    BY <2>1, LeastOf
  <2>3. first # {} => Least(first) \in Nat \ {0}
    BY <2>1, <2>2
  <2> QED BY <2>3
<1>4. l # <<>> /\ after # {} => Least(after) \in Nat \ {0}
  <2> SUFFICES ASSUME l # <<>>, after # {} PROVE Least(after) \in Nat \ {0}
    OBVIOUS
  <2>1. word.from + word.len \in Nat
    <3>1. word \in [from : Nat \ {0}, len : Nat]
      BY <1>1, <1>2, WordInLine
    <3> HIDE DEF word
    <3> QED BY <3>1
  <2>2. after \in SUBSET (Nat \ {0})
    <3> HIDE DEF word, l
    <3> QED BY <1>2, <2>1, LettersCounted
  <2> HIDE DEF after
  <2> QED BY <2>2, LeastOf
<1>6. MovedOn(e) =
        CASE e.unit = "Letter" /\ e.col < Len(l) -> At(e, e.line, e.col + 1)
          [] e.unit = "Word" /\ l # <<>> /\ after # {} -> At(e, e.line, Least(after))
          [] OTHER -> IF e.line >= Len(doc) THEN e ELSE At(e, e.line + 1, col)
  BY DEF MovedOn
<1> HIDE DEF l, word, after, next, first, col
<1>7. CASE e.unit = "Letter" /\ e.col < Len(l)
  <2>1. MovedOn(e) = At(e, e.line, e.col + 1)
    BY <1>6, <1>7
  <2> QED BY <1>1, <2>1, AtIsPlace
<1>8. CASE e.unit = "Word" /\ l # <<>> /\ after # {}
  <2>1. MovedOn(e) = At(e, e.line, Least(after))
    BY <1>6, <1>8
  <2> QED BY <1>1, <1>4, <1>8, <2>1, AtIsPlace
<1>9. CASE ~(e.unit = "Letter" /\ e.col < Len(l)) /\ ~(e.unit = "Word" /\ l # <<>> /\ after # {})
  <2>1. MovedOn(e) = IF e.line >= Len(doc) THEN e ELSE At(e, e.line + 1, col)
    BY <1>6, <1>9
  <2> QED BY <1>1, <1>3, <2>1, AtIsPlace
<1> QED BY <1>7, <1>8, <1>9

LEMMA LineIn ==
  ASSUME doc \in Lines, NEW i \in Nat \ {0}, NEW line, line = (IF i > Len(doc) THEN Len(doc) ELSE i)
  PROVE  line \in Nat \ {0} /\ doc[line] \in Seq(Marks)
<1>1. doc \in Seq(Seq(Marks)) /\ Len(doc) \in Nat \ {0}
  BY LenProperties, EmptySeq DEF Lines
<1>2. line \in 1..Len(doc)
  BY <1>1
<1> QED BY <1>1, <1>2, LenProperties

LEMMA BegunIsPlace ==
  ASSUME doc \in Lines, NEW e \in Edits, NEW i \in Nat \ {0}
  PROVE  Begun(e, i) \in Edits /\ Begun(e, i).st # "ReplacementLine"
<1> DEFINE line == IF i > Len(doc) THEN Len(doc) ELSE i
           l == doc[line]
           col == IF l = <<>> \/ e.unit = "Line" THEN 1
                  ELSE IF e.unit = "Letter" THEN Len(l) ELSE LastWord(l)
<1>1. line \in Nat \ {0} /\ l \in Seq(Marks)
  BY LineIn
<1> HIDE DEF line
<1>2. col \in Nat \ {0}
  BY <1>1, ColumnsAreCounted
<1>3. Begun(e, i) = [e EXCEPT !.st = "LineReview", !.line = line, !.col = col]
  BY DEF Begun, line
<1> HIDE DEF l, col
<1> QED BY <1>1, <1>2, <1>3 DEF Edits, States

LEMMA WithUnitIsPlace ==
  ASSUME doc \in Lines, edit \in Edits, NEW unit \in Units
  PROVE  /\ WithUnit(edit, unit) \in Edits
         /\ WithUnit(edit, unit).st = "ReplacementLine" =>
              /\ edit.st = "ReplacementLine" /\ WithUnit(edit, unit).line = edit.line
              /\ WithUnit(edit, unit).span = edit.span /\ WithUnit(edit, unit).target = edit.target
<1>1. CASE Reviewing
  <2> DEFINE line == IF edit.line > Len(doc) THEN Len(doc) ELSE edit.line
             l == doc[line]
             col == IF l = <<>> THEN 1 ELSE IF edit.col > Len(l) THEN Len(l) ELSE edit.col
             to == IF unit = "Word" THEN WordAt(l, col).from ELSE col
  <2>1. line \in Nat \ {0} /\ l \in Seq(Marks)
    BY LineIn DEF Edits
  <2> HIDE DEF line
  <2>2. col \in Nat \ {0}
    BY <2>1, ColumnsAreCounted DEF Edits
  <2>3. to \in Nat \ {0}
    <3>1. l # <<>> => WordAt(l, col).from \in Nat \ {0}
      <4> HIDE DEF l, col
      <4> QED BY <2>1, <2>2, ColumnsAreCounted
    <3>2. l = <<>> => WordAt(l, col).from = 1
      BY DEF WordAt, NoSpan
    <3> HIDE DEF l, col
    <3> QED BY <2>2, <3>1, <3>2
  <2>4. WithUnit(edit, unit) = [At(edit, line, to) EXCEPT !.unit = unit]
    BY <1>1 DEF WithUnit, Snapped, line
  <2> HIDE DEF l, col, to
  <2>5. At(edit, line, to) \in Edits /\ At(edit, line, to).st = "LineReview"
    BY <2>1, <2>3, AtIsPlace
  <2> QED BY <2>4, <2>5 DEF Edits
<1>2. CASE ~Reviewing
  <2>1. WithUnit(edit, unit) = [edit EXCEPT !.unit = unit]
    BY <1>2 DEF WithUnit
  <2> QED BY <2>1 DEF Edits
<1> QED BY <1>1, <1>2

-----------------------------------------------------------------------------
(* The steps                                                               *)

LEMMA DocumentInitInv == DocumentInit => DocumentInv
BY DocumentAssumption, EmptySeq DEF DocumentInit, DocumentInv, Edits, States, Units, NoSpan

\* The line under a replacement may only grow.
LEMMA DocumentGrows ==
  ASSUME DocumentInv, doc' \in Lines, UNCHANGED edit, brl' \in [chords : Nat, queue : Nat],
         edit.st = "ReplacementLine" => Grown(doc, doc')
  PROVE  DocumentInv'
<1>1. edit.st = "ReplacementLine" /\ edit.span.len > 0 => Targets(doc', edit)
  BY GrownKeepsTarget DEF DocumentInv
<1>2. Targets(doc', edit') <=> Targets(doc', edit)
  OBVIOUS
<1> HIDE DEF Targets
<1>3. Targets(doc, edit)' <=> Targets(doc', edit')
  BY DEF Targets, Covered, LineAt
<1> QED BY <1>1, <1>2, <1>3 DEF DocumentInv

LEMMA NoReplacement ==
  ASSUME doc' \in Lines, edit' \in Edits, edit'.st # "ReplacementLine",
         brl' \in [chords : Nat, queue : Nat]
  PROVE  DocumentInv'
BY DEF DocumentInv

LEMMA TextOf ==
  /\ \A n \in Nat : Word(n) \in Seq(Marks) /\ Append(Word(n), " ") \in Seq(Marks)
  /\ <<"o">> \in Seq(Marks) /\ <<"d">> \in Seq(Marks) /\ <<" ", "d">> \in Seq(Marks)
<1>1. ASSUME NEW n \in Nat PROVE Word(n) \in Seq(Marks)
  <2> DEFINE w == [i \in 1..n |-> "n"]
  <2>1. w \in [1..n -> Marks]
    BY DEF Marks
  <2> HIDE DEF w
  <2>2. w \in Seq(Marks)
    BY <2>1, SeqDef
  <2> QED BY <2>2 DEF Word, w
<1>2. "o" \in Marks /\ "d" \in Marks /\ " " \in Marks
  BY DEF Marks
<1>3. <<"o">> \in Seq(Marks) /\ <<"d">> \in Seq(Marks) /\ <<" ", "d">> \in Seq(Marks)
  <2>1. ASSUME NEW S, NEW x \in S, NEW y \in S PROVE <<x>> \in Seq(S) /\ <<x, y>> \in Seq(S)
    OBVIOUS
  <2> QED BY <1>2, <2>1
<1>4. \A n \in Nat : Append(Word(n), " ") \in Seq(Marks)
  BY <1>1, <1>2, AppendProperties
<1> QED BY <1>1, <1>3, <1>4

LEMMA DictationIsText ==
  ASSUME NEW lines \in Lines PROVE WithDictation(lines) \in Lines
<1> DEFINE l == Last(lines)
           w == IF l # <<>> /\ Last(l) # " " THEN <<" ", "d">> ELSE <<"d">>
<1>1. w \in Seq(Marks)
  BY TextOf
<1>2. WithDictation(lines) = Typed(lines, w)
  BY DEF WithDictation
<1> HIDE DEF w
<1> QED BY <1>1, <1>2, TypedGrows

LEMMA EditingSteps ==
  ASSUME DocumentInv,
         \/ \E full \in BOOLEAN : Reviewing /\ edit' = FullCell(edit, full)
         \/ Editing /\ edit' \in Steps(edit)
         \/ edit.st # "ReplacementLine"
              /\ edit' = Begun(edit, IF Reviewing THEN edit.line ELSE Len(doc))
         \/ Editing /\ edit' = Cancelled(edit)
         \/ \E unit \in Units : edit' = WithUnit(edit, unit),
         UNCHANGED doc, brl' \in [chords : Nat, queue : Nat]
  PROVE  DocumentInv'
<1>1. doc \in Lines /\ edit \in Edits /\ doc' = doc
  BY DEF DocumentInv
<1>2. \A x : Targets(doc', x) <=> Targets(doc, x)
  BY <1>1 DEF Targets, Covered, LineAt
<1>3. Targets(doc, edit)' <=> Targets(doc', edit')
  BY DEF Targets, Covered, LineAt
<1>4. ASSUME NEW full \in BOOLEAN, edit' = FullCell(edit, full) PROVE DocumentInv'
  <2>1. edit' \in Edits /\ (edit'.st = "ReplacementLine" => Targets(doc, edit'))
    BY <1>1, <1>4, FullCellTargets
  <2>2. edit'.st = "ReplacementLine" => Targets(doc, edit)'
    BY <1>2, <1>3, <2>1
  <2> QED BY <1>1, <2>1, <2>2 DEF DocumentInv
<1>5. CASE Editing /\ edit' \in Steps(edit)
  <2>1. CASE edit.st \in {"LineReview", "AwaitFullCell"}
    <3>1. edit' \in {MovedBack(edit), MovedOn(edit)}
      BY <1>5, <2>1 DEF Steps
    <3> QED BY <1>1, <2>1, <3>1, BackIsPlace, OnIsPlace, NoReplacement
  <2>2. CASE edit.st \notin {"LineReview", "AwaitFullCell"}
    <3>1. UNCHANGED edit
      BY <1>5, <2>2 DEF Steps
    <3> QED BY <1>1, <1>2, <1>3, <3>1 DEF DocumentInv
  <2> QED BY <2>1, <2>2
<1>6. CASE edit' = Begun(edit, IF Reviewing THEN edit.line ELSE Len(doc))
  <2>1. Len(doc) \in Nat \ {0} /\ edit.line \in Nat \ {0}
    BY <1>1, LenProperties, EmptySeq DEF Lines, Edits
  <2> QED BY <1>1, <1>6, <2>1, BegunIsPlace, NoReplacement
<1>7. CASE edit' = Cancelled(edit)
  <2>1. edit' \in Edits /\ edit'.st = "EmbossMode"
    BY <1>1, <1>7 DEF Cancelled, Edits, States
  <2> QED BY <1>1, <2>1, NoReplacement
<1>8. ASSUME NEW unit \in Units, edit' = WithUnit(edit, unit) PROVE DocumentInv'
  <2>1. /\ edit' \in Edits
        /\ edit'.st = "ReplacementLine" =>
             edit.st = "ReplacementLine" /\ edit'.line = edit.line
               /\ edit'.span = edit.span /\ edit'.target = edit.target
    BY <1>1, <1>8, WithUnitIsPlace
  <2>2. edit'.line = edit.line /\ edit'.span = edit.span /\ edit'.target = edit.target
          => (Targets(doc, edit') <=> Targets(doc, edit))
    BY DEF Targets
  <2>3. edit'.st = "ReplacementLine" /\ edit'.span.len > 0 => Targets(doc, edit)'
    BY <1>2, <1>3, <2>1, <2>2 DEF DocumentInv
  <2> QED BY <1>1, <2>1, <2>3 DEF DocumentInv
<1> QED BY <1>4, <1>5, <1>6, <1>7, <1>8

LEMMA SpaceTextInv ==
  ASSUME DocumentInv, SpaceText PROVE DocumentInv'
<1>1. /\ doc \in Lines /\ edit \in Edits /\ brl.chords \in Nat
      /\ brl' \in [chords : Nat, queue : Nat]
  BY DEF DocumentInv, SpaceText
<1>2. CASE edit.st = "ReplacementLine" /\ brl.chords = 0
  <2>1. UNCHANGED <<doc, edit>>
    BY <1>2 DEF SpaceText
  <2>2. Targets(doc, edit)' <=> Targets(doc, edit)
    BY <2>1 DEF Targets, Covered, LineAt
  <2> QED BY <1>1, <2>1, <2>2 DEF DocumentInv
<1>3. CASE edit.st = "ReplacementLine" /\ brl.chords # 0
  <2> DEFINE w == Word(brl.chords)
  <2>1. doc' = Replaced(edit, w) /\ edit' = Cancelled(edit)
    BY <1>3 DEF SpaceText
  <2>2. w \in Seq(Marks)
    BY <1>1, TextOf
  <2>3. edit.line \in Nat \ {0} /\ edit.span \in [from : Nat \ {0}, len : Nat] /\ edit.span.from \in Nat \ {0}
    BY <1>1 DEF Edits
  <2> HIDE DEF w
  <2>4. Replaced(edit, w) \in Lines
    <3>1. WordInserted(doc, edit.line, 1, w) \in Lines
      BY <1>1, <2>2, <2>3, InsertedIsText
    <3>2. WordDeleted(doc, edit.line, edit.span) \in Lines
      BY <1>1, <2>3, DeletedIsText
    <3>3. WordInserted(WordDeleted(doc, edit.line, edit.span), edit.line, edit.span.from, w) \in Lines
      BY <2>2, <2>3, <3>2, InsertedIsText
    <3> QED BY <3>1, <3>3 DEF Replaced
  <2>5. edit' \in Edits /\ edit'.st = "EmbossMode"
    BY <1>1, <2>1 DEF Cancelled, Edits, States
  <2> QED BY <1>1, <2>1, <2>4, <2>5, NoReplacement
<1>4. CASE edit.st # "ReplacementLine"
  <2>1. doc' = Typed(doc, Append(Word(brl.chords), " ")) /\ UNCHANGED edit
    BY <1>4 DEF SpaceText
  <2>2. doc' \in Lines
    BY <1>1, <2>1, TextOf, TypedGrows
  <2> QED BY <1>1, <1>4, <2>1, <2>2, NoReplacement
<1> QED BY <1>2, <1>3, <1>4

LEMMA DocumentStepInv ==
  ASSUME DocumentInv, DocumentKey \/ DocumentPoll \/ CopyCard PROVE DocumentInv'
<1>1. /\ doc \in Lines /\ edit \in Edits /\ brl \in [chords : Nat, queue : Nat]
      /\ brl.chords \in Nat /\ brl.queue \in Nat
  BY DEF DocumentInv
<1>2. Grown(doc, doc)
  <2>1. \A i \in Nat \ {0} : Len(LineAt(doc, i)) \in Nat
    BY <1>1, LineIsText, LenProperties
  <2> QED BY <2>1 DEF Grown
<1>3. ASSUME BraillerEnter PROVE DocumentInv'
  <2>1. doc' = Reloaded(doc) /\ UNCHANGED edit /\ brl' \in [chords : Nat, queue : Nat]
    BY <1>3 DEF BraillerEnter
  <2> QED BY <1>1, <2>1, ReloadedGrows, DocumentGrows
<1>4. ASSUME UNCHANGED <<doc, edit>>, brl' \in [chords : Nat, queue : Nat] PROVE DocumentInv'
  <2>1. UNCHANGED edit /\ doc' = doc
    BY <1>4
  <2> QED BY <1>1, <1>2, <1>4, <2>1, DocumentGrows
<1>5. ASSUME BraillerLeave PROVE DocumentInv'
  BY <1>4, <1>5 DEF BraillerLeave
<1>6. ASSUME Chord PROVE DocumentInv'
  <2>1. CASE Reviewing /\ \E full \in BOOLEAN : edit' = FullCell(edit, full) /\ UNCHANGED brl
    <3>1. UNCHANGED doc /\ UNCHANGED brl /\ \E full \in BOOLEAN : Reviewing /\ edit' = FullCell(edit, full)
      BY <1>6, <2>1 DEF Chord
    <3> QED BY <1>1, <3>1, EditingSteps
  <2>2. CASE brl' = [brl EXCEPT !.chords = @ + 1] /\ UNCHANGED edit
    BY <1>1, <1>4, <1>6, <2>2 DEF Chord
  <2> QED BY <1>6, <2>1, <2>2 DEF Chord
<1>7. ASSUME SpaceText PROVE DocumentInv'
  BY <1>7, SpaceTextInv
<1>8. ASSUME MoveKey PROVE DocumentInv'
  <2>1. Editing /\ edit' \in Steps(edit) /\ UNCHANGED doc /\ brl' = brl
    BY <1>8 DEF MoveKey
  <2> QED BY <1>1, <2>1, EditingSteps
<1>9. ASSUME EnterKey PROVE DocumentInv'
  <2>1. /\ edit.st # "ReplacementLine" /\ UNCHANGED doc /\ brl' = brl
        /\ edit' = Begun(edit, IF Reviewing THEN edit.line ELSE Len(doc))
    BY <1>9 DEF EnterKey
  <2> QED BY <1>1, <2>1, EditingSteps
<1>10. ASSUME BackspaceKey PROVE DocumentInv'
  <2>1. CASE Editing
    <3>1. edit' = Cancelled(edit) /\ brl' = [brl EXCEPT !.chords = 0] /\ UNCHANGED doc
      BY <1>10, <2>1 DEF BackspaceKey
    <3>2. brl' \in [chords : Nat, queue : Nat]
      BY <1>1, <3>1
    <3> QED BY <2>1, <3>1, <3>2, EditingSteps
  <2>2. CASE ~Editing /\ brl.chords > 0
    <3>1. brl' = [brl EXCEPT !.chords = @ - 1] /\ UNCHANGED <<doc, edit>>
      BY <1>10, <2>2 DEF BackspaceKey
    <3>2. brl' \in [chords : Nat, queue : Nat]
      BY <1>1, <2>2, <3>1
    <3> QED BY <1>4, <3>1, <3>2
  <2>3. CASE ~Editing /\ ~(brl.chords > 0)
    <3>1. doc' = Erased(doc) /\ UNCHANGED <<edit, brl>>
      BY <1>10, <2>3 DEF BackspaceKey
    <3>2. doc' \in Lines /\ edit' \in Edits /\ edit'.st # "ReplacementLine" /\ brl' = brl
      BY <1>1, <2>3, <3>1, ErasedIsText DEF Editing
    <3> QED BY <1>1, <3>2, NoReplacement
  <2> QED BY <2>1, <2>2, <2>3
<1>11. ASSUME NavUnit PROVE DocumentInv'
  <2>1. UNCHANGED doc /\ brl' = brl /\ \E unit \in Units : edit' = WithUnit(edit, unit)
    BY <1>11 DEF NavUnit, Units
  <2> QED BY <1>1, <2>1, EditingSteps
<1>12. ASSUME TranscriberEnter \/ TranscriberLeave PROVE DocumentInv'
  BY <1>1, <1>4, <1>12 DEF TranscriberEnter, TranscriberLeave, documentVars
<1>13. ASSUME Dictate PROVE DocumentInv'
  <2>1. CASE Editing
    <3>1. /\ brl' = (IF brl.queue < QueueLimit THEN [brl EXCEPT !.queue = @ + 1] ELSE brl)
          /\ UNCHANGED <<doc, edit>>
      BY <1>13, <2>1 DEF Dictate
    <3>2. brl' \in [chords : Nat, queue : Nat]
      BY <1>1, <3>1
    <3> QED BY <1>4, <3>1, <3>2
  <2>2. CASE ~Editing
    <3>1. doc' = WithDictation(doc) /\ UNCHANGED <<edit, brl>>
      BY <1>13, <2>2 DEF Dictate
    <3>2. doc' \in Lines /\ edit' \in Edits /\ edit'.st # "ReplacementLine" /\ brl' = brl
      BY <1>1, <2>2, <3>1, DictationIsText DEF Editing
    <3> QED BY <1>1, <3>2, NoReplacement
  <2> QED BY <2>1, <2>2
<1>14. ASSUME BraillerPoll PROVE DocumentInv'
  <2>1. ~Editing /\ brl.queue > 0 /\ doc' = WithDictation(doc) /\ UNCHANGED edit
          /\ brl' = [brl EXCEPT !.queue = @ - 1]
    BY <1>14 DEF BraillerPoll
  <2>2. doc' \in Lines /\ edit' \in Edits /\ edit'.st # "ReplacementLine"
    BY <1>1, <2>1, DictationIsText DEF Editing
  <2>3. brl' \in [chords : Nat, queue : Nat]
    BY <1>1, <2>1
  <2> QED BY <2>2, <2>3, NoReplacement
<1>15. ASSUME Transcribe PROVE DocumentInv'
  <2>1. doc' = Typed(doc, <<"d">>) /\ UNCHANGED edit /\ brl' = brl
    BY <1>15 DEF Transcribe
  <2> QED BY <1>1, <2>1, TextOf, TypedGrows, DocumentGrows
<1>16. ASSUME CopyCard PROVE DocumentInv'
  <2>1. doc' = Append(Typed(doc, <<"o">>), <<"o">>) /\ UNCHANGED edit /\ brl' = brl
    BY <1>16 DEF CopyCard
  <2> DEFINE t == Typed(doc, <<"o">>)
  <2>2. t \in Lines /\ Grown(doc, t)
    BY <1>1, TextOf, TypedGrows
  <2> HIDE DEF t
  <2>3. doc' \in Lines /\ Grown(t, doc')
    <3>1. doc' = Append(t, <<"o">>)
      BY <2>1 DEF t
    <3> QED BY <2>2, <3>1, TextOf, AppendGrows
  <2>4. Grown(doc, doc')
    <3>1. ASSUME NEW i \in Nat \ {0}
          PROVE  /\ Len(LineAt(doc, i)) <= Len(LineAt(doc', i))
                 /\ \A c \in 1..Len(LineAt(doc, i)) : LineAt(doc', i)[c] = LineAt(doc, i)[c]
      <4> DEFINE a == LineAt(doc, i)
                 b == LineAt(t, i)
                 c == LineAt(doc', i)
      <4>1. Len(a) \in Nat /\ Len(b) \in Nat /\ Len(c) \in Nat
        BY <1>1, <2>2, <2>3, LineIsText, LenProperties
      <4>2. Len(a) <= Len(b) /\ (\A k \in 1..Len(a) : b[k] = a[k])
        BY <2>2 DEF Grown
      <4>3. Len(b) <= Len(c) /\ (\A k \in 1..Len(b) : c[k] = b[k])
        BY <2>3 DEF Grown
      <4> HIDE DEF a, b, c
      <4>4. Len(a) <= Len(c) /\ (\A k \in 1..Len(a) : c[k] = a[k])
        BY <4>1, <4>2, <4>3
      <4> QED BY <4>4 DEF a, c
    <3> QED BY <3>1 DEF Grown
  <2> QED BY <1>1, <2>1, <2>3, <2>4, DocumentGrows
<1> QED
  BY <1>3, <1>5, <1>6, <1>7, <1>8, <1>9, <1>10, <1>11, <1>12, <1>13, <1>14, <1>15, <1>16
  DEF DocumentKey, DocumentPoll

\* The text a replacement will overwrite is what its full cell took, whatever the
\* document, the dictation, the cards copied and the visits in between.
THEOREM ReplacesWhatWasTaken == DocumentSpec => []TargetStays
<1>1. ASSUME DocumentInv, [DocumentKey \/ DocumentPoll \/ CopyCard]_documentVars PROVE DocumentInv'
  <2>1. CASE UNCHANGED documentVars
    <3>1. UNCHANGED edit /\ doc' = doc /\ brl' = brl
      BY <2>1 DEF documentVars
    <3>2. Targets(doc, edit)' <=> Targets(doc, edit)
      BY <3>1 DEF Targets, Covered, LineAt
    <3> QED BY <1>1, <3>1, <3>2 DEF DocumentInv
  <2> QED BY <1>1, <2>1, DocumentStepInv
<1> QED BY <1>1, DocumentInitInv, DocumentTargets, PTL DEF DocumentSpec

-----------------------------------------------------------------------------
(*****************************************************************************)
(* The contact that is shown is one the address book has.                    *)
(*****************************************************************************)

Screens ==
  {"MainMenu", "AddressBook", "Search", "Detail", "Actions", "RecentList", "AddName",
   "AddPhone"}
BookViews ==
  [at : Screens, query : Nat, list : Seq(Contacts), focus : Nat \ {0}, open : Nat,
   fromRecent : BOOLEAN, name : Nat, recent : Seq(Nat)]
Stores ==
  [mem : Seq(Contacts), disk : Seq(Contacts), inbox : Seq(Nat), recent : Seq(Nat),
   ids : Nat, full : Nat]

\* The recent contacts are those of the store while their list can be reached
\* without another reading of it.
ShowsStored(c, s) ==
  /\ c.at \in {"Detail", "Actions"} => c.open \in IdsOf(s.mem)
  /\ c.at = "AddressBook" => IdsOf(c.list) \subseteq IdsOf(s.mem)
  /\ \/ c.at \in {"MainMenu", "RecentList"}
     \/ c.at \in {"Detail", "Actions"} /\ c.fromRecent
     => c.recent \in Seq(IdsOf(s.mem))
  /\ c.at = "AddressBook" => c.focus <= Len(c.list) + 1
  /\ c.at = "RecentList" /\ c.recent # <<>> => c.focus <= Len(c.recent)

ContactsInv == con \in BookViews /\ store \in Stores /\ ShowsStored(con, store)

LEMMA ContactsStored == ContactsInv => OpenIsStored
<1> SUFFICES ASSUME ContactsInv PROVE OpenIsStored
  OBVIOUS
<1>1. con.at = "RecentList" => \A i \in DOMAIN con.recent : con.recent[i] \in IdsOf(store.mem)
  BY DEF ContactsInv, ShowsStored
<1> QED BY <1>1 DEF ContactsInv, ShowsStored, OpenIsStored

-----------------------------------------------------------------------------
(* The store                                                               *)

\* Sorting brings in no contact.
LEMMA SortedProperties ==
  ASSUME NEW V, V \subseteq Contacts, NEW contacts \in Seq(V)
  PROVE  Sorted(contacts) \in Seq(V)
<1> DEFINE n == Len(contacts)
           step == [l \in Seq(V) |-> [c \in V |-> Placed(l, c)]]
           By(f) == f = [i \in 0..n |-> IF i = 0 THEN <<>> ELSE Placed(f[i - 1], contacts[i])]
           by == CHOOSE f : By(f)
<1>1. ASSUME NEW l \in Seq(V), NEW c \in V PROVE Placed(l, c) \in Seq(V)
  <2> DEFINE has == {l[i] : i \in DOMAIN l}
             low == Among(l, {x \in has : x.key <= c.key})
             high == Among(l, {x \in has : x.key > c.key})
  <2>1. low \in Seq(V \cap {x \in has : x.key <= c.key})
    BY AmongProperties
  <2>2. high \in Seq(V \cap {x \in has : x.key > c.key})
    BY AmongProperties
  <2> HIDE DEF has
  <2>3. low \in Seq(V) /\ high \in Seq(V) /\ <<c>> \in Seq(V)
    <3> HIDE DEF low, high
    <3> QED BY <2>1, <2>2
  <2>4. Placed(l, c) = low \o <<c>> \o high
    BY DEF Placed, has
  <2> HIDE DEF low, high
  <2> QED BY <2>3, <2>4
<1>2. n \in Nat /\ \A i \in 1..n : contacts[i] \in V
  OBVIOUS
<1>3. step \in [Seq(V) -> [V -> Seq(V)]] /\ \A l \in Seq(V), c \in V : step[l][c] = Placed(l, c)
  BY <1>1
<1>4. <<>> \in Seq(V)
  OBVIOUS
<1> HIDE DEF step
<1>5. PICK g \in [0..n -> Seq(V)] :
        g[0] = <<>> /\ \A i \in 1..n : g[i] = step[g[i - 1]][contacts[i]]
  <2> DEFINE W == Seq(V)
  <2>1. step \in [W -> [V -> W]] /\ <<>> \in W
    BY <1>3, <1>4
  <2> HIDE DEF W
  <2>2. \E g \in [0..Len(contacts) -> W] : Through(g, <<>>, contacts, step)
    BY <2>1, GoesThrough
  <2> QED BY <2>2 DEF Through, W
<1>6. \A i \in 0..n : i # 0 => i - 1 \in 0..n /\ i \in 1..n
  BY <1>2
<1>7. \A i \in 1..n : i \in 0..n /\ i # 0
  BY <1>2
<1> HIDE DEF n
<1>8. By(g)
  <2>1. \A i \in 0..n : i # 0 => g[i] = Placed(g[i - 1], contacts[i])
    BY <1>2, <1>3, <1>5, <1>6
  <2>2. g = [i \in 0..n |-> g[i]]
    OBVIOUS
  <2> QED BY <1>5, <2>1, <2>2
<1> HIDE DEF By
<1>9. By(by)
  BY <1>8, Zenon
<1>10. Sorted(contacts) = by[n]
  BY Zenon DEF Sorted, By, n
<1> HIDE DEF by
<1>11. by[0] = <<>> /\ \A i \in 1..n : by[i] = Placed(by[i - 1], contacts[i])
  <2>1. 0 \in 0..n
    BY <1>2
  <2> QED BY <1>7, <1>9, <2>1 DEF By
<1>12. \A i \in 1..n : by[i - 1] \in Seq(V) => by[i] \in Seq(V)
  BY <1>1, <1>2, <1>11
<1>13. n \in 0..n
  BY <1>2
<1> QED BY <1>2, <1>4, <1>10, <1>11, <1>12, <1>13, AllAlong

LEMMA WithContactKeeps ==
  ASSUME NEW s \in Stores, NEW key \in Nat
  PROVE  WithContact(s, key) \in Stores
<1> DEFINE c == [id |-> s.ids + 1, key |-> key]
           m == s.mem
           same == {i \in DOMAIN m : m[i].key = c.key}
<1>1. m \in Seq(Contacts) /\ s.ids + 1 \in Nat
  BY DEF Stores
<1>2. c \in Contacts
  BY <1>1 DEF Contacts
<1> HIDE DEF m, c
<1>3. Upserted(m, c) \in Seq(Contacts)
  <2>1. CASE same = {}
    BY <1>1, <1>2, <2>1 DEF Upserted
  <2>2. CASE same # {}
    <3>1. same \in SUBSET Nat /\ same \subseteq DOMAIN m
      BY <1>1
    <3>2. Least(same) \in DOMAIN m
      BY <2>2, <3>1, LeastOf
    <3>3. Upserted(m, c) = [m EXCEPT ![Least(same)] = c]
      BY <2>2 DEF Upserted
    <3> HIDE DEF same
    <3> QED BY <1>1, <1>2, <3>2, <3>3
  <2> QED BY <2>1, <2>2
<1> DEFINE u == Upserted(m, c)
<1>4. WithContact(s, key) = [s EXCEPT !.ids = s.ids + 1, !.mem = u]
  BY DEF WithContact, m, c
<1> HIDE DEF u
<1>5. u \in Seq(Contacts)
  BY <1>3 DEF u
<1> QED BY <1>1, <1>4, <1>5 DEF Stores

LEMMA SavesKeeps ==
  ASSUME NEW s \in Stores, NEW t \in Saves(s)
  PROVE  t \in Stores /\ t.mem = s.mem
<1>1. t = [s EXCEPT !.disk = s.mem] \/ t = [s EXCEPT !.full = s.full + 1]
  BY DEF Saves
<1>2. s.full + 1 \in Nat /\ s.mem \in Seq(Contacts)
  BY DEF Stores
<1> QED BY <1>1, <1>2 DEF Stores

LEMMA ImportedKeeps == ASSUME NEW s \in Stores PROVE Imported(s) \in Stores
<1> DEFINE n == Len(s.inbox)
           step == [t \in Stores |-> [k \in Nat |-> WithContact(t, k)]]
           With(f) == f = [i \in 0..n |-> IF i = 0 THEN s ELSE WithContact(f[i - 1], s.inbox[i])]
           with == CHOOSE f : With(f)
<1>1. s.inbox \in Seq(Nat)
  BY DEF Stores
<1>2. n \in Nat /\ \A i \in 1..n : s.inbox[i] \in Nat
  BY <1>1
<1>3. step \in [Stores -> [Nat -> Stores]] /\ \A t \in Stores, k \in Nat : step[t][k] = WithContact(t, k)
  BY WithContactKeeps
<1> HIDE DEF step
<1>4. PICK g \in [0..n -> Stores] :
        g[0] = s /\ \A i \in 1..n : g[i] = step[g[i - 1]][s.inbox[i]]
  <2> DEFINE K == Nat
             q == s.inbox
  <2>1. step \in [Stores -> [K -> Stores]] /\ q \in Seq(K)
    BY <1>1, <1>3
  <2> HIDE DEF K, q
  <2>2. \E g \in [0..Len(q) -> Stores] : Through(g, s, q, step)
    BY <2>1, GoesThrough
  <2> QED BY <2>2 DEF Through, q
<1>5. \A i \in 0..n : i # 0 => i - 1 \in 0..n /\ i \in 1..n
  BY <1>2
<1>6. \A i \in 1..n : i \in 0..n /\ i # 0
  BY <1>2
<1> HIDE DEF n
<1>7. With(g)
  <2>1. \A i \in 0..n : i # 0 => g[i] = WithContact(g[i - 1], s.inbox[i])
    BY <1>2, <1>3, <1>4, <1>5
  <2>2. g = [i \in 0..n |-> g[i]]
    OBVIOUS
  <2> QED BY <1>4, <2>1, <2>2
<1> HIDE DEF With
<1>8. With(with)
  BY <1>7, Zenon
<1>9. Imported(s) = with[n]
  BY Zenon DEF Imported, With, n
<1> HIDE DEF with
<1>10. with[0] = s /\ \A i \in 1..n : with[i] = WithContact(with[i - 1], s.inbox[i])
  <2>1. 0 \in 0..n
    BY <1>2
  <2> QED BY <1>6, <1>8, <2>1 DEF With
<1>11. \A i \in 1..n : with[i - 1] \in Stores => with[i] \in Stores
  BY <1>2, <1>10, WithContactKeeps
<1>12. n \in 0..n
  BY <1>2
<1> QED BY <1>2, <1>9, <1>10, <1>11, <1>12, AllAlong

LEMMA LoadsKeeps == ASSUME NEW s \in Stores, NEW t \in Loads(s) PROVE t \in Stores
<1> DEFINE r == [s EXCEPT !.mem = s.disk]
<1>1. r \in Stores /\ t \in Imports(r)
  BY DEF Stores, Loads
<1> HIDE DEF r
<1>2. CASE r.inbox = <<>>
  BY <1>1, <1>2 DEF Imports
<1>3. CASE r.inbox # <<>>
  <2> DEFINE i == Imported(r)
             e == [i EXCEPT !.inbox = <<>>]
  <2>1. i \in Stores /\ <<>> \in Seq(Nat)
    BY <1>1, ImportedKeeps
  <2>2. t \in Saves(e)
    BY <1>1, <1>3 DEF Imports
  <2> HIDE DEF i
  <2>3. e \in Stores
    BY <2>1 DEF Stores
  <2> HIDE DEF e
  <2> QED BY <2>2, <2>3, SavesKeeps
<1> QED BY <1>2, <1>3

LEMMA AddsKeeps ==
  ASSUME NEW s \in Stores, NEW key \in Nat, NEW a \in Adds(s, key)
  PROVE  a.store \in Stores /\ a.ok \in BOOLEAN
<1>1. WithContact(s, key) \in Stores
  BY WithContactKeeps
<1>2. PICK t \in Saves(WithContact(s, key)) :
        a \in IF t.full = s.full THEN {[store |-> u, ok |-> TRUE] : u \in Loads(t)}
                                 ELSE {[store |-> t, ok |-> FALSE]}
  BY DEF Adds
<1>3. t \in Stores
  BY <1>1, <1>2, SavesKeeps
<1>4. (\E u \in Loads(t) : a = [store |-> u, ok |-> TRUE]) \/ a = [store |-> t, ok |-> FALSE]
  BY <1>2
<1>5. ASSUME NEW u \in Loads(t), a = [store |-> u, ok |-> TRUE] PROVE a.store \in Stores /\ a.ok
  BY <1>3, <1>5, LoadsKeeps
<1>6. a = [store |-> t, ok |-> FALSE] => a.store = t /\ ~a.ok /\ a.ok \in BOOLEAN
  OBVIOUS
<1> QED BY <1>3, <1>4, <1>5, <1>6

-----------------------------------------------------------------------------
(* What a screen is given                                                  *)

Stored(s) == {c \in Contacts : c.id \in IdsOf(s.mem)}

LEMMA IdsAreNat == ASSUME NEW s \in Stores PROVE IdsOf(s.mem) \subseteq Nat
<1> DEFINE m == s.mem
<1>1. m \in Seq(Contacts)
  BY DEF Stores
<1> HIDE DEF m
<1>2. \A i \in DOMAIN m : m[i] \in Contacts
  BY <1>1
<1>3. \A i \in DOMAIN m : m[i].id \in Nat
  BY <1>2 DEF Contacts
<1> QED BY <1>3 DEF IdsOf, m

LEMMA FoundIsStored ==
  ASSUME NEW s \in Stores, NEW query
  PROVE  Found(s, query) \in Seq(Stored(s))
<1> DEFINE m == s.mem
           S == {m[i] : i \in {j \in DOMAIN m : query \in {0, m[j].key}}}
<1>1. m \in Seq(Contacts)
  BY DEF Stores
<1>2. \A i \in 1..Len(m) : m[i] \in Stored(s)
  BY <1>1 DEF Stored, IdsOf
<1>3. m \in Seq(Stored(s))
  <2> HIDE DEF m
  <2> QED BY <1>1, <1>2
<1>4. Found(s, query) = Among(m, S)
  BY DEF Found
<1> HIDE DEF m, S
<1>5. Among(m, S) \in Seq(Stored(s) \cap S)
  BY <1>3, AmongProperties
<1> QED BY <1>4, <1>5

LEMMA StoredIds ==
  ASSUME NEW s, NEW l \in Seq(Stored(s))
  PROVE  IdsOf(l) \subseteq IdsOf(s.mem) /\ l \in Seq(Contacts)
BY DEF Stored, IdsOf

LEMMA ListedKeeps ==
  ASSUME NEW c \in BookViews, NEW s \in Stores
  PROVE  Listed(c, s) \in BookViews /\ ShowsStored(Listed(c, s), s)
<1> DEFINE list == Sorted(Found(s, c.query))
           f == IF list = <<>> THEN 1 ELSE 2
           d == [c EXCEPT !.at = "AddressBook", !.list = list, !.focus = f]
<1>1. list \in Seq(Stored(s))
  <2>1. Stored(s) \subseteq Contacts
    BY DEF Stored
  <2> QED BY <2>1, FoundIsStored, SortedProperties
<1>2. Listed(c, s) = d
  BY DEF Listed
<1> HIDE DEF list
<1>3. IdsOf(list) \subseteq IdsOf(s.mem) /\ list \in Seq(Contacts)
  BY <1>1, StoredIds
<1>4. f \in Nat \ {0} /\ f <= Len(list) + 1
  BY <1>3
<1> HIDE DEF f
<1>5. d \in BookViews
  BY <1>3, <1>4 DEF BookViews, Screens
<1>6. d.at = "AddressBook" /\ d.list = list /\ d.focus = f
  BY DEF BookViews
<1> HIDE DEF d
<1> QED BY <1>2, <1>3, <1>4, <1>5, <1>6 DEF ShowsStored

LEMMA RecentIsStored ==
  ASSUME NEW s \in Stores
  PROVE  RecentOf(s) \in Seq(Nat) /\ RecentOf(s) \in Seq(IdsOf(s.mem))
<1> DEFINE r == s.recent
           I == IdsOf(s.mem)
<1>1. r \in Seq(Nat) /\ RecentOf(s) = Among(r, I)
  BY DEF Stores, RecentOf
<1> HIDE DEF r, I
<1>2. Among(r, I) \in Seq(Nat \cap I)
  BY <1>1, AmongProperties
<1> QED BY <1>1, <1>2 DEF I

LEMMA ReturnKeeps ==
  ASSUME NEW c \in BookViews, NEW s \in Stores
  PROVE  ReturnToMain(c, s) \in BookViews /\ ShowsStored(ReturnToMain(c, s), s)
<1> DEFINE r == RecentOf(s)
           m == MainMenu(c)
           d == [m EXCEPT !.recent = r]
<1>1. PICK one \in Nat \ {0}, none \in Nat : one = 1 /\ none = 0
  OBVIOUS
<1>2. r \in Seq(Nat) /\ r \in Seq(IdsOf(s.mem))
  BY RecentIsStored
<1>3. ReturnToMain(c, s) = d
  BY DEF ReturnToMain
<1>4. m = [c EXCEPT !.at = "MainMenu", !.query = none, !.name = none, !.focus = one]
  BY <1>1 DEF MainMenu
<1> HIDE DEF r, m
<1>5. m \in BookViews /\ m.at = "MainMenu"
  BY <1>4 DEF BookViews, Screens
<1>6. d \in BookViews /\ d.at = "MainMenu" /\ d.recent = r
  BY <1>2, <1>5 DEF BookViews, Screens
<1> HIDE DEF d
<1> QED BY <1>2, <1>3, <1>6 DEF ShowsStored

\* Where nothing of the store is shown.
LEMMA PlainShows ==
  ASSUME NEW c, NEW s, c.at \in {"Search", "AddName", "AddPhone"}
  PROVE  ShowsStored(c, s)
BY DEF ShowsStored

LEMMA RecentScreenKeeps ==
  ASSUME NEW c \in BookViews, NEW s, c.recent \in Seq(IdsOf(s.mem))
  PROVE  RecentScreen(c) \in BookViews /\ ShowsStored(RecentScreen(c), s)
<1> DEFINE d == RecentScreen(c)
<1>1. PICK one \in Nat \ {0} : one = 1
  OBVIOUS
<1>2. d = [c EXCEPT !.at = "RecentList", !.focus = one]
  BY <1>1 DEF RecentScreen
<1> HIDE DEF d
<1>3. d \in BookViews /\ d.at = "RecentList" /\ d.recent = c.recent /\ d.focus = 1
  BY <1>1, <1>2 DEF BookViews, Screens
<1>4. d.recent # <<>> => 1 <= Len(d.recent)
  BY <1>3
<1> QED BY <1>3, <1>4 DEF ShowsStored, d

LEMMA OpensKeeps ==
  ASSUME NEW c \in BookViews, NEW s \in Stores, NEW id \in IdsOf(s.mem),
         c.at = "RecentList" => c.recent \in Seq(IdsOf(s.mem)), Opens(c, s, id)
  PROVE  con' \in BookViews /\ store' \in Stores /\ ShowsStored(con', store')
<1> DEFINE T == {c.recent[i] : i \in DOMAIN c.recent} \ {id}
           rest == Among(c.recent, T)
           recent == <<id>> \o rest
           k == IF Len(recent) > MaxRecent THEN MaxRecent ELSE Len(recent)
           kept == SubSeq(recent, 1, k)
           from == (c.at = "RecentList")
           d == [c EXCEPT !.open = id, !.fromRecent = from, !.recent = kept, !.at = "Detail"]
           t == [s EXCEPT !.recent = kept]
<1>1. con' = d /\ store' = t
  BY DEF Opens
<1>2. id \in Nat /\ c.recent \in Seq(Nat) /\ MaxRecent \in Nat
  BY IdsAreNat DEF BookViews, MaxRecent
<1>3. ASSUME NEW V, id \in V, c.recent \in Seq(V) PROVE kept \in Seq(V)
  <2>1. rest \in Seq(V \cap T)
    <3> HIDE DEF T
    <3> QED BY <1>3, AmongProperties
  <2> HIDE DEF rest
  <2>2. rest \in Seq(V)
    BY <2>1
  <2>3. recent \in Seq(V)
    BY <1>3, <2>2
  <2> HIDE DEF recent
  <2>4. k \in 0..Len(recent) /\ Len(recent) \in Nat
    BY <1>2, <2>3
  <2> HIDE DEF k
  <2>5. \A i \in 1..k : recent[i] \in V
    BY <2>3, <2>4
  <2> QED BY <2>3, <2>4, <2>5, SubSeqProperties
<1> HIDE DEF kept
<1>4. kept \in Seq(Nat)
  BY <1>2, <1>3
<1>5. from => kept \in Seq(IdsOf(s.mem))
  BY <1>3
<1> HIDE DEF from
<1>6. from \in BOOLEAN
  BY DEF from
<1>7. d \in BookViews /\ d.at = "Detail" /\ d.open = id /\ d.fromRecent = from /\ d.recent = kept
  BY <1>2, <1>4, <1>6 DEF BookViews, Screens
<1>8. t \in Stores /\ t.mem = s.mem
  BY <1>4 DEF Stores
<1> HIDE DEF d, t
<1> QED BY <1>1, <1>5, <1>7, <1>8 DEF ShowsStored

-----------------------------------------------------------------------------
(* The keys                                                                *)

LEMMA FreshIsFresh ==
  Fresh \in BookViews /\ Fresh.at = "MainMenu" /\ Fresh.recent = <<>>
<1>1. <<>> \in Seq(Contacts) /\ <<>> \in Seq(Nat)
  OBVIOUS
<1> QED BY <1>1 DEF Fresh, BookViews, Screens

LEMMA ContactsInitInv == ContactsInit => ContactsInv
<1> SUFFICES ASSUME ContactsInit PROVE ContactsInv
  OBVIOUS
<1>1. PICK n \in DOMAIN Book :
        store = [mem |-> SubSeq(Book, 1, n), disk |-> SubSeq(Book, 1, n), inbox |-> <<>>,
                 recent |-> <<>>, ids |-> Len(SubSeq(Book, 1, n)), full |-> 0]
  BY DEF ContactsInit
<1> DEFINE b == SubSeq(Book, 1, n)
<1>2. Book \in Seq(Contacts) /\ n \in 1..Len(Book)
  BY ContactsAssumption
<1>3. b \in Seq(Contacts)
  <2>1. n \in 0..Len(Book) /\ \A i \in 1..n : Book[i] \in Contacts
    BY <1>2
  <2> QED BY <1>2, <2>1, SubSeqProperties
<1> HIDE DEF b
<1>4. <<>> \in Seq(Nat) /\ Len(b) \in Nat
  BY <1>3
<1>5. store = [mem |-> b, disk |-> b, inbox |-> <<>>, recent |-> <<>>, ids |-> Len(b), full |-> 0]
  BY <1>1 DEF b
<1>6. store \in Stores
  BY <1>3, <1>4, <1>5 DEF Stores
<1>7. ShowsStored(Fresh, store)
  BY FreshIsFresh DEF ShowsStored
<1> QED BY <1>6, <1>7, FreshIsFresh DEF ContactsInit, ContactsInv

LEMMA EnterShows == ASSUME ContactsInv, ContactsEnter PROVE ContactsInv'
<1>1. PICK s \in Loads(store) : store' = s /\ con' = [Fresh EXCEPT !.recent = RecentOf(s)]
  BY DEF ContactsEnter
<1>2. s \in Stores
  BY LoadsKeeps DEF ContactsInv
<1> DEFINE f == Fresh
           r == RecentOf(s)
           d == [f EXCEPT !.recent = r]
<1>3. r \in Seq(Nat) /\ r \in Seq(IdsOf(s.mem)) /\ f \in BookViews /\ f.at = "MainMenu"
  BY <1>2, RecentIsStored, FreshIsFresh
<1> HIDE DEF f, r
<1>4. d \in BookViews /\ d.at = "MainMenu" /\ d.recent = r
  BY <1>3 DEF BookViews
<1>5. con' = d
  BY <1>1 DEF f, r
<1> HIDE DEF d
<1> QED BY <1>1, <1>2, <1>3, <1>4, <1>5 DEF ContactsInv, ShowsStored

LEMMA LeaveShows == ASSUME ContactsInv, ContactsLeave PROVE ContactsInv'
<1>1. con' = Fresh /\ store' = store
  BY DEF ContactsLeave
<1>2. ShowsStored(Fresh, store)
  BY FreshIsFresh DEF ShowsStored
<1> QED BY <1>1, <1>2, FreshIsFresh DEF ContactsInv

LEMMA BrowseShows ==
  ASSUME ContactsInv, NEW phase \in Screens, NEW n \in Nat, Browse(phase, n),
         phase = "AddressBook" => n <= Len(con.list) + 1,
         phase = "RecentList" => n <= Len(con.recent)
  PROVE  ContactsInv'
<1>1. con.at = phase /\ store' = store
  BY DEF Browse, InContacts, StoreKept
<1>2. PICK i \in 1..n : con' = [con EXCEPT !.focus = i]
  BY DEF Browse
<1>3. i \in Nat \ {0} /\ i <= n
  OBVIOUS
<1>4. /\ con' \in BookViews /\ con'.at = con.at /\ con'.focus = i /\ con'.list = con.list
      /\ con'.open = con.open /\ con'.fromRecent = con.fromRecent /\ con'.recent = con.recent
  BY <1>2, <1>3 DEF ContactsInv, BookViews
<1>5. Len(con.list) \in Nat /\ Len(con.recent) \in Nat
  <2>1. con.list \in Seq(Contacts) /\ con.recent \in Seq(Nat)
    BY DEF ContactsInv, BookViews
  <2> QED BY <2>1
<1>6. phase = "AddressBook" => i <= Len(con.list) + 1
  BY <1>3, <1>5
<1>7. phase = "RecentList" => i <= Len(con.recent)
  BY <1>3, <1>5
<1> QED BY <1>1, <1>4, <1>6, <1>7 DEF ContactsInv, ShowsStored

LEMMA BrowsesShow == ASSUME ContactsInv, ContactsBrowse PROVE ContactsInv'
<1>1. Len(con.list) + 1 \in Nat /\ Len(con.recent) \in Nat
  <2>1. con.list \in Seq(Contacts) /\ con.recent \in Seq(Nat)
    BY DEF ContactsInv, BookViews
  <2> QED BY <2>1
<1>2. CASE Browse("MainMenu", 3)
  BY <1>2, BrowseShows DEF Screens
<1>3. CASE Browse("AddressBook", Len(con.list) + 1)
  BY <1>1, <1>3, BrowseShows DEF Screens
<1>4. CASE Browse("RecentList", Len(con.recent))
  BY <1>1, <1>4, BrowseShows DEF Screens
<1>5. CASE Browse("Actions", 2)
  BY <1>5, BrowseShows DEF Screens
<1> QED BY <1>2, <1>3, <1>4, <1>5 DEF ContactsBrowse

\* A name or a query is typed, and nothing of the store is shown.
LEMMA PlainKeeps ==
  ASSUME store \in Stores, store' = store, con' \in BookViews,
         con'.at \in {"Search", "AddName", "AddPhone"}
  PROVE  ContactsInv'
<1>1. ShowsStored(con', store')
  BY DEF ShowsStored
<1> QED BY <1>1 DEF ContactsInv

LEMMA TypesQuery ==
  ASSUME NEW c \in BookViews, NEW q \in Nat
  PROVE  [c EXCEPT !.query = q] \in BookViews /\ [c EXCEPT !.query = q].at = c.at
BY DEF BookViews

LEMMA TypesName ==
  ASSUME NEW c \in BookViews, NEW n \in Nat
  PROVE  [c EXCEPT !.name = n] \in BookViews /\ [c EXCEPT !.name = n].at = c.at
BY DEF BookViews

LEMMA Turns ==
  ASSUME NEW c \in BookViews, NEW a \in Screens
  PROVE  [c EXCEPT !.at = a] \in BookViews /\ [c EXCEPT !.at = a].at = a
BY DEF BookViews

LEMMA StartAddShows == ASSUME ContactsInv, con' = StartAdd(con), store' = store PROVE ContactsInv'
<1>1. PICK none \in Nat : none = 0
  OBVIOUS
<1>2. con' = [con EXCEPT !.at = "AddName", !.name = none]
  BY <1>1 DEF StartAdd
<1>3. con' \in BookViews /\ con'.at = "AddName"
  BY <1>2 DEF ContactsInv, BookViews, Screens
<1> QED BY <1>3, PlainShows DEF ContactsInv

LEMMA ListedShows ==
  ASSUME NEW c \in BookViews, NEW s \in Stores, con' = Listed(c, s), store' = s
  PROVE  ContactsInv'
BY ListedKeeps DEF ContactsInv

LEMMA ReturnShows ==
  ASSUME ContactsInv, con' = ReturnToMain(con, store), store' = store
  PROVE  ContactsInv'
BY ReturnKeeps DEF ContactsInv

LEMMA MainMenuShows == ASSUME ContactsInv, MainMenuEnter PROVE ContactsInv'
<1>1. con \in BookViews /\ store \in Stores /\ con.at = "MainMenu" /\ con.recent \in Seq(IdsOf(store.mem))
  BY DEF MainMenuEnter, InContacts, ContactsInv, ShowsStored
<1>2. CASE con' = RecentScreen(con) /\ store' = store
  BY <1>1, <1>2, RecentScreenKeeps DEF ContactsInv
<1>3. ASSUME NEW s \in Loads(store), store' = s, con' = Listed([con EXCEPT !.query = 0], s)
      PROVE  ContactsInv'
  <2> DEFINE c == [con EXCEPT !.query = 0]
  <2>1. PICK none \in Nat : none = 0
    OBVIOUS
  <2>2. c = [con EXCEPT !.query = none]
    BY <2>1
  <2> HIDE DEF c
  <2>3. c \in BookViews
    BY <1>1, <2>2, TypesQuery
  <2>4. con' = Listed(c, s) /\ s \in Stores
    BY <1>1, <1>3, LoadsKeeps DEF c
  <2> QED BY <1>3, <2>3, <2>4, ListedShows
<1>4. CASE con' = StartAdd(con) /\ store' = store
  BY <1>4, StartAddShows
<1> QED BY <1>2, <1>3, <1>4 DEF MainMenuEnter, StoreKept

LEMMA AddActionShows == ASSUME ContactsInv, AddAction PROVE ContactsInv'
BY StartAddShows DEF AddAction, StoreKept

LEMMA AddressBookShows == ASSUME ContactsInv, AddressBookKey PROVE ContactsInv'
<1>1. con \in BookViews /\ store \in Stores /\ con.at = "AddressBook"
  BY DEF AddressBookKey, InContacts, ContactsInv
<1>2. CASE con' = ReturnToMain(con, store) /\ store' = store
  BY <1>2, ReturnShows
<1>3. CASE con' = [con EXCEPT !.at = "Search"] /\ store' = store
  <2>1. con' \in BookViews /\ con'.at = "Search"
    BY <1>1, <1>3, Turns DEF Screens
  <2> QED BY <1>1, <1>3, <2>1, PlainKeeps
<1>4. CASE con.focus > 1 /\ Opens(con, store, con.list[con.focus - 1].id)
  <2> DEFINE l == con.list
             f == con.focus
             I == IdsOf(store.mem)
  <2>1. l \in Seq(Contacts) /\ f \in Nat \ {0}
    BY <1>1 DEF BookViews
  <2>2. f <= Len(l) + 1 /\ IdsOf(l) \subseteq I
    BY <1>1 DEF ContactsInv, ShowsStored
  <2>3. f > 1 /\ Opens(con, store, l[f - 1].id)
    BY <1>4
  <2> HIDE DEF l, f, I
  <2>4. f - 1 \in DOMAIN l
    BY <2>1, <2>2, <2>3
  <2>5. l[f - 1].id \in I
    BY <2>2, <2>4 DEF IdsOf
  <2> QED BY <1>1, <2>3, <2>5, OpensKeeps DEF ContactsInv, I
<1> QED BY <1>2, <1>3, <1>4 DEF AddressBookKey, StoreKept

LEMMA RecentShows == ASSUME ContactsInv, RecentKey PROVE ContactsInv'
<1>1. /\ con \in BookViews /\ store \in Stores /\ con.at = "RecentList"
      /\ con.recent \in Seq(IdsOf(store.mem))
  BY DEF RecentKey, InContacts, ContactsInv, ShowsStored
<1>2. CASE con' = MainMenu(con) /\ store' = store
  <2>1. PICK one \in Nat \ {0}, none \in Nat : one = 1 /\ none = 0
    OBVIOUS
  <2>2. con' = [con EXCEPT !.at = "MainMenu", !.query = none, !.name = none, !.focus = one]
    BY <1>2, <2>1 DEF MainMenu
  <2>3. con' \in BookViews /\ con'.at = "MainMenu" /\ con'.recent = con.recent
    BY <1>1, <2>2 DEF BookViews, Screens
  <2>4. ShowsStored(con', store')
    BY <1>1, <1>2, <2>3 DEF ShowsStored
  <2> QED BY <1>1, <1>2, <2>3, <2>4 DEF ContactsInv
<1>3. CASE con.recent # <<>> /\ Opens(con, store, con.recent[con.focus])
  <2> DEFINE r == con.recent
             f == con.focus
             I == IdsOf(store.mem)
  <2>1. r \in Seq(I) /\ f \in Nat \ {0}
    BY <1>1 DEF BookViews
  <2>2. f <= Len(r)
    BY <1>1, <1>3 DEF ContactsInv, ShowsStored
  <2>3. Opens(con, store, r[f])
    BY <1>3
  <2> HIDE DEF r, f
  <2>4. r[f] \in I
    <3> HIDE DEF I
    <3> QED BY <2>1, <2>2
  <2> QED BY <1>1, <2>3, <2>4, OpensKeeps DEF ContactsInv
<1> QED BY <1>2, <1>3 DEF RecentKey, StoreKept

LEMMA SearchShows == ASSUME ContactsInv, SearchKey PROVE ContactsInv'
<1>1. con \in BookViews /\ store \in Stores /\ con.at = "Search"
  BY DEF SearchKey, InContacts, ContactsInv
<1>2. ASSUME NEW q \in Nat, con' = [con EXCEPT !.query = q], store' = store PROVE ContactsInv'
  BY <1>1, <1>2, TypesQuery, PlainKeeps
<1>3. ASSUME NEW s \in Loads(store) PROVE s \in Stores
  BY <1>1, LoadsKeeps
<1>4. ASSUME NEW s \in Loads(store), store' = s, con' = Listed(con, s) PROVE ContactsInv'
  BY <1>1, <1>3, <1>4, ListedShows
<1>5. ASSUME NEW s \in Loads(store), Len(Found(s, con.query)) = 1,
             Opens([con EXCEPT !.list = Found(s, con.query)], s, Found(s, con.query)[1].id)
      PROVE  ContactsInv'
  <2> DEFINE l == Found(s, con.query)
             c == [con EXCEPT !.list = l]
             I == IdsOf(s.mem)
  <2>1. l \in Seq(Stored(s)) /\ s \in Stores
    BY <1>3, FoundIsStored
  <2>2. Len(l) = 1 /\ Opens(c, s, l[1].id)
    BY <1>5
  <2> HIDE DEF l
  <2>3. IdsOf(l) \subseteq I /\ l \in Seq(Contacts)
    BY <2>1, StoredIds
  <2> HIDE DEF I
  <2>4. l[1].id \in I
    BY <2>2, <2>3 DEF IdsOf
  <2>5. c \in BookViews /\ c.at = "Search"
    BY <1>1, <2>3 DEF BookViews
  <2> HIDE DEF c
  <2> QED BY <2>1, <2>2, <2>4, <2>5, OpensKeeps DEF ContactsInv, I
<1>6. \A k \in Names : k \in Nat
  BY ContactsAssumption
<1>7. CASE con' = [con EXCEPT !.query = 0] /\ store' = store
  BY <1>2, <1>7
<1> QED BY <1>2, <1>4, <1>5, <1>6, <1>7 DEF SearchKey, StoreKept

LEMMA DetailShows == ASSUME ContactsInv, DetailKey PROVE ContactsInv'
<1>1. con \in BookViews /\ store \in Stores /\ con.at = "Detail"
  BY DEF DetailKey, InContacts, ContactsInv
<1>2. con.open \in IdsOf(store.mem) /\ (con.fromRecent => con.recent \in Seq(IdsOf(store.mem)))
  BY <1>1 DEF ContactsInv, ShowsStored
<1>3. CASE con' = [con EXCEPT !.at = "Actions", !.focus = 1] /\ store' = store
  <2>1. PICK one \in Nat \ {0} : one = 1
    OBVIOUS
  <2>2. con' = [con EXCEPT !.at = "Actions", !.focus = one]
    BY <1>3, <2>1
  <2>3. /\ con' \in BookViews /\ con'.at = "Actions" /\ con'.recent = con.recent
        /\ con'.open = con.open /\ con'.fromRecent = con.fromRecent
    BY <1>1, <2>2 DEF BookViews, Screens
  <2>4. ShowsStored(con', store')
    BY <1>2, <1>3, <2>3 DEF ShowsStored
  <2> QED BY <1>1, <1>3, <2>3, <2>4 DEF ContactsInv
\* The open contact is forgotten on the way back.
<1>4. ASSUME NEW d \in BookViews, NEW s \in Stores, ShowsStored(d, s), d.at \in {"RecentList", "AddressBook"},
             con' = [d EXCEPT !.open = 0], store' = s
      PROVE  ContactsInv'
  <2>1. PICK none \in Nat : none = 0
    OBVIOUS
  <2>2. con' = [d EXCEPT !.open = none]
    BY <1>4, <2>1
  <2>3. /\ con' \in BookViews /\ con'.at = d.at /\ con'.recent = d.recent /\ con'.list = d.list
        /\ con'.focus = d.focus /\ con'.fromRecent = d.fromRecent
    BY <2>2 DEF BookViews
  <2>4. ShowsStored(con', store')
    BY <1>4, <2>3 DEF ShowsStored
  <2> QED BY <1>4, <2>3, <2>4 DEF ContactsInv
<1>5. CASE con.fromRecent /\ con' = [RecentScreen(con) EXCEPT !.open = 0] /\ store' = store
  <2> DEFINE d == RecentScreen(con)
  <2>1. d.at = "RecentList"
    BY <1>1 DEF RecentScreen, BookViews
  <2>2. d \in BookViews /\ ShowsStored(d, store)
    BY <1>1, <1>2, <1>5, RecentScreenKeeps
  <2>3. con' = [d EXCEPT !.open = 0]
    BY <1>5
  <2> HIDE DEF d
  <2> QED BY <1>1, <1>4, <1>5, <2>1, <2>2, <2>3
<1>6. ASSUME NEW s \in Loads(store), store' = s, con' = [Listed(con, s) EXCEPT !.open = 0]
      PROVE  ContactsInv'
  <2> DEFINE d == Listed(con, s)
  <2>1. s \in Stores
    BY <1>1, LoadsKeeps
  <2>2. d.at = "AddressBook"
    BY <1>1 DEF Listed, BookViews
  <2>3. d \in BookViews /\ ShowsStored(d, s)
    BY <1>1, <2>1, ListedKeeps
  <2>4. con' = [d EXCEPT !.open = 0]
    BY <1>6
  <2> HIDE DEF d
  <2> QED BY <1>4, <1>6, <2>1, <2>2, <2>3, <2>4
<1> QED BY <1>3, <1>5, <1>6 DEF DetailKey, StoreKept

\* Back from the actions, or a copied card.
LEMMA ActionsShow ==
  ASSUME ContactsInv, con.at = "Actions", con' = [con EXCEPT !.at = "Detail"], store' = store
  PROVE  ContactsInv'
<1>1. /\ con' \in BookViews /\ con'.at = "Detail" /\ con'.recent = con.recent
      /\ con'.open = con.open /\ con'.fromRecent = con.fromRecent
  BY DEF ContactsInv, BookViews, Screens
<1>2. ShowsStored(con', store')
  BY <1>1 DEF ContactsInv, ShowsStored
<1> QED BY <1>1, <1>2 DEF ContactsInv

LEMMA AddShows == ASSUME ContactsInv, AddKey PROVE ContactsInv'
<1>1. con \in BookViews /\ store \in Stores
  BY DEF ContactsInv
<1>2. ASSUME NEW n \in Nat, con.at = "AddName", con' = [con EXCEPT !.name = n], store' = store
      PROVE  ContactsInv'
  BY <1>1, <1>2, TypesName, PlainKeeps
<1>3. ASSUME NEW a \in {"AddName", "AddPhone"}, con' = [con EXCEPT !.at = a], store' = store
      PROVE  ContactsInv'
  <2>1. a \in Screens
    BY DEF Screens
  <2>2. con' \in BookViews /\ con'.at = a
    BY <1>1, <1>3, <2>1, Turns
  <2> QED BY <1>1, <1>3, <2>2, PlainKeeps
<1>4. ASSUME NEW a \in Adds(store, con.name), con.at = "AddPhone", store' = a.store,
             con' = IF a.ok THEN ReturnToMain(con, a.store) ELSE con
      PROVE  ContactsInv'
  <2>1. con.name \in Nat
    BY <1>1 DEF BookViews
  <2>2. a.store \in Stores
    BY <1>1, <2>1, AddsKeeps
  <2>3. CASE a.ok
    BY <1>1, <1>4, <2>2, <2>3, ReturnKeeps DEF ContactsInv
  <2>4. CASE ~a.ok
    <3>1. con' = con
      BY <1>4, <2>4
    <3>2. ShowsStored(con', store')
      BY <1>4, <3>1 DEF ShowsStored
    <3> QED BY <1>1, <1>4, <2>2, <3>1, <3>2 DEF ContactsInv
  <2> QED BY <2>3, <2>4
<1>5. \A k \in Names : k \in Nat
  BY ContactsAssumption
<1>6. CASE InContacts("AddName") /\ StoreKept
           /\ \/ con.name = 0 /\ \E k \in Names : con' = [con EXCEPT !.name = k]
              \/ con.name # 0 /\ con' \in {[con EXCEPT !.name = 0], [con EXCEPT !.at = "AddPhone"]}
              \/ con.name = 0 /\ con' = ReturnToMain(con, store)
  <2>1. con.at = "AddName" /\ store' = store
    BY <1>6 DEF InContacts, StoreKept
  <2>2. CASE con' = [con EXCEPT !.name = 0]
    BY <1>2, <2>1, <2>2
  <2>3. CASE con' = [con EXCEPT !.at = "AddPhone"]
    BY <1>3, <2>1, <2>3
  <2>4. CASE con' = ReturnToMain(con, store)
    BY <2>1, <2>4, ReturnShows
  <2>5. ASSUME NEW k \in Names, con' = [con EXCEPT !.name = k] PROVE ContactsInv'
    BY <1>2, <1>5, <2>1, <2>5
  <2> QED BY <1>6, <2>2, <2>3, <2>4, <2>5
<1>7. CASE InContacts("AddPhone") /\ StoreKept /\ con' = [con EXCEPT !.at = "AddName"]
  BY <1>3, <1>7 DEF StoreKept
<1> QED BY <1>4, <1>6, <1>7 DEF AddKey, InContacts

LEMMA ImportShows == ASSUME ContactsInv, ImportFile PROVE ContactsInv'
<1>1. PICK k \in Names : store' = [store EXCEPT !.inbox = <<k>>]
  BY DEF ImportFile
<1>2. con' = con
  BY DEF ImportFile
<1>3. <<k>> \in Seq(Nat)
  BY ContactsAssumption
<1> DEFINE i == <<k>>
<1>4. store' = [store EXCEPT !.inbox = i] /\ i \in Seq(Nat)
  BY <1>1, <1>3
<1> HIDE DEF i
<1>5. store' \in Stores /\ store'.mem = store.mem
  BY <1>4 DEF ContactsInv, Stores
<1>6. ShowsStored(con', store')
  BY <1>2, <1>5 DEF ContactsInv, ShowsStored
<1> QED BY <1>2, <1>5, <1>6 DEF ContactsInv

LEMMA ContactsStepInv ==
  ASSUME ContactsInv, [ContactsKey \/ ContactsWork]_contactsVars PROVE ContactsInv'
<1>1. CASE UNCHANGED contactsVars
  <2>1. con' = con /\ store' = store
    BY <1>1 DEF contactsVars
  <2> QED BY <2>1 DEF ContactsInv
<1>2. CASE CopyCard
  BY <1>2, ActionsShow DEF CopyCard, InContacts, StoreKept
<1>3. CASE ActionsKey
  BY <1>3, ActionsShow DEF ActionsKey, InContacts, StoreKept
<1> QED BY <1>1, <1>2, <1>3, EnterShows, LeaveShows, BrowsesShow, MainMenuShows, AddActionShows,
           AddressBookShows, RecentShows, SearchShows, DetailShows, AddShows, ImportShows
        DEF ContactsKey, ContactsWork

\* For every address book, import and order of keys, with saves that fail: the contact
\* whose card is shown, copied or embossed is one the store has, and each line of a list
\* opens the contact it names (contacts_app.cpp, contacts_store.cpp).
THEOREM OpenStaysStored == ContactsSpec => []OpenIsStored
<1>1. ContactsInv /\ [ContactsKey \/ ContactsWork]_contactsVars => ContactsInv'
  BY ContactsStepInv
<1> QED BY <1>1, ContactsInitInv, ContactsStored, PTL DEF ContactsSpec

-----------------------------------------------------------------------------
(*****************************************************************************)
(* The readers of the reference apps stay inside the text they read.         *)
(*****************************************************************************)

Dicts ==
  [at : {"Search", "PickMatch", "ReadDefinition", "ReadText"},
   query : DOMAIN Matches \cup {"none"}, matches : Seq(DOMAIN Words),
   m : Nat \ {0}, entries : Nat, e : Nat \ {0}, lines : Nat, l : Nat]
DictInv ==
  /\ dict \in Dicts
  /\ dict.at = "ReadText" => dict.e <= dict.entries
  /\ dict.at = "PickMatch" => dict.m <= Len(dict.matches)

Wikis ==
  [at : {"Search", "PickResult", "Read"}, typed : BOOLEAN, results : Nat, r : Nat \ {0},
   lines : Nat, l : Nat]
WikiInv == wiki \in Wikis /\ (wiki.at # "Search" => wiki.r <= wiki.results)

Sessions == [score : Nat, attempts : Nat, missed : SUBSET STRING]
Spells ==
  [at : {"PickList", "PickMode", "Learn", "Quiz", "Review"}, list : Nat \ {0}, mode : 1..3,
   word : Nat \ {0}, active : Nat, review : Seq(STRING), session : Sessions]
\* A list was chosen, and the word asked is in what is asked.
SpellInv ==
  /\ spell \in Spells /\ (Lists # <<>> => spell.list <= Len(Lists))
  /\ spell.at # "PickList" => spell.active \in 1..Len(Lists)
  /\ spell.at \in {"Quiz", "Review"} => spell.word <= Len(Asked(spell))

ReferenceInv == DictInv /\ WikiInv /\ SpellInv

LEMMA ReferenceReads == ReferenceInv => ReadersInText
BY DEF ReferenceInv, DictInv, WikiInv, SpellInv, ReadersInText

LEMMA ReferenceInitInv == ReferenceInit => ReferenceInv
<1> SUFFICES ASSUME ReferenceInit PROVE ReferenceInv
  OBVIOUS
<1>1. <<>> \in Seq(DOMAIN Words) /\ <<>> \in Seq(STRING)
  OBVIOUS
<1>2. NoDict \in Dicts /\ NoDict.at = "Search"
  BY <1>1 DEF NoDict, Dicts
<1>3. NoWiki \in Wikis /\ NoWiki.at = "Search"
  BY DEF NoWiki, Wikis
<1>4. NoSpell \in Spells /\ NoSpell.at = "PickList" /\ NoSpell.list = 1
  BY <1>1 DEF NoSpell, NoSession, Spells, Sessions
<1>5. Lists # <<>> => 1 <= Len(Lists)
  BY ReferenceAssumption
<1> QED BY <1>2, <1>3, <1>4, <1>5 DEF ReferenceInit, ReferenceInv, DictInv, WikiInv, SpellInv

-----------------------------------------------------------------------------
(* The dictionary                                                          *)

LEMMA ReadingReads ==
  ASSUME NEW d \in Dicts, NEW w \in DOMAIN Words
  PROVE  Reading(d, w) \in Dicts /\ Reading(d, w).at = "ReadDefinition"
<1>1. PICK n \in Nat, q \in DOMAIN Matches \cup {"none"}, one \in Nat \ {0} :
        n = Words[w] /\ q = w /\ one = 1
  BY ReferenceAssumption
<1>2. Reading(d, w) = [d EXCEPT !.at = "ReadDefinition", !.query = q, !.entries = n, !.e = one]
  BY <1>1 DEF Reading
<1> QED BY <1>2, ZenonT(30) DEF Dicts

LEMMA LookedFinds ==
  ASSUME NEW d \in Dicts, d.at = "Search", d.query # "none"
  PROVE  /\ Looked(d) \in Dicts /\ Looked(d).at # "ReadText"
         /\ Looked(d).at = "PickMatch" => Looked(d).m <= Len(Looked(d).matches)
<1> DEFINE found == Matches[d.query]
           e == [d EXCEPT !.matches = found]
           p == [d EXCEPT !.matches = found, !.m = 1, !.at = "PickMatch"]
<1>1. d.query \in DOMAIN Matches /\ found \in Seq(DOMAIN Words)
  BY ReferenceAssumption DEF Dicts
<1>2. CASE d.query \in DOMAIN Words
  <2>1. Looked(d) = Reading(d, d.query)
    BY <1>2 DEF Looked
  <2> QED BY <1>2, <2>1, ReadingReads
<1>3. e \in Dicts /\ e.at = "Search" /\ p \in Dicts /\ p.m = 1 /\ p.matches = found
  <2>1. PICK f \in Seq(DOMAIN Words), one \in Nat \ {0} : f = found /\ one = 1
    BY <1>1
  <2>2. e = [d EXCEPT !.matches = f] /\ p = [d EXCEPT !.matches = f, !.m = one, !.at = "PickMatch"]
    BY <2>1
  <2> HIDE DEF found, e, p
  <2>3. e \in Dicts /\ e.at = "Search"
    BY <2>2 DEF Dicts
  <2>4. p \in Dicts /\ p.m = one /\ p.matches = f
    BY <2>2 DEF Dicts
  <2> QED BY <2>1, <2>3, <2>4
<1>4. CASE d.query \notin DOMAIN Words /\ Len(found) = 1
  <2>1. Looked(d) = Reading(e, found[1])
    BY <1>4 DEF Looked
  <2>2. found[1] \in DOMAIN Words
    <3> HIDE DEF found
    <3> QED BY <1>1, <1>4
  <2> HIDE DEF e, found
  <2> QED BY <1>3, <2>1, <2>2, ReadingReads
<1>5. CASE d.query \notin DOMAIN Words /\ Len(found) # 1
  <2>1. Looked(d) = IF found = <<>> THEN e ELSE p
    BY <1>5 DEF Looked
  <2>2. found # <<>> => 1 <= Len(found)
    <3> HIDE DEF found
    <3> QED BY <1>1
  <2>3. p.at = "PickMatch" /\ e.at # "PickMatch" /\ e.at # "ReadText"
    BY <1>1, <1>3 DEF Dicts
  <2> HIDE DEF e, p, found
  <2> QED BY <1>3, <2>1, <2>2, <2>3
<1> QED BY <1>2, <1>4, <1>5

LEMMA DictStep == ASSUME DictInv, DictionaryKey PROVE DictInv'
<1>1. dict \in Dicts /\ NoDict \in Dicts /\ NoDict.at = "Search"
  <2>1. <<>> \in Seq(DOMAIN Words)
    OBVIOUS
  <2> QED BY <2>1 DEF DictInv, NoDict, Dicts
<1>2. CASE DictionaryOpen \/ DictionaryExit
  BY <1>1, <1>2 DEF DictionaryOpen, DictionaryExit, DictInv
<1>3. CASE DictionarySearch
  <2>1. CASE \E q \in DOMAIN Matches \cup {"none"} : dict' = [dict EXCEPT !.query = q]
    <3>1. PICK q \in DOMAIN Matches \cup {"none"} : dict' = [dict EXCEPT !.query = q]
      BY <2>1
    <3>2. dict' \in Dicts /\ dict'.at = "Search"
      BY <1>1, <1>3, <3>1 DEF DictionarySearch, Dicts
    <3> QED BY <3>2 DEF DictInv
  <2>2. CASE dict.query # "none" /\ dict' = Looked(dict)
    <3>1. dict.at = "Search"
      BY <1>3 DEF DictionarySearch
    <3> QED BY <1>1, <2>2, <3>1, LookedFinds DEF DictInv
  <2> QED BY <1>3, <2>1, <2>2 DEF DictionarySearch
<1>4. CASE DictionaryPick
  <2>1. CASE dict' = [dict EXCEPT !.at = "Search", !.matches = <<>>, !.m = 1]
    <3>1. <<>> \in Seq(DOMAIN Words)
      OBVIOUS
    <3>2. dict' \in Dicts /\ dict'.at = "Search"
      <4>1. PICK f \in Seq(DOMAIN Words) : f = <<>>
        BY <3>1, Zenon
      <4>2. PICK one \in Nat \ {0} : one = 1
        OBVIOUS
      <4>3. dict' = [dict EXCEPT !.at = "Search", !.matches = f, !.m = one]
        BY <2>1, <4>1, <4>2
      <4> QED BY <1>1, <4>3 DEF Dicts
    <3> QED BY <3>2 DEF DictInv
  <2>2. CASE \E i \in Moves(dict.m, Len(dict.matches)) : dict' = [dict EXCEPT !.m = i]
    <3>1. PICK i \in Moves(dict.m, Len(dict.matches)) : dict' = [dict EXCEPT !.m = i]
      BY <2>2
    <3>2. dict.matches \in Seq(DOMAIN Words) /\ dict.at = "PickMatch"
      BY <1>1, <1>4 DEF Dicts, DictionaryPick
    <3>3. i \in 1..Len(dict.matches)
      BY <3>1 DEF Moves
    <3>4. i \in Nat \ {0} /\ i <= Len(dict.matches)
      BY <3>2, <3>3
    <3>5. dict' \in Dicts /\ dict'.at = "PickMatch" /\ dict'.m = i /\ dict'.matches = dict.matches
      BY <1>1, <3>1, <3>2, <3>4 DEF Dicts
    <3> QED BY <3>4, <3>5 DEF DictInv
  <2>3. CASE dict.matches # <<>> /\ dict' = Reading(dict, dict.matches[dict.m])
    <3>1. dict.matches \in Seq(DOMAIN Words) /\ dict.m \in Nat \ {0} /\ dict.m <= Len(dict.matches)
      BY <1>1, <1>4 DEF Dicts, DictionaryPick, DictInv
    <3>2. dict.matches[dict.m] \in DOMAIN Words
      BY <3>1
    <3>3. dict' \in Dicts /\ dict'.at = "ReadDefinition"
      BY <1>1, <2>3, <3>2, ReadingReads
    <3> QED BY <3>3 DEF DictInv
  <2> QED BY <1>4, <2>1, <2>2, <2>3 DEF DictionaryPick
<1>5. CASE DictionaryRead
  <2>1. CASE dict' = [dict EXCEPT !.at = "Search", !.entries = 0, !.e = 1]
    <3>1. dict' \in Dicts /\ dict'.at = "Search"
      <4>1. PICK z \in Nat, one \in Nat \ {0} : z = 0 /\ one = 1
        OBVIOUS
      <4>2. dict' = [dict EXCEPT !.at = "Search", !.entries = z, !.e = one]
        BY <2>1, <4>1
      <4> QED BY <1>1, <4>2 DEF Dicts
    <3> QED BY <3>1 DEF DictInv
  <2>2. CASE \E i \in Moves(dict.e, dict.entries) : dict' = [dict EXCEPT !.e = i]
    <3>1. PICK i \in Moves(dict.e, dict.entries) : dict' = [dict EXCEPT !.e = i]
      BY <2>2
    <3>2. i \in Nat \ {0}
      BY <1>1, <3>1 DEF Moves, Dicts
    <3>3. dict' \in Dicts /\ dict'.at = "ReadDefinition"
      BY <1>1, <1>5, <3>1, <3>2 DEF Dicts, DictionaryRead
    <3> QED BY <3>3 DEF DictInv
  <2>3. CASE /\ dict.e <= dict.entries
             /\ \E n \in Articles : dict' = [dict EXCEPT !.at = "ReadText", !.lines = n, !.l = 1]
    <3>1. PICK n \in Articles : dict' = [dict EXCEPT !.at = "ReadText", !.lines = n, !.l = 1]
      BY <2>3
    <3>2. n \in Nat
      BY ReferenceAssumption
    <3>3. dict' \in Dicts /\ dict'.at = "ReadText" /\ dict'.e = dict.e /\ dict'.entries = dict.entries
      BY <1>1, <3>1, <3>2 DEF Dicts
    <3> QED BY <2>3, <3>3 DEF DictInv
  <2> QED BY <1>5, <2>1, <2>2, <2>3 DEF DictionaryRead
<1>6. CASE DictionaryReadText
  <2>1. CASE dict' = [dict EXCEPT !.at = "ReadDefinition", !.lines = 0, !.l = 1]
    <3>1. dict' \in Dicts /\ dict'.at = "ReadDefinition"
      BY <1>1, <2>1 DEF Dicts
    <3> QED BY <3>1 DEF DictInv
  <2>2. CASE \E i \in Moves(dict.l, dict.lines) : dict' = [dict EXCEPT !.l = i]
    <3>1. PICK i \in Moves(dict.l, dict.lines) : dict' = [dict EXCEPT !.l = i]
      BY <2>2
    <3>2. i \in Nat
      BY <1>1, <3>1 DEF Moves, Dicts
    <3>3. dict' \in Dicts /\ dict'.at = "ReadText" /\ dict'.e = dict.e /\ dict'.entries = dict.entries
      BY <1>1, <1>6, <3>1, <3>2 DEF Dicts, DictionaryReadText
    <3> QED BY <1>6, <3>3 DEF DictInv, DictionaryReadText
  <2> QED BY <1>6, <2>1, <2>2 DEF DictionaryReadText
<1> QED BY <1>2, <1>3, <1>4, <1>5, <1>6 DEF DictionaryKey

-----------------------------------------------------------------------------
(* Wikipedia                                                               *)

LEMMA WikiStep == ASSUME WikiInv, WikipediaKey PROVE WikiInv'
<1>1. wiki \in Wikis /\ NoWiki \in Wikis /\ NoWiki.at = "Search"
  BY DEF WikiInv, NoWiki, Wikis
<1>2. PICK z \in Nat, one \in Nat \ {0} : z = 0 /\ one = 1
  OBVIOUS
<1>3. \A n \in Articles : n \in Nat /\ 1 <= n
  BY ReferenceAssumption
<1>4. CASE WikipediaOpen \/ WikipediaExit
  BY <1>1, <1>4 DEF WikipediaOpen, WikipediaExit, WikiInv
<1>5. CASE UNCHANGED wiki
  BY <1>5 DEF WikiInv
<1>6. CASE WikipediaSearch
  <2>1. wiki.at = "Search"
    BY <1>6 DEF WikipediaSearch
  <2>2. CASE wiki' = [wiki EXCEPT !.typed = ~@]
    <3>1. PICK b \in BOOLEAN : b = ~wiki.typed
      OBVIOUS
    <3>2. wiki' = [wiki EXCEPT !.typed = b]
      BY <2>2, <3>1
    <3>3. wiki' \in Wikis /\ wiki'.at = "Search"
      BY <1>1, <2>1, <3>2 DEF Wikis
    <3> QED BY <3>3 DEF WikiInv
  <2>3. CASE \E n \in Articles : wiki' = [wiki EXCEPT !.at = "PickResult", !.results = n, !.r = 1]
    <3>1. PICK n \in Articles : wiki' = [wiki EXCEPT !.at = "PickResult", !.results = n, !.r = one]
      BY <1>2, <2>3
    <3>2. wiki' \in Wikis /\ wiki'.r = one /\ wiki'.results = n
      BY <1>1, <1>3, <3>1 DEF Wikis
    <3> QED BY <1>2, <1>3, <3>2 DEF WikiInv
  <2> QED BY <1>5, <1>6, <2>2, <2>3 DEF WikipediaSearch
<1>7. CASE WikipediaPick
  <2>1. wiki.at = "PickResult"
    BY <1>7 DEF WikipediaPick
  <2>2. CASE wiki' = [wiki EXCEPT !.at = "Search", !.results = 0, !.r = 1]
    <3>1. wiki' = [wiki EXCEPT !.at = "Search", !.results = z, !.r = one]
      BY <1>2, <2>2
    <3>2. wiki' \in Wikis /\ wiki'.at = "Search"
      BY <1>1, <3>1 DEF Wikis
    <3> QED BY <3>2 DEF WikiInv
  <2>3. CASE \E i \in Moves(wiki.r, wiki.results) : wiki' = [wiki EXCEPT !.r = i]
    <3>1. PICK i \in Moves(wiki.r, wiki.results) : wiki' = [wiki EXCEPT !.r = i]
      BY <2>3
    <3>2. i \in Nat \ {0} /\ i <= wiki.results
      BY <1>1, <3>1 DEF Moves, Wikis
    <3>3. wiki' \in Wikis /\ wiki'.r = i /\ wiki'.results = wiki.results
      BY <1>1, <3>1, <3>2 DEF Wikis
    <3> QED BY <3>2, <3>3 DEF WikiInv
  <2>4. CASE \E n \in Articles : wiki' = [wiki EXCEPT !.at = "Read", !.lines = n, !.l = 1]
    <3>1. PICK n \in Articles, k \in Nat : k = 1 /\ wiki' = [wiki EXCEPT !.at = "Read", !.lines = n, !.l = k]
      BY <2>4
    <3>2. wiki' \in Wikis /\ wiki'.r = wiki.r /\ wiki'.results = wiki.results
      BY <1>1, <1>3, <3>1 DEF Wikis
    <3> QED BY <2>1, <3>2 DEF WikiInv
  <2> QED BY <1>5, <1>7, <2>2, <2>3, <2>4 DEF WikipediaPick
<1>8. CASE WikipediaRead
  <2>1. wiki.at = "Read"
    BY <1>8 DEF WikipediaRead
  <2>2. CASE wiki' = [wiki EXCEPT !.at = "PickResult", !.lines = 0, !.l = 1]
    <3>1. PICK k \in Nat : k = 1
      OBVIOUS
    <3>2. wiki' = [wiki EXCEPT !.at = "PickResult", !.lines = z, !.l = k]
      BY <1>2, <2>2, <3>1
    <3>3. wiki' \in Wikis /\ wiki'.r = wiki.r /\ wiki'.results = wiki.results
      BY <1>1, <3>2 DEF Wikis
    <3> QED BY <2>1, <3>3 DEF WikiInv
  <2>3. CASE \E i \in Moves(wiki.l, wiki.lines) : wiki' = [wiki EXCEPT !.l = i]
    <3>1. PICK i \in Moves(wiki.l, wiki.lines) : wiki' = [wiki EXCEPT !.l = i]
      BY <2>3
    <3>2. i \in Nat
      BY <1>1, <3>1 DEF Moves, Wikis
    <3>3. wiki' \in Wikis /\ wiki'.r = wiki.r /\ wiki'.results = wiki.results
      BY <1>1, <3>1, <3>2 DEF Wikis
    <3> QED BY <2>1, <3>3 DEF WikiInv
  <2> QED BY <1>8, <2>2, <2>3 DEF WikipediaRead
<1> QED BY <1>4, <1>6, <1>7, <1>8 DEF WikipediaKey

-----------------------------------------------------------------------------
(* The spelling lists                                                      *)

LEMMA ListsHaveWords ==
  ASSUME NEW i \in 1..Len(Lists)
  PROVE  Lists[i] \in Seq(STRING) /\ Lists[i] # <<>> /\ 1 <= Len(Lists[i])
<1>1. Lists[i] \in Seq(STRING) \ {<<>>}
  BY ReferenceAssumption
<1>2. \A l \in Seq(STRING) \ {<<>>} : 1 <= Len(l)
  OBVIOUS
<1> QED BY <1>1, <1>2

LEMMA StartedAsks ==
  ASSUME SpellInv, spell.at = "PickMode"
  PROVE  /\ StartedMode(spell) \in Spells /\ StartedMode(spell).list = spell.list
         /\ StartedMode(spell).active = spell.active
         /\ StartedMode(spell).at \in {"Quiz", "Review"}
              => StartedMode(spell).word <= Len(Asked(StartedMode(spell)))
<1>1. spell \in Spells /\ spell.active \in 1..Len(Lists) /\ spell.mode \in 1..3
  BY DEF SpellInv, Spells
<1> DEFINE list == Lists[spell.active]
<1>2. list \in Seq(STRING) /\ list # <<>> /\ 1 <= Len(list)
  BY <1>1, ListsHaveWords
<1>3. NoSession \in Sessions
  BY DEF NoSession, Sessions
<1>4. PICK c \in Sessions, one \in Nat \ {0} : c = NoSession /\ one = 1
  BY <1>3
<1> DEFINE t == [spell EXCEPT !.session = c, !.word = one]
           missed == Among(list, t.session.missed)
           words == IF missed = <<>> THEN list ELSE missed
<1>5. words \in Seq(STRING) /\ 1 <= Len(words)
  <2> HIDE DEF list, t
  <2>1. missed \in Seq(STRING \cap t.session.missed)
    BY <1>2, AmongProperties
  <2> HIDE DEF missed
  <2>2. missed \in Seq(STRING) /\ (missed # <<>> => 1 <= Len(missed))
    BY <2>1
  <2> QED BY <1>2, <2>2
<1>6. /\ t \in Spells /\ t.word = one /\ t.list = spell.list /\ t.active = spell.active
      /\ t.at = spell.at /\ t.mode = spell.mode
  BY <1>1 DEF Spells
<1>7. StartedMode(spell) =
        CASE spell.mode = 1 -> [t EXCEPT !.at = "Learn"]
          [] spell.mode = 2 -> [t EXCEPT !.at = "Quiz"]
          [] spell.mode = 3 -> [t EXCEPT !.at = "Review", !.review = words]
  BY <1>4 DEF StartedMode
<1> HIDE DEF t, words
<1>8. CASE spell.mode = 1
  <2>1. StartedMode(spell) = [t EXCEPT !.at = "Learn"]
    BY <1>7, <1>8
  <2> QED BY <1>6, <2>1 DEF Spells
<1>9. CASE spell.mode = 2
  <2>1. StartedMode(spell) = [t EXCEPT !.at = "Quiz"]
    BY <1>7, <1>9
  <2> DEFINE u == [t EXCEPT !.at = "Quiz"]
  <2>2. u \in Spells /\ u.list = t.list /\ u.active = t.active /\ u.word = one /\ u.at = "Quiz"
    BY <1>6 DEF Spells
  <2> HIDE DEF u
  <2>3. Asked(u) = list
    BY <1>6, <2>2 DEF Asked
  <2> HIDE DEF list
  <2>4. u.word <= Len(Asked(u))
    BY <1>2, <1>4, <2>2, <2>3
  <2> QED BY <1>6, <2>1, <2>2, <2>4 DEF u
<1>10. CASE spell.mode = 3
  <2> DEFINE u == [t EXCEPT !.at = "Review", !.review = words]
  <2>1. StartedMode(spell) = u
    BY <1>7, <1>10
  <2>2. u \in Spells /\ u.list = t.list /\ u.active = t.active /\ u.word = one /\ u.at = "Review"
          /\ u.review = words
    BY <1>5, <1>6 DEF Spells
  <2> HIDE DEF u
  <2>3. u.word <= Len(Asked(u))
    BY <1>4, <1>5, <2>2 DEF Asked
  <2> QED BY <1>6, <2>1, <2>2, <2>3
<1> QED BY <1>1, <1>8, <1>9, <1>10

LEMMA AnswerAsks ==
  ASSUME SpellInv, SpellingAnswer PROVE SpellInv'
<1>1. /\ spell \in Spells /\ spell.at \in {"Quiz", "Review"} /\ spell.word <= Len(Asked(spell))
      /\ spell.active \in 1..Len(Lists) /\ spell.word \in Nat \ {0}
      /\ (Lists # <<>> => spell.list <= Len(Lists))
  BY DEF SpellInv, Spells, SpellingAnswer
<1>2. Asked(spell) \in Seq(STRING)
  <2>1. Lists[spell.active] \in Seq(STRING)
    BY <1>1, ListsHaveWords
  <2> QED BY <1>1, <2>1 DEF Asked, Spells
<1>3. CASE spell' = [spell EXCEPT !.at = "PickMode"]
  <2>1. spell' \in Spells /\ spell'.list = spell.list /\ spell'.active = spell.active /\ spell'.at = "PickMode"
    BY <1>1, <1>3 DEF Spells
  <2> QED BY <1>1, <2>1 DEF SpellInv
<1>4. ASSUME NEW right \in BOOLEAN,
             LET marked == [spell EXCEPT !.session = Marked(@, Asked(spell)[spell.word], right)]
             IN spell' = IF spell.word >= Len(Asked(spell)) THEN [marked EXCEPT !.at = "PickMode"]
                         ELSE [marked EXCEPT !.word = @ + 1]
      PROVE  SpellInv'
  <2>1. Asked(spell)[spell.word] \in STRING /\ Len(Asked(spell)) \in Nat
    BY <1>1, <1>2
  <2>2. Marked(spell.session, Asked(spell)[spell.word], right) \in Sessions
    <3>1. \A w \in STRING, c \in Sessions : Marked(c, w, right) \in Sessions
      BY DEF Marked, Sessions
    <3>2. spell.session \in Sessions
      BY <1>1 DEF Spells
    <3> QED BY <2>1, <3>1, <3>2
  <2>3. PICK c \in Sessions : c = Marked(spell.session, Asked(spell)[spell.word], right)
    BY <2>2
  <2>4. PICK n \in Nat \ {0} : n = spell.word + 1
    BY <1>1
  <2> DEFINE marked == [spell EXCEPT !.session = c]
  <2>5. spell' = IF spell.word >= Len(Asked(spell)) THEN [marked EXCEPT !.at = "PickMode"]
                 ELSE [marked EXCEPT !.word = @ + 1]
    BY <1>4, <2>3
  <2>6. marked \in Spells /\ marked.word = spell.word /\ marked.at = spell.at
          /\ marked.list = spell.list /\ marked.active = spell.active /\ marked.review = spell.review
    BY <1>1 DEF Spells
  <2> HIDE DEF marked
  <2>7. CASE spell.word >= Len(Asked(spell))
    <3>1. spell' = [marked EXCEPT !.at = "PickMode"]
      BY <2>5, <2>7
    <3>2. spell' \in Spells /\ spell'.list = spell.list /\ spell'.active = spell.active /\ spell'.at = "PickMode"
      BY <2>6, <3>1 DEF Spells
    <3> QED BY <1>1, <3>2 DEF SpellInv
  <2>8. CASE ~(spell.word >= Len(Asked(spell)))
    <3>1. spell' = [marked EXCEPT !.word = n]
      BY <2>4, <2>5, <2>6, <2>8
    <3>2. /\ spell' \in Spells /\ spell'.list = spell.list /\ spell'.active = spell.active
          /\ spell'.at = spell.at /\ spell'.word = n /\ spell'.review = spell.review
      BY <2>6, <3>1 DEF Spells
    <3>3. Asked(spell') = Asked(spell)
      BY <3>2 DEF Asked
    <3>4. n <= Len(Asked(spell'))
      BY <1>1, <2>1, <2>4, <2>8, <3>3
    <3>5. Asked(spell)' = Asked(spell')
      BY DEF Asked
    <3> QED BY <1>1, <3>2, <3>4, <3>5 DEF SpellInv
  <2> QED BY <2>7, <2>8
<1> QED BY <1>3, <1>4 DEF SpellingAnswer

LEMMA SpellStep == ASSUME SpellInv, SpellingKey PROVE SpellInv'
<1>1. /\ spell \in Spells /\ (Lists # <<>> => spell.list <= Len(Lists))
      /\ spell.list \in Nat \ {0}
      /\ spell.at # "PickList" => spell.active \in 1..Len(Lists)
  BY DEF SpellInv, Spells
<1>2. Len(Lists) \in Nat
  BY ReferenceAssumption
<1>3. CASE SpellingOpen \/ SpellingExit
  <2>1. spell' = NoSpell
    BY <1>3 DEF SpellingOpen, SpellingExit
  <2>2. NoSpell \in Spells /\ NoSpell.at = "PickList" /\ NoSpell.list = 1
    <3>1. <<>> \in Seq(STRING)
      OBVIOUS
    <3> QED BY <3>1 DEF NoSpell, NoSession, Spells, Sessions
  <2>3. Lists # <<>> => 1 <= Len(Lists)
    BY ReferenceAssumption
  <2> QED BY <2>1, <2>2, <2>3 DEF SpellInv
<1>4. CASE SpellingPickList
  <2>1. spell.at = "PickList" /\ Lists # <<>>
    BY <1>4 DEF SpellingPickList
  <2>2. CASE \E i \in Moves(spell.list, Len(Lists)) : spell' = [spell EXCEPT !.list = i]
    <3>1. PICK i \in Moves(spell.list, Len(Lists)) : spell' = [spell EXCEPT !.list = i]
      BY <2>2
    <3>2. i \in Nat \ {0} /\ i <= Len(Lists)
      BY <1>1, <1>2, <3>1 DEF Moves
    <3>3. spell' \in Spells /\ spell'.at = "PickList" /\ spell'.list = i
      BY <1>1, <2>1, <3>1, <3>2 DEF Spells
    <3> QED BY <3>2, <3>3 DEF SpellInv
  <2>3. CASE spell' = [spell EXCEPT !.at = "PickMode", !.active = spell.list]
    <3>1. PICK n \in Nat : n = spell.list
      BY <1>1
    <3>2. spell' = [spell EXCEPT !.at = "PickMode", !.active = n]
      BY <2>3, <3>1
    <3>3. spell' \in Spells /\ spell'.at = "PickMode" /\ spell'.list = spell.list /\ spell'.active = n
      BY <1>1, <3>2 DEF Spells
    <3>4. n \in 1..Len(Lists)
      BY <1>1, <1>2, <2>1, <3>1
    <3> QED BY <1>1, <3>3, <3>4 DEF SpellInv
  <2> QED BY <1>4, <2>2, <2>3 DEF SpellingPickList
<1>5. CASE SpellingPickMode
  <2>1. spell.at = "PickMode"
    BY <1>5 DEF SpellingPickMode
  <2>2. CASE spell' = [spell EXCEPT !.at = "PickList"]
    <3>1. spell' \in Spells /\ spell'.at = "PickList" /\ spell'.list = spell.list
      BY <1>1, <2>2 DEF Spells
    <3> QED BY <1>1, <3>1 DEF SpellInv
  <2>3. CASE \E i \in Moves(spell.mode, 3) : spell' = [spell EXCEPT !.mode = i]
    <3>1. PICK i \in 1..3 : spell' = [spell EXCEPT !.mode = i]
      BY <2>3 DEF Moves
    <3>2. spell' \in Spells /\ spell'.at = "PickMode" /\ spell'.list = spell.list /\ spell'.active = spell.active
      BY <1>1, <2>1, <3>1 DEF Spells
    <3> QED BY <1>1, <2>1, <3>2 DEF SpellInv
  <2>4. CASE spell' = StartedMode(spell)
    <3>1. /\ spell' \in Spells /\ spell'.list = spell.list /\ spell'.active = spell.active
          /\ spell'.at \in {"Quiz", "Review"} => spell'.word <= Len(Asked(spell'))
      BY <2>1, <2>4, StartedAsks
    <3>2. Asked(spell)' = Asked(spell')
      BY DEF Asked
    <3> QED BY <1>1, <2>1, <3>1, <3>2 DEF SpellInv
  <2> QED BY <1>5, <2>2, <2>3, <2>4 DEF SpellingPickMode
<1>6. CASE SpellingLearn
  <2>1. spell.at = "Learn"
    BY <1>6 DEF SpellingLearn
  <2>2. CASE spell' = [spell EXCEPT !.at = "PickMode"]
    <3>1. spell' \in Spells /\ spell'.at = "PickMode" /\ spell'.list = spell.list /\ spell'.active = spell.active
      BY <1>1, <2>2 DEF Spells
    <3> QED BY <1>1, <2>1, <3>1 DEF SpellInv
  <2>3. CASE \E i \in Moves(spell.word, Len(Lists[spell.active])) : spell' = [spell EXCEPT !.word = i]
    <3>1. PICK i \in Moves(spell.word, Len(Lists[spell.active])) : spell' = [spell EXCEPT !.word = i]
      BY <2>3
    <3>2. Lists[spell.active] \in Seq(STRING)
      BY <1>1, <2>1, ListsHaveWords
    <3>3. i \in Nat \ {0}
      BY <3>1, <3>2 DEF Moves
    <3>4. spell' \in Spells /\ spell'.at = "Learn" /\ spell'.list = spell.list /\ spell'.active = spell.active
      BY <1>1, <2>1, <3>1, <3>3 DEF Spells
    <3> QED BY <1>1, <2>1, <3>4 DEF SpellInv
  <2> QED BY <1>6, <2>2, <2>3 DEF SpellingLearn
<1>7. CASE SpellingAnswer
  BY <1>7, AnswerAsks
<1> QED BY <1>3, <1>4, <1>5, <1>6, <1>7 DEF SpellingKey

\* No app of the reference shelf indexes past what it shows, whatever the
\* dictionary, the articles and the lists.
THEOREM IndexesStayInText == ReferenceSpec => []ReadersInText
<1>1. ASSUME ReferenceInv, [DictionaryKey \/ WikipediaKey \/ SpellingKey]_referenceVars
      PROVE  ReferenceInv'
  <2>1. UNCHANGED dict => DictInv'
    BY <1>1 DEF ReferenceInv, DictInv
  <2>2. UNCHANGED wiki => WikiInv'
    BY <1>1 DEF ReferenceInv, WikiInv
  <2>3. UNCHANGED spell => SpellInv'
    BY <1>1 DEF ReferenceInv, SpellInv, Asked
  <2>4. CASE DictionaryKey
    BY <1>1, <2>2, <2>3, <2>4, DictStep DEF DictionaryKey, ReferenceInv
  <2>5. CASE WikipediaKey
    BY <1>1, <2>1, <2>3, <2>5, WikiStep DEF WikipediaKey, ReferenceInv
  <2>6. CASE SpellingKey
    BY <1>1, <2>1, <2>2, <2>6, SpellStep DEF SpellingKey, ReferenceInv
  <2>7. CASE UNCHANGED referenceVars
    BY <2>1, <2>2, <2>3, <2>7 DEF referenceVars, ReferenceInv
  <2> QED BY <1>1, <2>4, <2>5, <2>6, <2>7
<1> QED BY <1>1, ReferenceInitInv, ReferenceReads, PTL DEF ReferenceSpec

-----------------------------------------------------------------------------
(*****************************************************************************)
(* The cursors of the mail and message apps stay inside their lists.         *)
(*****************************************************************************)

\* A cursor stands at an entry, or at the first of an empty list.
CursorIn(at, list) == at = 1 \/ at <= Len(list)

MailViews(A) ==
  [phase : {"menu", "inbox", "read", "actions", "compose", "reply"}, inbox : Seq(Nat),
   at : Nat \ {0}, active : {A}, field : 0..2, typed : BOOLEAN]
MailPlaced(v) == (\E A : v \in MailViews(A)) /\ CursorIn(v.at, v.inbox)

TalkViews(A) ==
  [phase : {"list", "thread", "compose"}, chats : Seq(Nat), at : Nat \ {0}, active : {A},
   typed : BOOLEAN, reload : BOOLEAN, again : BOOLEAN]
TalkPlaced(v) == (\E A : v \in TalkViews(A)) /\ CursorIn(v.at, v.chats)

CommsInv == MailPlaced(mail) /\ TalkPlaced(talk)

LEMMA CommsCursors == CommsInv => CursorsInLists
<1>1. ASSUME NEW at \in Nat \ {0}, NEW list \in Seq(Nat), CursorIn(at, list), list # <<>>
      PROVE  at \in DOMAIN list
  BY <1>1 DEF CursorIn
<1>2. MailPlaced(mail) => mail.at \in Nat \ {0} /\ mail.inbox \in Seq(Nat) /\ CursorIn(mail.at, mail.inbox)
  BY DEF MailPlaced, MailViews
<1>3. TalkPlaced(talk) => talk.at \in Nat \ {0} /\ talk.chats \in Seq(Nat) /\ CursorIn(talk.at, talk.chats)
  BY DEF TalkPlaced, TalkViews
<1> QED BY <1>1, <1>2, <1>3 DEF CommsInv, CursorsInLists

LEMMA CommsInitInv == CommsInit => CommsInv
<1>1. <<>> \in Seq(Nat)
  OBVIOUS
<1>2. MailReset \in MailViews(0) /\ MailReset.at = 1
  BY <1>1 DEF MailReset, MailViews
<1>3. TalkReset \in TalkViews(0) /\ TalkReset.at = 1
  BY <1>1 DEF TalkReset, TalkViews
<1> QED BY <1>2, <1>3 DEF CommsInit, CommsInv, MailPlaced, TalkPlaced, CursorIn

-----------------------------------------------------------------------------
(* Mail                                                                    *)

Phases == {"menu", "inbox", "read", "actions", "compose", "reply"}

\* What leaves the list and the cursor alone.
LEMMA MailTurns ==
  ASSUME NEW v, MailPlaced(v), NEW p \in Phases, NEW b \in BOOLEAN, NEW f \in 0..2
  PROVE  /\ MailPlaced([v EXCEPT !.phase = p]) /\ MailPlaced([v EXCEPT !.typed = b])
         /\ MailPlaced([v EXCEPT !.phase = p, !.typed = b])
         /\ MailPlaced([v EXCEPT !.field = f, !.typed = b])
         /\ MailPlaced([v EXCEPT !.phase = p, !.field = f, !.typed = b])
<1>1. PICK A : v \in MailViews(A)
  BY DEF MailPlaced
<1>2. CursorIn(v.at, v.inbox)
  BY DEF MailPlaced
<1>3. ASSUME NEW w \in MailViews(A), w.at = v.at, w.inbox = v.inbox PROVE MailPlaced(w)
  BY <1>2, <1>3 DEF MailPlaced
<1> DEFINE v1 == [v EXCEPT !.phase = p]
           v2 == [v EXCEPT !.typed = b]
           v3 == [v EXCEPT !.phase = p, !.typed = b]
           v4 == [v EXCEPT !.field = f, !.typed = b]
           v5 == [v EXCEPT !.phase = p, !.field = f, !.typed = b]
<1>4. v1 \in MailViews(A) /\ v1.at = v.at /\ v1.inbox = v.inbox
  BY <1>1 DEF MailViews, Phases
<1>5. v2 \in MailViews(A) /\ v2.at = v.at /\ v2.inbox = v.inbox
  BY <1>1 DEF MailViews, Phases
<1>6. v3 \in MailViews(A) /\ v3.at = v.at /\ v3.inbox = v.inbox
  BY <1>1 DEF MailViews, Phases
<1>7. v4 \in MailViews(A) /\ v4.at = v.at /\ v4.inbox = v.inbox
  BY <1>1 DEF MailViews, Phases
<1>8. v5 \in MailViews(A) /\ v5.at = v.at /\ v5.inbox = v.inbox
  BY <1>1 DEF MailViews, Phases
<1> HIDE DEF v1, v2, v3, v4, v5
<1>9. MailPlaced(v1) /\ MailPlaced(v2) /\ MailPlaced(v3) /\ MailPlaced(v4) /\ MailPlaced(v5)
  BY <1>3, <1>4, <1>5, <1>6, <1>7, <1>8
<1> QED BY <1>9 DEF v1, v2, v3, v4, v5

LEMMA MailPhase ==
  ASSUME NEW v, MailPlaced(v), NEW p \in Phases PROVE MailPlaced([v EXCEPT !.phase = p])
<1>1. 0 \in 0..2 /\ FALSE \in BOOLEAN
  OBVIOUS
<1> QED BY <1>1, MailTurns

LEMMA MailTypes ==
  ASSUME NEW v, MailPlaced(v), NEW b \in BOOLEAN PROVE MailPlaced([v EXCEPT !.typed = b])
<1>1. 0 \in 0..2 /\ "menu" \in Phases
  BY DEF Phases
<1> QED BY <1>1, MailTurns

LEMMA MailWrites ==
  ASSUME NEW v, MailPlaced(v), NEW p \in Phases, NEW b \in BOOLEAN
  PROVE  MailPlaced([v EXCEPT !.phase = p, !.typed = b])
<1>1. 0 \in 0..2
  OBVIOUS
<1> QED BY <1>1, MailTurns

LEMMA MailFields ==
  ASSUME NEW v, MailPlaced(v), NEW b \in BOOLEAN, NEW f \in 0..2
  PROVE  MailPlaced([v EXCEPT !.field = f, !.typed = b])
<1>1. "menu" \in Phases
  BY DEF Phases
<1> QED BY <1>1, MailTurns

LEMMA MailListPlaced ==
  ASSUME NEW v, MailPlaced(v), NEW p \in Phases, NEW list \in Seq(Nat), NEW at \in Nat \ {0},
         CursorIn(at, list)
  PROVE  /\ MailPlaced([v EXCEPT !.phase = p, !.inbox = list, !.at = at])
         /\ MailPlaced([v EXCEPT !.inbox = list, !.at = at])
<1>1. PICK A : v \in MailViews(A)
  BY DEF MailPlaced
<1> DEFINE v1 == [v EXCEPT !.phase = p, !.inbox = list, !.at = at]
           v2 == [v EXCEPT !.inbox = list, !.at = at]
<1>2. v1 \in MailViews(A) /\ v1.at = at /\ v1.inbox = list
  BY <1>1 DEF MailViews, Phases
<1>3. v2 \in MailViews(A) /\ v2.at = at /\ v2.inbox = list
  BY <1>1 DEF MailViews, Phases
<1> HIDE DEF v1, v2
<1>4. MailPlaced(v1) /\ MailPlaced(v2)
  BY <1>2, <1>3 DEF MailPlaced
<1> QED BY <1>4 DEF v1, v2

LEMMA MailTyped ==
  ASSUME NEW v, MailPlaced(v)
  PROVE  /\ v.inbox \in Seq(Nat) /\ v.at \in Nat \ {0} /\ CursorIn(v.at, v.inbox)
         /\ v.field \in 0..2
BY DEF MailPlaced, MailViews

\* The entry where the cursor is leaves the list, and the cursor stays in it.
LEMMA ErasedPlaced ==
  ASSUME NEW v, MailPlaced(v) PROVE MailPlaced(MailErased(v))
<1> DEFINE s == v.inbox
           i == v.at
           left == Drop(s, i)
           at == IF i > Len(left) /\ left # <<>> THEN Len(left) ELSE i
<1>1. s \in Seq(Nat) /\ i \in Nat \ {0} /\ CursorIn(i, s)
  BY MailTyped
<1>2. Len(s) \in Nat /\ DOMAIN s = 1..Len(s) /\ \A k \in 1..Len(s) : s[k] \in Nat
  BY <1>1
<1>3. MailErased(v) = [v EXCEPT !.phase = "inbox", !.inbox = left, !.at = at]
  BY DEF MailErased
<1> HIDE DEF s, i
<1>4. /\ left \in Seq(Nat)
      /\ Len(left) = IF i <= Len(s) THEN Len(s) - 1 ELSE Len(s)
  <2>1. CASE i \in 1..Len(s)
    <3> DEFINE a == SubSeq(s, 1, i - 1)
               b == SubSeq(s, i + 1, Len(s))
    <3>1. a \in Seq(Nat) /\ Len(a) = i - 1
      <4>1. i - 1 \in Int /\ \A k \in 1..(i - 1) : k \in 1..Len(s)
        BY <1>1, <1>2, <2>1
      <4> QED BY <1>1, <1>2, <4>1, SubSeqProperties
    <3>2. b \in Seq(Nat) /\ Len(b) = Len(s) - i
      <4>1. i + 1 \in Int /\ \A k \in (i + 1)..Len(s) : k \in 1..Len(s)
        BY <1>1, <1>2, <2>1
      <4>2. b \in Seq(Nat) /\ Len(b) = IF i + 1 <= Len(s) THEN Len(s) - (i + 1) + 1 ELSE 0
        BY <1>2, <4>1, SubSeqProperties
      <4> HIDE DEF b
      <4>3. PICK m \in Nat, k \in Nat \ {0} : m = Len(s) /\ k = i /\ k <= m
        <5>1. \A n \in Nat : \A j \in 1..n : j <= n
          OBVIOUS
        <5>2. Len(s) \in Nat /\ i \in Nat \ {0}
          BY <1>1, <1>2
        <5>3. i <= Len(s)
          BY <2>1, <5>1, <5>2, Zenon
        <5> QED BY <5>2, <5>3
      <4>4. Len(b) = IF k + 1 <= m THEN m - (k + 1) + 1 ELSE 0
        BY <4>2, <4>3
      <4>5. Len(b) = m - k
        BY <4>3, <4>4
      <4>6. Len(b) = Len(s) - i
        BY <4>3, <4>5
      <4> QED BY <4>2, <4>6
    <3>3. left = a \o b
      BY <1>2, <2>1 DEF Drop
    <3> HIDE DEF a, b, left
    <3>4. a \o b \in Seq(Nat) /\ Len(a \o b) = Len(a) + Len(b)
      BY <3>1, <3>2, ConcatProperties
    <3> QED BY <1>1, <1>2, <2>1, <3>1, <3>2, <3>3, <3>4
  <2>2. CASE i \notin 1..Len(s)
    <3>1. left = s
      BY <1>2, <2>2 DEF Drop
    <3>2. ~(i <= Len(s))
      BY <1>1, <1>2, <2>2
    <3> QED BY <1>1, <3>1, <3>2
  <2> QED BY <2>1, <2>2
<1> HIDE DEF left
<1>5. at \in Nat \ {0} /\ CursorIn(at, left)
  <2>1. left # <<>> => Len(left) \in Nat \ {0}
    <3>1. \A q \in Seq(Nat) : q # <<>> => Len(q) \in Nat \ {0}
      OBVIOUS
    <3> QED BY <1>4, <3>1
  <2>2. left = <<>> => Len(left) = 0
    BY EmptySeq
  <2>3. at = (IF i > Len(left) /\ left # <<>> THEN Len(left) ELSE i)
    OBVIOUS
  <2>4. PICK n \in Nat, m \in Nat, k \in Nat \ {0} :
          n = Len(left) /\ m = Len(s) /\ k = i /\ n = IF k <= m THEN m - 1 ELSE m
    <3>1. Len(left) \in Nat
      BY <1>4
    <3> QED BY <1>1, <1>2, <1>4, <3>1
  <2>5. k = 1 \/ k <= m
    BY <1>1, <2>4 DEF CursorIn
  <2>6. n # 0 => left # <<>>
    BY <2>2, <2>4
  <2> HIDE DEF at
  <2>7. CASE left = <<>>
    <3>1. at = k /\ n = 0 /\ k = 1
      BY <2>2, <2>3, <2>4, <2>5, <2>7
    <3> QED BY <3>1 DEF CursorIn
  <2>8. CASE left # <<>> /\ k > n
    <3>1. at = n /\ n # 0
      BY <2>1, <2>3, <2>4, <2>8
    <3> QED BY <2>4, <3>1 DEF CursorIn
  <2>9. CASE left # <<>> /\ ~(k > n)
    <3>1. at = k
      BY <2>3, <2>4, <2>9
    <3> QED BY <2>4, <2>9, <3>1 DEF CursorIn
  <2> QED BY <2>7, <2>8, <2>9
<1> HIDE DEF at
<1>6. "inbox" \in Phases
  BY DEF Phases
<1>7. MailPlaced([v EXCEPT !.phase = "inbox", !.inbox = left, !.at = at])
  BY <1>4, <1>5, <1>6, MailListPlaced
<1> QED BY <1>3, <1>7

LEMMA AnsweredPlaced ==
  ASSUME NEW v, MailPlaced(v), NEW line PROVE MailPlaced(MailAnswered(v, line))
<1>1. /\ "menu" \in Phases /\ "inbox" \in Phases /\ "read" \in Phases
  BY DEF Phases
<1>2. CASE line.cmd = "list"
  <2>1. CASE line.ok
    <3> DEFINE more == v.inbox \o KeepOrder(post.box)
    <3>1. MailAnswered(v, line) = [v EXCEPT !.inbox = more]
      BY <1>2, <2>1 DEF MailAnswered
    <3>2. KeepOrder(post.box) \in Seq(Nat)
      <4>1. Among(Mails, post.box) \in Seq(Nat \cap post.box)
        BY CommsAssumption, AmongProperties
      <4> QED BY <4>1 DEF KeepOrder
    <3>3. v.inbox \in Seq(Nat) /\ v.at \in Nat \ {0} /\ CursorIn(v.at, v.inbox)
      BY MailTyped
    <3>4. more \in Seq(Nat) /\ CursorIn(v.at, more)
      <4>1. more \in Seq(Nat) /\ Len(more) = Len(v.inbox) + Len(KeepOrder(post.box))
        BY <3>2, <3>3, ConcatProperties
      <4>2. Len(KeepOrder(post.box)) \in Nat /\ Len(v.inbox) \in Nat
        BY <3>2, <3>3
      <4> HIDE DEF more
      <4>3. v.at <= Len(v.inbox) => v.at <= Len(more)
        <5>1. PICK n \in Nat, m \in Nat, k \in Nat :
                n = Len(v.inbox) /\ m = Len(KeepOrder(post.box)) /\ k = v.at
          BY <3>3, <4>2
        <5>2. Len(more) = n + m
          BY <4>1, <5>1
        <5>3. k <= n => k <= n + m
          OBVIOUS
        <5> QED BY <5>1, <5>2, <5>3, Zenon
      <4> QED BY <3>3, <4>1, <4>3 DEF CursorIn
    <3>5. PICK A : v \in MailViews(A)
      BY DEF MailPlaced
    <3> HIDE DEF more
    <3> DEFINE w == [v EXCEPT !.inbox = more]
    <3>6. w \in MailViews(A) /\ w.at = v.at /\ w.inbox = more
      BY <3>4, <3>5 DEF MailViews
    <3> HIDE DEF w
    <3>7. MailPlaced(w)
      BY <3>4, <3>6 DEF MailPlaced
    <3> QED BY <3>1, <3>7 DEF w
  <2>2. CASE ~line.ok
    <3>1. MailAnswered(v, line) = [v EXCEPT !.phase = "menu"]
      BY <1>2, <2>2 DEF MailAnswered
    <3> QED BY <1>1, <3>1, MailPhase
  <2> QED BY <2>1, <2>2
<1>3. CASE line.cmd = "read"
  <2>1. CASE line.ok
    <3> DEFINE w == [v EXCEPT !.phase = "read", !.active = line.n]
    <3>1. MailAnswered(v, line) = w
      BY <1>3, <2>1 DEF MailAnswered
    <3>2. PICK A : v \in MailViews(A)
      BY DEF MailPlaced
    <3>3. w \in MailViews(line.n) /\ w.at = v.at /\ w.inbox = v.inbox
      BY <3>2 DEF MailViews
    <3> HIDE DEF w
    <3> QED BY <3>1, <3>3, MailTyped DEF MailPlaced
  <2>2. CASE ~line.ok
    BY <1>3, <2>2 DEF MailAnswered
  <2> QED BY <2>1, <2>2
<1>4. CASE line.cmd = "send"
  <2>1. MailAnswered(v, line) = IF line.ok THEN [v EXCEPT !.phase = "menu", !.typed = FALSE] ELSE v
    BY <1>4 DEF MailAnswered
  <2>2. MailPlaced([v EXCEPT !.phase = "menu", !.typed = FALSE])
    BY <1>1, MailWrites
  <2> QED BY <2>1, <2>2
<1>5. CASE line.cmd = "reply"
  <2>1. MailAnswered(v, line) = IF line.ok THEN [v EXCEPT !.phase = "inbox", !.typed = FALSE] ELSE v
    BY <1>5 DEF MailAnswered
  <2>2. MailPlaced([v EXCEPT !.phase = "inbox", !.typed = FALSE])
    BY <1>1, MailWrites
  <2> QED BY <2>1, <2>2
<1>6. CASE line.cmd \in {"archive", "delete"}
  <2>1. MailAnswered(v, line) = IF line.ok THEN MailErased(v) ELSE [v EXCEPT !.phase = "read"]
    BY <1>6 DEF MailAnswered
  <2>2. MailPlaced([v EXCEPT !.phase = "read"]) /\ MailPlaced(MailErased(v))
    BY <1>1, MailPhase, ErasedPlaced
  <2> QED BY <2>1, <2>2
<1>7. CASE line.cmd = "star"
  <2>1. MailAnswered(v, line) = [v EXCEPT !.phase = "read"]
    BY <1>7 DEF MailAnswered
  <2> QED BY <1>1, <2>1, MailPhase
<1>8. CASE line.cmd \notin {"list", "read", "send", "reply", "archive", "delete", "star"}
  BY <1>8 DEF MailAnswered
<1> QED BY <1>2, <1>3, <1>4, <1>5, <1>6, <1>7, <1>8

LEMMA MailStep ==
  ASSUME MailPlaced(mail), GmailKey \/ GmailPoll PROVE MailPlaced(mail)'
<1>1. \A v : MailPlaced(v) /\ mail' = v => MailPlaced(mail)'
  BY DEF MailPlaced, MailViews, CursorIn
<1>2. /\ "menu" \in Phases /\ "inbox" \in Phases /\ "read" \in Phases /\ "actions" \in Phases
      /\ "compose" \in Phases /\ "reply" \in Phases
  BY DEF Phases
<1>3. MailPlaced(MailReset)
  <2>1. <<>> \in Seq(Nat)
    OBVIOUS
  <2>2. MailReset \in MailViews(0) /\ MailReset.at = 1
    BY <2>1 DEF MailReset, MailViews
  <2> QED BY <2>2 DEF MailPlaced, CursorIn
<1>4. mail.inbox \in Seq(Nat) /\ mail.at \in Nat \ {0} /\ mail.field \in 0..2
  BY MailTyped
<1>5. CASE GmailEnter \/ GmailLeave
  <2>1. mail' = MailReset
    BY <1>5 DEF GmailEnter, GmailLeave
  <2> QED BY <1>1, <1>3, <2>1
<1>6. CASE GmailMenu
  <2>1. \/ mail' = [mail EXCEPT !.phase = "inbox", !.inbox = <<>>, !.at = 1]
        \/ mail' = [mail EXCEPT !.inbox = <<>>, !.at = 1]
        \/ mail' = [mail EXCEPT !.phase = "compose", !.field = 0, !.typed = FALSE]
    BY <1>6 DEF GmailMenu, AskMail, MailTo
  <2>2. <<>> \in Seq(Nat) /\ 1 \in Nat \ {0} /\ CursorIn(1, <<>>)
    BY DEF CursorIn
  <2>3. /\ MailPlaced([mail EXCEPT !.phase = "inbox", !.inbox = <<>>, !.at = 1])
        /\ MailPlaced([mail EXCEPT !.inbox = <<>>, !.at = 1])
    BY <1>2, <2>2, MailListPlaced
  <2>4. MailPlaced([mail EXCEPT !.phase = "compose", !.field = 0, !.typed = FALSE])
    <3>1. 0 \in 0..2 /\ FALSE \in BOOLEAN
      OBVIOUS
    <3> QED BY <1>2, <3>1, MailTurns
  <2> QED BY <1>1, <2>1, <2>3, <2>4
<1>7. CASE GmailInbox
  <2>1. CASE mail' = mail
    BY <1>1, <2>1
  <2>2. ASSUME NEW i \in DOMAIN mail.inbox, mail' = [mail EXCEPT !.at = i] PROVE MailPlaced(mail)'
    <3>1. i \in Nat \ {0} /\ i <= Len(mail.inbox)
      BY <1>4
    <3>2. PICK A : mail \in MailViews(A)
      BY DEF MailPlaced
    <3> DEFINE w == [mail EXCEPT !.at = i]
    <3>3. w \in MailViews(A) /\ w.at = i /\ w.inbox = mail.inbox
      BY <3>1, <3>2 DEF MailViews
    <3> HIDE DEF w
    <3>4. MailPlaced(w)
      BY <3>1, <3>3 DEF MailPlaced, CursorIn
    <3> QED BY <1>1, <2>2, <3>4 DEF w
  <2> QED BY <1>7, <2>1, <2>2 DEF GmailInbox, MailTo, AskMail
<1>8. CASE GmailAct
  <2>1. mail' = mail \/ mail' = [mail EXCEPT !.phase = "actions"] \/ mail' = [mail EXCEPT !.phase = "read"]
    BY <1>8 DEF GmailAct, MailTo, AskMail
  <2>2. /\ MailPlaced([mail EXCEPT !.phase = "actions"])
        /\ MailPlaced([mail EXCEPT !.phase = "read"])
    BY <1>2, MailPhase
  <2> QED BY <1>1, <2>1, <2>2
<1>9. CASE GmailType
  <2>1. PICK b \in BOOLEAN : mail' = [mail EXCEPT !.typed = b]
    BY <1>9 DEF GmailType, MailTo
  <2>2. MailPlaced([mail EXCEPT !.typed = b])
    BY MailTypes
  <2> QED BY <1>1, <2>1, <2>2
<1>10. CASE GmailSend
  <2>1. \/ mail.field < 2 /\ mail' = [mail EXCEPT !.field = @ + 1, !.typed = FALSE]
        \/ mail' = mail
        \/ mail' = [mail EXCEPT !.phase = "reply", !.typed = FALSE]
    BY <1>10 DEF GmailSend, MailTo, AskMail
  <2>2. MailPlaced([mail EXCEPT !.phase = "reply", !.typed = FALSE])
    BY <1>2, MailWrites
  <2>3. ASSUME mail.field < 2 PROVE MailPlaced([mail EXCEPT !.field = @ + 1, !.typed = FALSE])
    <3>1. PICK f \in 0..2 : f = mail.field + 1
      BY <1>4, <2>3
    <3>2. [mail EXCEPT !.field = @ + 1, !.typed = FALSE] = [mail EXCEPT !.field = f, !.typed = FALSE]
      BY <3>1
    <3>3. MailPlaced([mail EXCEPT !.field = f, !.typed = FALSE])
      BY MailFields
    <3> QED BY <3>2, <3>3
  <2> QED BY <1>1, <2>1, <2>2, <2>3
<1>11. CASE GmailBack
  <2>1. \/ mail' = [mail EXCEPT !.phase = "menu"]
        \/ mail' = [mail EXCEPT !.phase = "inbox"]
        \/ mail' = [mail EXCEPT !.phase = "read"]
        \/ \E b \in BOOLEAN : mail.field > 0 /\ mail' = [mail EXCEPT !.field = @ - 1, !.typed = b]
    BY <1>11 DEF GmailBack, MailTo
  <2>2. /\ MailPlaced([mail EXCEPT !.phase = "menu"])
        /\ MailPlaced([mail EXCEPT !.phase = "inbox"])
        /\ MailPlaced([mail EXCEPT !.phase = "read"])
    BY <1>2, MailPhase
  <2>3. ASSUME NEW b \in BOOLEAN, mail.field > 0 PROVE MailPlaced([mail EXCEPT !.field = @ - 1, !.typed = b])
    <3>1. PICK f \in 0..2 : f = mail.field - 1
      BY <1>4, <2>3
    <3>2. [mail EXCEPT !.field = @ - 1, !.typed = b] = [mail EXCEPT !.field = f, !.typed = b]
      BY <3>1
    <3>3. MailPlaced([mail EXCEPT !.field = f, !.typed = b])
      BY MailFields
    <3> QED BY <3>2, <3>3
  <2> QED BY <1>1, <2>1, <2>2, <2>3
<1>12. CASE LinkGmail \/ GmailNotice
  <2>1. mail' = mail
    BY <1>12 DEF LinkGmail, GmailNotice
  <2> QED BY <1>1, <2>1
<1>13. CASE GmailAnswer
  <2>1. mail' = MailAnswered(mail, Line)
    BY <1>13 DEF GmailAnswer
  <2>2. MailPlaced(MailAnswered(mail, Line))
    BY AnsweredPlaced
  <2> QED BY <1>1, <2>1, <2>2
<1> QED
  BY <1>5, <1>6, <1>7, <1>8, <1>9, <1>10, <1>11, <1>12, <1>13 DEF GmailKey, GmailPoll

-----------------------------------------------------------------------------
(* Messages                                                                *)

LEMMA TalkStep ==
  ASSUME TalkPlaced(talk), MessagesKey \/ MessagesPoll PROVE TalkPlaced(talk)'
<1>1. PICK A : talk \in TalkViews(A)
  BY DEF TalkPlaced
<1>2. ASSUME NEW B, NEW w \in TalkViews(B), CursorIn(w.at, w.chats), talk' = w PROVE TalkPlaced(talk)'
  BY <1>2 DEF TalkPlaced, TalkViews, CursorIn
<1>3. talk.chats \in Seq(Nat) /\ talk.at \in Nat \ {0} /\ CursorIn(talk.at, talk.chats)
  BY <1>1 DEF TalkPlaced, TalkViews
<1>4. ASSUME UNCHANGED talk PROVE TalkPlaced(talk)'
  BY <1>1, <1>2, <1>3, <1>4
<1>5. ASSUME NEW B, talk' \in TalkViews(B), talk'.at = talk.at, talk'.chats = talk.chats
      PROVE  TalkPlaced(talk)'
  BY <1>2, <1>3, <1>5
<1>6. PICK none \in Seq(Nat), one \in Nat \ {0} : none = <<>> /\ one = 1
  <2>1. <<>> \in Seq(Nat) /\ 1 \in Nat \ {0}
    OBVIOUS
  <2> QED BY <2>1, Zenon
<1>7. CASE MessagesEnter
  <2>1. talk' = [[talk EXCEPT !.chats = none, !.at = one] EXCEPT !.phase = "list", !.typed = FALSE]
    BY <1>6, <1>7 DEF MessagesEnter, Cleared
  <2>2. talk' \in TalkViews(A) /\ talk'.at = one
    BY <1>1, <2>1 DEF TalkViews
  <2> QED BY <1>2, <1>6, <2>2 DEF CursorIn
<1>8. CASE MessagesLeave \/ LinkSignal
  BY <1>4, <1>8 DEF MessagesLeave, LinkSignal, commsVars
<1>9. CASE MessagesPick
  <2>1. CASE \E i \in DOMAIN talk.chats \ {talk.at} : talk' = [talk EXCEPT !.at = i]
    <3>1. PICK i \in DOMAIN talk.chats : talk' = [talk EXCEPT !.at = i]
      BY <2>1
    <3>2. i \in Nat \ {0} /\ i <= Len(talk.chats)
      BY <1>3
    <3>3. talk' \in TalkViews(A) /\ talk'.at = i /\ talk'.chats = talk.chats
      BY <1>1, <3>1, <3>2 DEF TalkViews
    <3> QED BY <1>2, <3>2, <3>3 DEF CursorIn
  <2>2. CASE talk' = Opened(talk)
    <3> DEFINE c == talk.chats[talk.at]
    <3>1. talk' = [talk EXCEPT !.phase = "thread", !.active = c]
      BY <2>2 DEF Opened
    <3> HIDE DEF c
    <3>2. talk' \in TalkViews(c) /\ talk'.at = talk.at /\ talk'.chats = talk.chats
      BY <1>1, <3>1 DEF TalkViews
    <3> QED BY <1>5, <3>2
  <2> QED BY <1>9, <2>1, <2>2 DEF MessagesPick
<1>10. CASE MessagesWrite
  <2>1. CASE UNCHANGED talk
    BY <1>4, <2>1
  <2>2. CASE talk' = [talk EXCEPT !.phase = "compose", !.typed = FALSE]
    <3>1. talk' \in TalkViews(A) /\ talk'.at = talk.at /\ talk'.chats = talk.chats
      BY <1>1, <2>2 DEF TalkViews
    <3> QED BY <1>5, <3>1
  <2>3. CASE \E b \in BOOLEAN : talk' = [talk EXCEPT !.typed = b]
    <3>1. talk' \in TalkViews(A) /\ talk'.at = talk.at /\ talk'.chats = talk.chats
      BY <1>1, <2>3 DEF TalkViews
    <3> QED BY <1>5, <3>1
  <2> QED BY <1>10, <2>1, <2>2, <2>3 DEF MessagesWrite
<1>11. CASE MessagesBack
  <2>1. talk' = [talk EXCEPT !.phase = "list"] \/ talk' = [talk EXCEPT !.phase = "thread"]
    BY <1>11 DEF MessagesBack
  <2>2. talk' \in TalkViews(A) /\ talk'.at = talk.at /\ talk'.chats = talk.chats
    BY <1>1, <2>1 DEF TalkViews
  <2> QED BY <1>5, <2>2
<1>12. CASE MessagesAnswer
  <2>1. talk' = TalkAnswered(talk, Line)
    BY <1>12 DEF MessagesAnswer
  <2>2. CASE Line.cmd = "chats" /\ Line.ok
    <3> DEFINE more == talk.chats \o Chats
    <3>1. talk' = [talk EXCEPT !.chats = more]
      BY <2>1, <2>2 DEF TalkAnswered
    <3>2. more \in Seq(Nat) /\ Len(more) = Len(talk.chats) + Len(Chats)
      BY <1>3, CommsAssumption, ConcatProperties
    <3> HIDE DEF more
    <3>3. talk.at <= Len(talk.chats) => talk.at <= Len(more)
      <4>1. PICK n \in Nat, m \in Nat, k \in Nat : n = Len(talk.chats) /\ m = Len(Chats) /\ k = talk.at
        BY <1>3, CommsAssumption
      <4>2. Len(more) = n + m
        BY <3>2, <4>1
      <4>3. k <= n => k <= n + m
        OBVIOUS
      <4> QED BY <4>1, <4>2, <4>3, Zenon
    <3>4. talk' \in TalkViews(A) /\ talk'.at = talk.at /\ talk'.chats = more
      BY <1>1, <3>1, <3>2 DEF TalkViews
    <3> QED BY <1>2, <1>3, <3>3, <3>4 DEF CursorIn
  <2>3. CASE Line.cmd = "text" /\ Line.ok
    <3>1. talk' = [talk EXCEPT !.typed = FALSE, !.phase = "thread"]
      BY <2>1, <2>3 DEF TalkAnswered
    <3>2. talk' \in TalkViews(A) /\ talk'.at = talk.at /\ talk'.chats = talk.chats
      BY <1>1, <3>1 DEF TalkViews
    <3> QED BY <1>5, <3>2
  <2>4. CASE Line.cmd \notin {"chats", "text"} \/ ~Line.ok
    <3>1. UNCHANGED talk
      BY <2>1, <2>4 DEF TalkAnswered
    <3> QED BY <1>4, <3>1
  <2> QED BY <2>2, <2>3, <2>4
<1>13. CASE MessagesEvent
  <2>1. CASE UNCHANGED talk
    BY <1>4, <2>1
  <2>2. CASE ~UNCHANGED talk
    <3>1. PICK a \in BOOLEAN, r \in BOOLEAN : talk' = [talk EXCEPT !.again = a, !.reload = r]
      <4>1. talk' = [talk EXCEPT !.again = @ \/ (talk.phase = "thread" /\ Line.n = talk.active),
                                 !.reload = @ \/ talk.phase = "list"]
        BY <1>13, <2>2 DEF MessagesEvent
      <4>2. PICK a \in BOOLEAN : a = (talk.again \/ (talk.phase = "thread" /\ Line.n = talk.active))
        OBVIOUS
      <4>3. PICK r \in BOOLEAN : r = (talk.reload \/ talk.phase = "list")
        OBVIOUS
      <4> QED BY <4>1, <4>2, <4>3
    <3>2. talk' \in TalkViews(A) /\ talk'.at = talk.at /\ talk'.chats = talk.chats
      BY <1>1, <3>1 DEF TalkViews
    <3> QED BY <1>5, <3>2
  <2> QED BY <2>1, <2>2
<1>14. CASE MessagesReload
  <2>1. CASE talk' = [Cleared(talk) EXCEPT !.reload = FALSE]
    <3>1. talk' = [[talk EXCEPT !.chats = none, !.at = one] EXCEPT !.reload = FALSE]
      BY <1>6, <2>1 DEF Cleared
    <3>2. talk' \in TalkViews(A) /\ talk'.at = one
      BY <1>1, <3>1 DEF TalkViews
    <3> QED BY <1>2, <1>6, <3>2 DEF CursorIn
  <2>2. ASSUME NEW c, talk' = [talk EXCEPT !.again = FALSE, !.phase = "thread", !.active = c]
        PROVE  TalkPlaced(talk)'
    <3>1. talk' \in TalkViews(c) /\ talk'.at = talk.at /\ talk'.chats = talk.chats
      BY <1>1, <2>2 DEF TalkViews
    <3> QED BY <1>5, <3>1
  <2> QED BY <1>14, <2>1, <2>2 DEF MessagesReload
<1> QED
  BY <1>7, <1>8, <1>9, <1>10, <1>11, <1>12, <1>13, <1>14 DEF MessagesKey, MessagesPoll

\* The cursors of the inbox and of the chats stand in their lists, whatever the
\* mails and contacts, and however the answers, the deletions and the events mix.
THEOREM CursorsStayInLists == CommsSpec => []CursorsInLists
<1>1. UNCHANGED mail /\ MailPlaced(mail) => MailPlaced(mail)'
  BY DEF MailPlaced, MailViews, CursorIn
<1>2. UNCHANGED talk /\ TalkPlaced(talk) => TalkPlaced(talk)'
  BY DEF TalkPlaced, TalkViews, CursorIn
<1>3. ASSUME CommsInv, [CommsStep]_commsVars PROVE CommsInv'
  <2>1. CASE GmailKey \/ GmailPoll
    <3>1. UNCHANGED talk
      BY <2>1 DEF GmailKey, GmailPoll, GmailEnter, GmailLeave, GmailMenu, GmailInbox, GmailAct, GmailType,
           GmailSend, GmailBack, LinkGmail, GmailAnswer, GmailNotice, MailIn, mailIn, mailOthers
    <3> QED BY <1>2, <1>3, <2>1, <3>1, MailStep DEF CommsInv
  <2>2. CASE MessagesKey \/ MessagesPoll
    <3>1. UNCHANGED mail
      BY <2>2 DEF MessagesKey, MessagesPoll, MessagesEnter, MessagesLeave, MessagesPick, MessagesWrite,
           MessagesBack, LinkSignal, MessagesAnswer, MessagesEvent, MessagesReload, TalkIn, talkIn,
           talkOthers, commsVars
    <3> QED BY <1>1, <1>3, <2>2, <3>1, TalkStep DEF CommsInv
  <2>3. CASE GmailWork \/ MessagesWork \/ MessageArrives \/ CommsRestart \/ UNCHANGED commsVars
    <3>1. UNCHANGED <<mail, talk>>
      BY <2>3 DEF GmailWork, MailListed, MailFetched, MailSent, MailActed, GmailLinkBegin, GmailLinkEnd,
           ImapLinked, MessagesWork, SignalDone, SignalLinkBegin, SignalLinkEnd, MessageArrives,
           CommsRestart, mailOthers, talkOthers, commsVars
    <3> QED BY <1>1, <1>2, <1>3, <3>1 DEF CommsInv
  <2> QED BY <1>3, <2>1, <2>2, <2>3 DEF CommsStep
<1> QED BY <1>3, CommsInitInv, CommsCursors, PTL DEF CommsSpec
=============================================================================
