------------------------------- MODULE PiEmboss -------------------------------
(***************************************************************************)
(* Embossing from the Pi through Klipper (daemon-dietpi/src: motion/,       *)
(* kinematics/): MotionService turns a document into strikes and line       *)
(* feeds, EmbossScheduler defers the Row B pins through SpatialDelayLine,   *)
(* KlipperMotionBridge turns both into G-code and MoonrakerClient waits for  *)
(* the answer of each script.                                              *)
(*                                                                         *)
(* All of it runs in the thread of the UI.  One action is what happens up to *)
(* the answer of one script; the document, the strikes still to be made and *)
(* the line feeds still to be made stand for the call stack.                *)
(***************************************************************************)
EXTENDS Integers, Sequences

CONSTANTS
  Docs, Text, \* documents, and the tokens of each
  RowADots, RowBDots,
  CellPitch,  \* MICROSTEPS_PER_CELL
  RowBOffset, \* MICROSTEPS_ROW_B_OFFSET
  PageLines,  \* kPageLines
  Capacity,   \* spatial_delay_line_capacity
  MaxFailures \* bound: scripts that fail while Klipper is ready

\* BrfToken
Cell(dots) == [mark |-> "cell", dots |-> dots]
Newline    == [mark |-> "newline", dots |-> {}]
FormFeed   == [mark |-> "formfeed", dots |-> {}]

ASSUME PitchAssumption ==
  /\ CellPitch \in Nat /\ RowBOffset \in 1..(CellPitch - 1)
  /\ PageLines \in Nat \ {0} /\ Capacity \in Nat \ {0}
\* Dots are the six bits of BRAILLE_DOT_MASK, which emboss_dot numbers from 1.
ASSUME DotsAssumption == RowADots \subseteq 1..6 /\ RowBDots \subseteq 1..6
\* The bound admits a failure, so that one is counted.
ASSUME FailuresAssumption == MaxFailures \in Nat \ {0}

VARIABLES
  gate,     \* MotionGate: "clear" or the reason of the block
  doc,      \* tokens left of the running document
  lineOpen, \* line_open
  strikes,  \* row strikes under way: <<[pins, at]>>
  feeds,    \* line feeds under way: an integer, negative for a retreat
  delayed,  \* SpatialDelayLine
  x, y,     \* TravelLog position and PaperPosition
  haveX, lastX, \* KlipperMotionBridge
  carriage, paper, \* where carriage and paper are
  klipper,  \* "ready" or "shutdown"
  vmot,     \* do the motors have their supply?
  wanted,   \* history: the dots asked for, <<line, position, dot>>
  punched,  \* the dots on the paper
  steady,   \* history: has every belief about a position been sound so far?
  failures  \* history: scripts without a result, up to the bound

job    == <<doc, lineOpen, strikes, feeds>>
belief == <<delayed, x, y, haveX, lastX>>
world  == <<carriage, paper, klipper, vmot>>
marks  == <<wanted, punched, steady, failures>>
embossVars == <<gate, job, belief, world, marks>>

Blocked == gate # "clear"
Idle == doc = <<>> /\ strikes = <<>> /\ feeds = 0

\* MoonrakerClient::run_gcode: the script is done and answered; or it is done,
\* and the answer comes after request_timeout_sec; or it is not done.  Without
\* supply Klipper steps motors that do not turn.  "sound" says whether the code
\* is right about the position once the script is done.
Scripted(moves, ok, failed, sound) ==
  \/ /\ klipper = "ready" /\ ok
     /\ IF vmot THEN moves /\ steady' = (steady /\ sound)
                ELSE UNCHANGED <<carriage, paper, punched>> /\ steady' = FALSE
     /\ UNCHANGED failures
  \/ /\ failed
     /\ klipper = "ready" => failures < MaxFailures
     /\ failures' = IF failures < MaxFailures THEN failures + 1 ELSE failures
     /\ \/ UNCHANGED <<carriage, paper, punched, steady>>
        \/ klipper = "ready" /\ vmot /\ moves /\ steady' = FALSE

-----------------------------------------------------------------------------
(* EmbossScheduler and SpatialDelayLine                                    *)

\* drain_due takes from the head until an entry is not due yet.
DueCount(queue, at) ==
  CHOOSE n \in 0..Len(queue) :
    /\ \A i \in 1..n : queue[i].at <= at
    /\ n < Len(queue) => queue[n + 1].at > at

\* on_travel_logged
Travel(queue, from, delta) ==
  LET n == DueCount(queue, from + delta)
  IN  [due |-> SubSeq(queue, 1, n), rest |-> SubSeq(queue, n + 1, Len(queue)),
       at |-> from + delta]

\* submit_dot_matrix: Row A now, Row B one offset further.
RowA(cell, at) == IF cell \cap RowADots = {} THEN <<>>
                  ELSE <<[pins |-> cell \cap RowADots, at |-> at]>>
RowB_WithA(cell, at) ==
  IF cell \cap RowADots = {} \/ cell \cap RowBDots = {} THEN <<>>
  ELSE <<[pins |-> cell \cap RowBDots, at |-> at + RowBOffset]>>
RowB(cell, at) == IF cell \cap RowBDots = {} THEN <<>>
                  ELSE <<[pins |-> cell \cap RowBDots, at |-> at + RowBOffset]>>

-----------------------------------------------------------------------------
(* MotionService                                                           *)

\* emboss_brf is called: it returns at once while the gate is closed.
Begin(d) ==
  /\ doc' = IF Blocked THEN <<>> ELSE Text[d]
  /\ lineOpen' = FALSE
  /\ UNCHANGED <<gate, strikes, feeds, belief, world, marks>>

\* emboss_dot_mask of the next token.
EmbossCell ==
  /\ doc # <<>> /\ strikes = <<>> /\ feeds = 0 /\ ~Blocked
  /\ Head(doc).mark = "cell"
  /\ LET dots == Head(doc).dots
         t == Travel(delayed \o RowB(dots, x), x, CellPitch)
     IN  /\ Len(delayed) + Len(RowB(dots, x)) <= Capacity
         /\ strikes' = RowA(dots, x) \o t.due
         /\ delayed' = t.rest /\ x' = t.at
         /\ wanted' = wanted \cup ({paper} \X {x} \X (dots \cap RowADots))
                             \cup ({paper} \X {x + RowBOffset} \X (dots \cap RowBDots))
  /\ doc' = Tail(doc) /\ lineOpen' = TRUE
  /\ UNCHANGED <<gate, feeds, y, haveX, lastX, world, punched, steady, failures>>

\* advance_line: due Row B pins first, then the feed, then X0 and the index.
\* feed_lines(n) does it n times; a retreat is one move.
StartFeed(n) ==
  LET t == Travel(delayed, x, RowBOffset)
  IN  /\ feeds' = n
      /\ IF n > 0 THEN strikes' = t.due /\ delayed' = t.rest /\ x' = t.at
                  ELSE UNCHANGED <<strikes, delayed, x>>

\* A newline feeds one line; a form feed closes an open line and then feeds to
\* the next page.
IntoPage == (y + (IF lineOpen THEN 1 ELSE 0)) % PageLines
FeedsFor(token) ==
  IF token = Newline THEN 1
  ELSE (IF lineOpen THEN 1 ELSE 0)
         + (IF IntoPage = 0 THEN PageLines ELSE PageLines - IntoPage)

Mark ==
  /\ doc # <<>> /\ strikes = <<>> /\ feeds = 0 /\ ~Blocked
  /\ Head(doc) \in {Newline, FormFeed}
  /\ StartFeed(FeedsFor(Head(doc)))
  /\ doc' = Tail(doc) /\ lineOpen' = FALSE
  /\ UNCHANGED <<gate, y, haveX, lastX, world, marks>>

\* The gate closed while the document was under way: what is left is dropped.
Dropped ==
  /\ ~Idle /\ strikes = <<>> /\ Blocked
  /\ doc' = <<>> /\ feeds' = 0
  /\ UNCHANGED <<gate, lineOpen, strikes, belief, world, marks>>

\* feed_lines is called: PaperNavInline, one line forward or back.
Feed(n) ==
  /\ IF Blocked THEN UNCHANGED <<feeds, strikes, delayed, x>>
                                ELSE StartFeed(n)
  /\ UNCHANGED <<gate, doc, lineOpen, y, haveX, lastX, world, marks>>

-----------------------------------------------------------------------------
(* KlipperMotionBridge                                                     *)

\* on_row_strike, first strike of the session: the carriage is taken to be there.
FirstStrike ==
  /\ strikes # <<>> /\ ~Blocked /\ ~haveX
  /\ haveX' = TRUE /\ lastX' = Head(strikes).at
  /\ steady' = (steady /\ carriage = Head(strikes).at)
  /\ UNCHANGED <<gate, job, delayed, x, y, world, wanted, punched, failures>>

MoveX_Absolute ==
  /\ strikes # <<>> /\ ~Blocked /\ haveX /\ lastX # Head(strikes).at
  /\ Scripted(carriage' = carriage + Head(strikes).at /\ UNCHANGED <<paper, punched>>,
              lastX' = Head(strikes).at /\ UNCHANGED strikes,
              strikes' = Tail(strikes) /\ UNCHANGED lastX, TRUE)
  /\ UNCHANGED <<gate, doc, lineOpen, feeds, delayed, x, y, haveX, klipper, vmot, wanted>>

\* The carriage moves by the difference to the last strike.  A failed move
\* drops the strike and leaves the last position as it was.
MoveX ==
  /\ strikes # <<>> /\ ~Blocked /\ haveX /\ lastX # Head(strikes).at
  /\ Scripted(carriage' = carriage + Head(strikes).at - lastX /\ UNCHANGED <<paper, punched>>,
              lastX' = Head(strikes).at /\ UNCHANGED strikes,
              strikes' = Tail(strikes) /\ UNCHANGED lastX, TRUE)
  /\ UNCHANGED <<gate, doc, lineOpen, feeds, delayed, x, y, haveX, klipper, vmot, wanted>>

FirstDot(pins) == CHOOSE d \in pins : \A e \in pins : d <= e

\* EMBOSS_DOT, dot after dot; a failure gives up the others of this strike.
Punch ==
  /\ strikes # <<>> /\ ~Blocked /\ haveX /\ lastX = Head(strikes).at
  /\ LET s == Head(strikes)
         d == FirstDot(s.pins)
     IN  Scripted(punched' = punched \cup {<<paper, carriage, d>>} /\ UNCHANGED <<carriage, paper>>,
                  strikes' = IF s.pins = {d} THEN Tail(strikes)
                             ELSE <<[s EXCEPT !.pins = @ \ {d}]>> \o Tail(strikes),
                  strikes' = Tail(strikes), TRUE)
  /\ UNCHANGED <<gate, doc, lineOpen, feeds, belief, klipper, vmot, wanted>>

StrikeDropped ==
  /\ strikes # <<>> /\ Blocked
  /\ strikes' = Tail(strikes)
  /\ UNCHANGED <<gate, doc, lineOpen, feeds, belief, world, marks>>

\* feed_lines, first half: the carriage goes back to the start of the line,
\* if a strike or a feed of this session told where it is.
Return ==
  /\ feeds # 0 /\ strikes = <<>> /\ ~Blocked /\ haveX /\ lastX # 0
  /\ Scripted(carriage' = carriage - lastX /\ UNCHANGED <<paper, punched>>,
              lastX' = 0 /\ UNCHANGED <<doc, feeds>>,
              doc' = <<>> /\ feeds' = 0 /\ UNCHANGED lastX, TRUE)
  /\ UNCHANGED <<gate, lineOpen, strikes, delayed, x, y, haveX, klipper, vmot, wanted>>

\* A session restored in the middle of a line has no last position: the
\* carriage stays where it is and is taken to be at the start.
TakenAsReturned ==
  /\ feeds # 0 /\ strikes = <<>> /\ ~Blocked /\ ~haveX
  /\ haveX' = TRUE /\ lastX' = 0
  /\ steady' = (steady /\ carriage = 0)
  /\ UNCHANGED <<gate, job, delayed, x, y, world, wanted, punched, failures>>

FeedForward ==
  /\ feeds > 0 /\ strikes = <<>> /\ ~Blocked /\ haveX /\ lastX = 0
  /\ LET t == Travel(delayed, 0, RowBOffset)
     IN  Scripted(paper' = paper + 1 /\ UNCHANGED <<carriage, punched>>,
                  /\ feeds' = feeds - 1 /\ y' = y + 1 /\ UNCHANGED doc
                  /\ IF feeds = 1
                       THEN x' = 0 /\ UNCHANGED <<strikes, delayed>>
                       ELSE x' = t.at /\ strikes' = t.due /\ delayed' = t.rest,
                  /\ doc' = <<>> /\ feeds' = 0
                  /\ UNCHANGED <<x, y, strikes, delayed>>, TRUE)
  /\ UNCHANGED <<gate, lineOpen, haveX, lastX, klipper, vmot, wanted>>

FeedBack_CountsFailed ==
  /\ feeds < 0 /\ ~Blocked /\ haveX /\ lastX = 0
  /\ Scripted(paper' = paper + feeds /\ UNCHANGED <<carriage, punched>>,
              y' = IF y + feeds < 0 THEN 0 ELSE y + feeds,
              y' = IF y + feeds < 0 THEN 0 ELSE y + feeds, y + feeds >= 0)
  /\ feeds' = 0
  /\ UNCHANGED <<gate, doc, lineOpen, strikes, delayed, x, haveX, lastX, klipper, vmot, wanted>>

\* A retreat is one move; the index stops at the top of the sheet.
FeedBack ==
  /\ feeds < 0 /\ ~Blocked /\ haveX /\ lastX = 0
  /\ Scripted(paper' = paper + feeds /\ UNCHANGED <<carriage, punched>>,
              y' = IF y + feeds < 0 THEN 0 ELSE y + feeds,
              UNCHANGED y, y + feeds >= 0)
  /\ feeds' = 0
  /\ UNCHANGED <<gate, doc, lineOpen, strikes, delayed, x, haveX, lastX, klipper, vmot, wanted>>
EmbossStep ==
  \/ EmbossCell \/ Mark \/ Dropped
  \/ FirstStrike \/ MoveX \/ Punch \/ StrikeDropped
  \/ Return \/ TakenAsReturned \/ FeedForward \/ FeedBack
===============================================================================
