----------------------------- MODULE TimerService ------------------------------
(***************************************************************************)
(* The timers of the Pi (daemon-dietpi/src/ui/timer_service.cpp,              *)
(* ui/apps/timer_inline.cpp): a countdown, a stopwatch and the Pomodoro pair,   *)
(* advanced by the tick of the UI loop and kept in a file.                    *)
(*                                                                         *)
(* The clock moves in half seconds and the loop may be late, so a tick finds   *)
(* any time since the last one.  ran and stops are the history the properties   *)
(* compare with: the half seconds gone since the mode began, and how often the  *)
(* fraction of a second was thrown away.                                      *)
(***************************************************************************)
EXTENDS ConnectCalls, Integers

CONSTANTS
  Durations,  \* countdowns, in seconds
  WorkSec, BreakSec,
  MaxLate,    \* bound: half seconds the loop is late
  MaxRan,     \* bound: half seconds of a mode
  MaxStops    \* bound: pauses and restarts

ASSUME TimesAssumption ==
  /\ Durations \subseteq Nat /\ Durations # {}
  /\ WorkSec \in Nat /\ BreakSec \in Nat /\ MaxLate \in Nat

VARIABLES
  timer,   \* mode_, paused_, duration_sec_, remaining_sec_, elapsed_sec_ (all
           \* in the file), late: now - last_tick_ms_, or -1 before the first tick
  setup,   \* TimerInline: phase_, mode_index_, seconds_
  alerts,  \* alerts given since the mode was chosen
  ran, stops

timerVars == <<timer, setup, alerts, ran, stops>>
TimerKept == UNCHANGED <<prompt, busy, daemon, sound, crashes>>

Idle == [mode |-> "idle", paused |-> FALSE, duration |-> 0, remaining |-> 0,
         elapsed |-> 0, late |-> -1]
active == timer.mode # "idle"
Running == active /\ ~timer.paused

TimerInit ==
  /\ timer = Idle /\ setup = [at |-> "PickMode", mode |-> "countdown", seconds |-> 1]
  /\ alerts = 0 /\ ran = 0 /\ stops = 0

-----------------------------------------------------------------------------
(* TimerService                                                            *)

Mode(mode, seconds) ==
  [Idle EXCEPT !.mode = mode, !.duration = seconds, !.remaining = seconds]
Begin(mode, seconds) == timer' = Mode(mode, seconds) /\ ran' = 0 /\ stops' = 0

\* The clock, while the loop is busy elsewhere.
HalfSecond ==
  /\ Running /\ ran < MaxRan /\ timer.late < MaxLate
  /\ timer' = IF timer.late < 0 THEN timer ELSE [timer EXCEPT !.late = @ + 1]
  /\ ran' = IF timer.late < 0 THEN ran ELSE ran + 1
  /\ UNCHANGED <<setup, alerts, stops, app, keys>> /\ TimerKept

\* Whole seconds are taken; the rest stays for the next tick.
Advanced_Late(t) ==
  LET steps == t.late \div 2
  IN [t EXCEPT !.late = 0, !.elapsed = @ + steps,
               !.remaining = IF t.mode = "stopwatch" THEN @ ELSE @ - steps]
Advanced(t) ==
  LET steps == t.late \div 2
  IN [t EXCEPT !.late = @ - 2 * steps, !.elapsed = @ + steps,
               !.remaining = IF t.mode = "stopwatch" THEN @ ELSE @ - steps]

FirstTick ==
  /\ Running /\ timer.late < 0 /\ timer' = [timer EXCEPT !.late = 0]
  /\ UNCHANGED <<setup, alerts, ran, stops, app, keys>> /\ TimerKept

Tick ==
  /\ Running /\ timer.late >= 2
  /\ LET t == Advanced(timer)
     IN CASE t.mode = "stopwatch" \/ t.remaining > 0 ->
               timer' = t /\ UNCHANGED <<alerts, ran, stops>>
          [] t.mode = "countdown" /\ t.remaining <= 0 ->
               timer' = Idle /\ alerts' = alerts + 1 /\ ran' = 0 /\ stops' = 0
          [] t.mode = "pomodoro_work" /\ t.remaining <= 0 ->
               Begin("pomodoro_break", BreakSec) /\ alerts' = alerts + 1
          [] t.mode = "pomodoro_break" /\ t.remaining <= 0 ->
               Begin("pomodoro_work", WorkSec) /\ alerts' = alerts + 1
  /\ alerts' <= 2
  /\ UNCHANGED <<setup, app, keys>> /\ TimerKept

\* pause, resume, reset and cancel: no screen of this commit calls them, only the
\* test (timer_self_test.cpp); they are the service's interface all the same.
Pause ==
  /\ Key /\ Running /\ timer' = [timer EXCEPT !.paused = TRUE]
  /\ UNCHANGED <<setup, alerts, ran, stops, app>> /\ TimerKept

\* resume, and the first tick after it, forget the fraction before the pause.
Resume ==
  /\ Key /\ active /\ timer.paused /\ stops < MaxStops
  /\ timer' = [timer EXCEPT !.paused = FALSE, !.late = -1] /\ stops' = stops + 1
  /\ UNCHANGED <<setup, alerts, ran, app>> /\ TimerKept

Reset ==
  /\ Key /\ active
  /\ timer' = [timer EXCEPT !.paused = FALSE, !.late = -1, !.elapsed = 0,
                            !.remaining = IF timer.mode = "stopwatch" THEN @ ELSE timer.duration]
  /\ ran' = 0 /\ stops' = 0
  /\ UNCHANGED <<setup, alerts, app>> /\ TimerKept

Cancel ==
  /\ Key /\ active /\ timer' = Idle /\ ran' = 0 /\ stops' = 0
  /\ UNCHANGED <<setup, alerts, app>> /\ TimerKept

\* The UI is started again and goes on from the file.
TimerRestart ==
  /\ active /\ stops < MaxStops /\ stops' = stops + 1
  /\ timer' = [timer EXCEPT !.late = -1] /\ app' = "none"
  /\ UNCHANGED <<setup, alerts, ran, keys>> /\ TimerKept

-----------------------------------------------------------------------------
(* TimerInline                                                             *)

InTimer(phase) == Reaches("timer") /\ setup.at = phase /\ TimerKept

TimerEnter ==
  /\ Launch("timer") /\ TimerKept
  /\ setup' = [at |-> "PickMode", mode |-> "countdown",
               seconds |-> IF timer.remaining > 0 THEN timer.remaining
                           ELSE CHOOSE d \in Durations : TRUE]
  /\ UNCHANGED <<timer, alerts, ran, stops>>

TimerBack ==
  /\ \/ InTimer("PickMode") /\ app' = "none" /\ UNCHANGED setup
     \/ InTimer("SetDuration") /\ UNCHANGED app /\ setup' = [setup EXCEPT !.at = "PickMode"]
  /\ UNCHANGED <<timer, alerts, ran, stops>>

TimerPick ==
  /\ \/ InTimer("PickMode")
        /\ \E m \in {"countdown", "stopwatch", "pomodoro"} \ {setup.mode} :
             setup' = [setup EXCEPT !.mode = m]
     \/ InTimer("SetDuration")
        /\ \E s \in Durations \ {setup.seconds} : setup' = [setup EXCEPT !.seconds = s]
     \/ InTimer("PickMode") /\ setup.mode = "countdown"
        /\ setup' = [setup EXCEPT !.at = "SetDuration"]
  /\ UNCHANGED <<timer, alerts, ran, stops, app>>

\* start_selected_mode, over whatever timer runs.
TimerStart ==
  /\ \/ InTimer("PickMode") /\ setup.mode # "countdown"
     \/ InTimer("SetDuration")
  /\ CASE setup.mode = "countdown" -> Begin("countdown", setup.seconds)
       [] setup.mode = "stopwatch" -> Begin("stopwatch", 0)
       [] setup.mode = "pomodoro" -> Begin("pomodoro_work", WorkSec)
  /\ alerts' = 0 /\ app' = "none" /\ setup' = [setup EXCEPT !.at = "PickMode"]

TimerKey ==
  \/ Pause \/ Resume \/ Reset \/ Cancel \/ TimerEnter \/ TimerBack \/ TimerPick \/ TimerStart
TimerWork == HalfSecond \/ FirstTick \/ Tick \/ TimerRestart
TimerSpec == TimerInit /\ [][TimerKey \/ TimerWork]_timerVars

\* A timer neither runs fast nor loses time by a busy loop: it is behind the
\* clock by the fractions that a pause or a restart drops, and by what the next
\* tick will take.
KeepsTime ==
  active => LET taken == 2 * timer.elapsed + (IF timer.late > 0 THEN timer.late ELSE 0)
            IN taken <= ran /\ ran - taken <= MaxLate * stops
                 /\ (timer.mode # "stopwatch" => timer.remaining = timer.duration - timer.elapsed)
===============================================================================
