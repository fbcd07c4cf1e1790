----------------------------- MODULE SafetyRail -----------------------------
(***************************************************************************)
(* The motor supply interlock of the Arduino co-processor                   *)
(* (firmware-arduino/src: braillatron_app, watchdog, fail_safes,            *)
(* mpu6050_isr, telemetry_handler).  The main loop handles the frames of    *)
(* the Pi, watches the time since its last heartbeat and switches the       *)
(* supply rail; the free-fall interrupt cuts the rail at any point of it.   *)
(*                                                                         *)
(* One action is a stretch of the loop the interrupt does not split in a    *)
(* way that can be seen.  Time is kept as two ages: since the heartbeat     *)
(* last counted, and since millis() was read for this turn of the loop.     *)
(***************************************************************************)
EXTENDS Integers

CONSTANTS
  Timeout,   \* COMMS_TIMEOUT_MS, in ticks
  MaxLag,    \* bound: ticks one turn of the loop takes
  MaxFrames  \* bound: frames one poll of the serial line finds

ASSUME TimeAssumption ==
  Timeout \in Nat \ {0} /\ MaxLag \in Nat /\ MaxFrames \in Nat \ {0}

VARIABLES
  rail,      \* PIN_STEPPER_CUT: is the motor supply on?
  seen,      \* g_heartbeat_seen
  lost,      \* g_comms_lost
  battery,   \* g_battery_critical_latched
  ready,     \* g_mpu_ready
  freefall,  \* g_freefall_pending
  pinLow,    \* the MPU holds its interrupt line low
  pc,        \* where the loop is
  back,      \* where the running apply_rail returns to
  frames,    \* frames handled by the running poll
  age,       \* millis() - g_last_heartbeat_ms
  lag,       \* millis() - now_ms
  lossOpen   \* history: has neither a CLEAR_FAULT nor a reset come since
             \* the last loss?

latches == <<seen, lost, battery, ready>>
sensor  == <<freefall, pinLow>>
turn    == <<pc, back, frames>>
clock   == <<age, lag>>
vars == <<rail, latches, sensor, turn, clock, lossOpen>>

\* An age beyond Oldest is as good as Oldest.
Oldest == Timeout + MaxLag + 1
Older(t) == IF t < Oldest THEN t + 1 ELSE Oldest

\* elapsed > COMMS_TIMEOUT_MS.  now_ms is a moment of the past, and unsigned:
\* counted from a later moment, the difference wraps to a huge one.
Overdue_Exact == age - lag = Timeout + 1
Overdue == age - lag > Timeout \/ age < lag

-----------------------------------------------------------------------------
(* protocol_rx_poll                                                        *)

Turn ==
  /\ pc = "top" /\ pc' = "rx"
  /\ lag' = 0 /\ frames' = 0
  /\ UNCHANGED <<rail, latches, sensor, back, age, lossOpen>>

Frame(next) ==
  /\ pc = "rx" /\ frames < MaxFrames
  /\ frames' = frames + 1 /\ pc' = next

Heartbeat_Clears ==
  /\ Frame("rx")
  /\ seen' = TRUE /\ lost' = FALSE /\ age' = lag
  /\ UNCHANGED <<rail, battery, ready, sensor, back, lag, lossOpen>>

\* watchdog_notify_heartbeat
Heartbeat ==
  /\ Frame("rx")
  /\ seen' = TRUE /\ age' = lag
  /\ UNCHANGED <<rail, lost, battery, ready, sensor, back, lag, lossOpen>>

\* telemetry_handler_apply: a report is critical, a recovery or neither.
Critical ==
  /\ battery' = TRUE
  /\ rail' = IF battery THEN rail ELSE FALSE
Recovered == battery' = FALSE /\ UNCHANGED rail
Neither   == UNCHANGED <<battery, rail>>

Telemetry ==
  /\ Frame("rx")
  /\ Critical \/ Recovered \/ Neither
  /\ UNCHANGED <<seen, lost, ready, sensor, back, clock, lossOpen>>

\* fail_safes_recover_freefall: watchdog_clear_comms_lost(millis()), then
\* mpu6050_clear_freefall.
ClearFault ==
  /\ Frame("readStatus")
  /\ lost' = FALSE /\ seen' = TRUE /\ age' = 0
  /\ lossOpen' = FALSE
  /\ UNCHANGED <<rail, battery, ready, sensor, back, lag>>

\* Reading INT_STATUS releases the line, unless the read fails.
ReadStatus ==
  /\ pc = "readStatus" /\ pc' = "lookAtPin"
  /\ pinLow' \in BOOLEAN /\ (pinLow' => pinLow)
  /\ UNCHANGED <<rail, latches, freefall, back, frames, clock, lossOpen>>

LookAtPin ==
  /\ pc = "lookAtPin"
  /\ pc' = IF pinLow THEN "keepLatch" ELSE "dropLatch"
  /\ UNCHANGED <<rail, latches, sensor, back, frames, clock, lossOpen>>

SetLatch ==
  /\ pc \in {"keepLatch", "dropLatch"}
  /\ freefall' = IF pc = "keepLatch" THEN TRUE ELSE FALSE
  /\ pc' = "apply" /\ back' = "rx"
  /\ UNCHANGED <<rail, latches, pinLow, frames, clock, lossOpen>>

-----------------------------------------------------------------------------
(* watchdog_kick and fail_safes_apply_rail                                 *)

Kick ==
  /\ pc = "rx"
  /\ pc' = "apply" /\ back' = "top"
  /\ IF seen /\ ~lost /\ Overdue
       THEN lost' = TRUE /\ rail' = FALSE /\ lossOpen' = TRUE
       ELSE UNCHANGED <<lost, rail, lossOpen>>
  /\ UNCHANGED <<seen, battery, ready, sensor, frames, clock>>

Hold == ~seen \/ lost \/ ~ready \/ freefall \/ battery

Apply ==
  /\ pc = "apply"
  /\ IF Hold THEN rail' = FALSE /\ pc' = back
             ELSE pc' = "restore" /\ UNCHANGED rail
  /\ UNCHANGED <<latches, sensor, back, frames, clock, lossOpen>>

Restore_NoRecheck ==
  /\ pc = "restore" /\ pc' = back
  /\ rail' = TRUE
  /\ UNCHANGED <<latches, sensor, back, frames, clock, lossOpen>>

Restore ==
  /\ pc = "restore" /\ pc' = "recheck"
  /\ rail' = TRUE
  /\ UNCHANGED <<latches, sensor, back, frames, clock, lossOpen>>

\* The interrupt may have come between the check and the write.
Recheck ==
  /\ pc = "recheck" /\ pc' = back
  /\ rail' = IF freefall THEN FALSE ELSE rail
  /\ UNCHANGED <<latches, sensor, back, frames, clock, lossOpen>>

-----------------------------------------------------------------------------
(* The world around the loop.                                              *)

\* freefall_isr, on the falling edge.  A sensor that failed to initialise may
\* have no interrupt attached.
Fall ==
  /\ ~pinLow /\ pinLow' = TRUE
  /\ \/ freefall' = TRUE /\ rail' = FALSE
     \/ ~ready /\ UNCHANGED <<freefall, rail>>
  /\ UNCHANGED <<latches, turn, clock, lossOpen>>

Tick ==
  /\ lag < MaxLag \/ pc = "top"
  /\ lag' = IF lag < MaxLag THEN lag + 1 ELSE lag
  /\ age' = Older(age)
  /\ UNCHANGED <<rail, latches, sensor, turn, lossOpen>>

\* braillatron_setup, from a reset: RAM is cleared.  The status read of
\* mpu6050_isr_init releases the sensor's line, but a fall between it and
\* attachInterrupt pulls the line low with no edge left to see.
Boot ==
  /\ rail' = FALSE
  /\ seen' = FALSE /\ lost' = FALSE /\ battery' = FALSE /\ freefall' = FALSE
  /\ ready' \in BOOLEAN /\ pinLow' \in BOOLEAN
  /\ pc' = "top" /\ back' = "top" /\ frames' = 0
  /\ age' = 0 /\ lag' = 0

\* The hardware watchdog, or a brown-out.  With RAM the latches are gone, that
\* of a loss included.
Reset == Boot /\ lossOpen' = FALSE

Init ==
  /\ rail = FALSE
  /\ seen = FALSE /\ lost = FALSE /\ battery = FALSE /\ freefall = FALSE
  /\ ready \in BOOLEAN /\ pinLow \in BOOLEAN
  /\ pc = "top" /\ back = "top" /\ frames = 0
  /\ age = 0 /\ lag = 0
  /\ lossOpen = FALSE

Loop ==
  \/ Turn \/ Heartbeat \/ Telemetry \/ ClearFault
  \/ ReadStatus \/ LookAtPin \/ SetLatch
  \/ Kick \/ Apply \/ Restore \/ Recheck

Next == Loop \/ Fall \/ Tick \/ Reset

Spec == Init /\ [][Next]_vars

\* The loop runs on: it waits for nothing.
FairSpec == Spec /\ WF_vars(Loop)

-----------------------------------------------------------------------------
(* Properties                                                              *)

SwitchesOK ==
  /\ rail \in BOOLEAN /\ seen \in BOOLEAN /\ lost \in BOOLEAN
  /\ battery \in BOOLEAN /\ ready \in BOOLEAN
  /\ freefall \in BOOLEAN /\ pinLow \in BOOLEAN /\ lossOpen \in BOOLEAN

CountersOK ==
  /\ pc \in {"top", "rx", "readStatus", "lookAtPin", "keepLatch", "dropLatch",
             "apply", "restore", "recheck"}
  /\ back \in {"top", "rx"} /\ frames \in 0..MaxFrames
  /\ age \in 0..Oldest /\ lag \in 0..MaxLag

TypeOK == SwitchesOK /\ CountersOK

\* The supply is on only while every hold is released.  The interrupt may find
\* it about to be switched on, and CLEAR_FAULT may find the line low under a
\* latch that was lost: the loop takes the supply away at its next step.
RailSafe ==
  rail => /\ seen /\ ~lost /\ ready /\ ~battery
          /\ freefall => pc \in {"recheck", "apply"}

\* "latches COMMS_LOSS until the Pi sends CLEAR_FAULT.  The next heartbeat does
\* not turn the rail back on" (watchdog.cpp:11).  Only a reset of the MCU ends
\* it otherwise.
LossHeld == rail => ~lossOpen

\* A Pi that has fallen silent for the timeout loses the supply, whatever the
\* loop is doing.
SilenceCuts == (rail /\ age = Oldest) ~> (~rail \/ age < Oldest)

\* "if still LOW ... there may be no new FALLING edge -- keep the latch"
\* (mpu6050_isr.cpp:117): CLEAR_FAULT drops a latch only with the line high,
\* because no other edge would come to set it again.  A reset may drop it.
LowKeepsLatch == [][ready /\ freefall /\ ~freefall' /\ pc' # "top" => ~pinLow']_vars

=============================================================================
