-------------------------- MODULE SafetyRailProofs --------------------------
(***************************************************************************)
(* What TLAPS proves of the motor supply interlock, for every timeout, turn *)
(* length and number of frames.                                             *)
(***************************************************************************)
EXTENDS SafetyRail, TLAPS

-----------------------------------------------------------------------------
LEMMA TypeInit == Init => TypeOK
<1> SUFFICES ASSUME Init PROVE TypeOK
  OBVIOUS
<1>1. SwitchesOK BY Zenon DEF Init, SwitchesOK
<1>2. CountersOK BY TimeAssumption DEF Init, CountersOK, Oldest
<1> QED BY <1>1, <1>2 DEF TypeOK

LEMMA OlderType == \A t \in 0..Oldest : Older(t) \in 0..Oldest
BY TimeAssumption DEF Older, Oldest

LEMMA SwitchesStep == ASSUME SwitchesOK, [Next]_vars PROVE SwitchesOK'
<1> USE DEF SwitchesOK, latches, sensor, turn, clock
<1>1. CASE Turn BY <1>1, Zenon DEF Turn
<1>2. CASE Heartbeat BY <1>2, Zenon DEF Heartbeat
<1>3. CASE Telemetry
  <2>1. rail' \in BOOLEAN /\ battery' \in BOOLEAN
    BY <1>3, Zenon DEF Telemetry, Critical, Recovered, Neither
  <2> QED BY <1>3, <2>1, Zenon DEF Telemetry
<1>4. CASE ClearFault BY <1>4, Zenon DEF ClearFault
<1>5. CASE ReadStatus BY <1>5, Zenon DEF ReadStatus
<1>6. CASE LookAtPin BY <1>6, Zenon DEF LookAtPin
<1>7. CASE SetLatch BY <1>7, Zenon DEF SetLatch
<1>8. CASE Kick BY <1>8, Zenon DEF Kick
<1>9. CASE Apply BY <1>9, Zenon DEF Apply
<1>10. CASE Restore BY <1>10, Zenon DEF Restore
<1>11. CASE Recheck BY <1>11, Zenon DEF Recheck
<1>12. CASE Fall BY <1>12, Zenon DEF Fall
<1>13. CASE Tick BY <1>13, Zenon DEF Tick
<1>14. CASE Reset BY <1>14, Zenon DEF Reset, Boot
<1>15. CASE UNCHANGED vars BY <1>15, Zenon DEF vars
<1> QED
  BY <1>1, <1>2, <1>3, <1>4, <1>5, <1>6, <1>7, <1>8, <1>9, <1>10, <1>11, <1>12,
     <1>13, <1>14, <1>15
  DEF Next, Loop

LEMMA CountersStep == ASSUME CountersOK, [Next]_vars PROVE CountersOK'
<1> USE TimeAssumption DEF CountersOK, turn, clock, Frame
<1>a. 0..MaxLag \subseteq 0..Oldest /\ 0 \in 0..Oldest /\ 0 \in 0..MaxLag
  BY DEF Oldest
<1>1. CASE Turn \/ Heartbeat \/ Telemetry \/ ClearFault
  BY <1>1, <1>a DEF Turn, Heartbeat, Telemetry, ClearFault
<1>2. CASE ReadStatus \/ LookAtPin \/ SetLatch \/ Kick \/ Apply \/ Restore \/ Recheck
  BY <1>2 DEF ReadStatus, LookAtPin, SetLatch, Kick, Apply, Restore, Recheck
<1>3. CASE Fall BY <1>3 DEF Fall
<1>4. CASE Tick BY <1>4, OlderType DEF Tick
<1>5. CASE Reset BY <1>5, <1>a DEF Reset, Boot
<1>6. CASE UNCHANGED vars BY <1>6 DEF vars
<1> QED
  BY <1>1, <1>2, <1>3, <1>4, <1>5, <1>6 DEF Next, Loop

LEMMA TypeStep == ASSUME TypeOK, [Next]_vars PROVE TypeOK'
BY SwitchesStep, CountersStep DEF TypeOK

\* Type correctness.
THEOREM TypeCorrect == Spec => []TypeOK
BY TypeInit, TypeStep, PTL DEF Spec

-----------------------------------------------------------------------------
(* What was checked still holds when the supply is switched on: nothing but *)
(* the interrupt runs between the two.                                      *)

RailInv ==
  /\ RailSafe
  /\ pc \in {"restore", "recheck"} => seen /\ ~lost /\ ready /\ ~battery

LEMMA RailStep == ASSUME CountersOK, RailInv, [Next]_vars PROVE RailInv'
<1> USE DEF RailInv, RailSafe, latches, sensor, turn, clock, Frame
<1>1. CASE Turn \/ Heartbeat \/ ClearFault
  BY <1>1 DEF Turn, Heartbeat, ClearFault
<1>2. CASE Telemetry
  <2>1. CASE Critical BY <1>2, <2>1 DEF Telemetry, Critical
  <2>2. CASE Recovered \/ Neither BY <1>2, <2>2 DEF Telemetry, Recovered, Neither
  <2> QED BY <1>2, <2>1, <2>2 DEF Telemetry
<1>3. CASE ReadStatus \/ LookAtPin BY <1>3 DEF ReadStatus, LookAtPin
<1>4. CASE SetLatch BY <1>4 DEF SetLatch
<1>5. CASE Kick BY <1>5 DEF Kick
<1>6. CASE Apply BY <1>6 DEF Apply, Hold, CountersOK
<1>7. CASE Restore BY <1>7 DEF Restore
<1>8. CASE Recheck BY <1>8 DEF Recheck
<1>9. CASE Fall \/ Tick BY <1>9 DEF Fall, Tick
<1>10. CASE Reset BY <1>10 DEF Reset, Boot
<1>11. CASE UNCHANGED vars BY <1>11 DEF vars
<1> QED
  BY <1>1, <1>2, <1>3, <1>4, <1>5, <1>6, <1>7, <1>8, <1>9, <1>10, <1>11
  DEF Next, Loop

\* The motor supply is on only while every hold is released, wherever the
\* free-fall interrupt lands and whenever the MCU is reset.
THEOREM RailIsSafe == Spec => []RailSafe
<1>1. Init => RailInv
  BY DEF Init, RailInv, RailSafe
<1>2. RailInv => RailSafe
  BY DEF RailInv
<1>3. TypeOK => CountersOK
  BY DEF TypeOK
<1> QED BY <1>1, <1>2, <1>3, TypeCorrect, RailStep, PTL DEF Spec

\* Between two resets of the MCU, a comms loss keeps the supply off until a
\* CLEAR_FAULT: neither heartbeats nor any other frame bring it back.
THEOREM LossIsHeld == Spec => []LossHeld
<1> DEFINE Owed == lossOpen => lost
<1>1. Init => RailInv /\ Owed
  BY DEF Init, RailInv, RailSafe
<1>2. Owed /\ [Next]_vars => Owed'
  <2> SUFFICES ASSUME Owed, [Next]_vars PROVE Owed'
    OBVIOUS
  <2> USE DEF latches
  <2>1. CASE Turn \/ Heartbeat \/ ClearFault \/ ReadStatus \/ LookAtPin \/ SetLatch
    BY <2>1 DEF Turn, Heartbeat, ClearFault, ReadStatus, LookAtPin, SetLatch
  <2>2. CASE Telemetry BY <2>2 DEF Telemetry
  <2>3. CASE Kick \/ Apply \/ Restore \/ Recheck \/ Fall \/ Tick
    BY <2>3 DEF Kick, Apply, Restore, Recheck, Fall, Tick
  <2>4. CASE Reset BY <2>4 DEF Reset
  <2>5. CASE UNCHANGED vars BY <2>5 DEF vars
  <2> QED BY <2>1, <2>2, <2>3, <2>4, <2>5 DEF Next, Loop
<1>3. RailInv /\ Owed => LossHeld
  BY DEF RailInv, RailSafe, LossHeld
<1>4. TypeOK => CountersOK
  BY DEF TypeOK
<1> QED BY <1>1, <1>2, <1>3, <1>4, TypeCorrect, RailStep, PTL DEF Spec

=============================================================================
