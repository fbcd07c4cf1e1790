------------------------ MODULE EmbossPipelineProofs ------------------------
(***************************************************************************)
(* Theorems about the motor pipeline, for every cell alphabet, geometry,   *)
(* queue capacity, page length and bound.  After the types and the control *)
(* of power, faults and pages: every accepted dot reaches its own place on *)
(* the paper (the invariant IInv of EmbossPipeline is inductive), and the  *)
(* pipeline implements the line contract TactileLine.  Then the Spider's   *)
(* end of the link: the pipeline below it keeps its invariant, power is    *)
(* tied to heartbeats and to recovery, and the sender's last STATUS is     *)
(* true whenever the thread is idle.                                       *)
(***************************************************************************)
EXTENDS EmbossLink, TLAPS

-----------------------------------------------------------------------------
(* The pipeline under any caller: a submission is not bound by the room a   *)
(* run leaves, a callback without power or a refusal may only open or end   *)
(* the job, finish comes in any state, and so may an overflow of the caller *)
(* that no Reasons lists.                                                   *)

AnyCell(c)  == Accepting /\ SubmitCell(c)
AnyNewline  == Accepting /\ SubmitNewline
AnyFormFeed == Accepting /\ SubmitFormFeed
AnyFinish   == /\ pc = "ready" /\ pc' = "drain"
               /\ UNCHANGED <<ctl, paper, pos, pending, regs, ff, feeds, hist>>
Opening == /\ pc = "ready" /\ state # "fault"
           /\ \/ Refuse
              \/ /\ state' \in {"receiving", "printing", "queued", "done"}
                 /\ UNCHANGED <<fault, motors, paper, pos, pending, flow, hist>>

AnyCommand ==
  \/ \E c \in Cells : AnyCell(c)
  \/ AnyNewline \/ AnyFormFeed \/ AnyFinish \/ Opening
Usual == Step \/ AnyCommand \/ Caller
Overrun == Fault("overflow")
Move == Usual \/ Overrun

LEMMA NextUsual == [Next]_vars => [Usual]_vars
BY DEF Next, Usual, Command, AnyCommand, Cell, AnyCell, Newline, AnyNewline, FormFeed,
       AnyFormFeed, Finish, AnyFinish

LEMMA NextMoves == [Next]_vars => [Move]_vars
BY NextUsual DEF Move

-----------------------------------------------------------------------------
(* The operators the pipeline is built from.                               *)

LEMMA LocalsType ==
  ASSUME NEW c \in SUBSET Dots, NEW row \in RowBEntry, NEW to \in Int,
         NEW t \in {"cell", "newline", "drain"}
  PROVE  Locals(c, row, to, t) \in Registers
BY DEF Locals, Registers

LEMMA NoRowType == NoRow \in RowBEntry
BY DEF NoRow, RowBEntry

LEMMA TravelRegsType ==
  ASSUME NEW to \in Int, NEW t \in {"cell", "newline", "drain"}
  PROVE  Travelling(to, t) \in Registers
BY LocalsType, NoRowType DEF Travelling

LEMMA NoRegsType == NoRegs \in Registers
BY TravelRegsType DEF NoRegs

LEMMA RegsFields ==
  ASSUME NEW r \in Registers
  PROVE  /\ r.cell \in SUBSET Dots /\ r.row \in RowBEntry /\ r.target \in Int
         /\ r.then \in {"cell", "newline", "drain"}
         /\ r.row.due \in Int /\ r.row.dots \in SUBSET Dots
BY DEF Registers, RowBEntry

LEMMA MarksType ==
  ASSUME NEW dots \in SUBSET Dots, NEW at \in Int
  PROVE  MarksOf(dots, at) \subseteq Dots \X Int
BY DEF MarksOf

\* A page always has at least one line to give, and at most a whole page.
LEMMA LinesLeftRange ==
  ASSUME TypeOK PROVE LinesLeft \in 1..PageLines
<1>1. PageLines \in Nat /\ PageLines > 0 /\ yLine \in Nat
  BY GeometryAssumption DEF TypeOK
<1>2. yLine % PageLines \in 0..(PageLines - 1)
  BY <1>1
<1> QED BY <1>1, <1>2 DEF LinesLeft

-----------------------------------------------------------------------------
(* Type correctness.                                                       *)

LEMMA TypeInit == Init => TypeOK
<1> SUFFICES ASSUME Init PROVE TypeOK
  OBVIOUS
<1>1. pending \in Seq(RowBEntry) /\ line \subseteq Accepted /\ marks \subseteq Dots \X Int
      /\ again \subseteq Dots \X Int
  BY DEF Init
<1>2. motors \in BOOLEAN /\ lineOpen \in BOOLEAN
  BY DEF Init
<1>3. state \in JobStates /\ fault \in FaultCauses \cup {"none"}
      /\ paper \in {"unknown", "present", "absent"} /\ pc \in Callbacks \cup Stretches
  BY DEF Init, JobStates, Stretches
<1>4. regs \in Registers /\ ff \in {"no", "close", "eject"} /\ feeds \in Nat
      /\ x \in Int /\ yLine \in Nat
  BY NoRegsType DEF Init
<1> QED BY <1>1, <1>2, <1>3, <1>4 DEF TypeOK

LEMMA TypeReturn ==
  ASSUME Return
  PROVE  pc' \in Callbacks \cup Stretches /\ regs' \in Registers
         /\ ff' \in {"no", "close", "eject"} /\ feeds' \in Nat
BY NoRegsType DEF Return, Stretches

LEMMA TypeFault ==
  ASSUME NEW r \in FaultCauses, EnterFault(r)
  PROVE  state' \in JobStates /\ fault' \in FaultCauses \cup {"none"}
         /\ motors' \in BOOLEAN /\ pending' \in Seq(RowBEntry)
<1>1. state' \in JobStates /\ fault' \in FaultCauses \cup {"none"}
  BY DEF EnterFault, JobStates
<1>2. motors' \in BOOLEAN
  BY DEF EnterFault
<1>3. pending' \in Seq(RowBEntry)
  BY DEF EnterFault
<1> QED BY <1>1, <1>2, <1>3

LEMMA TypeRefuse == ASSUME TypeOK, Refuse PROVE TypeOK'
<1>1. EnterFault("paper") /\ "paper" \in FaultCauses
  BY DEF Refuse, FaultCauses
<1>2. Return /\ UNCHANGED <<paper, pos, hist>>
  BY DEF Refuse
<1> QED BY <1>1, <1>2, TypeFault, TypeReturn DEF TypeOK, pos, hist

LEMMA TypeStartNewline ==
  ASSUME TypeOK, StartNewline
  PROVE  pc' \in Callbacks \cup Stretches /\ regs' \in Registers
<1>1. x + RowBOffset \in Int
  BY GeometryAssumption DEF TypeOK
<1> QED BY <1>1, TravelRegsType DEF StartNewline, Stretches

LEMMA TypeCommand == ASSUME TypeOK, AnyCommand PROVE TypeOK'
<1>1. ASSUME NEW c \in Cells, AnyCell(c) PROVE TypeOK'
  <2>1. CASE Refuse BY <2>1, TypeRefuse
  <2>2. CASE ~Refuse
    <3>1. c \in SUBSET Dots BY CellsAssumption
    <3>2. regs' \in Registers
      BY <1>1, <2>2, <3>1, LocalsType, NoRowType DEF AnyCell, SubmitCell
    <3>3. line' \subseteq Accepted
      BY <1>1, <2>2, <3>1 DEF AnyCell, SubmitCell, TypeOK, Accepted
    <3> QED BY <1>1, <2>2, <3>2, <3>3
            DEF AnyCell, SubmitCell, TypeOK, pos, JobStates, Stretches
  <2> QED BY <2>1, <2>2
<1>2. CASE AnyNewline
  <2>1. CASE Refuse BY <2>1, TypeRefuse
  <2>2. CASE ~Refuse
    <3>1. pc' \in Callbacks \cup Stretches /\ regs' \in Registers
      BY <1>2, <2>2, TypeStartNewline DEF AnyNewline, SubmitNewline
    <3> QED BY <1>2, <2>2, <3>1
            DEF AnyNewline, SubmitNewline, TypeOK, pos, hist, JobStates, Begun
  <2> QED BY <2>1, <2>2
<1>3. CASE AnyFormFeed
  <2>1. CASE Refuse BY <2>1, TypeRefuse
  <2>2. CASE ~Refuse
    <3>1. pc' \in Callbacks \cup Stretches /\ regs' \in Registers
      BY <1>3, <2>2, TypeStartNewline
      DEF AnyFormFeed, SubmitFormFeed, Stretches, TypeOK
    <3> QED BY <1>3, <2>2, <3>1
            DEF AnyFormFeed, SubmitFormFeed, TypeOK, pos, hist, JobStates, Begun
  <2> QED BY <2>1, <2>2
<1>4. CASE AnyFinish
  BY <1>4 DEF AnyFinish, TypeOK, ctl, pos, hist, Stretches
<1>5. CASE Opening
  BY <1>5, TypeRefuse DEF Opening, TypeOK, pos, flow, hist, JobStates
<1> QED BY <1>1, <1>2, <1>3, <1>4, <1>5 DEF AnyCommand

LEMMA TypeSubmitSteps ==
  ASSUME TypeOK, StrikeRowA \/ QueueRowB PROVE TypeOK'
<1>1. CASE StrikeRowA
  <2>1. RowA(regs.cell) \in SUBSET Dots
    BY RegsFields DEF TypeOK, RowA
  <2>2. marks' \subseteq Dots \X Int /\ again' \subseteq Dots \X Int
    BY <1>1, <2>1, MarksType DEF StrikeRowA, Punch, TypeOK
  <2> QED BY <1>1, <2>2 DEF StrikeRowA, TypeOK, ctl, pos, Callbacks
<1>2. CASE QueueRowB
  <2> DEFINE dots  == RowB(regs.cell)
             entry == [due |-> RowBColumn, dots |-> dots]
  <2>1. RowBColumn \in Int /\ x + CellPitch \in Int
    BY GeometryAssumption DEF RowBColumn, TypeOK
  <2>2. entry \in RowBEntry
    BY <2>1, RegsFields DEF TypeOK, RowB, RowBEntry
  <2>3. paper' = paper /\ x' = x /\ yLine' = yLine /\ line' = line /\ marks' = marks
        /\ again' = again
    BY <1>2 DEF QueueRowB, hist
  <2>4. CASE Return /\ UNCHANGED <<ctl, lineOpen, pending>>
    BY <2>3, <2>4, TypeReturn DEF TypeOK, ctl
  <2>5. CASE EnterFault("overflow") /\ Return /\ UNCHANGED lineOpen
    <3>1. "overflow" \in FaultCauses BY DEF FaultCauses
    <3> QED BY <2>3, <2>5, <3>1, TypeFault, TypeReturn DEF TypeOK
  <2>6. CASE /\ pending' = IF dots = {} THEN pending ELSE Append(pending, entry)
             /\ lineOpen' = TRUE
             /\ pc' = "travel"
             /\ regs' = Travelling(x + CellPitch, "cell")
             /\ UNCHANGED <<ctl, ff, feeds>>
    <3>1. pending' \in Seq(RowBEntry)
      BY <2>2, <2>6 DEF TypeOK
    <3>2. regs' \in Registers
      BY <2>1, <2>6, TravelRegsType
    <3> QED BY <2>3, <2>6, <3>1, <3>2 DEF TypeOK, ctl, Stretches
  <2> QED BY <1>2, <2>4, <2>5, <2>6 DEF QueueRowB
<1> QED BY <1>1, <1>2

\* What CoverRest and ReachTarget share.
LEMMA TypeTravelled ==
  ASSUME TypeOK, Travelled
  PROVE  x' \in Int /\ pc' \in Callbacks \cup Stretches /\ regs' \in Registers
         /\ ff' \in {"no", "close", "eject"} /\ feeds' \in Nat
<1>1. x' \in Int
  BY RegsFields DEF Travelled, TypeOK
<1>2. CASE Return
  BY <1>1, <1>2, TypeReturn
<1>3. CASE ~Return
  BY <1>1, <1>3 DEF Travelled, TypeOK, Stretches
<1> QED BY <1>2, <1>3

LEMMA TypeTravelSteps ==
  ASSUME TypeOK, TakeDue \/ StrikeRowB \/ AfterRowB \/ CoverRest \/ ReachTarget
  PROVE  TypeOK'
<1>1. CASE TakeDue
  <2>1. pending # <<>> /\ pending \in Seq(RowBEntry)
    BY <1>1 DEF TakeDue, RowBDue, TypeOK
  <2>2. Head(pending) \in RowBEntry /\ Tail(pending) \in Seq(RowBEntry)
    BY <2>1
  <2>3. regs' \in Registers
    BY <1>1, <2>2, RegsFields, LocalsType DEF TakeDue, TypeOK
  <2> QED BY <1>1, <2>2, <2>3 DEF TakeDue, TypeOK, ctl, pos, hist, Callbacks, Stretches
<1>2. CASE StrikeRowB
  <2>1. x' \in Int
    BY <1>2, RegsFields DEF StrikeRowB, TypeOK
  <2>2. marks' \subseteq Dots \X Int /\ again' \subseteq Dots \X Int
    BY <1>2, RegsFields, MarksType DEF StrikeRowB, Punch, TypeOK
  <2>3. /\ pc' \in Callbacks \cup Stretches /\ regs' \in Registers
        /\ ff' \in {"no", "close", "eject"} /\ feeds' \in Nat
    BY <1>2, TypeReturn DEF StrikeRowB, TypeOK, Callbacks, Stretches
  <2> QED BY <1>2, <2>1, <2>2, <2>3 DEF StrikeRowB, TypeOK, ctl
<1>3. CASE AfterRowB
  BY <1>3, TypeReturn DEF AfterRowB, TypeOK, ctl, pos, hist, Stretches
<1>4. CASE CoverRest
  BY <1>4, TypeTravelled DEF CoverRest, TypeOK, ctl, hist, Callbacks
<1>5. CASE ReachTarget
  BY <1>5, TypeTravelled DEF ReachTarget, TypeOK, ctl, hist
<1> QED BY <1>1, <1>2, <1>3, <1>4, <1>5

LEMMA TypeLineSteps ==
  ASSUME TypeOK, GoHome \/ AtHome \/ FeedLine \/ LineDone
  PROVE  TypeOK'
<1>1. CASE GoHome
  <2>1. pending' \in Seq(RowBEntry)
    BY <1>1 DEF GoHome
  <2> QED BY <1>1, <2>1 DEF GoHome, TypeOK, ctl, hist, Callbacks, Stretches
<1>2. CASE AtHome
  BY <1>2, TypeReturn DEF AtHome, TypeOK, ctl, hist, Stretches
<1>3. CASE FeedLine
  BY <1>3 DEF FeedLine, TypeOK, ctl, pos, hist, Callbacks
<1>4. CASE LineDone
  <2>1. /\ pc' \in Callbacks \cup Stretches /\ regs' \in Registers
        /\ ff' \in {"no", "close", "eject"} /\ feeds' \in Nat
    BY <1>4, TypeReturn DEF LineDone, TypeOK, Stretches
  <2>2. state' \in JobStates /\ yLine' \in Nat
    BY <1>4 DEF LineDone, TypeOK, JobStates
  <2>4. lineOpen' \in BOOLEAN
    BY <1>4 DEF LineDone, TypeOK
  <2>3. line' \subseteq Accepted /\ marks' \subseteq Dots \X Int /\ again' \subseteq Dots \X Int
    BY <1>4 DEF LineDone, TypeOK, hist
  <2> QED BY <1>4, <2>1, <2>2, <2>3, <2>4 DEF LineDone, TypeOK
<1> QED BY <1>1, <1>2, <1>3, <1>4

LEMMA TypePageSteps ==
  ASSUME TypeOK, MeasurePage \/ EjectLine \/ PageDone \/ Drain
  PROVE  TypeOK'
<1>1. CASE MeasurePage
  <2>1. LinesLeft \in Nat
    BY LinesLeftRange, GeometryAssumption
  <2> QED BY <1>1, <2>1 DEF MeasurePage, TypeOK, ctl, pos, hist
<1>2. CASE EjectLine
  <2>1. CASE Refuse BY <2>1, TypeRefuse
  <2>2. CASE ~Refuse
    <3>1. feeds' \in Nat
      BY <1>2, <2>2 DEF EjectLine, TypeOK
    <3>2. pc' \in Callbacks \cup Stretches /\ regs' \in Registers
      BY <1>2, <2>2, TypeStartNewline DEF EjectLine
    <3> QED BY <1>2, <2>2, <3>1, <3>2 DEF EjectLine, TypeOK, ctl, pos, hist
  <2> QED BY <2>1, <2>2
<1>3. CASE PageDone
  BY <1>3, TypeReturn DEF PageDone, TypeOK, pos, hist, JobStates
<1>4. CASE Drain
  <2>1. /\ pc' \in Callbacks \cup Stretches /\ regs' \in Registers
        /\ ff' \in {"no", "close", "eject"} /\ feeds' \in Nat
    <3>1. CASE Return BY <3>1, TypeReturn
    <3>2. CASE ~Return
      <4>1. Head(pending).due \in Int
        <5>1. pending # <<>> /\ pending \in Seq(RowBEntry)
          BY <1>4, <3>2 DEF Drain, TypeOK
        <5>2. Head(pending) \in RowBEntry
          BY <5>1
        <5> QED BY <5>2 DEF RowBEntry
      <4>2. regs' \in Registers
        BY <1>4, <3>2, <4>1, TravelRegsType DEF Drain
      <4> QED BY <1>4, <3>2, <4>2 DEF Drain, TypeOK, Stretches
    <3> QED BY <3>1, <3>2
  <2>2. state' \in JobStates
    BY <1>4 DEF Drain, TypeOK, ctl, JobStates
  <2> QED BY <1>4, <2>1, <2>2 DEF Drain, TypeOK, ctl, pos, hist
<1> QED BY <1>1, <1>2, <1>3, <1>4

LEMMA TypeCaller == ASSUME TypeOK, Caller PROVE TypeOK'
<1>1. ASSUME NEW r \in Reasons, Fault(r) PROVE TypeOK'
  <2>1. r \in FaultCauses BY ReasonsAssumption
  <2> QED BY <1>1, <2>1, TypeFault DEF Fault, TypeOK, pos, flow, hist
<1>2. ASSUME NEW e \in BOOLEAN, LeaveFault(e) PROVE TypeOK'
  <2>1. pending' \in Seq(RowBEntry) /\ line' \subseteq Accepted
        /\ marks' \subseteq Dots \X Int /\ again' \subseteq Dots \X Int
    BY <1>2 DEF LeaveFault
  <2> QED BY <1>2, <2>1 DEF LeaveFault, TypeOK, flow, JobStates
<1>3. ASSUME NEW a \in BOOLEAN, SetArmed(a) PROVE TypeOK'
  <2>1. motors' \in BOOLEAN BY <1>3 DEF SetArmed
  <2> QED BY <1>3, <2>1 DEF SetArmed, TypeOK, pos, flow, hist
<1>4. ASSUME NEW p \in BOOLEAN, SetPaperPresent(p) PROVE TypeOK'
  BY <1>4 DEF SetPaperPresent, TypeOK, ctl, pos, flow, hist
<1> QED BY <1>1, <1>2, <1>3, <1>4 DEF Caller

LEMMA TypeStep == ASSUME TypeOK, [Move]_vars PROVE TypeOK'
<1>1. CASE Step
  BY <1>1, TypeSubmitSteps, TypeTravelSteps, TypeLineSteps, TypePageSteps DEF Step
<1>2. CASE UNCHANGED vars
  BY <1>2 DEF TypeOK, vars
<1>3. CASE Overrun
  <2>1. "overflow" \in FaultCauses BY DEF FaultCauses
  <2> QED BY <1>3, <2>1, TypeFault DEF Overrun, Fault, TypeOK, pos, flow, hist
<1> QED BY <1>1, <1>2, <1>3, TypeCommand, TypeCaller DEF Move, Usual

\* Every variable keeps its type, whatever faults and callbacks do.
THEOREM TypeCorrect == Spec => []TypeOK
<1>1. Init => TypeOK BY TypeInit
<1>2. TypeOK /\ [Next]_vars => TypeOK' BY NextMoves, TypeStep
<1> QED BY <1>1, <1>2, PTL DEF Spec

-----------------------------------------------------------------------------
(* A fault cuts the power at once and the interrupted command strikes no   *)
(* more.                                                                   *)

Control == FaultIsDead /\ FaultPlaces

LEMMA ControlStep ==
  ASSUME TypeOK, Control, [Move]_vars PROVE Control'
<1> USE DEF Control, FaultIsDead, FaultPlaces, Callbacks
<1>r. ASSUME Refuse PROVE Control'
  BY <1>r DEF Refuse, EnterFault, Return
<1>1. ASSUME NEW c \in Cells, AnyCell(c) PROVE Control'
  <2>1. CASE Refuse BY <2>1, <1>r
  <2>2. CASE ~Refuse
    BY <1>1, <2>2 DEF AnyCell, Accepting, SubmitCell
  <2> QED BY <2>1, <2>2
<1>2. CASE AnyNewline
  <2>1. CASE Refuse BY <2>1, <1>r
  <2>2. CASE ~Refuse
    BY <1>2, <2>2 DEF AnyNewline, Accepting, SubmitNewline, Begun, StartNewline
  <2> QED BY <2>1, <2>2
<1>3. CASE AnyFormFeed
  <2>1. CASE Refuse BY <2>1, <1>r
  <2>2. CASE ~Refuse
    BY <1>3, <2>2 DEF AnyFormFeed, Accepting, SubmitFormFeed, Begun, StartNewline
  <2> QED BY <2>1, <2>2
<1>4. CASE AnyFinish
  BY <1>4 DEF AnyFinish, ctl
<1>5. CASE StrikeRowA
  BY <1>5 DEF StrikeRowA, ctl
<1>6. CASE QueueRowB
  BY <1>6 DEF QueueRowB, Return, EnterFault, ctl, FaultCauses
<1>7. CASE TakeDue
  BY <1>7 DEF TakeDue, RowBDue, ctl
<1>8. CASE StrikeRowB
  BY <1>8 DEF StrikeRowB, Return, ctl
<1>9. CASE AfterRowB
  BY <1>9 DEF AfterRowB, Return, ctl
<1>10. CASE CoverRest
  BY <1>10, RegsFields DEF CoverRest, Travelled, Return, ctl, TypeOK
<1>11. CASE ReachTarget
  BY <1>11, RegsFields DEF ReachTarget, Travelled, Return, ctl, TypeOK
<1>12. CASE GoHome
  BY <1>12 DEF GoHome, ctl
<1>13. CASE AtHome
  BY <1>13 DEF AtHome, Return, ctl
<1>14. CASE FeedLine
  BY <1>14 DEF FeedLine, ctl
<1>15. CASE LineDone
  BY <1>15 DEF LineDone, Return
<1>16. CASE MeasurePage
  BY <1>16 DEF MeasurePage, ctl
<1>17. CASE EjectLine
  <2>1. CASE Refuse BY <2>1, <1>r
  <2>2. CASE ~Refuse
    BY <1>17, <2>2 DEF EjectLine, StartNewline, ctl
  <2> QED BY <2>1, <2>2
<1>18. CASE PageDone
  BY <1>18 DEF PageDone, Return
<1>19. CASE Drain
  BY <1>19 DEF Drain, Return, ctl
<1>20. ASSUME NEW r \in Reasons, Fault(r) PROVE Control'
  BY <1>20, ReasonsAssumption DEF Fault, EnterFault, flow, FaultCauses
<1>21. ASSUME NEW e \in BOOLEAN, LeaveFault(e) PROVE Control'
  BY <1>21 DEF LeaveFault, flow
<1>22. ASSUME NEW a \in BOOLEAN, SetArmed(a) PROVE Control'
  BY <1>22 DEF SetArmed, flow
<1>23. ASSUME NEW p \in BOOLEAN, SetPaperPresent(p) PROVE Control'
  BY <1>23 DEF SetPaperPresent, flow, ctl
<1>24. CASE UNCHANGED vars
  BY <1>24 DEF vars
<1>25. CASE Opening
  BY <1>25, <1>r DEF Opening, flow
<1>26. CASE Overrun
  BY <1>26 DEF Overrun, Fault, EnterFault, flow
<1> QED
  BY <1>1, <1>2, <1>3, <1>4, <1>5, <1>6, <1>7, <1>8, <1>9, <1>10, <1>11, <1>12,
     <1>13, <1>14, <1>15, <1>16, <1>17, <1>18, <1>19, <1>20, <1>21, <1>22,
     <1>23, <1>24, <1>25, <1>26
  DEF Move, Usual, Step, AnyCommand, Caller

LEMMA SafeInvariant == Spec => [](TypeOK /\ Control)
<1>1. Init => TypeOK /\ Control
  BY TypeInit DEF Init, Control, FaultIsDead, FaultPlaces
<1>2. TypeOK /\ Control /\ [Next]_vars => (TypeOK /\ Control)'
  BY NextMoves, TypeStep, ControlStep
<1> QED BY <1>1, <1>2, PTL DEF Spec

\* Whichever callback a fault enters through, the power is cut and the queue
\* dropped, and no motor callback runs unpowered.
THEOREM FaultCutsPower == Spec => []FaultIsDead
BY SafeInvariant, PTL DEF Control

\* The command a fault interrupts strikes nothing more, and no later one does
\* until the fault is cleared.
THEOREM FaultStopsStrikes == Spec => NoStrikeInFault
<1>1. Control /\ [Next]_vars => [state = "fault" => marks' \subseteq marks]_vars
  <2> SUFFICES ASSUME Control, [Move]_vars, state = "fault", marks' # marks
               PROVE  marks' \subseteq marks
    BY NextMoves
  <2>1. pc \in Callbacks \cup {"ready", "drain"}
    BY DEF Control, FaultPlaces
  <2>2. ~StrikeRowA
    BY <2>1 DEF StrikeRowA, Callbacks
  <2>3. StrikeRowB => marks' = marks
    BY DEF StrikeRowB
  <2>4. ASSUME NEW c \in Cells, AnyCell(c) PROVE marks' = marks
    BY <2>4 DEF AnyCell, Accepting
  <2>5. CASE AnyNewline \/ AnyFormFeed \/ AnyFinish
    BY <2>5 DEF AnyNewline, AnyFormFeed, AnyFinish, Accepting, hist
  <2>6. CASE LineDone
    BY <2>6 DEF LineDone, hist
  <2>7. ASSUME NEW e \in BOOLEAN, LeaveFault(e) PROVE marks' \subseteq marks
    BY <2>7 DEF LeaveFault
  <2>8. CASE Step
    BY <2>2, <2>3, <2>6, <2>8
    DEF Step, QueueRowB, TakeDue, AfterRowB, CoverRest, ReachTarget, GoHome,
        AtHome, FeedLine, MeasurePage, EjectLine, Refuse, PageDone, Drain, hist
  <2>9. CASE Caller
    BY <2>7, <2>9 DEF Caller, Fault, SetArmed, SetPaperPresent, hist
  <2>10. CASE Overrun
    BY <2>10 DEF Overrun, Fault, hist
  <2> QED BY <2>4, <2>5, <2>8, <2>9, <2>10 DEF Move, Usual, AnyCommand, Opening, vars
<1> QED BY <1>1, SafeInvariant, PTL DEF Spec, NoStrikeInFault

-----------------------------------------------------------------------------
(* A form feed ends at the end of a page.                                  *)

LEMMA LinesLeftEndPage ==
  ASSUME TypeOK PROVE (yLine + LinesLeft) % PageLines = 0
<1>1. PageLines \in Nat \ {0} /\ yLine \in Nat
  BY GeometryAssumption DEF TypeOK
<1>2. ASSUME NEW k \in Nat, NEW p \in Nat \ {0} PROVE (k + (p - (k % p))) % p = 0
  OBVIOUS
<1> QED BY <1>1, <1>2 DEF LinesLeft

LEMMA RegsThen ==
  ASSUME NEW to \in Int, NEW t \in {"cell", "newline", "drain"}
  PROVE  Travelling(to, t).then = t
BY DEF Travelling, Locals

LEMMA PageReturn ==
  ASSUME Return PROVE PageInv'
BY DEF Return, PageInv, Travels, Submits, Returning

LEMMA PageStartNewline ==
  ASSUME TypeOK, StartNewline PROVE pc' = "travel" /\ regs'.then = "newline"
<1>1. x + RowBOffset \in Int
  BY GeometryAssumption DEF TypeOK
<1> QED BY <1>1, RegsThen DEF StartNewline

LEMMA PageCommand ==
  ASSUME TypeOK, Control, PageInv, AnyCommand PROVE PageInv'
<1> USE DEF PageInv, Travels, Submits, Returning
<1>r. ASSUME Refuse PROVE PageInv'
  BY <1>r, PageReturn DEF Refuse, Return
<1>1. ASSUME NEW c \in Cells, AnyCell(c) PROVE PageInv'
  BY <1>1, <1>r DEF AnyCell, Accepting, SubmitCell
<1>2. CASE AnyNewline
  <2>1. CASE Refuse BY <2>1, <1>r
  <2>2. CASE ~Refuse
    <3>1. pc' = "travel" /\ regs'.then = "newline"
      BY <1>2, <2>2, PageStartNewline DEF AnyNewline, SubmitNewline
    <3> QED BY <1>2, <2>2, <3>1 DEF AnyNewline, Accepting, SubmitNewline, Begun
  <2> QED BY <2>1, <2>2
<1>3. CASE AnyFormFeed
  <2>1. CASE Refuse BY <2>1, <1>r
  <2>2. CASE ~Refuse
    <3>1. pc' = "eject" \/ (pc' = "travel" /\ regs'.then = "newline")
      BY <1>3, <2>2, PageStartNewline DEF AnyFormFeed, SubmitFormFeed
    <3> QED BY <1>3, <2>2, <3>1 DEF AnyFormFeed, Accepting, SubmitFormFeed, Begun
  <2> QED BY <2>1, <2>2
<1>4. CASE AnyFinish
  BY <1>4 DEF AnyFinish, ctl, pos
<1>5. CASE Opening
  BY <1>5, <1>r DEF Opening, pos, flow
<1> QED BY <1>1, <1>2, <1>3, <1>4, <1>5 DEF AnyCommand

LEMMA PageTravelSteps ==
  ASSUME TypeOK, Control, PageInv,
         \/ StrikeRowA \/ QueueRowB \/ TakeDue \/ StrikeRowB \/ AfterRowB
         \/ CoverRest \/ ReachTarget
  PROVE  PageInv'
<1> USE DEF PageInv, Travels, Submits, Returning
<1>1. CASE StrikeRowA
  BY <1>1 DEF StrikeRowA, ctl, pos
<1>2. CASE QueueRowB
  <2>1. CASE Return BY <2>1, PageReturn
  <2>2. CASE ~Return
    BY <1>2, <2>2 DEF QueueRowB, ctl
  <2> QED BY <2>1, <2>2
<1>3. CASE TakeDue
  <2>1. regs'.then = regs.then
    BY <1>3 DEF TakeDue, Locals
  <2> QED BY <1>3, <2>1 DEF TakeDue, ctl, pos
<1>4. CASE StrikeRowB
  BY <1>4, PageReturn DEF StrikeRowB, ctl
<1>5. CASE AfterRowB
  BY <1>5, PageReturn DEF AfterRowB, ctl, pos
<1>6. ASSUME Travelled, pc \in {"travel", "toTarget"},
             UNCHANGED <<state, yLine>>
      PROVE PageInv'
  <2>1. regs.then \in {"cell", "newline", "drain"}
    BY RegsFields DEF TypeOK
  <2> QED BY <1>6, PageReturn, <2>1 DEF Travelled
<1>7. CASE CoverRest
  BY <1>7, <1>6 DEF CoverRest, ctl
<1>8. CASE ReachTarget
  BY <1>8, <1>6 DEF ReachTarget, ctl
<1> QED BY <1>1, <1>2, <1>3, <1>4, <1>5, <1>7, <1>8

LEMMA PageLineSteps ==
  ASSUME TypeOK, Control, PageInv,
         \/ GoHome \/ AtHome \/ FeedLine \/ LineDone
         \/ MeasurePage \/ EjectLine \/ PageDone \/ Drain
  PROVE  PageInv'
<1> USE DEF PageInv, Travels, Submits, Returning
<1>1. CASE GoHome
  BY <1>1 DEF GoHome, ctl
<1>2. CASE AtHome
  BY <1>2, PageReturn DEF AtHome, ctl
<1>3. CASE FeedLine
  BY <1>3 DEF FeedLine, ctl, pos
<1>4. CASE LineDone
  <2>1. CASE Return BY <2>1, PageReturn
  <2>2. CASE ~Return
    <3>1. yLine + 1 \in Nat /\ yLine + 1 > 0
      BY DEF TypeOK
    <3> QED BY <1>4, <2>2, <3>1 DEF LineDone
  <2> QED BY <2>1, <2>2
<1>5. CASE MeasurePage
  <2>1. LinesLeft > 0 /\ LinesLeft \in Nat
    BY LinesLeftRange, GeometryAssumption
  <2>2. (yLine + LinesLeft) % PageLines = 0
    BY LinesLeftEndPage
  <2> QED BY <1>5, <2>1, <2>2 DEF MeasurePage, ctl, pos
<1>6. CASE EjectLine
  <2>1. CASE Refuse BY <2>1, PageReturn DEF Refuse
  <2>2. CASE ~Refuse
    <3>1. pc' = "travel" /\ regs'.then = "newline"
      BY <1>6, <2>2, PageStartNewline DEF EjectLine
    <3>2. yLine' + 1 + feeds' = yLine + feeds
      BY <1>6, <2>2 DEF EjectLine, TypeOK, pos
    <3> QED BY <1>6, <2>2, <3>1, <3>2 DEF EjectLine, ctl, pos
  <2> QED BY <2>1, <2>2
<1>7. CASE PageDone
  BY <1>7, PageReturn DEF PageDone
<1>8. CASE Drain
  <2>1. CASE Return BY <2>1, PageReturn
  <2>2. CASE ~Return
    <3>1. regs' = Travelling(Head(pending).due, "drain")
      BY <1>8, <2>2 DEF Drain
    <3>2. regs'.then = "drain"
      BY <3>1 DEF Travelling, Locals
    <3> QED BY <1>8, <2>2, <3>2 DEF Drain, ctl, pos
  <2> QED BY <2>1, <2>2
<1> QED BY <1>1, <1>2, <1>3, <1>4, <1>5, <1>6, <1>7, <1>8

LEMMA PageStep ==
  ASSUME TypeOK, Control, PageInv, [Move]_vars PROVE PageInv'
<1>1. ASSUME NEW r \in Reasons, Fault(r) PROVE PageInv'
  BY <1>1 DEF PageInv, Fault, EnterFault, pos, flow
<1>2. ASSUME NEW e \in BOOLEAN, LeaveFault(e) PROVE PageInv'
  BY <1>2 DEF PageInv, LeaveFault, flow, Travels, Returning, Submits
<1>3. ASSUME NEW a \in BOOLEAN, SetArmed(a) PROVE PageInv'
  BY <1>3 DEF PageInv, SetArmed, pos, flow
<1>4. ASSUME NEW p \in BOOLEAN, SetPaperPresent(p) PROVE PageInv'
  BY <1>4 DEF PageInv, SetPaperPresent, ctl, pos, flow
<1>5. CASE UNCHANGED vars
  BY <1>5 DEF PageInv, vars
<1>6. CASE Overrun
  BY <1>6 DEF PageInv, Overrun, Fault, EnterFault, pos, flow
<1> QED
  BY <1>1, <1>2, <1>3, <1>4, <1>5, <1>6, PageCommand, PageTravelSteps, PageLineSteps
  DEF Move, Usual, Step, Caller

LEMMA PageInit == Init => PageInv
BY RegsThen DEF Init, PageInv, Travels, Submits, Returning

LEMMA PageEnds ==
  ASSUME TypeOK, PageInv, [Move]_vars
  PROVE  [pc = "eject" /\ state' = "done" =>
            yLine' % PageLines = 0 /\ yLine' > 0 /\ x' = 0]_vars
<1> SUFFICES ASSUME pc = "eject", state' = "done"
             PROVE  yLine' % PageLines = 0 /\ yLine' > 0 /\ x' = 0
  OBVIOUS
<1>1. state # "done"
  BY DEF PageInv, Travels
<1>2. PageDone
  <2>1. CASE AnyCommand
    BY <2>1 DEF AnyCommand, AnyCell, AnyNewline, AnyFormFeed, AnyFinish, Opening, Accepting
  <2>2. CASE Caller
    BY <1>1, <2>2 DEF Caller, Fault, EnterFault, LeaveFault, SetArmed, SetPaperPresent, ctl
  <2>3. CASE Step
    BY <1>1, <2>3
    DEF Step, StrikeRowA, QueueRowB, TakeDue, StrikeRowB, AfterRowB, CoverRest,
        ReachTarget, GoHome, AtHome, FeedLine, LineDone, MeasurePage, EjectLine,
        Refuse, EnterFault, Drain, ctl
  <2>4. CASE UNCHANGED vars
    BY <1>1, <2>4 DEF vars
  <2>5. CASE Overrun
    BY <2>5 DEF Overrun, Fault, EnterFault
  <2> QED BY <2>1, <2>2, <2>3, <2>4, <2>5 DEF Move, Usual
<1>3. yLine' = yLine /\ x' = x /\ feeds = 0 /\ ff = "eject"
  BY <1>2 DEF PageDone, pos
<1>4. (yLine + feeds) % PageLines = 0 /\ yLine > 0 /\ x = 0 /\ yLine + feeds = yLine
  BY <1>3 DEF PageInv, TypeOK
<1> QED BY <1>3, <1>4

\* A form feed that completes stops on the first line of a page, beyond where it
\* began, with the carriage at home.
THEOREM FormFeedsEndPages == Spec => FormFeedEndsPage
<1>1. Init => TypeOK /\ Control /\ PageInv
  BY TypeInit, PageInit DEF Init, Control, FaultIsDead, FaultPlaces
<1>2. TypeOK /\ Control /\ PageInv /\ [Next]_vars => (TypeOK /\ Control /\ PageInv)'
  BY NextMoves, TypeStep, ControlStep, PageStep
<1>3. TypeOK /\ PageInv /\ [Next]_vars =>
        [pc = "eject" /\ state' = "done" =>
           yLine' % PageLines = 0 /\ yLine' > 0 /\ x' = 0]_vars
  BY NextMoves, PageEnds
<1> QED BY <1>1, <1>2, <1>3, PTL DEF Spec, FormFeedEndsPage


-----------------------------------------------------------------------------
(* The sets of marks the invariant speaks of.                              *)

MarksIn(s) == UNION {MarksOf(s[i].dots, s[i].due) : i \in 1..Len(s)}
WantedBy(cells) == UNION {CellMarks(e) : e \in cells}

LEMMA MarksInEmpty == MarksIn(<<>>) = {}
BY DEF MarksIn

LEMMA MarksInMember ==
  ASSUME NEW s \in Seq(RowBEntry), NEW m
  PROVE  m \in MarksIn(s) <=>
           \E i \in 1..Len(s) : m \in MarksOf(s[i].dots, s[i].due)
BY DEF MarksIn

LEMMA MarksInAppend ==
  ASSUME NEW s \in Seq(RowBEntry), NEW e \in RowBEntry
  PROVE  MarksIn(Append(s, e)) = MarksIn(s) \cup MarksOf(e.dots, e.due)
<1>1. Append(s, e) \in Seq(RowBEntry) /\ Len(Append(s, e)) = Len(s) + 1
  OBVIOUS
<1>2. \A i \in 1..Len(s) : Append(s, e)[i] = s[i]
  OBVIOUS
<1>3. Append(s, e)[Len(s) + 1] = e
  OBVIOUS
<1>4. 1..(Len(s) + 1) = (1..Len(s)) \cup {Len(s) + 1}
  OBVIOUS
<1> QED BY <1>1, <1>2, <1>3, <1>4 DEF MarksIn

LEMMA MarksInTail ==
  ASSUME NEW s \in Seq(RowBEntry), s # <<>>
  PROVE  MarksIn(s) = MarksOf(Head(s).dots, Head(s).due) \cup MarksIn(Tail(s))
<1>1. Tail(s) \in Seq(RowBEntry) /\ Len(Tail(s)) = Len(s) - 1 /\ Len(s) >= 1
  OBVIOUS
<1>2. \A i \in 1..(Len(s) - 1) : Tail(s)[i] = s[i + 1]
  OBVIOUS
<1>3. Head(s) = s[1]
  OBVIOUS
<1>4. ASSUME NEW m, m \in MarksIn(s)
      PROVE  m \in MarksOf(Head(s).dots, Head(s).due) \cup MarksIn(Tail(s))
  <2>1. PICK i \in 1..Len(s) : m \in MarksOf(s[i].dots, s[i].due)
    BY <1>4, MarksInMember
  <2>2. CASE i = 1 BY <2>1, <2>2, <1>3
  <2>3. CASE i # 1
    <3>1. i - 1 \in 1..(Len(s) - 1) /\ Tail(s)[i - 1] = s[i]
      BY <2>3, <1>1, <1>2
    <3> QED BY <3>1, <2>1, <1>1, MarksInMember
  <2> QED BY <2>2, <2>3
<1>5. ASSUME NEW m, m \in MarksIn(Tail(s)) PROVE m \in MarksIn(s)
  <2>1. PICK i \in 1..(Len(s) - 1) : m \in MarksOf(Tail(s)[i].dots, Tail(s)[i].due)
    BY <1>5, <1>1, MarksInMember
  <2>2. i + 1 \in 1..Len(s) /\ Tail(s)[i] = s[i + 1]
    BY <1>1, <1>2
  <2> QED BY <2>1, <2>2, MarksInMember
<1>6. MarksOf(Head(s).dots, Head(s).due) \subseteq MarksIn(s)
  BY <1>1, <1>3, MarksInMember
<1> QED BY <1>4, <1>5, <1>6

LEMMA WantedByOneMore ==
  ASSUME NEW cells, NEW e
  PROVE  WantedBy(cells \cup {e}) = WantedBy(cells) \cup CellMarks(e)
BY DEF WantedBy

LEMMA WantedByNone == WantedBy({}) = {}
BY DEF WantedBy

LEMMA QueuedIs == Queued = MarksIn(pending) /\ Queued' = MarksIn(pending')
BY DEF Queued, MarksIn

LEMMA ExpectedIs == Expected = WantedBy(line) /\ Expected' = WantedBy(line')
BY DEF Expected, WantedBy, CellMarks

LEMMA MarkShape ==
  ASSUME NEW dots, NEW at, NEW m
  PROVE  m \in MarksOf(dots, at) <=> m = <<m[1], m[2]>> /\ m[1] \in dots /\ m[2] = at
BY DEF MarksOf

LEMMA RowsApart ==
  ASSUME NEW c \in SUBSET Dots
  PROVE  /\ RowA(c) \subseteq RowADots /\ RowB(c) \subseteq RowBDots
         /\ RowA(c) \cap RowBDots = {} /\ RowB(c) \cap RowADots = {}
BY DEF RowA, RowB, RowADots, RowBDots

LEMMA LocalsFields ==
  ASSUME NEW c, NEW row, NEW to, NEW t
  PROVE  /\ Locals(c, row, to, t).cell = c /\ Locals(c, row, to, t).row = row
         /\ Locals(c, row, to, t).target = to /\ Locals(c, row, to, t).then = t
         /\ Travelling(to, t).target = to /\ Travelling(to, t).then = t
BY DEF Locals, Travelling

\* The part of the invariant that concerns the line, while no fault stands.
LineOK == /\ QueueInv /\ ColumnInv
          /\ marks \cup Owed = Expected /\ marks \cap Owed = {}
          /\ LineComplete

LEMMA LineParts ==
  /\ LineInv /\ LineFaithful /\ LineComplete <=> (state # "fault" => LineOK)
BY DEF LineInv, LineFaithful, LineComplete, LineOK

-----------------------------------------------------------------------------
(* submit_cell: the cell joins the line, its dots join the debt.           *)

LEMMA CellLine ==
  ASSUME IInv, NEW c \in Cells, AnyCell(c), ~Refuse
  PROVE  LineOK'
<1>1. /\ state # "fault" /\ LineOK /\ TypeOK /\ pc = "ready"
  BY LineParts DEF IInv, AnyCell, Accepting
<1>2. c \in SUBSET Dots
  BY CellsAssumption
<1> DEFINE e == [at |-> x, cell |-> c]
<1>3. /\ x' = x /\ pending' = pending /\ marks' = marks /\ line' = line \cup {e}
      /\ regs' = Locals(c, NoRow, 0, "cell") /\ regs'.cell = c
      /\ pc' = IF RowA(c) = {} THEN "queue" ELSE "rowA"
  BY LocalsFields DEF AnyCell, SubmitCell, pos
<1>4. x \in Int /\ RowBOffset \in Nat /\ e.at = x /\ e.cell = c
  BY <1>1, GeometryAssumption DEF TypeOK
<1>5. QueueInv'
  BY <1>1, <1>3 DEF LineOK, QueueInv, PendingAhead
<1>6. ColumnInv'
  <2>1. /\ \A f \in line : f.at < x
        /\ \A i \in 1..Len(pending) : pending[i].due < x + RowBOffset
    BY <1>1 DEF LineOK, ColumnInv
  <2>2. pc' \in Submits /\ pc' \notin {"ready", "home", "eject", "drain"} /\ pc' \notin Travels
    BY <1>3 DEF Submits, Travels
  <2>3. pc' \notin {"toDue", "atDue"}
    BY <1>3
  <2>4. \A f \in line' : f.at <= x'
    <3> SUFFICES ASSUME NEW f \in line' PROVE f.at <= x
      BY <1>3
    <3>1. CASE f = e BY <3>1, <1>4
    <3>2. CASE f \in line
      <4>1. f.at \in Int BY <1>1, <3>2 DEF TypeOK, Accepted
      <4> QED BY <4>1, <3>2, <2>1, <1>4
    <3> QED BY <3>1, <3>2, <1>3
  <2> QED BY <2>1, <2>2, <2>3, <2>4, <1>3 DEF ColumnInv
<1>7. Expected' = Expected \cup MarksOf(RowA(c), x) \cup MarksOf(RowB(c), x + RowBOffset)
  <2>1. WantedBy(line') = WantedBy(line) \cup CellMarks(e)
    BY <1>3, WantedByOneMore
  <2>2. CellMarks(e) = MarksOf(RowA(c), x) \cup MarksOf(RowB(c), x + RowBOffset)
    BY <1>4 DEF CellMarks
  <2> QED BY <2>1, <2>2, ExpectedIs
<1>8. Owed = Queued
  BY <1>1 DEF Owed, InHand, Unstruck, Unqueued
<1>9. Owed' = Queued \cup MarksOf(RowA(c), x) \cup MarksOf(RowB(c), x + RowBOffset)
  <2>1. Queued' = Queued BY <1>3, QueuedIs
  <2>2. InHand' = {} BY <1>3 DEF InHand
  <2>3. Unqueued' = MarksOf(RowB(c), x + RowBOffset)
    BY <1>3 DEF Unqueued
  <2>4. Unstruck' = MarksOf(RowA(c), x)
    <3>1. RowA(c) = {} => MarksOf(RowA(c), x) = {} BY DEF MarksOf
    <3> QED BY <1>3, <3>1 DEF Unstruck
  <2> QED BY <2>1, <2>2, <2>3, <2>4 DEF Owed
<1>10. ASSUME NEW m, m \in marks,
              m \in MarksOf(RowA(c), x) \cup MarksOf(RowB(c), x + RowBOffset)
       PROVE  FALSE
  <2>1. m \in WantedBy(line)
    BY <1>1, <1>10, ExpectedIs DEF LineOK
  <2>2. PICK f \in line : m \in CellMarks(f)
    BY <2>1 DEF WantedBy
  <2>3. f.at \in Int /\ f.cell \in SUBSET Dots /\ f.at < x
    BY <1>1, <2>2 DEF TypeOK, Accepted, LineOK, ColumnInv
  <2>4. \/ m[1] \in RowA(f.cell) /\ m[2] = f.at
        \/ m[1] \in RowB(f.cell) /\ m[2] = f.at + RowBOffset
    BY <2>2, MarkShape DEF CellMarks
  <2>5. \/ m[1] \in RowA(c) /\ m[2] = x
        \/ m[1] \in RowB(c) /\ m[2] = x + RowBOffset
    BY <1>10, MarkShape
  <2>6. ~(m[1] \in RowADots /\ m[1] \in RowBDots)
    BY DEF RowADots, RowBDots
  <2> QED BY <2>3, <2>4, <2>5, <2>6, <1>2, <1>4, RowsApart
<1>11. marks' \cup Owed' = Expected' /\ marks' \cap Owed' = {}
  BY <1>1, <1>3, <1>7, <1>8, <1>9, <1>10 DEF LineOK
<1>12. LineComplete'
  BY <1>3 DEF LineComplete
<1> QED BY <1>5, <1>6, <1>11, <1>12 DEF LineOK

LEMMA StrikeRowALine ==
  ASSUME IInv, StrikeRowA
  PROVE  LineOK'
<1>1. state # "fault" /\ LineOK /\ TypeOK /\ pc = "rowA" /\ pc' = "strikeA"
  BY LineParts DEF IInv, StrikeRowA, FaultPlaces, Callbacks
<1> DEFINE cell == regs.cell
<1>2. /\ x' = x /\ pending' = pending /\ line' = line /\ regs' = regs
      /\ marks' = marks \cup MarksOf(RowA(cell), x)
  BY DEF StrikeRowA, Punch, pos
<1>3. cell \in SUBSET Dots /\ x \in Int /\ RowBOffset \in Nat /\ RowBOffset > 0
  BY <1>1, RegsFields, GeometryAssumption DEF TypeOK
<1>4. QueueInv'
  BY <1>1, <1>2 DEF LineOK, QueueInv, PendingAhead
<1>5. ColumnInv'
  BY <1>1, <1>2 DEF LineOK, ColumnInv, Submits, Travels
<1>6. Expected' = Expected
  BY <1>2, ExpectedIs
<1>7. Owed = Queued \cup MarksOf(RowA(cell), x) \cup MarksOf(RowB(cell), x + RowBOffset)
  BY <1>1 DEF Owed, InHand, Unstruck, Unqueued
<1>8. Owed' = Queued \cup MarksOf(RowB(cell), x + RowBOffset)
  <2>1. Queued' = Queued BY <1>2, QueuedIs
  <2> QED BY <1>1, <1>2, <2>1 DEF Owed, InHand, Unstruck, Unqueued
<1>9. ASSUME NEW m, m \in MarksOf(RowA(cell), x), m \in Owed'
      PROVE  FALSE
  <2>1. m[1] \in RowADots
    BY <1>9, <1>3, MarkShape, RowsApart
  <2>2. m[1] \notin RowBDots
    BY <2>1 DEF RowADots, RowBDots
  <2>3. m \notin MarksOf(RowB(cell), x + RowBOffset)
    BY <2>2, <1>3, MarkShape, RowsApart
  <2>4. m \in MarksIn(pending)
    BY <2>3, <1>8, <1>9, QueuedIs
  <2>5. PICK i \in 1..Len(pending) : m \in MarksOf(pending[i].dots, pending[i].due)
    BY <2>4, <1>1, MarksInMember DEF TypeOK
  <2>6. m[1] \in RowBDots
    BY <2>5, <1>1, MarkShape DEF LineOK, QueueInv
  <2> QED BY <2>2, <2>6
<1>10. marks' \cup Owed' = Expected' /\ marks' \cap Owed' = {}
  BY <1>1, <1>2, <1>6, <1>7, <1>8, <1>9 DEF LineOK
<1>11. LineComplete'
  BY <1>1 DEF LineComplete
<1> QED BY <1>4, <1>5, <1>10, <1>11 DEF LineOK

LEMMA QueueRowBLine ==
  ASSUME IInv, QueueRowB, state' # "fault"
  PROVE  LineOK'
<1> DEFINE dots  == RowB(regs.cell)
           entry == [due |-> RowBColumn, dots |-> dots]
<1>1. /\ state # "fault" /\ pc \in {"strikeA", "queue"}
      /\ x' = x /\ line' = line /\ marks' = marks
      /\ pending' = IF dots = {} THEN pending ELSE Append(pending, entry)
      /\ pc' = "travel" /\ regs' = Travelling(x + CellPitch, "cell")
  BY DEF QueueRowB, ctl, hist, EnterFault
<1>2. LineOK /\ TypeOK
  BY <1>1, LineParts DEF IInv
<1>3. /\ x \in Int /\ RowBOffset \in Nat /\ RowBOffset > 0
      /\ CellPitch \in Nat /\ CellPitch > 0 /\ pending \in Seq(RowBEntry)
  BY <1>2, GeometryAssumption DEF TypeOK
<1>4. regs'.target = x + CellPitch /\ regs'.then = "cell"
  BY <1>1, LocalsFields
<1>5. dots \in SUBSET Dots /\ dots \subseteq RowBDots
  BY <1>2, RegsFields, RowsApart DEF TypeOK, RowB
<1>6. /\ entry \in RowBEntry /\ entry.due = x + RowBOffset /\ entry.dots = dots
  BY <1>3, <1>5 DEF RowBEntry, RowBColumn
<1>7. /\ \A i \in 1..Len(pending) :
            /\ pending[i].due \in Int /\ x < pending[i].due
            /\ pending[i].due < x + RowBOffset
      /\ \A e \in line : e.at \in Int /\ e.at <= x
  <2>1. \A i \in 1..Len(pending) : pending[i] \in RowBEntry
    BY <1>3
  <2>2. pc \in Submits BY <1>1 DEF Submits
  <2> QED BY <2>1, <2>2, <1>2
          DEF LineOK, QueueInv, PendingAhead, ColumnInv, RowBEntry, TypeOK, Accepted
<1>8. CASE dots = {}
  <2>1. pending' = pending BY <1>1, <1>8
  <2>2. QueueInv'
    BY <2>1, <1>1, <1>2 DEF LineOK, QueueInv, PendingAhead
  <2>3. ColumnInv'
    BY <2>1, <1>1, <1>3, <1>4, <1>7 DEF ColumnInv, Submits, Travels
  <2>4. Owed' = Owed
    <3>1. MarksOf(dots, x + RowBOffset) = {} BY <1>8 DEF MarksOf
    <3>2. Queued' = Queued BY <2>1, QueuedIs
    <3> QED BY <1>1, <3>1, <3>2 DEF Owed, InHand, Unstruck, Unqueued
  <2>5. Expected' = Expected BY <1>1, ExpectedIs
  <2>6. LineComplete' BY <1>1 DEF LineComplete
  <2> QED BY <2>2, <2>3, <2>4, <2>5, <2>6, <1>1, <1>2 DEF LineOK
<1>9. CASE dots # {}
  <2>1. pending' = Append(pending, entry) BY <1>1, <1>9
  <2>2. /\ Len(pending') = Len(pending) + 1 /\ Len(pending) \in Nat
        /\ \A i \in 1..Len(pending) : pending'[i] = pending[i]
        /\ pending'[Len(pending) + 1] = entry
    BY <2>1, <1>3, <1>6
  <2>3. \A i \in 1..Len(pending') : i \in 1..Len(pending) \/ i = Len(pending) + 1
    BY <2>2
  <2>4. QueueInv'
    <3>1. ASSUME NEW i \in 1..Len(pending')
          PROVE  x' < pending'[i].due /\ pending'[i].due <= x' + RowBOffset
                 /\ pending'[i].dots \subseteq RowBDots
      <4>1. CASE i \in 1..Len(pending)
        BY <4>1, <2>2, <1>1, <1>2, <1>7, <1>3 DEF LineOK, QueueInv
      <4>2. CASE i = Len(pending) + 1
        BY <4>2, <2>2, <1>1, <1>3, <1>5, <1>6
      <4> QED BY <4>1, <4>2, <2>3
    <3>2. ASSUME NEW i \in 1..Len(pending'), NEW j \in 1..Len(pending'), i < j
          PROVE  pending'[i].due < pending'[j].due
      <4>1. i \in 1..Len(pending)
        BY <3>2, <2>2, <2>3
      <4>2. CASE j \in 1..Len(pending)
        BY <3>2, <4>1, <4>2, <2>2, <1>2 DEF LineOK, QueueInv, PendingAhead
      <4>3. CASE j = Len(pending) + 1
        BY <4>1, <4>3, <2>2, <1>6, <1>7
      <4> QED BY <4>2, <4>3, <2>3
    <3> QED BY <3>1, <3>2 DEF QueueInv, PendingAhead
  <2>5. ColumnInv'
    <3>1. ASSUME NEW i \in 1..Len(pending')
          PROVE  pending'[i].due < x + CellPitch + RowBOffset
      <4>1. CASE i \in 1..Len(pending)
        BY <4>1, <2>2, <1>3, <1>7
      <4>2. CASE i = Len(pending) + 1
        BY <4>2, <2>2, <1>3, <1>6
      <4> QED BY <4>1, <4>2, <2>3
    <3> QED BY <3>1, <1>1, <1>3, <1>4, <1>7, SMTT(30) DEF ColumnInv, Submits, Travels
  <2>6. Owed' = Owed
    <3>1. Queued' = Queued \cup MarksOf(dots, x + RowBOffset)
      BY <2>1, <1>3, <1>6, QueuedIs, MarksInAppend
    <3> QED BY <1>1, <3>1 DEF Owed, InHand, Unstruck, Unqueued
  <2>7. Expected' = Expected BY <1>1, ExpectedIs
  <2>8. LineComplete' BY <1>1 DEF LineComplete
  <2> QED BY <2>4, <2>5, <2>6, <2>7, <2>8, <1>1, <1>2 DEF LineOK
<1> QED BY <1>8, <1>9

-----------------------------------------------------------------------------
(* travel_to: a strike on the way is taken, reached and made.              *)

LEMMA TravelTyped ==
  ASSUME TypeOK
  PROVE  /\ x \in Int /\ regs.target \in Int /\ regs.row.due \in Int
         /\ RowBOffset \in Nat /\ RowBOffset > 0
         /\ pending \in Seq(RowBEntry) /\ Len(pending) \in Nat
         /\ \A i \in 1..Len(pending) : pending[i].due \in Int
         /\ \A e \in line : e.at \in Int
<1>1. pending \in Seq(RowBEntry) /\ Len(pending) \in Nat
  BY DEF TypeOK
<1>2. ASSUME NEW i \in 1..Len(pending) PROVE pending[i].due \in Int
  <2>1. pending[i] \in RowBEntry BY <1>1
  <2> QED BY <2>1 DEF RowBEntry
<1> QED BY <1>1, <1>2, RegsFields, GeometryAssumption DEF TypeOK, Accepted

LEMMA TakeDueLine ==
  ASSUME IInv, TakeDue
  PROVE  LineOK'
<1>1. state # "fault" /\ LineOK /\ TypeOK /\ pc = "travel"
  BY LineParts DEF IInv, TakeDue, FaultPlaces, Callbacks
<1> DEFINE h == Head(pending)
<1>2. /\ x' = x /\ line' = line /\ marks' = marks /\ pending' = Tail(pending)
      /\ pc' \in {"toDue", "atDue"} /\ h.due <= regs.target
      /\ regs' = Locals({}, h, regs.target, regs.then)
  BY DEF TakeDue, RowBDue, pos, hist
<1>3. /\ regs'.row = h /\ regs'.target = regs.target /\ regs'.then = regs.then
  BY <1>2, LocalsFields
<1>4. /\ pending # <<>> /\ pending \in Seq(RowBEntry) /\ h = pending[1]
      /\ Len(pending') = Len(pending) - 1 /\ Len(pending) >= 1
      /\ \A i \in 1..Len(pending') : pending'[i] = pending[i + 1]
                                    /\ i + 1 \in 1..Len(pending)
  BY <1>1, <1>2 DEF TakeDue, RowBDue, TypeOK
<1>5. 1 \in 1..Len(pending)
  BY <1>4
<1>6. QueueInv'
  <2>1. \A i \in 1..Len(pending') : /\ x < pending'[i].due
                                   /\ pending'[i].due <= x + RowBOffset
                                   /\ pending'[i].dots \subseteq RowBDots
    BY <1>1, <1>4 DEF LineOK, QueueInv, PendingAhead
  <2>2. ASSUME NEW i \in 1..Len(pending'), NEW j \in 1..Len(pending'), i < j
        PROVE  pending'[i].due < pending'[j].due
    <3>1. i + 1 \in 1..Len(pending) /\ j + 1 \in 1..Len(pending) /\ i + 1 < j + 1
      BY <2>2, <1>4
    <3> QED BY <3>1, <1>1, <1>4 DEF LineOK, QueueInv, PendingAhead
  <2> QED BY <2>1, <2>2, <1>2 DEF QueueInv, PendingAhead
<1>7. ColumnInv'
  <2>1. ASSUME NEW i \in 1..Len(pending')
        PROVE  /\ pending'[i].due < regs.target + RowBOffset
               /\ regs.then = "newline" => pending'[i].due <= regs.target
               /\ pending'[i].due > h.due
    <3>1. i + 1 \in 1..Len(pending) /\ pending'[i] = pending[i + 1] /\ 1 < i + 1
      BY <1>4
    <3>2. pending[1].due < pending[i + 1].due
      BY <3>1, <1>1, <1>5 DEF LineOK, QueueInv, PendingAhead
    <3>3. pending[i + 1].due \in Int /\ pending[1].due \in Int
      BY <3>1, <1>1, <1>5, TravelTyped
    <3>4. /\ pending[i + 1].due < regs.target + RowBOffset
          /\ regs.then = "newline" => pending[i + 1].due <= regs.target
      BY <3>1, <1>1 DEF LineOK, ColumnInv, Travels
    <3> QED BY <3>1, <3>2, <3>3, <3>4, <1>4
  <2>2. x < h.due /\ h.dots \subseteq RowBDots
    BY <1>1, <1>4, <1>5 DEF LineOK, QueueInv, PendingAhead
  <2>3. x <= regs.target /\ \A e \in line : e.at < regs.target
    BY <1>1 DEF LineOK, ColumnInv, Travels
  <2> QED BY <2>1, <2>2, <2>3, <1>2, <1>3 DEF ColumnInv, Submits, Travels
<1>8. Owed' = Owed
  <2>1. Queued = MarksOf(h.dots, h.due) \cup Queued'
    BY <1>2, <1>4, QueuedIs, MarksInTail
  <2>2. InHand = {} /\ InHand' = MarksOf(h.dots, h.due)
    BY <1>1, <1>2, <1>3 DEF InHand
  <2> QED BY <2>1, <2>2, <1>1, <1>2 DEF Owed, Unstruck, Unqueued
<1>9. Expected' = Expected
  BY <1>2, ExpectedIs
<1>10. LineComplete'
  BY <1>2 DEF LineComplete
<1> QED BY <1>1, <1>2, <1>6, <1>7, <1>8, <1>9, <1>10 DEF LineOK

LEMMA StrikeRowBLine ==
  ASSUME IInv, StrikeRowB, state' # "fault"
  PROVE  LineOK'
<1>1. /\ state # "fault" /\ pc \in {"toDue", "atDue"} /\ pending' = pending
      /\ line' = line /\ x' = IF Segmented THEN regs.row.due ELSE x
  BY DEF StrikeRowB, ctl
<1>2. LineOK /\ TypeOK /\ motors
  BY <1>1, LineParts DEF IInv, FaultIsDead
<1>3. /\ marks' = marks \cup MarksOf(regs.row.dots, regs.row.due)
      /\ pc' = "strikeB" /\ regs' = regs
  BY <1>1, <1>2 DEF StrikeRowB, Punch
<1>4. /\ x < regs.row.due /\ regs.row.due <= regs.target
      /\ regs.row.dots \subseteq RowBDots
      /\ \A e \in line : e.at < regs.target
      /\ \A i \in 1..Len(pending) :
           /\ pending[i].due > regs.row.due
           /\ pending[i].due < regs.target + RowBOffset
           /\ regs.then = "newline" => pending[i].due <= regs.target
  BY <1>1, <1>2 DEF LineOK, ColumnInv, Travels
<1>5. x' \in Int /\ x <= x' /\ x' <= regs.row.due
  BY <1>1, <1>2, <1>4, TravelTyped
<1>6. QueueInv'
  <2>1. ASSUME NEW i \in 1..Len(pending)
        PROVE  x' < pending[i].due /\ pending[i].due <= x' + RowBOffset
    <3>1. pending[i].due <= x + RowBOffset /\ pending[i].due \in Int
      BY <1>2, TravelTyped DEF LineOK, QueueInv, PendingAhead
    <3> QED BY <3>1, <1>2, <1>4, <1>5, TravelTyped
  <2> QED BY <2>1, <1>1, <1>2 DEF LineOK, QueueInv, PendingAhead
<1>7. ColumnInv'
  <2>1. x' <= regs.target
    BY <1>2, <1>4, <1>5, TravelTyped
  <2> QED BY <2>1, <1>1, <1>3, <1>4 DEF ColumnInv, Submits, Travels
<1>8. Expected' = Expected
  BY <1>1, ExpectedIs
<1>9. Owed = Queued \cup MarksOf(regs.row.dots, regs.row.due) /\ Owed' = Queued
  <2>1. Queued' = Queued BY <1>1, QueuedIs
  <2> QED BY <2>1, <1>1, <1>3 DEF Owed, InHand, Unstruck, Unqueued
<1>10. ASSUME NEW m, m \in MarksOf(regs.row.dots, regs.row.due), m \in Queued
       PROVE  FALSE
  <2>1. PICK i \in 1..Len(pending) : m \in MarksOf(pending[i].dots, pending[i].due)
    BY <1>10, <1>2, QueuedIs, MarksInMember DEF TypeOK
  <2>2. m[2] = pending[i].due /\ m[2] = regs.row.due
    BY <2>1, <1>10, MarkShape
  <2>3. pending[i].due > regs.row.due BY <1>4
  <2>4. pending[i].due \in Int /\ regs.row.due \in Int BY <1>2, TravelTyped
  <2> QED BY <2>2, <2>3, <2>4
<1>11. marks' \cup Owed' = Expected' /\ marks' \cap Owed' = {}
  BY <1>2, <1>3, <1>8, <1>9, <1>10 DEF LineOK
<1>12. LineComplete'
  BY <1>3 DEF LineComplete
<1> QED BY <1>6, <1>7, <1>11, <1>12 DEF LineOK

LEMMA AfterRowBLine ==
  ASSUME IInv, AfterRowB, state' # "fault"
  PROVE  LineOK'
<1>1. /\ state # "fault" /\ pc = "strikeB" /\ pc' = "travel"
      /\ pending' = pending /\ line' = line /\ marks' = marks /\ x' = x /\ regs' = regs
  BY DEF AfterRowB, ctl, pos, hist
<1>2. LineOK
  BY <1>1, LineParts DEF IInv
<1>3. Owed' = Owed
  BY <1>1, QueuedIs DEF Owed, InHand, Unstruck, Unqueued
<1> QED BY <1>1, <1>2, <1>3, ExpectedIs
        DEF LineOK, QueueInv, PendingAhead, ColumnInv, LineComplete, Submits, Travels

\* The end of a travel, given that what is still pending lies beyond it.
LEMMA TravelledLine ==
  ASSUME IInv, state # "fault", pc \in {"travel", "toTarget"}, Travelled,
         pending' = pending, line' = line, marks' = marks, state' = state,
         \A i \in 1..Len(pending) : pending[i].due > regs.target
  PROVE  LineOK'
<1>1. LineOK /\ TypeOK
  BY LineParts DEF IInv
<1>2. pc \in Travels BY DEF Travels
<1>3. /\ x <= regs.target
      /\ \A e \in line : e.at < regs.target
      /\ \A i \in 1..Len(pending) :
           /\ pending[i].due < regs.target + RowBOffset
           /\ regs.then = "newline" => pending[i].due <= regs.target
  BY <1>1, <1>2 DEF LineOK, ColumnInv
<1>4. x' = regs.target /\ pc' \in {"ready", "home", "drain"}
      /\ (pc' = "home" => regs.then = "newline")
  BY RegsFields DEF Travelled, Return
<1>5. QueueInv'
  <2>1. ASSUME NEW i \in 1..Len(pending)
        PROVE  x' < pending[i].due /\ pending[i].due <= x' + RowBOffset
    <3>1. pending[i].due \in Int /\ pending[i].due < regs.target + RowBOffset
      BY <1>1, <1>3, TravelTyped
    <3> QED BY <3>1, <1>1, <1>4, TravelTyped
  <2> QED BY <2>1, <1>1 DEF LineOK, QueueInv, PendingAhead
<1>6. ColumnInv'
  BY <1>3, <1>4 DEF ColumnInv, Submits, Travels
<1>7. Owed = Queued /\ Owed' = Queued
  <2>1. Queued' = Queued BY QueuedIs
  <2> QED BY <2>1, <1>4 DEF Owed, InHand, Unstruck, Unqueued
<1>8. Expected' = Expected
  BY ExpectedIs
<1>9. LineComplete'
  <2> SUFFICES ASSUME pc' = "home" PROVE marks' = Expected' /\ pending' = <<>>
    BY <1>4 DEF LineComplete
  <2>1. pending = <<>>
    <3> SUFFICES ASSUME pending # <<>> PROVE FALSE
      OBVIOUS
    <3>1. 1 \in 1..Len(pending)
      BY <1>1 DEF TypeOK
    <3>2. pending[1].due <= regs.target /\ pending[1].due > regs.target
      BY <3>1, <1>3, <1>4
    <3>3. pending[1].due \in Int /\ regs.target \in Int
      BY <3>1, <1>1, TravelTyped
    <3> QED BY <3>2, <3>3
  <2>2. Owed = {}
    BY <2>1, <1>7, QueuedIs, MarksInEmpty
  <2> QED BY <2>1, <2>2, <1>1, <1>8 DEF LineOK
<1> QED BY <1>1, <1>5, <1>6, <1>7, <1>8, <1>9 DEF LineOK

LEMMA CoverRestLine ==
  ASSUME IInv, CoverRest
  PROVE  LineOK'
<1>1. state # "fault" /\ LineOK /\ TypeOK /\ pc = "travel" /\ state' = state
  BY LineParts DEF IInv, CoverRest, FaultPlaces, Callbacks, ctl
<1>2. pending' = pending /\ line' = line /\ marks' = marks
  BY DEF CoverRest, hist
<1>3. ASSUME NEW i \in 1..Len(pending) PROVE pending[i].due > regs.target
  <2>1. /\ pending # <<>> /\ 1 \in 1..Len(pending) /\ Head(pending) = pending[1]
    BY <1>1 DEF TypeOK
  <2>2. pending[1].due \in Int /\ pending[i].due \in Int /\ regs.target \in Int
    BY <2>1, <1>1, TravelTyped
  <2>3. pending[1].due > regs.target
    BY <2>1, <2>2 DEF CoverRest, RowBDue
  <2>4. i = 1 \/ pending[1].due < pending[i].due
    BY <2>1, <1>1 DEF LineOK, QueueInv, PendingAhead
  <2> QED BY <2>2, <2>3, <2>4
<1>4. CASE Travelled
  BY <1>1, <1>2, <1>3, <1>4, TravelledLine
<1>5. CASE ~Travelled
  <2>1. pc' = "toTarget" /\ x' = x /\ regs' = regs
    BY <1>5 DEF CoverRest
  <2>2. Owed' = Owed
    BY <2>1, <1>1, <1>2, QueuedIs DEF Owed, InHand, Unstruck, Unqueued
  <2> QED BY <2>1, <2>2, <1>1, <1>2, <1>3, ExpectedIs
          DEF LineOK, QueueInv, PendingAhead, ColumnInv, LineComplete, Submits, Travels
<1> QED BY <1>4, <1>5

LEMMA ReachTargetLine ==
  ASSUME IInv, ReachTarget, state' # "fault"
  PROVE  LineOK'
<1>1. state # "fault" /\ state' = state /\ pc = "toTarget" /\ Travelled
      /\ pending' = pending /\ line' = line /\ marks' = marks
  BY DEF ReachTarget, ctl, hist
<1>2. \A i \in 1..Len(pending) : pending[i].due > regs.target
  BY <1>1, LineParts DEF IInv, LineOK, ColumnInv, Travels
<1> QED BY <1>1, <1>2, TravelledLine

-----------------------------------------------------------------------------
(* newline: the flush, the return and the paper feed.                      *)

\* A newline begins its flush with the carriage where the line left it.
LEMMA StartNewlineLine ==
  ASSUME IInv, state # "fault", pc \in {"ready", "eject"}, StartNewline,
         x' = x, pending' = pending, line' = line, marks' = marks
  PROVE  LineOK'
<1>1. LineOK /\ TypeOK
  BY LineParts DEF IInv
<1>2. pc' = "travel" /\ regs'.target = x + RowBOffset /\ regs'.then = "newline"
  BY LocalsFields DEF StartNewline
<1>3. /\ x \in Int /\ RowBOffset \in Nat /\ RowBOffset > 0
      /\ \A i \in 1..Len(pending) : pending[i].due \in Int /\ pending[i].due < x + RowBOffset
      /\ \A e \in line : e.at \in Int /\ e.at < x
  BY <1>1, TravelTyped DEF LineOK, ColumnInv
<1>4. QueueInv'
  BY <1>1 DEF LineOK, QueueInv, PendingAhead
<1>5. ColumnInv'
  BY <1>2, <1>3 DEF ColumnInv, Submits, Travels
<1>6. Owed' = Owed
  BY <1>2, QueuedIs DEF Owed, InHand, Unstruck, Unqueued
<1> QED BY <1>1, <1>2, <1>4, <1>5, <1>6, ExpectedIs DEF LineOK, LineComplete

LEMMA NewlineLine ==
  ASSUME IInv, GoHome \/ AtHome \/ FeedLine \/ LineDone, state' # "fault"
  PROVE  LineOK'
<1>1. state # "fault" /\ pc \in {"home", "homing", "feed", "feeding"}
  BY DEF GoHome, AtHome, FeedLine, LineDone, ctl
<1>2. LineOK /\ TypeOK
  BY <1>1, LineParts DEF IInv
<1>3. pending = <<>> /\ marks = Expected
  BY <1>1, <1>2 DEF LineOK, LineComplete
<1>4. pending' = <<>>
  BY <1>3 DEF GoHome, AtHome, FeedLine, LineDone
<1>5. QueueInv'
  BY <1>4 DEF QueueInv, PendingAhead
<1>6. Queued' = {}
  BY <1>4, QueuedIs, MarksInEmpty
<1>7. CASE GoHome \/ AtHome \/ FeedLine
  <2>1. pc' \in {"homing", "feed", "feeding"} /\ line' = line /\ marks' = marks
    BY <1>7, <1>1 DEF GoHome, AtHome, FeedLine, hist
  <2>2. ColumnInv'
    BY <2>1, <1>4 DEF ColumnInv, Submits, Travels
  <2>3. Owed' = {}
    BY <2>1, <1>6 DEF Owed, InHand, Unstruck, Unqueued
  <2> QED BY <2>1, <2>2, <2>3, <1>3, <1>4, <1>5, ExpectedIs DEF LineOK, LineComplete
<1>8. CASE LineDone
  <2>1. pc' \in {"ready", "eject"} /\ line' = {} /\ marks' = {}
    BY <1>8, <1>1 DEF LineDone, Return
  <2>2. ColumnInv'
    BY <2>1, <1>4 DEF ColumnInv, Submits, Travels
  <2>3. Owed' = {}
    BY <2>1, <1>6 DEF Owed, InHand, Unstruck, Unqueued
  <2>4. Expected' = {}
    BY <2>1, ExpectedIs, WantedByNone
  <2> QED BY <2>1, <2>2, <2>3, <2>4, <1>5 DEF LineOK, LineComplete
<1> QED BY <1>7, <1>8

-----------------------------------------------------------------------------
(* Between travels: nothing about the line changes.                        *)

LEMMA RestLine ==
  ASSUME IInv, state # "fault", pc \in {"ready", "eject", "drain"},
         pc' \in {"ready", "eject", "drain"},
         x' = x, pending' = pending, line' = line, marks' = marks
  PROVE  LineOK'
<1>1. LineOK
  BY LineParts DEF IInv
<1>2. Owed' = Owed
  BY QueuedIs DEF Owed, InHand, Unstruck, Unqueued
<1> QED BY <1>1, <1>2, ExpectedIs
        DEF LineOK, QueueInv, PendingAhead, ColumnInv, LineComplete, Submits, Travels

LEMMA DrainLine ==
  ASSUME IInv, Drain, state' # "fault"
  PROVE  LineOK'
<1>1. state # "fault" /\ pc = "drain" /\ pending' = pending /\ x' = x
      /\ line' = line /\ marks' = marks
  BY DEF Drain, ctl, pos, hist
<1>2. LineOK /\ TypeOK
  BY <1>1, LineParts DEF IInv
<1>3. CASE Return
  BY <1>1, <1>3, RestLine DEF Return
<1>4. CASE ~Return
  <2>1. /\ pending # <<>> /\ pc' = "travel"
        /\ regs'.target = Head(pending).due /\ regs'.then = "drain"
    BY <1>4, LocalsFields DEF Drain
  <2>2. 1 \in 1..Len(pending) /\ Head(pending) = pending[1]
    BY <2>1, <1>2 DEF TypeOK
  <2>3. x < pending[1].due /\ pending[1].due \in Int
    BY <2>2, <1>2, TravelTyped DEF LineOK, QueueInv, PendingAhead
  <2>4. ASSUME NEW i \in 1..Len(pending)
        PROVE  pending[i].due < pending[1].due + RowBOffset
    <3>1. pending[i].due < x + RowBOffset /\ pending[i].due \in Int
      BY <1>1, <1>2, TravelTyped DEF LineOK, ColumnInv
    <3> QED BY <3>1, <2>3, <1>2, TravelTyped
  <2>5. ASSUME NEW e \in line PROVE e.at < pending[1].due
    <3>1. e.at < x /\ e.at \in Int
      BY <1>1, <1>2, TravelTyped DEF LineOK, ColumnInv
    <3> QED BY <3>1, <2>3, <1>2, TravelTyped
  <2>6. ColumnInv'
    <3>1. x <= pending[1].due BY <2>3, <1>2, TravelTyped
    <3> QED BY <3>1, <2>1, <2>2, <2>4, <2>5, <1>1 DEF ColumnInv, Submits, Travels
  <2>7. Owed' = Owed
    BY <2>1, <1>1, QueuedIs DEF Owed, InHand, Unstruck, Unqueued
  <2> QED BY <2>1, <2>6, <2>7, <1>1, <1>2, ExpectedIs
          DEF LineOK, QueueInv, PendingAhead, LineComplete
<1> QED BY <1>3, <1>4

\* A new line owes nothing.
LEMMA EmptyLine ==
  ASSUME pc' = "ready", pending' = <<>>, line' = {}, marks' = {}
  PROVE  LineOK'
<1>1. Queued' = {} /\ Expected' = {}
  BY QueuedIs, ExpectedIs, MarksInEmpty, WantedByNone
<1>2. Owed' = {}
  BY <1>1 DEF Owed, InHand, Unstruck, Unqueued
<1> QED BY <1>1, <1>2
        DEF LineOK, QueueInv, PendingAhead, ColumnInv, LineComplete, Submits, Travels

LEMMA FaultNotOK == Refuse => state' = "fault"
BY DEF Refuse, EnterFault

LEMMA LineStep ==
  ASSUME IInv, [Move]_vars, state' # "fault"
  PROVE  LineOK'
<1>1. ASSUME NEW c \in Cells, AnyCell(c) PROVE LineOK'
  BY <1>1, CellLine, FaultNotOK
<1>2. CASE AnyNewline
  BY <1>2, StartNewlineLine, FaultNotOK DEF AnyNewline, Accepting, SubmitNewline, pos, hist
<1>3. CASE AnyFormFeed
  <2>1. state # "fault" /\ pc = "ready" /\ x' = x /\ pending' = pending
        /\ line' = line /\ marks' = marks
    BY <1>3, FaultNotOK DEF AnyFormFeed, Accepting, SubmitFormFeed, pos, hist
  <2>2. StartNewline \/ pc' = "eject"
    BY <1>3, FaultNotOK DEF AnyFormFeed, SubmitFormFeed
  <2> QED BY <2>1, <2>2, StartNewlineLine, RestLine
<1>4. CASE AnyFinish
  BY <1>4, RestLine DEF AnyFinish, ctl, pos, hist
<1>5. CASE EjectLine
  <2>1. pc = "eject" /\ state # "fault"
    BY <1>5 DEF EjectLine, IInv, FaultPlaces, Callbacks
  <2> QED BY <1>5, <2>1, StartNewlineLine, FaultNotOK DEF EjectLine, pos, hist
<1>6. CASE MeasurePage \/ PageDone
  <2>1. pc = "eject" /\ state # "fault"
    BY <1>6 DEF MeasurePage, PageDone, IInv, FaultPlaces, Callbacks
  <2> QED BY <1>6, <2>1, RestLine DEF MeasurePage, PageDone, Return, pos, hist
<1>7. CASE Step
  BY <1>5, <1>6, <1>7, StrikeRowALine, QueueRowBLine, TakeDueLine, StrikeRowBLine,
     AfterRowBLine, CoverRestLine, ReachTargetLine, NewlineLine, DrainLine DEF Step
<1>8. ASSUME NEW r \in Reasons, Fault(r) PROVE LineOK'
  BY <1>8 DEF Fault, EnterFault
<1>9. ASSUME NEW e \in BOOLEAN, LeaveFault(e) PROVE LineOK'
  BY <1>9, EmptyLine DEF LeaveFault, flow
<1>10. ASSUME NEW a \in BOOLEAN, SetArmed(a) PROVE LineOK'
  BY <1>10, RestLine DEF SetArmed, pos, flow, hist
<1>11. CASE UNCHANGED <<state, x, pending, pc, regs, line, marks>>
  <2>1. LineOK
    BY <1>11, LineParts DEF IInv
  <2>2. Owed' = Owed
    BY <1>11, QueuedIs DEF Owed, InHand, Unstruck, Unqueued
  <2> QED BY <1>11, <2>1, <2>2, ExpectedIs
          DEF LineOK, QueueInv, PendingAhead, ColumnInv, LineComplete
<1>12. ASSUME NEW p \in BOOLEAN, SetPaperPresent(p) PROVE LineOK'
  BY <1>11, <1>12 DEF SetPaperPresent, ctl, pos, flow, hist
<1>13. CASE UNCHANGED vars
  BY <1>11, <1>13 DEF vars
<1>14. CASE Opening
  BY <1>14, FaultNotOK, RestLine DEF Opening, pos, flow, hist
<1>15. CASE Overrun
  BY <1>15 DEF Overrun, Fault, EnterFault
<1> QED
  BY <1>1, <1>2, <1>3, <1>4, <1>7, <1>8, <1>9, <1>10, <1>12, <1>13, <1>14, <1>15
  DEF Move, Usual, AnyCommand, Caller

LEMMA LinePartsNext ==
  (state' # "fault" => LineOK') => LineInv' /\ LineFaithful' /\ LineComplete'
BY DEF LineInv, LineFaithful, LineComplete, LineOK

\* What is about to be struck is still owed, so it is not on the paper.
LEMMA OnceStep ==
  ASSUME IInv, [Move]_vars
  PROVE  StruckOnce'
<1>1. again = {}
  BY DEF IInv, StruckOnce
<1>2. ASSUME NEW dots, NEW at, MarksOf(dots, at) \subseteq Owed, Punch(dots, at), state # "fault"
      PROVE  StruckOnce'
  <2>1. marks \cap Owed = {}
    BY <1>2, LineParts DEF IInv, LineOK
  <2> QED BY <1>1, <1>2, <2>1 DEF Punch, StruckOnce
<1>3. CASE StrikeRowA
  <2>1. state # "fault" /\ pc = "rowA" /\ Punch(RowA(regs.cell), x)
    BY <1>3 DEF StrikeRowA, IInv, FaultPlaces, Callbacks
  <2>2. MarksOf(RowA(regs.cell), x) \subseteq Owed
    BY <2>1 DEF Owed, Unstruck
  <2> QED BY <1>2, <2>1, <2>2
<1>4. CASE StrikeRowB
  <2>1. /\ pc \in {"toDue", "atDue"}
        /\ again' = again \/ (state # "fault" /\ Punch(regs.row.dots, regs.row.due))
    BY <1>4 DEF StrikeRowB
  <2>2. MarksOf(regs.row.dots, regs.row.due) \subseteq Owed
    BY <2>1 DEF Owed, InHand
  <2> QED BY <1>1, <1>2, <2>1, <2>2 DEF StruckOnce
<1>5. CASE Step /\ ~StrikeRowA /\ ~StrikeRowB
  BY <1>1, <1>5
  DEF StruckOnce, Step, QueueRowB, TakeDue, AfterRowB, CoverRest, ReachTarget, GoHome, AtHome,
      FeedLine, LineDone, MeasurePage, EjectLine, Refuse, PageDone, Drain, hist
<1>6. CASE AnyCommand
  BY <1>1, <1>6
  DEF StruckOnce, AnyCommand, AnyCell, SubmitCell, AnyNewline, SubmitNewline, AnyFormFeed,
      SubmitFormFeed, AnyFinish, Refuse, Opening, hist
<1>7. CASE Caller \/ Overrun
  BY <1>1, <1>7
  DEF StruckOnce, Caller, Fault, LeaveFault, SetArmed, SetPaperPresent, Overrun, hist
<1>8. CASE UNCHANGED vars
  BY <1>1, <1>8 DEF StruckOnce, vars
<1> QED BY <1>3, <1>4, <1>5, <1>6, <1>7, <1>8 DEF Move, Usual

LEMMA InvInit == Init => IInv
<1> SUFFICES ASSUME Init PROVE IInv
  OBVIOUS
<1>1. Queued = {} /\ Expected = {}
  <2>1. pending = <<>> /\ line = {} BY DEF Init
  <2> QED BY <2>1, QueuedIs, ExpectedIs, MarksInEmpty, WantedByNone
<1>2. Owed = {}
  BY <1>1 DEF Init, Owed, InHand, Unstruck, Unqueued
<1>3. LineInv /\ LineFaithful /\ LineComplete
  BY <1>1, <1>2
  DEF Init, LineInv, LineFaithful, LineComplete, QueueInv, PendingAhead, ColumnInv,
      Submits, Travels
<1> QED BY <1>3, TypeInit, PageInit DEF Init, IInv, FaultIsDead, FaultPlaces, StruckOnce

LEMMA InvStep == IInv /\ [Move]_vars => IInv'
<1> SUFFICES ASSUME IInv, [Move]_vars PROVE IInv'
  OBVIOUS
<1>1. TypeOK' BY TypeStep DEF IInv
<1>2. FaultIsDead' /\ FaultPlaces'
  BY ControlStep DEF IInv, Control
<1>3. LineInv' /\ LineFaithful' /\ LineComplete'
  BY LineStep, LinePartsNext
<1>4. PageInv'
  BY PageStep DEF IInv, Control
<1>5. StruckOnce'
  BY OnceStep
<1> QED BY <1>1, <1>2, <1>3, <1>4, <1>5 DEF IInv

\* The inductive invariant, for every geometry and every queue capacity.
THEOREM Invariant == Spec => []IInv
<1>1. IInv /\ [Next]_vars => IInv'
  BY NextMoves, InvStep
<1> QED BY InvInit, <1>1, PTL DEF Spec

\* No dot is lost, moved or struck twice while no fault has come.
THEOREM DotsAreFaithful == Spec => []LineFaithful
BY Invariant, PTL DEF IInv

\* The strikes newline discards on the return of the carriage are none: the
\* paper moves on over complete lines only.
THEOREM LinesAreComplete == Spec => []LineComplete
BY Invariant, PTL DEF IInv

\* No pending strike is ever passed, even in a fault, which forgets them all.
THEOREM NoStrikePassed == Spec => []PendingAhead
<1>1. IInv => PendingAhead
  BY DEF IInv, LineInv, QueueInv, FaultIsDead, PendingAhead
<1> QED BY <1>1, Invariant, PTL

-----------------------------------------------------------------------------
(* The pipeline implements the line contract.                              *)

LEMMA WantedIsExpected == Contract!Wanted = Expected
BY DEF Contract!Wanted, Expected, CellMarks, MarksOf, RowA, RowB

LEMMA ContractStep ==
  ASSUME IInv, [Move]_vars
  PROVE  [Contract!Next]_(Contract!vars)
<1>o. again = {} /\ again' = {}
  BY OnceStep DEF IInv, StruckOnce
<1> USE <1>o DEF Contract!vars
<1>q. CASE UNCHANGED <<motors, state, line, marks>>
  BY <1>q
<1>c. ASSUME motors' = FALSE, state' = "fault", UNCHANGED hist PROVE Contract!Next
  BY <1>c DEF Contract!Next, Contract!Cut, hist
<1>p. ASSUME state # "fault", state' # "fault", UNCHANGED <<motors, line, marks>>
      PROVE  UNCHANGED Contract!vars
  BY <1>p
<1>r. CASE Refuse
  BY <1>r, <1>c DEF Refuse, EnterFault
<1>1. ASSUME NEW c \in Cells, AnyCell(c), ~Refuse PROVE Contract!Next
  <2> DEFINE e == [at |-> x, cell |-> c]
  <2>1. /\ state # "fault" /\ motors /\ pc = "ready" /\ state' = "printing"
        /\ line' = line \cup {e} /\ UNCHANGED <<motors, marks>>
    BY <1>1 DEF AnyCell, Accepting, SubmitCell
  <2>2. \A f \in line : f.at \in Int /\ f.at < x
    BY <2>1, LineParts, TravelTyped DEF IInv, LineOK, ColumnInv
  <2>3. x \in Int /\ e.at = x /\ e.cell = c
    BY DEF IInv, TypeOK
  <2>4. e \notin line
    BY <2>2, <2>3
  <2>5. e \in line' \ line
    BY <2>1, <2>4
  <2>6. Contract!Accept
    BY <2>1, <2>2, <2>3, <2>5 DEF Contract!Accept
  <2> QED BY <2>6 DEF Contract!Next
<1>2. CASE StrikeRowA \/ (StrikeRowB /\ state' # "fault")
  <2>1. state' = state /\ state # "fault" /\ motors /\ UNCHANGED <<motors, line>>
        /\ marks \subseteq marks'
    BY <1>2 DEF StrikeRowA, StrikeRowB, Punch, ctl, IInv, FaultPlaces, FaultIsDead, Callbacks
  <2>2. marks' \subseteq Expected'
    BY <1>2, <2>1, StrikeRowALine, StrikeRowBLine DEF LineOK
  <2>3. Expected' = Expected
    BY <2>1, ExpectedIs
  <2>4. Contract!Strike
    BY <2>1, <2>2, <2>3, WantedIsExpected DEF Contract!Strike
  <2> QED BY <2>4 DEF Contract!Next
<1>3. CASE LineDone /\ state # "fault"
  <2>1. motors /\ marks = Expected
    BY <1>3 DEF LineDone, IInv, FaultIsDead, LineComplete
  <2>2. state' # "fault" /\ motors' = motors /\ line' = {} /\ marks' = {}
    BY <1>3 DEF LineDone
  <2>3. Contract!LineFeed
    BY <1>3, <2>1, <2>2, WantedIsExpected DEF Contract!LineFeed
  <2> QED BY <2>3 DEF Contract!Next
<1>4. CASE AnyCommand
  <2>1. ASSUME NEW c \in Cells, AnyCell(c) PROVE Contract!Next
    BY <2>1, <1>1, <1>r, <1>c DEF Refuse, EnterFault
  <2>2. CASE AnyNewline \/ AnyFormFeed \/ Opening
    <3>1. CASE Refuse BY <3>1, <1>r
    <3>2. CASE ~Refuse
      <4>1. state # "fault" /\ state' # "fault" /\ UNCHANGED <<motors, line, marks>>
        BY <2>2, <3>2
        DEF AnyNewline, SubmitNewline, AnyFormFeed, SubmitFormFeed, Opening, Accepting,
            Begun, hist
      <4> QED BY <4>1, <1>p
    <3> QED BY <3>1, <3>2
  <2>3. CASE AnyFinish
    BY <2>3, <1>q DEF AnyFinish, ctl, hist
  <2> QED BY <2>1, <2>2, <2>3, <1>4 DEF AnyCommand
<1>5. CASE QueueRowB
  BY <1>5, <1>c, <1>q DEF QueueRowB, EnterFault, ctl, hist
<1>6. CASE EjectLine \/ PageDone \/ Drain
  <2>1. CASE Refuse BY <2>1, <1>r
  <2>2. CASE ~Refuse
    <3>1. (state = "fault") = (state' = "fault")
      BY <1>6, <2>2 DEF EjectLine, PageDone, Drain, ctl, IInv, FaultPlaces, Callbacks
    <3>2. UNCHANGED <<motors, line, marks>>
      BY <1>6, <2>2 DEF EjectLine, PageDone, Drain, ctl, hist
    <3> QED BY <3>1, <3>2
  <2> QED BY <2>1, <2>2
<1>7. CASE Step
  <2>1. CASE TakeDue \/ AfterRowB \/ CoverRest \/ ReachTarget \/ GoHome \/ AtHome
             \/ FeedLine \/ MeasurePage
    BY <2>1, <1>q
    DEF TakeDue, AfterRowB, CoverRest, ReachTarget, GoHome, AtHome, FeedLine,
        MeasurePage, ctl, hist
  <2>2. CASE StrikeRowB /\ state' = "fault"
    BY <2>2, <1>q DEF StrikeRowB, ctl
  <2>3. CASE LineDone /\ state = "fault"
    BY <2>3, <1>q DEF LineDone, hist
  <2> QED BY <1>2, <1>3, <1>5, <1>6, <1>7, <2>1, <2>2, <2>3 DEF Step
<1>8. CASE Caller
  <2>1. ASSUME NEW r \in Reasons, Fault(r) PROVE Contract!Next
    BY <2>1, <1>c DEF Fault, EnterFault
  <2>2. ASSUME NEW e \in BOOLEAN, LeaveFault(e) PROVE Contract!Next
    <3>1. state = "fault" /\ ~motors /\ state' # "fault" /\ motors' \in BOOLEAN
          /\ line' = {} /\ marks' = {}
      BY <2>2 DEF LeaveFault, IInv, FaultIsDead
    <3>2. Contract!Clear
      BY <3>1 DEF Contract!Clear
    <3> QED BY <3>2 DEF Contract!Next
  <2>3. ASSUME NEW a \in BOOLEAN, SetArmed(a) PROVE [Contract!Next]_(Contract!vars)
    <3>1. state' = state /\ motors' \in BOOLEAN /\ line' = line /\ marks' = marks
      BY <2>3 DEF SetArmed, hist
    <3>2. CASE state = "fault"
      <4>1. motors' = FALSE /\ motors = FALSE
        BY <2>3, <3>2 DEF SetArmed, IInv, FaultIsDead, TypeOK
      <4> QED BY <3>1, <4>1
    <3>3. CASE state # "fault"
      BY <3>1, <3>3 DEF Contract!Next, Contract!Power
    <3> QED BY <3>2, <3>3
  <2>4. ASSUME NEW p \in BOOLEAN, SetPaperPresent(p) PROVE UNCHANGED Contract!vars
    BY <2>4 DEF SetPaperPresent, ctl, hist
  <2> QED BY <1>8, <2>1, <2>2, <2>3, <2>4 DEF Caller
<1>9. CASE UNCHANGED vars
  BY <1>9 DEF vars
<1>10. CASE Overrun
  BY <1>10, <1>c DEF Overrun, Fault, EnterFault
<1> QED BY <1>4, <1>7, <1>8, <1>9, <1>10 DEF Move, Usual

\* What the pipeline does with carriage, queue, callbacks and faults is, seen
\* from the paper, a behaviour of the line contract.
THEOREM ImplementsContract == Spec => KeepsContract
<1>1. Init => Contract!Init
  BY DEF Init, Contract!Init
<1>2. IInv /\ [Next]_vars => [Contract!Next]_(Contract!vars)
  BY NextMoves, ContractStep
<1> QED BY <1>1, <1>2, Invariant, PTL DEF Spec, KeepsContract, Contract!Spec

-----------------------------------------------------------------------------
(* The firmware's own geometry: the offset is no longer than the pitch.    *)

\* A strike waits only during the travel of its own cell, which reaches it; the
\* overflows are those reported from outside.
Narrow(causes) ==
  /\ pc \notin {"travel", "toDue", "atDue", "strikeB"} => pending = <<>>
  /\ \A i \in 1..Len(pending) : pending[i].due <= regs.target
  /\ fault = "overflow" => "overflow" \in causes

LEMMA NarrowStep ==
  ASSUME RowBOffset <= CellPitch, NEW causes, Reasons \subseteq causes, IInv, Narrow(causes),
         [Usual]_vars \/ ("overflow" \in causes /\ Overrun)
  PROVE  Narrow(causes)'
<1> USE DEF Narrow
<1>1. TypeOK /\ (state = "fault" => pending = <<>>) /\ (state = "fault" <=> fault # "none")
  BY DEF IInv, FaultIsDead
<1>e. ASSUME pending' = <<>>, fault' = fault \/ fault' = "none" PROVE Narrow(causes)'
  BY <1>e
<1>f. ASSUME NEW r, EnterFault(r), r # "overflow" \/ r \in causes PROVE Narrow(causes)'
  BY <1>f DEF EnterFault
<1>r. CASE Refuse
  BY <1>r, <1>f DEF Refuse
<1>2. ASSUME NEW c \in Cells, AnyCell(c), ~Refuse PROVE Narrow(causes)'
  BY <1>2, <1>e DEF AnyCell, Accepting, SubmitCell
<1>3. CASE (AnyNewline \/ AnyFormFeed \/ AnyFinish) /\ ~Refuse
  BY <1>3, <1>e, <1>1
  DEF AnyNewline, SubmitNewline, AnyFormFeed, SubmitFormFeed, AnyFinish, Accepting, ctl
<1>4. CASE QueueRowB
  <2>1. pending = <<>>
    BY <1>4 DEF QueueRowB
  <2>2. ~(Len(pending) >= RowBCap)
    <3>1. Len(pending) = 0 /\ RowBCap \in Nat /\ RowBCap > 0
      BY <2>1, GeometryAssumption
    <3> QED BY <3>1
  <2>3. CASE pending' = <<>>
    BY <1>4, <2>2, <2>3, <1>e DEF QueueRowB, ctl
  <2>4. CASE pending' # <<>>
    <3> DEFINE entry == [due |-> RowBColumn, dots |-> RowB(regs.cell)]
    <3>1. /\ pending' = Append(pending, entry) /\ pc' = "travel" /\ fault' = fault
          /\ regs'.target = x + CellPitch
      BY <1>4, <2>1, <2>2, <2>4, LocalsFields DEF QueueRowB, ctl
    <3>2. Len(pending') = 1 /\ pending'[1] = entry
      BY <2>1, <3>1
    <3>3. entry.due = x + RowBOffset /\ x + RowBOffset <= x + CellPitch
      BY <1>1, GeometryAssumption DEF RowBColumn, TypeOK
    <3>4. \A i \in 1..Len(pending') : i = 1
      BY <3>2
    <3> QED BY <3>1, <3>2, <3>3, <3>4
  <2> QED BY <2>3, <2>4
<1>5. CASE TakeDue
  <2>1. /\ pending # <<>> /\ pending \in Seq(RowBEntry) /\ pending' = Tail(pending)
        /\ pc' \in {"toDue", "atDue"} /\ regs'.target = regs.target /\ fault' = fault
    BY <1>1, <1>5, LocalsFields DEF TakeDue, RowBDue, TypeOK, ctl
  <2>2. \A i \in 1..Len(pending') : i + 1 \in 1..Len(pending) /\ pending'[i] = pending[i + 1]
    BY <2>1
  <2>3. state # "fault"
    BY <2>1, <1>1
  <2> QED
    <3>1. CASE pc' = "atDue" BY <2>1, <2>2, <3>1
    <3>2. CASE pc' = "toDue" BY <2>1, <2>2, <3>2
    <3> QED BY <2>1, <3>1, <3>2
<1>6. CASE StrikeRowB
  <2>1. CASE state = "fault" BY <1>1, <1>6, <2>1, <1>e DEF StrikeRowB, ctl
  <2>2. CASE state # "fault" BY <1>6, <2>2 DEF StrikeRowB, ctl
  <2> QED BY <2>1, <2>2
<1>7. CASE AfterRowB
  <2>1. CASE state = "fault" BY <1>1, <1>7, <2>1, <1>e DEF AfterRowB, ctl
  <2>2. CASE state # "fault" BY <1>7, <2>2 DEF AfterRowB, ctl
  <2> QED BY <2>1, <2>2
<1>8. CASE CoverRest
  <2>1. pending = <<>>
    <3> SUFFICES ASSUME pending # <<>> PROVE FALSE
      OBVIOUS
    <3>1. 1 \in 1..Len(pending) /\ Head(pending) = pending[1]
      BY <1>1 DEF TypeOK
    <3> QED BY <3>1, <1>8 DEF CoverRest, RowBDue
  <2> QED BY <2>1, <1>8, <1>e DEF CoverRest, ctl
<1>9. CASE StrikeRowA \/ ReachTarget \/ GoHome \/ AtHome \/ FeedLine \/ LineDone
           \/ MeasurePage \/ PageDone
  BY <1>9, <1>e, <1>1
  DEF StrikeRowA, ReachTarget, GoHome, AtHome, FeedLine, LineDone, MeasurePage,
      PageDone, ctl
<1>10. CASE (EjectLine \/ Drain) /\ ~Refuse
  BY <1>10, <1>e, <1>1 DEF EjectLine, Drain, ctl
<1>11. CASE Caller
  <2>1. ASSUME NEW r \in Reasons, Fault(r) PROVE Narrow(causes)'
    BY <2>1, <1>f DEF Fault
  <2>2. ASSUME NEW e \in BOOLEAN, LeaveFault(e) PROVE Narrow(causes)'
    BY <2>2, <1>e DEF LeaveFault
  <2>3. ASSUME NEW a \in BOOLEAN, SetArmed(a) PROVE Narrow(causes)'
    BY <2>3, <1>e DEF SetArmed
  <2>4. ASSUME NEW p \in BOOLEAN, SetPaperPresent(p) PROVE Narrow(causes)'
    BY <2>4 DEF SetPaperPresent, ctl, flow
  <2> QED BY <1>11, <2>1, <2>2, <2>3, <2>4 DEF Caller
<1>12. CASE UNCHANGED vars
  BY <1>12 DEF vars
<1>13. CASE Opening /\ ~Refuse
  BY <1>13 DEF Opening, flow
<1>14. CASE "overflow" \in causes /\ Overrun
  BY <1>14, <1>f DEF Overrun, Fault
<1> QED
  BY <1>14, <1>r, <1>2, <1>3, <1>4, <1>5, <1>6, <1>7, <1>8, <1>9, <1>10, <1>11, <1>12, <1>13
  DEF Usual, Step, AnyCommand

\* With an offset no longer than the cell pitch the queue never overflows,
\* and every cell has fired its own Row B when its command returns.
THEOREM NarrowQueue == Spec => []QueueNeverFull
<1>1. CASE RowBOffset <= CellPitch
  <2>1. Init => Narrow(Reasons)
    BY DEF Init, Narrow
  <2>2. IInv /\ Narrow(Reasons) /\ [Next]_vars => Narrow(Reasons)'
    BY <1>1, NextUsual, NarrowStep
  <2>3. Narrow(Reasons) => QueueNeverFull
    BY DEF Narrow, QueueNeverFull
  <2> QED BY <2>1, <2>2, <2>3, Invariant, PTL DEF Spec
<1>2. CASE ~(RowBOffset <= CellPitch)
  <2>1. QueueNeverFull
    BY <1>2 DEF QueueNeverFull
  <2> QED BY <2>1, PTL
<1> QED BY <1>1, <1>2


-----------------------------------------------------------------------------
(* The pipeline seen through the link.                                      *)

\* Every frame, poll and callback is a step of the pipeline or none.
LEMMA HandleMaps ==
  ASSUME Frame PROVE [Next]_vars
<1>1. ASSUME Heartbeat PROVE [Next]_vars
  BY <1>1 DEF Heartbeat, Next, Caller
<1>2. ASSUME NEW c \in Cells, Submit(Cell(c)) PROVE [Next]_vars
  BY <1>2 DEF Submit, Next, Command
<1>3. ASSUME Submit(Newline) \/ Submit(FormFeed) PROVE [Next]_vars
  BY <1>3 DEF Submit, Next, Command
<1>4. ASSUME FinishFrame PROVE [Next]_vars
  BY <1>4 DEF FinishFrame, Next, Command
<1>5. ASSUME ClearFault PROVE [Next]_vars
  BY <1>5 DEF ClearFault, Next, Caller
<1> QED BY <1>1, <1>2, <1>3, <1>4, <1>5 DEF Frame, Handle

LEMMA LinkMaps ==
  ASSUME [LinkNext]_lvars PROVE [Next]_vars
<1>1. CASE Frame BY <1>1, HandleMaps
<1>2. CASE Run BY <1>2 DEF Run, Next
<1>3. CASE Poll \/ Stall
  BY <1>3, SafetyReason DEF Poll, Stall, Next, Caller
<1>4. ASSUME NEW r \in Reasons, MotorFault(r) PROVE [Next]_vars
  BY <1>4 DEF MotorFault, Next, Caller
<1>5. ASSUME NEW p \in BOOLEAN, Sense(p) PROVE [Next]_vars
  BY <1>5 DEF Sense, Next, Caller
<1>6. ASSUME NEW n \in 1..MaxBatch, RxCall(n) PROVE [Next]_vars
  BY <1>6 DEF RxCall
<1>7. CASE Handled \/ Tick BY <1>7 DEF Handled, Tick
<1>8. CASE UNCHANGED lvars BY <1>8 DEF lvars
<1> QED BY <1>1, <1>2, <1>3, <1>4, <1>5, <1>6, <1>7, <1>8 DEF LinkNext

\* The link starts the pipeline with the motors off, which IInv allows.
LEMMA LinkInitInv == LinkInit => IInv
<1> SUFFICES ASSUME LinkInit PROVE IInv
  OBVIOUS
<1>1. NoRegs \in Registers BY NoRegsType
<1>2. TypeOK
  <2>1. pending \in Seq(RowBEntry) /\ line \subseteq Accepted /\ marks \subseteq Dots \X Int
        /\ again \subseteq Dots \X Int
    BY DEF LinkInit
  <2>2. motors \in BOOLEAN /\ lineOpen \in BOOLEAN
    BY DEF LinkInit
  <2>3. state \in JobStates /\ fault \in FaultCauses \cup {"none"}
        /\ paper \in {"unknown", "present", "absent"} /\ pc \in Callbacks \cup Stretches
    BY DEF LinkInit, JobStates, Stretches
  <2>4. regs \in Registers /\ ff \in {"no", "close", "eject"} /\ feeds \in Nat
        /\ x \in Int /\ yLine \in Nat
    BY <1>1 DEF LinkInit
  <2> QED BY <2>1, <2>2, <2>3, <2>4 DEF TypeOK
<1>3. Queued = {} /\ Owed = {} /\ Expected = {}
  BY MarksInEmpty, QueuedIs, ExpectedIs, WantedByNone
  DEF LinkInit, Owed, InHand, Unstruck, Unqueued
<1>4. PageInv
  BY RegsThen DEF LinkInit, PageInv, Travels, Submits, Returning
<1> QED
  BY <1>2, <1>3, <1>4
  DEF LinkInit, IInv, FaultIsDead, FaultPlaces, LineInv, QueueInv, ColumnInv,
      PendingAhead, LineFaithful, LineComplete, StruckOnce, Travels, Submits

\* The pipeline's invariant holds whatever the link does with it: no dot is
\* lost, moved or struck twice between a recovery and the next fault.
THEOREM LinkKeepsLine == LinkSpec => []IInv
<1>1. IInv /\ [LinkNext]_lvars => IInv'
  BY LinkMaps, NextMoves, InvStep
<1> QED BY LinkInitInv, <1>1, PTL DEF LinkSpec

\* A form feed that comes as a frame ends its page too, whatever heartbeats, polls
\* and stalls fall into its callbacks.
THEOREM LinkEndsPages == LinkSpec => FormFeedEndsPage
<1>1. IInv /\ [LinkNext]_lvars =>
        [pc = "eject" /\ state' = "done" =>
           yLine' % PageLines = 0 /\ yLine' > 0 /\ x' = 0]_vars
  BY LinkMaps, NextMoves, PageEnds DEF IInv
<1> QED BY LinkKeepsLine, <1>1, PTL DEF LinkSpec, FormFeedEndsPage

\* Seen from the paper, the whole Spider is a line contract: arming, recovery,
\* polls and STATUS never lose, move or repeat a dot, nor strike without power.
THEOREM LinkImplementsContract == LinkSpec => KeepsContract
<1>1. LinkInit => Contract!Init
  BY DEF LinkInit, Contract!Init
<1>2. IInv /\ [LinkNext]_lvars => [Contract!Next]_(Contract!vars)
  BY LinkMaps, NextMoves, ContractStep
<1> QED BY <1>1, <1>2, LinkKeepsLine, PTL DEF LinkSpec, KeepsContract, Contract!Spec

-----------------------------------------------------------------------------
(* Power: an invariant of the link's own, beside the pipeline's.            *)

\* Unless it faults, the running command leaves state and power to the link.
LEMMA StepPower ==
  ASSUME IInv, Step
  PROVE  /\ state = "fault" => state' = "fault"
         /\ state' # "fault" => motors' = motors
<1> USE DEF IInv, FaultPlaces, Callbacks
<1>1. CASE Refuse BY <1>1 DEF Refuse, EnterFault
<1>2. CASE StrikeRowA \/ TakeDue \/ StrikeRowB \/ AfterRowB \/ CoverRest
           \/ ReachTarget \/ GoHome \/ AtHome \/ FeedLine \/ MeasurePage
  BY <1>2
  DEF StrikeRowA, TakeDue, StrikeRowB, AfterRowB, CoverRest, ReachTarget, GoHome,
      AtHome, FeedLine, MeasurePage, ctl
<1>3. CASE QueueRowB BY <1>3 DEF QueueRowB, EnterFault, ctl
<1>4. CASE LineDone BY <1>4 DEF LineDone
<1>5. CASE EjectLine /\ ~Refuse BY <1>5 DEF EjectLine, ctl
<1>6. CASE PageDone BY <1>6 DEF PageDone
<1>7. CASE Drain BY <1>7 DEF Drain, ctl
<1> QED BY <1>1, <1>2, <1>3, <1>4, <1>5, <1>6, <1>7 DEF Step

LEMMA StepRuns == Step => pc # "ready"
BY DEF Step, StrikeRowA, QueueRowB, TakeDue, StrikeRowB, AfterRowB, CoverRest,
       ReachTarget, GoHome, AtHome, FeedLine, LineDone, MeasurePage, EjectLine,
       PageDone, Drain

\* So does the beginning of one, which no fault lets through.
LEMMA CommandPower ==
  ASSUME Command
  PROVE  /\ state # "fault"
         /\ state' # "fault" => motors' = motors
<1>1. CASE Refuse /\ ~Finish
  BY <1>1
  DEF Refuse, EnterFault, Command, Cell, Newline, FormFeed, Accepting
<1>2. ASSUME NEW c \in Cells, Cell(c), ~Refuse
      PROVE  state # "fault" /\ motors' = motors
  BY <1>2 DEF Cell, Accepting, SubmitCell
<1>3. ASSUME Newline, ~Refuse PROVE state # "fault" /\ motors' = motors
  BY <1>3 DEF Newline, Accepting, SubmitNewline
<1>4. ASSUME FormFeed, ~Refuse PROVE state # "fault" /\ motors' = motors
  BY <1>4 DEF FormFeed, Accepting, SubmitFormFeed
<1>5. ASSUME Finish PROVE state # "fault" /\ motors' = motors
  BY <1>5 DEF Finish, ctl
<1> QED BY <1>1, <1>2, <1>3, <1>4, <1>5 DEF Command

\* A frame that carries a command.
Submitted == \/ \E c \in Cells : Handle(Submit(Cell(c)))
             \/ Handle(Submit(Newline)) \/ Handle(Submit(FormFeed))

LEMMA SubmitParts ==
  ASSUME Submitted
  PROVE  /\ NoteFault /\ armed' = armed
         /\ UNCHANGED vars \/ (armed /\ Command)
<1>1. ASSUME NEW c \in Cells, Handle(Submit(Cell(c)))
      PROVE  /\ NoteFault /\ armed' = armed
             /\ UNCHANGED vars \/ (armed /\ Command)
  BY <1>1 DEF Handle, Submit, Command
<1>2. ASSUME Handle(Submit(Newline)) \/ Handle(Submit(FormFeed))
      PROVE  /\ NoteFault /\ armed' = armed
             /\ UNCHANGED vars \/ (armed /\ Command)
  BY <1>2 DEF Handle, Submit, Command
<1> QED BY <1>1, <1>2 DEF Submitted

\* What every frame does to the rx call.
LEMMA FrameParts ==
  ASSUME Frame
  PROVE  rx > 0 /\ rx' = rx - 1 /\ handling' = TRUE /\ lag' = lag /\ status' = status
<1>1. ASSUME Submitted
      PROVE  rx > 0 /\ rx' = rx - 1 /\ handling' = TRUE /\ lag' = lag /\ status' = status
  BY <1>1 DEF Submitted, Handle
<1>2. CASE Handle(Heartbeat) BY <1>2 DEF Handle
<1>3. CASE Handle(FinishFrame) BY <1>3 DEF Handle
<1>4. CASE Handle(ClearFault) BY <1>4 DEF Handle
<1> QED BY <1>1, <1>2, <1>3, <1>4 DEF Frame, Submitted

\* Beside the two properties: a command runs for an armed link only, and the
\* history is dark exactly while a fault lasts.
PowerInv ==
  /\ armed /\ state # "fault" => motors
  /\ pc # "ready" /\ state # "fault" => armed
  /\ stage = "dark" <=> state = "fault"
  /\ Recovery

\* Between two frames the last STATUS says what is so.
StatusInv ==
  /\ pc # "ready" => handling
  /\ ~handling => \/ status = <<state, fault>>
                  \/ status = NoStatus /\ state = "idle"

LinkInv == IInv /\ LinkTypeOK /\ PowerInv /\ StatusInv

-----------------------------------------------------------------------------
(* One lemma per part of LinkInv.                                           *)

LEMMA LinkTypeStep ==
  ASSUME LinkTypeOK, TypeOK', [LinkNext]_lvars PROVE LinkTypeOK'
<1> USE GapAssumption DEF LinkTypeOK, link
<1>1. <<state', fault'>> \in JobStates \X (FaultCauses \cup {"none"})
  BY DEF TypeOK
<1>2. CASE Frame
  <2>1. rx' \in Nat /\ handling' \in BOOLEAN /\ lag' = lag /\ status' = status
    BY <1>2, FrameParts
  <2>2. armed' \in BOOLEAN /\ age' \in 0..Gap /\ stage' \in {"dark", "cleared", "live"}
    BY <1>2
    DEF Frame, Handle, Heartbeat, Submit, FinishFrame, ClearFault, NoteFault
  <2> QED BY <2>1, <2>2
<1>3. CASE Handled BY <1>1, <1>3 DEF Handled, EmitStatus
<1>4. CASE Run BY <1>4 DEF Run, NoteFault
<1>5. CASE Poll \/ Stall BY <1>1, <1>5 DEF Poll, Stall, EmitStatus, NoteFault
<1>6. CASE Tick BY <1>6 DEF Tick, Older
<1>7. ASSUME NEW r \in Reasons, MotorFault(r) PROVE LinkTypeOK'
  BY <1>7 DEF MotorFault, NoteFault
<1>8. ASSUME NEW p \in BOOLEAN, Sense(p) PROVE LinkTypeOK'
  BY <1>8 DEF Sense
<1>9. ASSUME NEW n \in 1..MaxBatch, RxCall(n) PROVE LinkTypeOK'
  BY <1>9 DEF RxCall
<1>10. CASE UNCHANGED lvars BY <1>10 DEF lvars
<1> QED
  BY <1>2, <1>3, <1>4, <1>5, <1>6, <1>7, <1>8, <1>9, <1>10 DEF LinkNext

LEMMA PowerStep ==
  ASSUME LinkInv, FaultIsDead', [LinkNext]_lvars PROVE PowerInv'
<1> USE DEF LinkInv, PowerInv, Recovery
<1>d. state' = "fault" => ~motors'
  BY DEF FaultIsDead
<1>1. ASSUME Handle(Heartbeat) PROVE PowerInv'
  BY <1>1 DEF Handle, Heartbeat, SetArmed, LinkTypeOK, vars, flow
<1>2. ASSUME Submitted PROVE PowerInv'
  <2>1. NoteFault /\ armed' = armed BY <1>2, SubmitParts
  <2>2. CASE UNCHANGED vars BY <2>1, <2>2 DEF NoteFault, vars
  <2>3. CASE armed /\ Command BY <2>1, <2>3, <1>d, CommandPower DEF NoteFault
  <2> QED BY <1>2, <2>2, <2>3, SubmitParts
<1>3. ASSUME Handle(FinishFrame) PROVE PowerInv'
  BY <1>3 DEF Handle, FinishFrame, Finish, vars, ctl
<1>4. ASSUME Handle(ClearFault) PROVE PowerInv'
  BY <1>4 DEF Handle, ClearFault, LeaveFault, vars, flow
<1>5. CASE Frame
  BY <1>1, <1>2, <1>3, <1>4, <1>5 DEF Frame, Submitted
<1>6. CASE Run
  <2>1. /\ state = "fault" => state' = "fault"
        /\ state' # "fault" => motors' = motors
    BY <1>6, StepPower DEF Run
  <2>2. pc # "ready"
    BY <1>6, StepRuns DEF Run
  <2>3. NoteFault /\ armed' = armed
    BY <1>6 DEF Run
  <2> QED BY <2>1, <2>2, <2>3, <1>d DEF NoteFault
<1>7. CASE Poll \/ Stall
  BY <1>7, <1>d DEF Poll, Stall, Fault, EnterFault, NoteFault, vars, flow
<1>8. ASSUME NEW r \in Reasons, MotorFault(r) PROVE PowerInv'
  BY <1>8, <1>d DEF MotorFault, Fault, EnterFault, NoteFault, flow
<1>9. ASSUME NEW p \in BOOLEAN, Sense(p) PROVE PowerInv'
  BY <1>9 DEF Sense, SetPaperPresent, ctl, flow, link
<1>10. CASE Handled \/ Tick \/ \E n \in 1..MaxBatch : RxCall(n)
  BY <1>10 DEF Handled, Tick, RxCall, vars
<1>11. CASE UNCHANGED lvars
  BY <1>11 DEF lvars, vars, link
<1> QED
  BY <1>5, <1>6, <1>7, <1>8, <1>9, <1>10, <1>11 DEF LinkNext

LEMMA StatusStep ==
  ASSUME LinkInv, [LinkNext]_lvars PROVE StatusInv'
<1> USE DEF LinkInv, StatusInv
<1>1. CASE Frame
  BY <1>1 DEF Frame, Handle
<1>2. CASE Handled
  BY <1>2 DEF Handled, EmitStatus, vars
<1>3. CASE Run
  <2>1. pc # "ready" BY <1>3, StepRuns DEF Run
  <2> QED BY <1>3, <2>1 DEF Run
<1>4. CASE Poll \/ Stall
  BY <1>4 DEF Poll, Stall, Fault, flow, vars, EmitStatus
<1>5. ASSUME NEW r \in Reasons, MotorFault(r) PROVE StatusInv'
  BY <1>5 DEF MotorFault, Callbacks, Fault, flow
<1>6. ASSUME NEW p \in BOOLEAN, Sense(p) PROVE StatusInv'
  BY <1>6 DEF Sense, SetPaperPresent, ctl, flow, link
<1>7. CASE Tick \/ \E n \in 1..MaxBatch : RxCall(n)
  BY <1>7 DEF Tick, RxCall, vars
<1>8. CASE UNCHANGED lvars
  BY <1>8 DEF lvars, vars, link
<1> QED
  BY <1>1, <1>2, <1>3, <1>4, <1>5, <1>6, <1>7, <1>8 DEF LinkNext

LEMMA LinkInvInit == LinkInit => LinkInv
<1> SUFFICES ASSUME LinkInit PROVE LinkInv
  OBVIOUS
<1>1. IInv BY LinkInitInv
<1>2. LinkTypeOK
  <2>1. age \in 0..Gap /\ lag \in 0..Gap /\ rx \in Nat
    BY GapAssumption DEF LinkInit
  <2>2. armed \in BOOLEAN /\ handling \in BOOLEAN
    BY DEF LinkInit
  <2>3. stage \in {"dark", "cleared", "live"}
        /\ status \in {NoStatus} \cup (JobStates \X (FaultCauses \cup {"none"}))
    BY DEF LinkInit
  <2> QED BY <1>1, <2>1, <2>2, <2>3 DEF LinkTypeOK, IInv
<1> QED
  BY <1>1, <1>2 DEF LinkInit, LinkInv, PowerInv, StatusInv, Recovery

THEOREM LinkInvariant == LinkSpec => []LinkInv
<1>1. LinkInv /\ [LinkNext]_lvars => LinkInv'
  <2> SUFFICES ASSUME LinkInv, [LinkNext]_lvars PROVE LinkInv'
    OBVIOUS
  <2>1. IInv' BY LinkMaps, NextMoves, InvStep DEF LinkInv
  <2>2. LinkTypeOK' BY <2>1, LinkTypeStep DEF LinkInv, IInv
  <2>3. PowerInv' BY <2>1, PowerStep DEF IInv
  <2>4. StatusInv' BY StatusStep
  <2> QED BY <2>1, <2>2, <2>3, <2>4 DEF LinkInv
<1> QED BY LinkInvInit, <1>1, PTL DEF LinkSpec

\* An armed link has power until a fault comes, and the motors work for an
\* armed link only.
THEOREM PowerIsArmed == LinkSpec => []ArmedPower
<1>1. LinkInv => ArmedPower
  BY DEF LinkInv, PowerInv, ArmedPower, Callbacks
<1> QED BY <1>1, LinkInvariant, PTL

\* Power returns after a fault only through a CLEAR_FAULT and a heartbeat after
\* it, whatever else the sender transmits and whenever the fault came.
THEOREM RecoveryIsExplicit == LinkSpec => []Recovery
<1>1. LinkInv => Recovery
  BY DEF LinkInv, PowerInv
<1> QED BY <1>1, LinkInvariant, PTL

\* The sender's last STATUS is true whenever the thread is idle.
THEOREM StatusIsTrue == LinkSpec => []StatusCurrent
<1>1. LinkInv => StatusCurrent
  BY DEF LinkInv, StatusInv, StatusCurrent, LoopIdle
<1> QED BY <1>1, LinkInvariant, PTL

=============================================================================
