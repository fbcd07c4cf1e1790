--------------------------- MODULE EmbossPipeline ---------------------------
(***************************************************************************)
(* The motor pipeline of the streaming embosser                            *)
(* (firmware-embosser/emboss_pipeline.c).  A command (cell, newline, form  *)
(* feed, finish) runs on one thread and calls the motor driver back for    *)
(* every strike, carriage travel and paper feed.  A motor callback takes   *)
(* time: while it runs, the step loop may report a stall or a heartbeat    *)
(* gap, which enters the pipeline again through emboss_pipeline_fault or   *)
(* emboss_pipeline_safety_cut.  So a command is a sequence of steps, one   *)
(* per stretch of code between two callbacks, and pc names the stretch or  *)
(* the callback the command has reached.                                   *)
(*                                                                         *)
(* Positions are integers in the unit the constants use; y_um is always    *)
(* y_line times the line advance and is left out.  The Row B ring buffer   *)
(* is the sequence of its live entries, oldest first.                      *)
(*                                                                         *)
(* An operator named <definition>_<Defect> is the definition with a        *)
(* plausible defect put in: it takes no part in the specification, and     *)
(* shows what the property that catches it is worth.                       *)
(***************************************************************************)
EXTENDS Integers, Sequences, FiniteSets

CONSTANTS
  Cells,       \* the dot patterns a sender may use, each a subset of Dots
  CellPitch,   \* BRAILLATRON_CELL_PITCH_UM
  RowBOffset,  \* BRAILLATRON_ROW_B_OFFSET_UM
  RowBCap,     \* EMBOSS_ROW_B_CAP
  PageLines,   \* BRAILLATRON_PAGE_LINES
  Reasons,     \* the faults a caller may report, a subset of FaultCauses
  Segmented,   \* is the travel_x callback fitted?
  MaxX,        \* bound: no command is sent that would drive x beyond MaxX
  MaxLine      \* bound: none is sent that would feed beyond MaxLine

Dots    == 1..6
RowADots == {1, 3, 5}
RowBDots == {2, 4, 6}

FaultCauses == {"safety", "paper", "motion", "overflow"}

ASSUME CellsAssumption == Cells \subseteq SUBSET Dots
ASSUME GeometryAssumption ==
  /\ CellPitch \in Nat \ {0}
  /\ RowBOffset \in Nat \ {0}
  /\ RowBCap \in Nat \ {0}
  /\ PageLines \in Nat \ {0}
ASSUME SegmentedAssumption == Segmented \in BOOLEAN
ASSUME ReasonsAssumption == Reasons \subseteq FaultCauses
ASSUME BoundAssumption == MaxX \in Nat /\ MaxLine \in Nat

VARIABLES
  state,     \* job state, braillatron_job_state
  fault,     \* fault reason, "none" unless state is "fault"
  motors,    \* motors_enabled
  paper,     \* paper_known and paper_present
  x,         \* x_um
  yLine,     \* y_line
  lineOpen,  \* line_open
  pending,   \* Row B strikes waiting for the carriage, oldest first
  pc,        \* where the running command is; "ready" between commands
  regs,      \* its locals: cell, row, target and what follows a travel
  ff,        \* form_feed's progress: "no", "close" (the open line), "eject"
  feeds,     \* newlines form_feed still has to make
  line,      \* history: cells accepted on the open line, with their column
  marks,     \* history: dots struck on the open line
  again      \* history: dots struck on it a second time

ctl  == <<state, fault, motors>>
pos  == <<x, yLine, lineOpen>>
flow == <<pc, regs, ff, feeds>>
hist == <<line, marks, again>>
vars == <<state, fault, motors, paper, x, yLine, lineOpen, pending,
          pc, regs, ff, feeds, line, marks, again>>

JobStates == {"idle", "receiving", "queued", "printing", "done", "fault"}

RowA(c) == c \cap RowADots
RowB(c) == c \cap RowBDots
RowBEntry == [due : Int, dots : SUBSET Dots]
Registers == [cell : SUBSET Dots, row : RowBEntry, target : Int,
              then : {"cell", "newline", "drain"}]
Accepted  == [at : Int, cell : SUBSET Dots]

\* The motor callbacks: the code is waiting for the motors to move.
Callbacks == {"strikeA", "toDue", "strikeB", "toTarget", "homing", "feeding"}
Stretches == {"ready", "rowA", "queue", "travel", "atDue", "home", "feed",
              "eject", "drain"}

\* Dots struck, or to be struck, at one position of the carriage.
MarksOf(dots, at) == dots \X {at}

\* The pins come down on some dots, whether or not they are there already.
Punch(dots, at) ==
  /\ marks' = marks \cup MarksOf(dots, at)
  /\ again' = again \cup (marks \cap MarksOf(dots, at))

\* Where the dots of the cells of the open line belong on the paper.
CellMarks(e) == MarksOf(RowA(e.cell), e.at)
                  \cup MarksOf(RowB(e.cell), e.at + RowBOffset)
Expected == UNION {CellMarks(e) : e \in line}

-----------------------------------------------------------------------------
(* Helpers shared by several operations.                                   *)

EnterFault_KeepsPower(reason) ==
  /\ state' = "fault" /\ fault' = reason /\ pending' = <<>>
  /\ UNCHANGED motors

\* enter_fault: power off, pending strikes forgotten, reason published.
EnterFault(reason) ==
  /\ state' = "fault" /\ fault' = reason
  /\ motors' = FALSE /\ pending' = <<>>

\* The command returns to its caller; its locals are dead.
NoRow == [due |-> 0, dots |-> {}]
Locals(cell, row, target, then) ==
  [cell |-> cell, row |-> row, target |-> target, then |-> then]
Travelling(target, then) == Locals({}, NoRow, target, then)
NoRegs == Travelling(0, "cell")

Return == pc' = "ready" /\ regs' = NoRegs /\ ff' = "no" /\ feeds' = 0

\* begin_job_if_idle and note_new_job: an idle pipeline opens a job.
Begun == IF state \in {"idle", "done"} THEN "receiving" ELSE state

\* A command refused for want of paper faults before anything moves.
Refuse ==
  /\ paper = "absent"
  /\ EnterFault("paper") /\ Return /\ UNCHANGED <<paper, pos, hist>>

StartNewline_NoFlush ==
  /\ pc' = "travel"
  /\ regs' = Travelling(x, "newline")

\* newline and the travel_by it starts with: flush the Row B window.
StartNewline ==
  /\ pc' = "travel"
  /\ regs' = Travelling(x + RowBOffset, "newline")

-----------------------------------------------------------------------------
(* Commands.  A submission runs from its caller's guard to the first        *)
(* stretch; the link's entry points submit only with the motors on.        *)

SubmitCell(c) ==
  \/ Refuse
  \/ /\ paper # "absent"
     /\ state' = "printing"
     /\ regs' = Locals(c, NoRow, 0, "cell")
     /\ pc' = IF RowA(c) = {} THEN "queue" ELSE "rowA"
     /\ line' = line \cup {[at |-> x, cell |-> c]}
     /\ UNCHANGED <<fault, motors, paper, pos, pending, ff, feeds, marks, again>>

SubmitNewline ==
  \/ Refuse
  \/ /\ paper # "absent"
     /\ state' = Begun
     /\ StartNewline
     /\ UNCHANGED <<fault, motors, paper, pos, pending, ff, feeds, hist>>

SubmitFormFeed ==
  \/ Refuse
  \/ /\ paper # "absent"
     /\ state' = Begun
     /\ ff' = "close"
     /\ IF lineOpen THEN StartNewline ELSE pc' = "eject" /\ UNCHANGED regs
     /\ UNCHANGED <<fault, motors, paper, pos, pending, feeds, hist>>

CellFits == x + CellPitch + RowBOffset <= MaxX
LineFits(n) == yLine + n <= MaxLine /\ x + RowBOffset <= MaxX

Accepting == pc = "ready" /\ state # "fault" /\ motors

Cell(c)  == Accepting /\ CellFits /\ SubmitCell(c)
Newline  == Accepting /\ LineFits(1) /\ SubmitNewline
FormFeed == Accepting /\ LineFits(PageLines + 1) /\ SubmitFormFeed

\* emboss_pipeline_finish of an open job (of none it returns at once).
Finish ==
  /\ pc = "ready" /\ state \notin {"fault", "idle", "done"}
  /\ pc' = "drain"
  /\ UNCHANGED <<ctl, paper, pos, pending, regs, ff, feeds, hist>>

-----------------------------------------------------------------------------
(* submit_cell                                                             *)

StrikeRowA ==
  /\ pc = "rowA"
  /\ Punch(RowA(regs.cell), x)
  /\ pc' = "strikeA"
  /\ UNCHANGED <<ctl, paper, pos, pending, regs, ff, feeds, line>>

\* Where the carriage must be for Row B of the cell just struck.
RowBColumn_FullCell == x + CellPitch
RowBColumn == x + RowBOffset

\* Row A is down, or the cell has none: queue Row B and advance one cell.
QueueRowB ==
  /\ pc \in {"strikeA", "queue"}
  /\ LET dots  == RowB(regs.cell)
         entry == [due |-> RowBColumn, dots |-> dots] IN
     \/ /\ state = "fault"
        /\ Return /\ UNCHANGED <<ctl, lineOpen, pending>>
     \/ /\ state # "fault" /\ dots # {} /\ Len(pending) >= RowBCap
        /\ EnterFault("overflow") /\ Return /\ UNCHANGED lineOpen
     \/ /\ state # "fault" /\ (dots = {} \/ Len(pending) < RowBCap)
        /\ pending' = IF dots = {} THEN pending ELSE Append(pending, entry)
        /\ lineOpen' = TRUE
        /\ pc' = "travel"
        /\ regs' = Travelling(x + CellPitch, "cell")
        /\ UNCHANGED <<ctl, ff, feeds>>
  /\ UNCHANGED <<paper, x, yLine, hist>>

-----------------------------------------------------------------------------
(* travel_to                                                               *)

RowBDue_Behind == pending # <<>> /\ Head(pending).due <= x

RowBDue == pending # <<>> /\ Head(pending).due <= regs.target

TakeDue_NoPop ==
  /\ pc = "travel" /\ RowBDue
  /\ regs' = Locals({}, Head(pending), regs.target, regs.then)
  /\ pc' = IF Segmented /\ Head(pending).due # x THEN "toDue" ELSE "atDue"
  /\ UNCHANGED <<ctl, paper, pos, pending, ff, feeds, hist>>

\* The oldest Row B strike lies on the way: take it and go there.
TakeDue ==
  /\ pc = "travel" /\ RowBDue
  /\ regs' = Locals({}, Head(pending), regs.target, regs.then)
  /\ pending' = Tail(pending)
  /\ pc' = IF Segmented /\ Head(pending).due # x THEN "toDue" ELSE "atDue"
  /\ UNCHANGED <<ctl, paper, pos, ff, feeds, hist>>

StrikeRowB_NoRecheck ==
  /\ pc \in {"toDue", "atDue"}
  /\ x' = IF Segmented THEN regs.row.due ELSE x
  /\ Punch(regs.row.dots, regs.row.due)
  /\ pc' = "strikeB"
  /\ UNCHANGED <<ctl, paper, yLine, lineOpen, pending, line, regs, ff, feeds>>

StrikeRowB ==
  /\ pc \in {"toDue", "atDue"}
  /\ x' = IF Segmented THEN regs.row.due ELSE x
  /\ \/ /\ state = "fault"
        /\ Return /\ UNCHANGED <<marks, again>>
     \/ /\ state # "fault"
        /\ IF motors THEN Punch(regs.row.dots, regs.row.due) ELSE UNCHANGED <<marks, again>>
        /\ pc' = IF motors THEN "strikeB" ELSE "travel"
        /\ UNCHANGED <<regs, ff, feeds>>
  /\ UNCHANGED <<ctl, paper, yLine, lineOpen, pending, line>>

AfterRowB ==
  /\ pc = "strikeB"
  /\ IF state = "fault" THEN Return
                        ELSE pc' = "travel" /\ UNCHANGED <<regs, ff, feeds>>
  /\ UNCHANGED <<ctl, paper, pos, pending, hist>>

\* travel_to returns to submit_cell, to newline or to finish's loop.
Travelled ==
  /\ x' = regs.target
  /\ IF regs.then = "cell" \/ (regs.then = "newline" /\ state = "fault")
       THEN Return
       ELSE /\ pc' = IF regs.then = "newline" THEN "home" ELSE "drain"
            /\ UNCHANGED <<regs, ff, feeds>>

\* Nothing more is due before the target: cover the rest of the way.
CoverRest ==
  /\ pc = "travel" /\ ~RowBDue
  /\ IF Segmented /\ regs.target # x
       THEN pc' = "toTarget" /\ UNCHANGED <<x, regs, ff, feeds>>
       ELSE Travelled
  /\ UNCHANGED <<ctl, paper, yLine, lineOpen, pending, hist>>

\* The position is taken as reached even if the move was cut short.
ReachTarget ==
  /\ pc = "toTarget"
  /\ Travelled
  /\ UNCHANGED <<ctl, paper, yLine, lineOpen, pending, hist>>

-----------------------------------------------------------------------------
(* newline, after its flush                                                *)

GoHome_StaysPut ==
  /\ pc = "home"
  /\ pending' = <<>>
  /\ IF Segmented /\ x # 0 THEN pc' = "homing" /\ UNCHANGED x
                           ELSE pc' = "feed" /\ UNCHANGED x
  /\ UNCHANGED <<ctl, paper, yLine, lineOpen, regs, ff, feeds, hist>>

GoHome ==
  /\ pc = "home"
  /\ pending' = <<>>
  /\ IF Segmented /\ x # 0 THEN pc' = "homing" /\ UNCHANGED x
                           ELSE pc' = "feed" /\ x' = 0
  /\ UNCHANGED <<ctl, paper, yLine, lineOpen, regs, ff, feeds, hist>>

AtHome ==
  /\ pc = "homing"
  /\ x' = 0
  /\ IF state = "fault" THEN Return
                        ELSE pc' = "feed" /\ UNCHANGED <<regs, ff, feeds>>
  /\ UNCHANGED <<ctl, paper, yLine, lineOpen, pending, hist>>

FeedLine ==
  /\ pc = "feed" /\ pc' = "feeding"
  /\ UNCHANGED <<ctl, paper, pos, pending, regs, ff, feeds, hist>>

LineDone ==
  /\ pc = "feeding"
  /\ \/ /\ state = "fault"
        /\ Return /\ UNCHANGED <<state, yLine, lineOpen, hist>>
     \/ /\ state # "fault"
        /\ yLine' = yLine + 1 /\ lineOpen' = FALSE
        /\ line' = {} /\ marks' = {} /\ again' = {}
        /\ state' = IF state \in {"receiving", "queued"} THEN "printing" ELSE state
        /\ IF ff = "no" THEN Return
                        ELSE pc' = "eject" /\ UNCHANGED <<regs, ff, feeds>>
  /\ UNCHANGED <<fault, motors, paper, x, pending>>

-----------------------------------------------------------------------------
(* form_feed, once the open line is closed, and finish's drain loop        *)

LinesLeft_OffByOne == PageLines - 1 - (yLine % PageLines)
LinesLeft == PageLines - (yLine % PageLines)

MeasurePage ==
  /\ pc = "eject" /\ ff = "close"
  /\ ff' = "eject"
  /\ feeds' = LinesLeft
  /\ UNCHANGED <<ctl, paper, pos, pending, pc, regs, hist>>

EjectLine ==
  /\ pc = "eject" /\ ff = "eject" /\ feeds > 0
  /\ \/ Refuse
     \/ /\ paper # "absent"
        /\ feeds' = feeds - 1
        /\ StartNewline
        /\ UNCHANGED <<ctl, paper, pos, pending, ff, hist>>

PageDone ==
  /\ pc = "eject" /\ ff = "eject" /\ feeds = 0
  /\ state' = "done"
  /\ Return
  /\ UNCHANGED <<fault, motors, paper, pos, pending, hist>>

Drain ==
  /\ pc = "drain"
  /\ \/ /\ pending # <<>> /\ state # "fault" /\ motors
        /\ pc' = "travel"
        /\ regs' = Travelling(Head(pending).due, "drain")
        /\ UNCHANGED <<ctl, ff, feeds>>
     \/ /\ pending = <<>> \/ state = "fault" \/ ~motors
        /\ state' = IF state \in {"receiving", "printing", "queued"}
                      THEN "done" ELSE state
        /\ Return
        /\ UNCHANGED <<fault, motors>>
  /\ UNCHANGED <<paper, pos, pending, hist>>

-----------------------------------------------------------------------------
(* Calls from outside the running command.                                 *)

\* emboss_pipeline_fault and emboss_pipeline_safety_cut, between commands or
\* from inside a motor callback.  The history keeps what is on the paper.
Fault(reason) ==
  /\ pc \in Callbacks \cup {"ready"}
  /\ EnterFault(reason)
  /\ UNCHANGED <<paper, pos, flow, hist>>

\* leave_fault: clear_fault powers the motors, clear_fault_held does not.
\* The carriage is not homed; what the fault interrupted is abandoned.
LeaveFault(enable) ==
  /\ pc = "ready" /\ state = "fault"
  /\ state' = "idle" /\ fault' = "none" /\ motors' = enable
  /\ pending' = <<>> /\ lineOpen' = FALSE
  /\ line' = {} /\ marks' = {} /\ again' = {}
  /\ UNCHANGED <<paper, x, yLine, flow>>

SetArmed(armed) ==
  /\ pc = "ready"
  /\ motors' = (armed /\ state # "fault")
  /\ UNCHANGED <<state, fault, paper, pos, pending, flow, hist>>

SetPaperPresent(present) ==
  /\ paper' = IF present THEN "present" ELSE "absent"
  /\ UNCHANGED <<ctl, pos, pending, flow, hist>>

-----------------------------------------------------------------------------
Init ==
  /\ state = "idle" /\ fault = "none" /\ motors = TRUE /\ paper = "unknown"
  /\ x = 0 /\ yLine = 0 /\ lineOpen = FALSE /\ pending = <<>>
  /\ pc = "ready" /\ ff = "no" /\ feeds = 0
  /\ regs = NoRegs
  /\ line = {} /\ marks = {} /\ again = {}

\* What the code does once a command is running: it never waits for a caller.
Step ==
  \/ StrikeRowA \/ QueueRowB
  \/ TakeDue \/ StrikeRowB \/ AfterRowB \/ CoverRest \/ ReachTarget
  \/ GoHome \/ AtHome \/ FeedLine \/ LineDone
  \/ MeasurePage \/ EjectLine \/ PageDone \/ Drain

Command ==
  \/ \E c \in Cells : Cell(c)
  \/ Newline \/ FormFeed \/ Finish

Caller ==
  \/ \E r \in Reasons : Fault(r)
  \/ \E e \in BOOLEAN : LeaveFault(e)
  \/ \E a \in BOOLEAN : SetArmed(a)
  \/ \E p \in BOOLEAN : SetPaperPresent(p)

Next == Step \/ Command \/ Caller

Spec == Init /\ [][Next]_vars

\* A motor callback returns and the thread runs on: commands finish.
FairSpec == Spec /\ WF_vars(Step)

-----------------------------------------------------------------------------
(* Properties                                                              *)

TypeOK ==
  /\ state \in JobStates /\ fault \in FaultCauses \cup {"none"}
  /\ motors \in BOOLEAN /\ paper \in {"unknown", "present", "absent"}
  /\ x \in Int /\ yLine \in Nat /\ lineOpen \in BOOLEAN
  /\ pending \in Seq(RowBEntry)
  /\ pc \in Callbacks \cup Stretches
  /\ regs \in Registers
  /\ ff \in {"no", "close", "eject"} /\ feeds \in Nat
  /\ line \subseteq Accepted
  /\ marks \subseteq Dots \X Int /\ again \subseteq Dots \X Int

\* A fault has cut the power and forgotten every pending strike, whichever
\* callback it entered through, and has a reason exactly while it lasts; a
\* motor callback is begun and survived only with the motors on.
FaultIsDead ==
  /\ state = "fault" <=> fault # "none"
  /\ state = "fault" => ~motors /\ pending = <<>>
  /\ pc # "ready" /\ pc # "drain" /\ state # "fault" => motors

\* Dots accepted on the open line that the running code still owes the paper:
\* queued for Row B, in hand, or of the cell being submitted.
Queued == UNION {MarksOf(pending[i].dots, pending[i].due) : i \in 1..Len(pending)}
InHand == IF pc \in {"toDue", "atDue"}
            THEN MarksOf(regs.row.dots, regs.row.due) ELSE {}
Unstruck == IF pc = "rowA" THEN MarksOf(RowA(regs.cell), x) ELSE {}
Unqueued == IF pc \in {"rowA", "strikeA", "queue"}
              THEN MarksOf(RowB(regs.cell), x + RowBOffset) ELSE {}
Owed == Queued \cup InHand \cup Unstruck \cup Unqueued

\* As long as no fault has come, every accepted dot is on the paper at its own
\* column or is still owed: Row B is neither lost, moved nor struck twice.
LineFaithful ==
  state # "fault" => /\ marks \cup Owed = Expected
                     /\ marks \cap Owed = {}

\* The carriage returns and the paper moves only when the line is complete:
\* the pending strikes newline throws away on the return are none.
LineComplete ==
  pc \in {"home", "homing", "feed", "feeding"} /\ state # "fault" =>
    marks = Expected /\ pending = <<>>

\* The carriage never passes a pending strike: every Row B waits ahead, in the
\* order it was queued, and no farther away than one offset.
PendingAhead ==
  \A i \in 1..Len(pending) :
    /\ x < pending[i].due /\ pending[i].due <= x + RowBOffset
    /\ \A j \in 1..Len(pending) : i < j => pending[i].due < pending[j].due

\* Nothing is struck from the moment a fault comes until it is cleared, not
\* even by the command the fault interrupted.
NoStrikeInFault == [][state = "fault" => marks' \subseteq marks]_vars

\* A form feed that completes, wherever on the page it began and whatever line
\* it had to close, has moved the paper, stops on the first line of a page and
\* leaves the carriage at home.
FormFeedEndsPage ==
  [][pc = "eject" /\ state' = "done" =>
       yLine' % PageLines = 0 /\ yLine' > 0 /\ x' = 0]_vars

\* The pipeline keeps the line contract of TactileLine: no dot lost, moved or
\* struck twice (no step of the contract adds to again), no paper feed over an
\* unfinished line, no power in a fault.
Contract == INSTANCE TactileLine WITH
              powered <- motors, faulted <- (state = "fault")

KeepsContract == Contract!Spec

\* While the Row B offset is no longer than the cell pitch, as on the real
\* carriage, every cell fires its own Row B before its advance ends: commands
\* leave no strike behind and the queue cannot overflow.
QueueNeverFull ==
  RowBOffset <= CellPitch =>
    /\ pc = "ready" => pending = <<>>
    /\ fault = "overflow" => "overflow" \in Reasons

\* A command always returns to its caller, faulted or not.
CommandReturns == (pc # "ready") ~> (pc = "ready")

-----------------------------------------------------------------------------
(* The invariant that carries the proofs.  It says nothing of the line once *)
(* a fault has come: the fault gives the line up.  PageInv is what a form    *)
(* feed relies on.                                                           *)

Travels == {"travel", "toDue", "atDue", "strikeB", "toTarget"}
Submits == {"rowA", "strikeA", "queue"}

\* A fault reaches a command only inside a callback, and the command then
\* returns at its next step.
FaultPlaces == state = "fault" => pc \in Callbacks \cup {"ready", "drain"}

\* The strikes waiting are Row B strikes, ahead of the carriage, in order.
QueueInv ==
  /\ PendingAhead
  /\ \A i \in 1..Len(pending) : pending[i].dots \subseteq RowBDots

\* Cells and their Row B strikes lie behind the place the next cell will take:
\* the carriage, or the target of the travel under way.
ColumnInv ==
  /\ pc \in {"ready", "home", "eject", "drain"} => \A e \in line : e.at < x
  /\ pc \in Submits => \A e \in line : e.at <= x
  /\ pc \in {"ready", "home", "eject", "drain"} \cup Submits =>
       \A i \in 1..Len(pending) : pending[i].due < x + RowBOffset
  /\ pc \in Travels =>
       /\ x <= regs.target
       /\ \A e \in line : e.at < regs.target
       /\ \A i \in 1..Len(pending) :
            /\ pending[i].due < regs.target + RowBOffset
            /\ regs.then = "newline" => pending[i].due <= regs.target
            /\ pc = "toTarget" => pending[i].due > regs.target
            /\ pc \in {"toDue", "atDue"} => pending[i].due > regs.row.due
  /\ pc \in {"toDue", "atDue"} =>
       /\ x < regs.row.due /\ regs.row.due <= regs.target
       /\ regs.row.dots \subseteq RowBDots

LineInv == state # "fault" => QueueInv /\ ColumnInv

\* No dot is struck when it is on the paper already, in a fault or out of it.
StruckOnce == again = {}

\* Only finish may run in a job that is done, a page is closed before it is, by
\* newlines that end at the page's boundary: the line the carriage is on, the one a newline under way will give
\* and those still to come make whole pages, and the last one has gone home.
Returning == {"home", "homing", "feed", "feeding"}
PageInv ==
  /\ pc \in {"ready", "drain"} \cup Submits => ff = "no"
  /\ pc \in Travels /\ regs.then # "newline" => ff = "no"
  /\ pc \in Returning => regs.then = "newline"
  /\ pc # "ready" /\ state = "done" =>
       pc = "drain" \/ (pc \in Travels /\ regs.then = "drain")
  /\ pc \in {"feed", "feeding"} => x = 0
  /\ ff = "eject" =>
       /\ pc = "eject" => (yLine + feeds) % PageLines = 0
       /\ pc # "eject" => (yLine + 1 + feeds) % PageLines = 0
       /\ pc = "eject" /\ feeds = 0 => yLine > 0 /\ x = 0

IInv == TypeOK /\ FaultIsDead /\ FaultPlaces /\ LineInv
          /\ LineFaithful /\ LineComplete /\ PageInv /\ StruckOnce

=============================================================================
