----------------------------- MODULE EmbossLink -----------------------------
(***************************************************************************)
(* The Spider's end of the embosser link (firmware-embosser/emboss_spider.c *)
(* and shared/embosser_link.c) on top of the motor pipeline.                *)
(*                                                                         *)
(* Frames come from the ESP32-S3 over a UART that may lose any of them; the *)
(* frame checksum makes a damaged frame a lost one.  The ESP32's program is *)
(* free to send any frame at any time, so what arrives is any frame at any  *)
(* time, and the wire itself needs no variable.                             *)
(*                                                                         *)
(* One thread runs emboss_spider_rx and emboss_spider_poll in turn; while a *)
(* motor callback runs, the step loop may call poll, stall or report a      *)
(* fault.  Time advances at any point, also inside a callback, while an rx  *)
(* call works with the time it was given when it began.                     *)
(***************************************************************************)
EXTENDS EmbossPipeline

CONSTANTS
  Gap,      \* EMBOSS_LINK_HEARTBEAT_MS, in ticks
  MaxBatch  \* bound: frames one rx call finds in its bytes

ASSUME GapAssumption == Gap \in Nat \ {0} /\ MaxBatch \in Nat \ {0}
ASSUME SafetyReason == "safety" \in Reasons

VARIABLES
  armed,     \* spider.armed
  age,       \* time since last_heartbeat_ms; Gap stands for Gap or more
  rx,        \* frames the running rx call has yet to handle
  lag,       \* time since the now_ms the running rx call was given
  handling,  \* is a frame being handled?
  status,    \* sent_state and sent_fault of the last STATUS, NoStatus if none
  stage      \* history: "dark", then "cleared", then "live" (see Recovery)

link == <<armed, age, rx, lag, handling, status, stage>>
lvars == <<vars, link>>

\* Where the thread takes no part in a call and the loop may call poll.
LoopIdle == pc = "ready" /\ rx = 0 /\ ~handling
LoopMayCall == LoopIdle \/ pc \in Callbacks

Older(t) == IF t < Gap THEN t + 1 ELSE Gap

\* Before the first STATUS sent_valid is 0.
NoStatus == <<"none", "none">>

\* emit_status: STATUS goes out when it says something new.
EmitStatus == status' = <<state', fault'>>

\* History: a fault, whoever raised it, begins the recovery anew.
NoteFault == stage' = IF state' = "fault" THEN "dark" ELSE stage

-----------------------------------------------------------------------------
\* emboss_spider_rx: the bytes at hand hold some frames.
RxCall(n) ==
  /\ LoopIdle
  /\ rx' = n /\ lag' = 0
  /\ UNCHANGED <<vars, armed, age, handling, status, stage>>

\* handle, up to the emit_status it ends with.  Heartbeats renew the time
\* also while faulted, but arm only a pipeline that is not.
Heartbeat ==
  /\ age' = lag
  /\ IF state = "fault" THEN UNCHANGED <<vars, armed, stage>>
     ELSE /\ armed' = TRUE /\ SetArmed(TRUE)
          /\ stage' = IF stage = "cleared" THEN "live" ELSE stage

\* A command goes through only while armed, and only with the motors on.
Submit(command) ==
  /\ IF armed /\ Accepting THEN command ELSE UNCHANGED vars
  /\ NoteFault
  /\ UNCHANGED <<armed, age>>

FinishFrame ==
  /\ IF armed /\ state \notin {"fault", "idle", "done"}
       THEN Finish ELSE UNCHANGED vars
  /\ UNCHANGED <<armed, age, stage>>

ClearFault_Powers ==
  /\ IF state = "fault" THEN LeaveFault(TRUE) ELSE UNCHANGED vars
  /\ armed' = FALSE
  /\ stage' = IF state = "fault" THEN "cleared" ELSE stage
  /\ UNCHANGED age

ClearFault_StaysArmed ==
  /\ IF state = "fault" THEN LeaveFault(FALSE) ELSE UNCHANGED vars
  /\ stage' = IF state = "fault" THEN "cleared" ELSE stage
  /\ UNCHANGED <<armed, age>>

\* clear_fault_held does nothing unless faulted; the link is disarmed anyway.
ClearFault ==
  /\ IF state = "fault" THEN LeaveFault(FALSE) ELSE UNCHANGED vars
  /\ armed' = FALSE
  /\ stage' = IF state = "fault" THEN "cleared" ELSE stage
  /\ UNCHANGED age

Handle(action) ==
  /\ pc = "ready" /\ rx > 0 /\ ~handling
  /\ rx' = rx - 1 /\ handling' = TRUE
  /\ action
  /\ UNCHANGED <<lag, status>>

Frame ==
  \/ Handle(Heartbeat)
  \/ \E c \in Cells : Handle(Submit(Cell(c)))
  \/ Handle(Submit(Newline))
  \/ Handle(Submit(FormFeed))
  \/ Handle(FinishFrame)
  \/ Handle(ClearFault)

Handled_Silent ==
  /\ handling /\ pc = "ready"
  /\ handling' = FALSE
  /\ UNCHANGED <<vars, armed, age, rx, lag, status, stage>>

Handled ==
  /\ handling /\ pc = "ready"
  /\ handling' = FALSE
  /\ UNCHANGED <<vars, armed, age, rx, lag, stage>>
  /\ EmitStatus

-----------------------------------------------------------------------------
\* A stretch of the running command; a fault it raises leaves the link armed.
Run ==
  /\ Step
  /\ NoteFault
  /\ UNCHANGED <<armed, age, rx, lag, handling, status>>

\* emboss_spider_poll: the heartbeat gap is a safety cut.
Poll_OnlyInCalls ==
  /\ pc \in Callbacks
  /\ armed /\ state # "fault" /\ age >= Gap
  /\ armed' = FALSE
  /\ Fault("safety") /\ NoteFault
  /\ EmitStatus
  /\ UNCHANGED <<age, rx, lag, handling>>

Poll ==
  /\ LoopMayCall
  /\ armed /\ state # "fault" /\ age >= Gap
  /\ armed' = FALSE
  /\ Fault("safety") /\ NoteFault
  /\ EmitStatus
  /\ UNCHANGED <<age, rx, lag, handling>>

\* emboss_spider_stall: the step loop missed its deadline.
Stall ==
  /\ LoopMayCall
  /\ armed' = FALSE
  /\ IF state = "fault" THEN UNCHANGED <<vars, stage>>
                        ELSE Fault("safety") /\ NoteFault
  /\ EmitStatus
  /\ UNCHANGED <<age, rx, lag, handling>>

\* The motor driver reports a fault of its own from inside a callback.
MotorFault(r) ==
  /\ pc \in Callbacks
  /\ Fault(r) /\ NoteFault
  /\ UNCHANGED <<armed, age, rx, lag, handling, status>>

\* The paper sensor is read between calls.
Sense(present) ==
  /\ LoopIdle
  /\ SetPaperPresent(present)
  /\ UNCHANGED link

Tick ==
  /\ age' = Older(age)
  /\ lag' = IF rx > 0 \/ handling THEN Older(lag) ELSE lag
  /\ UNCHANGED <<vars, armed, rx, handling, status, stage>>

-----------------------------------------------------------------------------
\* emboss_pipeline_init, then emboss_spider_init, which switches the motors off.
LinkInit ==
  /\ state = "idle" /\ fault = "none" /\ motors = FALSE /\ paper = "unknown"
  /\ x = 0 /\ yLine = 0 /\ lineOpen = FALSE /\ pending = <<>>
  /\ pc = "ready" /\ ff = "no" /\ feeds = 0 /\ regs = NoRegs
  /\ line = {} /\ marks = {} /\ again = {}
  /\ armed = FALSE /\ age = 0 /\ rx = 0 /\ lag = 0
  /\ handling = FALSE /\ status = NoStatus /\ stage = "cleared"

LinkNext ==
  \/ \E n \in 1..MaxBatch : RxCall(n)
  \/ Frame \/ Handled \/ Run
  \/ Poll \/ Stall \/ Tick
  \/ \E r \in Reasons : MotorFault(r)
  \/ \E p \in BOOLEAN : Sense(p)

LinkSpec == LinkInit /\ [][LinkNext]_lvars

\* The thread runs on, and its loop comes back to poll between rx calls.
FairLink ==
  LinkSpec /\ WF_lvars(Run) /\ WF_lvars(Frame) /\ WF_lvars(Handled)
           /\ SF_lvars(Poll /\ LoopIdle)

-----------------------------------------------------------------------------
(* Properties                                                              *)

LinkTypeOK ==
  /\ TypeOK
  /\ armed \in BOOLEAN /\ age \in 0..Gap /\ lag \in 0..Gap
  /\ rx \in Nat /\ handling \in BOOLEAN
  /\ status \in {NoStatus} \cup (JobStates \X (FaultCauses \cup {"none"}))
  /\ stage \in {"dark", "cleared", "live"}

\* Power is tied to the link: as long as no fault has come, an armed link has
\* the motors on, and no motor callback runs for a link that was disarmed.
ArmedPower ==
  /\ armed /\ state # "fault" => motors
  /\ pc \in Callbacks /\ state # "fault" => armed

\* After a fault, whoever raised it, power returns only through a CLEAR_FAULT
\* and a heartbeat, in that order and both after the fault: heartbeats that
\* arrive while faulted, or frames of the interrupted job, do not bring it back.
Recovery == motors => stage = "live"

\* What the sender was last told is what is so, once the thread is idle: also
\* when the fault came from inside a callback of a frame being handled.
StatusCurrent ==
  LoopIdle => status = <<state, fault>> \/ (status = NoStatus /\ state = "idle")

\* Heartbeats that cease for the gap cost an armed link its power, whatever it
\* was doing, unless a CLEAR_FAULT disarms it first.
GapCuts == (armed /\ motors /\ age = Gap) ~> (~motors \/ ~armed \/ age < Gap)

\* "a 1000 ms gap is a safety cut" (embosser_link.h:5): it is not once a
\* CLEAR_FAULT has come while nothing was faulted, because that disarms the
\* link, which emboss_spider_poll then leaves alone, with the motors on.
GapIsCut == (motors /\ age = Gap) ~> (~motors \/ age < Gap)

=============================================================================
