------------------------------- MODULE PiMotion -------------------------------
(***************************************************************************)
(* Faults and the motion gate on the Pi: the poll loop of the UI process     *)
(* (ui/ui_app.cpp, keyboard/keyboard_service.cpp, keyboard/global_hooks.cpp,  *)
(* telemetry/telemetry_bridge.cpp) around the motion path of PiEmboss, with   *)
(* the co-processor that cuts the motor supply as far as the Pi sees it.      *)
(*                                                                         *)
(* One thread polls: it takes cable jobs, then the frames the serial thread   *)
(* queued, then the telemetry file, then it sends a heartbeat.  A document    *)
(* is embossed inside a poll, and until it is done no frame is handled and    *)
(* no heartbeat is sent.                                                     *)
(***************************************************************************)
EXTENDS PiEmboss

CONSTANTS
  Causes,     \* faults the sensors of the co-processor raise
  Silence,    \* COMMS_TIMEOUT_MS, in scripts
  Modes,      \* brf_cable_emboss settings: subset of {"ask", "always", "store"}
  MaxFaults,  \* bound: faults raised
  MaxKeys,    \* bound: commands typed
  MaxJobs,    \* bound: cable jobs received
  MaxInbox    \* bound: frames waiting

ASSUME ModesAssumption == Modes \subseteq {"ask", "always", "store"}
ASSUME BudgetAssumption == MaxFaults \in Nat /\ MaxKeys \in Nat /\ MaxJobs \in Nat

Faults == Causes \cup {"comms"}
Keys == {"enter", "backspace", "up", "down", "emboss", "recover"}

VARIABLES
  latch,     \* the fault the co-processor has latched, or "none"
  link,      \* is the serial line open?
  inbox,     \* pending_frames_: faults and keys
  batch,     \* frames of the running poll
  clears,    \* CLEAR_FAULT frames on their way
  silent,    \* scripts since the last heartbeat
  announced, \* last_announced_fault_, or "none"
  published, \* motion_blocked of telemetry.json
  ui,        \* where the poll is: "cable", "keys" or "sync"
  pending,   \* pending_brf_, or "none"
  cable,     \* history: what became of each cable job
  budget     \* what is left of the bounds: faults, keys, jobs

rail   == <<latch, link, clears>>
queues == <<inbox, batch>>
vars == <<embossVars, rail, queues, silent, announced, published, ui, pending, cable, budget>>

Spend(what) == budget[what] > 0 /\ budget' = [budget EXCEPT ![what] = @ - 1]

-----------------------------------------------------------------------------
(* The co-processor: it latches a fault, cuts the supply, repeats the fault  *)
(* until CLEAR_FAULT comes, and ignores CLEAR_FAULT while the cause lasts.   *)
(* What only waits to be read (a frame, the line that is gone, the telemetry *)
(* file) comes when it may next be read: before that it is not seen.         *)

Latch(f) ==
  /\ latch = "none" /\ latch' = f /\ vmot' = FALSE
  /\ UNCHANGED <<gate, job, belief, carriage, paper, klipper, marks, link, clears,
                 queues, silent, announced, published, ui, pending, cable>>

Raise == Spend("faults") /\ \E f \in Causes : Latch(f)
CommsLoss == silent > Silence /\ Latch("comms") /\ UNCHANGED budget

Broadcast ==
  /\ latch # "none" /\ link /\ Idle /\ Len(inbox) < MaxInbox
  /\ inbox' = Append(inbox, latch)
  /\ UNCHANGED <<embossVars, rail, batch, silent, announced, published, ui, pending, cable, budget>>

ClearArrives ==
  /\ clears > 0 /\ clears' = clears - 1
  /\ \/ latch' = "none" /\ vmot' = TRUE
     \/ UNCHANGED <<latch, vmot>>
  /\ UNCHANGED <<gate, job, belief, carriage, paper, klipper, marks, link,
                 queues, silent, announced, published, ui, pending, cable, budget>>

\* The cable of the co-processor is pulled: hardware.conf requires it
\* (allow_missing_arduino=false), so the poll does not look for it again.
Unplug ==
  /\ link /\ Idle /\ link' = FALSE /\ clears' = 0
  /\ UNCHANGED <<embossVars, latch, queues, silent, announced, published, ui, pending, cable, budget>>

Type ==
  /\ link /\ ui = "cable" /\ Idle /\ Len(inbox) < MaxInbox /\ Spend("keys")
  /\ \E k \in Keys : inbox' = Append(inbox, k)
  /\ UNCHANGED <<embossVars, rail, batch, silent, announced, published, ui, pending, cable>>

\* telemetry_sentinel: the battery has become critical.
Publish ==
  /\ ui = "sync" /\ ~published /\ published' = TRUE
  /\ UNCHANGED <<embossVars, rail, queues, silent, announced, ui, pending, cable, budget>>

-----------------------------------------------------------------------------
(* handle_brf_cable_jobs, first of the poll, up to the swap of the frames.   *)

Drain == ui' = "keys" /\ batch' = inbox /\ inbox' = <<>>
Kept == IF pending # "none" THEN [cable EXCEPT ![pending] = "kept"] ELSE cable

NoJob ==
  /\ ui = "cable" /\ Idle /\ Drain
  /\ UNCHANGED <<embossVars, rail, silent, announced, published, pending, cable, budget>>

Expire_StillPending ==
  /\ ui = "cable" /\ Idle /\ pending # "none" /\ cable[pending] = "asked"
  /\ cable' = Kept
  /\ UNCHANGED <<embossVars, rail, queues, silent, announced, published, ui, pending, budget>>

\* pending_brf_deadline_ms_ is over.
Expire ==
  /\ ui = "cable" /\ Idle /\ pending # "none"
  /\ pending' = "none" /\ cable' = Kept
  /\ UNCHANGED <<embossVars, rail, queues, silent, announced, published, ui, budget>>

\* A job is stored, and embossed at once, put to the user, or left there.  The
\* job before it that still waits is kept.
Job ==
  /\ ui = "cable" /\ Idle /\ Spend("jobs") /\ Drain
  /\ \E mode \in Modes, d \in Docs :
       /\ mode = "always" => Begin(d) /\ pending' = "none"
                             /\ cable' = [Kept EXCEPT ![d] = "embossed"]
       /\ mode = "ask"    => pending' = d /\ cable' = [Kept EXCEPT ![d] = "asked"]
                             /\ UNCHANGED embossVars
       /\ mode = "store"  => pending' = "none" /\ cable' = [Kept EXCEPT ![d] = "kept"]
                             /\ UNCHANGED embossVars
  /\ UNCHANGED <<rail, silent, announced, published>>

-----------------------------------------------------------------------------
(* drain_frame_queue                                                       *)

Take(what) ==
  /\ ui = "keys" /\ Idle /\ batch # <<>> /\ Head(batch) = what
  /\ batch' = Tail(batch)

\* KlipperMotionBridge::emergency_stop, which may not reach Klipper.
EmergencyStop == klipper' \in {klipper, "shutdown"}

Safety_DedupFirst(f) ==
  /\ Take(f)
  /\ announced' = f
  /\ IF announced = f
       THEN UNCHANGED <<gate, klipper>>
       ELSE gate' = "fault" /\ EmergencyStop
  /\ UNCHANGED <<job, belief, carriage, paper, vmot, marks, rail, inbox, silent,
                 published, ui, pending, cable, budget>>

\* handle_safety: every report closes the gate, the first of its kind also
\* stops Klipper (hooks::on_safety_broadcast).
Safety(f) ==
  /\ Take(f)
  /\ gate' = "fault"
  /\ announced' = f
  /\ IF announced = f
       THEN UNCHANGED klipper
       ELSE EmergencyStop
  /\ UNCHANGED <<job, belief, carriage, paper, vmot, marks, rail, inbox, silent,
                 published, ui, pending, cable, budget>>

\* recover_motion_gate: CLEAR_FAULT is written, then the gate opens and Klipper
\* restarts; nobody waits for the co-processor.
Recover ==
  /\ Take("recover")
  /\ IF Blocked /\ link
       THEN /\ clears' = clears + 1 /\ gate' = "clear"
            /\ klipper' \in {klipper, "ready"}
       ELSE UNCHANGED <<clears, gate, klipper>>
  /\ UNCHANGED <<job, belief, carriage, paper, vmot, marks, latch, link, inbox, silent, announced,
                 published, ui, pending, cable, budget>>

\* on_brf_cable_key takes Enter and Backspace while a job waits.
Enter ==
  /\ Take("enter")
  /\ IF pending # "none"
       THEN Begin(pending) /\ pending' = "none" /\ cable' = [cable EXCEPT ![pending] = "embossed"]
       ELSE UNCHANGED <<embossVars, pending, cable>>
  /\ UNCHANGED <<rail, inbox, silent, announced, published, ui, budget>>

Backspace ==
  /\ Take("backspace")
  /\ pending' = "none" /\ cable' = Kept
  /\ UNCHANGED <<embossVars, rail, inbox, silent, announced, published, ui, budget>>

Emboss ==
  /\ Take("emboss") /\ \E d \in Docs : Begin(d)
  /\ UNCHANGED <<rail, inbox, silent, announced, published, ui, pending, cable, budget>>

Paper ==
  /\ \/ Take("up") /\ Feed(-1)
     \/ Take("down") /\ Feed(1)
  /\ UNCHANGED <<rail, inbox, silent, announced, published, ui, pending, cable, budget>>

KeysDone ==
  /\ ui = "keys" /\ Idle /\ batch = <<>> /\ ui' = "sync"
  /\ UNCHANGED <<embossVars, rail, queues, silent, announced, published, pending, cable, budget>>

-----------------------------------------------------------------------------
(* sync_motion_gate_from_telemetry, send_heartbeat_if_due                    *)

Sync_WithLink ==
  /\ ui = "sync" /\ ui' = "cable"
  /\ gate' = IF published /\ link THEN "telemetry" ELSE gate
  /\ silent' = IF link THEN 0 ELSE silent
  /\ UNCHANGED <<job, belief, world, marks, rail, queues, announced, published, pending, cable, budget>>

Sync ==
  /\ ui = "sync" /\ ui' = "cable"
  /\ gate' = IF published THEN "telemetry" ELSE gate
  /\ silent' = IF link THEN 0 ELSE silent
  /\ UNCHANGED <<job, belief, world, marks, rail, queues, announced, published, pending, cable, budget>>

\* One step of the motion path; a script takes time.
MotionStep ==
  /\ EmbossStep
  /\ silent' = IF silent <= Silence /\ (MoveX \/ Punch \/ Return \/ FeedForward \/ FeedBack)
                 THEN silent + 1 ELSE silent
  /\ UNCHANGED <<rail, queues, announced, published, ui, pending, cable, budget>>

\* UiApp::stop, and the start that follows: the coordinates were written when
\* the Brailler or a paper command last synchronised them, or never.
Restart ==
  /\ ui = "cable" /\ Idle /\ Spend("keys")
  /\ x' \in {0, x} /\ y' \in {0, y} /\ delayed' = <<>>
  /\ haveX' = FALSE /\ lastX' = 0
  /\ steady' = (steady /\ x' = x /\ y' = y)
  /\ gate' = "clear" /\ announced' = "none"
  /\ pending' = "none" /\ cable' = Kept
  /\ inbox' = <<>>
  /\ UNCHANGED <<job, world, wanted, punched, failures, rail, batch, silent, published, ui>>

-----------------------------------------------------------------------------
Init ==
  /\ gate = "clear" /\ doc = <<>> /\ lineOpen = FALSE /\ strikes = <<>> /\ feeds = 0
  /\ delayed = <<>> /\ x = 0 /\ y = 0 /\ haveX = FALSE /\ lastX = 0
  /\ carriage = 0 /\ paper = 0 /\ klipper = "ready" /\ vmot = TRUE
  /\ wanted = {} /\ punched = {} /\ steady = TRUE /\ failures = 0
  /\ latch = "none" /\ link = TRUE /\ inbox = <<>> /\ batch = <<>> /\ clears = 0
  /\ silent = 0 /\ announced = "none" /\ published = FALSE
  /\ ui = "cable" /\ pending = "none" /\ cable = [d \in Docs |-> "none"]
  /\ budget = [faults |-> MaxFaults, keys |-> MaxKeys, jobs |-> MaxJobs]

UiStep ==
  \/ NoJob \/ Expire \/ Job
  \/ (\E f \in Faults : Safety(f)) \/ Recover \/ Enter \/ Backspace \/ Emboss \/ Paper
  \/ KeysDone \/ Sync \/ MotionStep

World == Raise \/ CommsLoss \/ Broadcast \/ ClearArrives \/ Unplug \/ Type \/ Publish

Next == UiStep \/ Restart \/ World

Spec == Init /\ [][Next]_vars
FairSpec == Spec /\ WF_vars(UiStep) /\ WF_vars(Broadcast)

-----------------------------------------------------------------------------
(* Properties                                                              *)

PiTypeOK ==
  /\ gate \in {"clear", "fault", "telemetry"} /\ klipper \in {"ready", "shutdown"}
  /\ strikes \in Seq([pins : SUBSET (RowADots \cup RowBDots), at : Nat])
  /\ feeds \in -1..(PageLines + 1) /\ x \in Nat /\ y \in Nat /\ lastX \in Nat
  /\ latch \in Faults \cup {"none"} /\ announced \in Faults \cup {"none"}
  /\ silent \in 0..(Silence + 1) /\ ui \in {"cable", "keys", "sync"}
  /\ pending \in Docs \cup {"none"}

\* Every dot on the paper is one that was asked for at that line and position,
\* as long as no script was answered late or run without supply, and carriage
\* and coordinates agreed whenever the bridge took that for granted.
DotsInPlace == steady => punched \subseteq wanted

\* With every script answered, a document that is over is there with all of its
\* dots: none is lost between Row A, the delay line and the returns.
DotsComplete == steady /\ failures = 0 /\ Idle => punched = wanted

\* "line feed failed; paper index left unchanged" (motion_service.cpp:147): the
\* index says where the paper is, whichever script failed, unless the user went
\* back past the first line.
PaperIndexTrue == steady => paper = y

\* A latched fault is repeated until the gate is closed, so that no document is
\* started for ever into a dead supply; a serial line that is gone tells nothing.
GateCatchesUp == (latch # "none" /\ link) ~> (Blocked \/ latch = "none" \/ ~link)

\* Critical battery closes the gate, and recovering does not keep it open.
BatteryHolds == published ~> gate # "clear"

\* A job on the cable is embossed only after Enter, or in the mode that asks
\* for nothing: one that was kept, by a key, by the deadline or because the next
\* job took its place, is not embossed by a later key (ui_app.cpp:276-311).
KeptStaysKept ==
  [][\A d \in Docs : cable[d] = "kept" /\ cable'[d] = "embossed" => budget'.jobs < budget.jobs]_vars

\* "One chord = one cell: advance a full cell pitch, which also carries the
\* carriage past the Row B offset so deferred dots 2/4/6 fire in place."
\* (motion_service.cpp:78): with nothing failing and no supply lost, in place.
RowBInPlace == failures = 0 /\ vmot => punched \subseteq wanted
===============================================================================
