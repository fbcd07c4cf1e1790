------------------------------ MODULE SpeechKeys ------------------------------
(***************************************************************************)
(* Shift, Speech and the key pairs that restart (daemon-dietpi/src/keyboard/   *)
(* keyboard_service.cpp, ui/output_hub.cpp), with the threads behind the two   *)
(* speech services (ui/backends/backend.cpp): the worker that talks to Speech   *)
(* Dispatcher, and the capture thread of a dictation, whose words go to the     *)
(* app on that thread.                                                       *)
(*                                                                         *)
(* The UI thread stands still while it joins the capture thread.  An utterance  *)
(* is its number; the app that takes dictation is open throughout.             *)
(***************************************************************************)
EXTENDS ConnectCalls

CONSTANTS
  ShiftHold,  \* kHoldMs, in ticks of the loop
  ComboHold   \* kRestartComboHoldMs, in ticks of the loop

VARIABLES
  held,   \* last_matrix_state_: keys that are down
  combo,  \* ticks each pair has been down; 0: it is not
  shift,  \* shift_down_, shift_hold_fired_, ticks since shift_press_ms_
  muted,  \* tts_muted_
  mic,    \* dictation_active_, suppress_stt_transcripts_; VoskSttBackend: ptt_open_,
          \* capture_running_, its thread, and is the UI joining it?
  tts,    \* SpdTtsBackend: its queue, the command its worker has, is it connected?
  saying, \* the utterance Speech Dispatcher says, or 0
  wanted, \* history: the utterance asked for last and not stopped, or 0
  asked,  \* history: utterances asked for
  given,  \* history: flips with every piece of text given to the app
  gone    \* the process or the machine is being restarted

speechVars == <<held, combo, shift, muted, mic, tts, saying, wanted, asked, given, gone>>

UiPair == {"backspace", "enter"}
RebootPair == {"shift", "speech"}

Speak(n) == [do |-> "speak", n |-> n]
Stop == [do |-> "stop", n |-> 0]
NoCommand == [do |-> "none", n |-> 0]

SpeechInit ==
  /\ held = {} /\ combo = [ui |-> 0, reboot |-> 0]
  /\ shift = [down |-> FALSE, fired |-> FALSE, ticks |-> 0]
  /\ muted = FALSE
  /\ mic = [active |-> FALSE, suppress |-> FALSE, open |-> FALSE, running |-> FALSE,
            thread |-> "none", joining |-> FALSE]
  /\ tts = [queue |-> <<>>, cmd |-> NoCommand, connected |-> FALSE]
  /\ saying = 0 /\ wanted = 0 /\ asked = 0 /\ given = 0 /\ gone = FALSE

\* What a key changes, as one record: a frame may carry several edges.
Hub0 == [shift |-> shift, muted |-> muted, mic |-> mic, tts |-> tts, saying |-> saying,
         wanted |-> wanted, asked |-> asked, media |-> media, player |-> player]
Becomes(h) ==
  /\ shift' = h.shift /\ muted' = h.muted /\ mic' = h.mic /\ tts' = h.tts
  /\ saying' = h.saying /\ wanted' = h.wanted /\ asked' = h.asked
  /\ media' = h.media /\ player' = h.player

-----------------------------------------------------------------------------
(* SpdTtsBackend: the UI side                                              *)

\* What remains of a queue when its speaks are erased, told entry by entry.
NoSpeaks(queue) ==
  Among(queue, {queue[i] : i \in {j \in DOMAIN queue : queue[j].do # "speak"}})

\* A stop made on the UI thread, beside the worker.
Stopped_AtOnce(h) ==
  [h EXCEPT !.tts.queue = NoSpeaks(@), !.saying = 0, !.wanted = 0]
Stopped(h) ==
  [h EXCEPT !.tts.queue = Append(NoSpeaks(@), Stop), !.wanted = 0]

\* speak() itself, and emit(), which says nothing while muted.
Spoken(h) ==
  LET n == h.asked + 1
  IN [h EXCEPT !.tts.queue = NoSpeaks(@) \o <<Stop, Speak(n)>>, !.wanted = n, !.asked = n]
Emitted(h) == IF h.muted THEN h ELSE Spoken(h)

-----------------------------------------------------------------------------
(* VoskSttBackend: the UI side                                             *)

Captures(m) == \* set_ptt_open(true), start_capture
  IF m.open THEN m
  ELSE IF m.running THEN [m EXCEPT !.open = TRUE]
  ELSE [m EXCEPT !.open = TRUE, !.running = TRUE, !.thread = "loading"]

StopsCapture_NoJoin(m) ==
  IF m.open THEN [m EXCEPT !.open = FALSE, !.running = FALSE] ELSE m
StopsCapture(m) == \* set_ptt_open(false), stop_capture
  IF m.open THEN [m EXCEPT !.open = FALSE, !.running = FALSE, !.joining = m.thread # "none"] ELSE m

\* cancel_dictation
CancelTake(h) ==
  IF ~h.mic.active THEN h
  ELSE [h EXCEPT !.mic = StopsCapture([@ EXCEPT !.suppress = TRUE, !.active = FALSE])]

\* on_speech_ptt_gate
SpeechGate(h, open) ==
  IF open
  THEN Emitted([h EXCEPT !.mic = Captures([@ EXCEPT !.suppress = FALSE, !.active = TRUE])])
  ELSE [h EXCEPT !.mic = StopsCapture([@ EXCEPT !.active = FALSE])]

-----------------------------------------------------------------------------
(* OutputHub: Shift                                                        *)

\* Over media Shift pauses while it is held.
ShiftOverMedia(h, pressed) ==
  IF pressed = h.media.shift THEN h
  ELSE Emitted([h EXCEPT !.media.shift = pressed, !.media.paused = pressed,
                         !.player = IF up THEN SetPaused(@, pressed) ELSE @])

\* handle_shift_tap
ShiftTap(h) == Stopped(h)

ShiftToggle(h, pressed) ==
  IF h.media.playing THEN ShiftOverMedia(h, pressed)
  ELSE IF pressed THEN [h EXCEPT !.shift = [down |-> TRUE, fired |-> FALSE, ticks |-> 0]]
  ELSE LET u == [h EXCEPT !.shift.down = FALSE]
       IN IF u.shift.fired THEN u ELSE ShiftTap(u)

\* toggle_speech_mute
MuteToggled(h) ==
  IF h.muted THEN Emitted([h EXCEPT !.muted = FALSE]) ELSE Spoken(Stopped([h EXCEPT !.muted = TRUE]))

\* tick_shift_tts
ShiftTick(h) ==
  IF ~h.shift.down \/ h.shift.fired \/ h.media.playing THEN h
  ELSE IF "speech" \in held THEN [h EXCEPT !.shift.fired = TRUE]
  ELSE IF h.shift.ticks < ShiftHold THEN h
  ELSE MuteToggled([h EXCEPT !.shift.fired = TRUE])

-----------------------------------------------------------------------------
(* KeyboardService                                                         *)

PairTicks(n, pair, down, passed) ==
  IF ~(pair \subseteq down) THEN 0
  ELSE IF n = 0 THEN 1 ELSE IF n > ComboHold THEN n ELSE n + passed
Combos(down, passed) ==
  [ui |-> PairTicks(combo.ui, UiPair, down, passed),
   reboot |-> PairTicks(combo.reboot, RebootPair, down, passed)]

\* combo_swallows_control
Swallowed(k, down) == \E pair \in {UiPair, RebootPair} : pair \subseteq down /\ k \in pair

ControlEdge(h, k, down) ==
  LET pressed == k \in down
      c == IF pressed /\ k # "speech" THEN CancelTake(h) ELSE h
  IN IF Swallowed(k, down) THEN h
     ELSE CASE k = "shift" -> ShiftToggle(c, pressed)
            [] k = "speech" -> SpeechGate(c, pressed)
            [] OTHER -> c

\* The edges of one frame, in their order.
Edges(h, down, changed) ==
  LET edge(s, k) == IF k \in changed THEN ControlEdge(s, k, down) ELSE s
  IN edge(edge(edge(edge(h, "backspace"), "enter"), "shift"), "speech")

UiThread == ~gone /\ ~mic.joining

\* handle_key_state: a key has changed since the last frame, or both of a pair.
KeyState ==
  /\ UiThread /\ Key
  /\ \E changed \in {UiPair, RebootPair} \cup {{k} : k \in UiPair \cup RebootPair} :
       LET down == (held \ changed) \cup (changed \ held)
           begins == combo.reboot = 0 /\ RebootPair \subseteq down
           h == IF begins THEN CancelTake(Hub0) ELSE Hub0
       IN /\ held' = down /\ combo' = Combos(down, 0)
          /\ Becomes(Edges(h, down, changed))
  /\ UNCHANGED <<given, gone, registry, daemon, crashes>>

\* handle_chord, or a letter of a plain keyboard: the take is given up.
DotChord ==
  /\ UiThread /\ Key /\ Becomes(CancelTake(Hub0))
  /\ UNCHANGED <<held, combo, given, gone, registry, daemon, crashes>>

\* The poll of the keyboard and of the hub, a tick later.
SpeechTick ==
  /\ UiThread
  /\ combo' = Combos(held, 1)
  /\ LET fires == \E p \in {"ui", "reboot"} : combo[p] = ComboHold /\ combo'[p] > ComboHold
         h == IF fires THEN Emitted(Hub0) ELSE Hub0
     IN /\ gone' \in (IF fires THEN BOOLEAN ELSE {FALSE}) \* the request may fail
        /\ Becomes(ShiftTick([h EXCEPT !.shift.ticks = IF @ < ShiftHold THEN @ + 1 ELSE @]))
  /\ UNCHANGED <<held, given, registry, daemon, keys, crashes>>

\* What else the UI says: announce_message stops what is said first, and
\* announce_spoken does not.
Announce ==
  /\ UiThread /\ Key
  /\ \E h \in {Emitted(Hub0), Emitted(Stopped(Hub0))} : Becomes(h)
  /\ UNCHANGED <<held, combo, given, gone, registry, daemon, crashes>>

\* A new rate: one more command for the worker.
NewRate ==
  /\ UiThread /\ Key
  /\ tts' = [tts EXCEPT !.queue = Append(@, [do |-> "rate", n |-> 0])]
  /\ UNCHANGED <<held, combo, shift, muted, mic, saying, wanted, asked, given, gone,
                 registry, daemon, sound, crashes>>

\* Media begins or ends meanwhile, as the hub is told.
MediaTurns ==
  /\ UiThread /\ Key
  /\ media' = IF media.playing THEN MediaPlaying(media, FALSE) ELSE Started(media)
  /\ UNCHANGED <<speechVars, registry, daemon, player, crashes>>

-----------------------------------------------------------------------------
(* The worker of SpdTtsBackend                                              *)

SpeechKept == UNCHANGED <<held, combo, shift, muted, asked, gone>>
WorkerKept == SpeechKept /\ UNCHANGED <<mic, given, wanted, callVars>>

TakesCommand ==
  /\ tts.cmd = NoCommand /\ tts.queue # <<>>
  /\ tts' = [tts EXCEPT !.cmd = Head(tts.queue), !.queue = Tail(@)]
  /\ UNCHANGED saying /\ WorkerKept

\* process(): only a speak or a rate connects, and that may fail.
DoesCommand ==
  /\ tts.cmd # NoCommand
  /\ \E reached \in {tts.connected, tts.connected \/ tts.cmd.do # "stop"} :
       /\ tts' = [tts EXCEPT !.cmd = NoCommand, !.connected = reached]
       /\ saying' = IF ~reached THEN saying
                    ELSE CASE tts.cmd.do = "speak" -> tts.cmd.n
                           [] tts.cmd.do = "stop" -> 0
                           [] tts.cmd.do = "rate" -> saying
  /\ WorkerKept

SaidIt ==
  /\ saying # 0 /\ saying' = 0 /\ UNCHANGED tts /\ WorkerKept

-----------------------------------------------------------------------------
(* capture_loop                                                            *)

CaptureKept == SpeechKept /\ UNCHANGED <<tts, saying, wanted, callVars>>
Thread(from, to) == mic.thread = from /\ mic' = [mic EXCEPT !.thread = to]

\* The transcript handler of the hub looks at suppress_stt_transcripts_, and calls
\* the app after that.
Checked(now, next) == IF mic.suppress THEN next ELSE now

ModelLoads == Thread("loading", "listening") /\ UNCHANGED given /\ CaptureKept
ModelFails ==
  /\ mic.thread = "loading" /\ mic' = [mic EXCEPT !.thread = "ended", !.running = FALSE]
  /\ UNCHANGED given /\ CaptureKept
Recognises ==
  /\ mic.running
  /\ Thread("listening", Checked("giving", "listening"))
  /\ UNCHANGED given /\ CaptureKept
Gives == Thread("giving", "listening") /\ given' = 1 - given /\ CaptureKept

\* The loop ends when it is told to or nothing more can be read.
LoopEnds ==
  Thread("listening", Checked("closing", "ended")) /\ UNCHANGED given /\ CaptureKept
GivesLast == Thread("closing", "ended") /\ given' = 1 - given /\ CaptureKept

CaptureJoined ==
  /\ mic.joining /\ mic.thread = "ended"
  /\ mic' = [mic EXCEPT !.thread = "none", !.joining = FALSE]
  /\ UNCHANGED given /\ CaptureKept

SpeechStep ==
  \/ KeyState \/ DotChord \/ SpeechTick \/ Announce \/ NewRate \/ MediaTurns
  \/ TakesCommand \/ DoesCommand \/ SaidIt
  \/ ModelLoads \/ ModelFails \/ Recognises \/ Gives \/ LoopEnds \/ GivesLast \/ CaptureJoined

\* Beside other parts of the program, which may change what ConnectCalls keeps.
SpeechSpec == SpeechInit /\ [][SpeechStep]_speechVars

-----------------------------------------------------------------------------
(* Properties                                                              *)

\* Speech never queues up behind older speech: an utterance that waits is the one
\* asked for last, and once the worker has caught up nothing else is being said,
\* wherever a stop fell between its steps ("Rapid menu / settings cycling must not
\* build a backlog", backend.cpp:81; speak, stop, worker_loop).
SaysTheLast ==
  /\ \A i \in DOMAIN tts.queue : tts.queue[i].do = "speak" => tts.queue[i].n = wanted
  /\ tts.queue = <<>> /\ tts.cmd = NoCommand => saying \in {0, wanted}

\* Text reaches the app only while its take is open or the key that ends it is
\* still being handled: nothing of a take turns up later, in another screen or a
\* later take (stop_capture joins, backend.cpp:454-460).
DeliversOpenTake == [][given' # given => mic.active \/ mic.joining]_given
===============================================================================
