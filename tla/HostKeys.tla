------------------------------- MODULE HostKeys -------------------------------
(***************************************************************************)
(* From the keys of the bench and web keyboards to chords and key states       *)
(* (daemon-dietpi/src/keyboard: evdev_input.cpp, keyboard_service.cpp           *)
(* poll_evdev and rescan_evdev_devices, key_debouncer.cpp,                      *)
(* host_chord_assembler.cpp, chord_engine.cpp).                               *)
(*                                                                         *)
(* One poll of the keys is one tick of the clock; a rescan comes before some of  *)
(* them.  A key is a dot or a control.  A press and its release between two       *)
(* polls leave no trace, as in the code.                                      *)
(***************************************************************************)
EXTENDS ConnectCalls, FiniteSets

CONSTANTS
  Boards,     \* input devices
  Dots,       \* dot keys of the model
  Controls,   \* control keys of the model
  Debounce,   \* kDebounceMs, in polls
  ChordLimit  \* kChordHoldTimeoutMs, in polls

AllKeys == Dots \cup Controls

VARIABLES
  plugged,  \* devices that are there
  fingers,  \* keys held down on each device
  readers,  \* evdevs_
  lost,     \* those whose thread has ended
  states,   \* evdev_device_states_
  bounce,   \* KeyDebouncer: debounced_state_, integrator_
  prev,     \* evdev_previous_debounced_state_
  chord,    \* HostChordAssembler: previous_state_, chord_accumulator_, chord_active_, age
  engine,   \* ChordEngine::current_state_, which is last_matrix_state_
  out,      \* what the last poll gave on: a chord, the control edges
  dotted    \* history: dots pressed, as debounced, that no chord has held yet

hostVars == <<plugged, fingers, readers, lost, states, bounce, prev, chord, engine, out, dotted>>

NoChord == [prev |-> {}, dots |-> {}, active |-> FALSE, age |-> 0]

HostInit ==
  /\ plugged = {} /\ readers = {} /\ lost = {}
  /\ fingers = [b \in Boards |-> {}] /\ states = [b \in Boards |-> {}]
  /\ bounce = [down |-> {}, count |-> [k \in AllKeys |-> 0]] /\ prev = {}
  /\ chord = NoChord /\ engine = {} /\ out = [chord |-> {}, edges |-> {}]
  /\ dotted = {}

HostKept == UNCHANGED <<registry, daemon, sound, crashes>>

-----------------------------------------------------------------------------
(* The devices                                                             *)

\* A device comes, or goes with its keys: its reader's thread ends.
Plug ==
  /\ Key /\ \E b \in Boards \ plugged : plugged' = plugged \cup {b}
  /\ UNCHANGED <<fingers, readers, lost, states, bounce, prev, chord, engine, out, dotted>>
  /\ HostKept
Unplug ==
  /\ Key
  /\ \E b \in plugged :
       /\ plugged' = plugged \ {b} /\ fingers' = [fingers EXCEPT ![b] = {}]
       /\ lost' = lost \cup (readers \cap {b})
  /\ UNCHANGED <<readers, states, bounce, prev, chord, engine, out, dotted>>
  /\ HostKept

\* A key goes down or up; a device that is read has the event drained by the next
\* poll, so its state is what was held last.
Finger ==
  /\ Key
  /\ \E b \in plugged, k \in AllKeys :
       LET now == (fingers[b] \cup {k}) \ (fingers[b] \cap {k})
       IN /\ fingers' = [fingers EXCEPT ![b] = now]
          /\ states' = IF b \notin readers \ lost THEN states
                       ELSE [states EXCEPT ![b] = IF k \in now THEN @ \cup {k} ELSE @ \ {k}]
  /\ UNCHANGED <<plugged, readers, lost, bounce, prev, chord, engine, out, dotted>>
  /\ HostKept

-----------------------------------------------------------------------------
(* KeyDebouncer::poll, one tick after the last                              *)

Lesser(a, b) == IF a < b THEN a ELSE b

Bounced(raw) ==
  LET count(k) ==
        CASE k \in raw /\ k \notin bounce.down -> Lesser(bounce.count[k] + 1, Debounce)
          [] k \notin raw /\ k \in bounce.down ->
               IF bounce.count[k] = 0 THEN 0 ELSE bounce.count[k] - 1
          [] k \in raw /\ k \in bounce.down -> Debounce
          [] OTHER -> 0
  IN [down |-> {k \in AllKeys : IF k \in raw THEN k \in bounce.down \/ count(k) = Debounce
                                             ELSE k \in bounce.down /\ count(k) # 0},
      count |-> [k \in AllKeys |-> count(k)]]

-----------------------------------------------------------------------------
(* HostChordAssembler::update                                              *)

\* Only the dots that went down are kept.
Gathered_Pressed(c, down) ==
  LET fresh == (down \ c.prev) \cap Dots
  IN IF fresh = {} THEN c
     ELSE [c EXCEPT !.dots = fresh, !.active = TRUE, !.age = IF c.active THEN @ ELSE 0]
\* A dot that goes down begins a chord or joins it, with all dots held.
Gathered(c, down) ==
  LET fresh == (down \ c.prev) \cap Dots
  IN IF fresh = {} THEN c
     ELSE [c EXCEPT !.dots = @ \cup (down \cap Dots), !.active = TRUE,
                    !.age = IF c.active THEN @ ELSE 0]

Released(c, down) == c.active /\ down \cap Dots = {}
Overdue(c) == c.active /\ c.age >= ChordLimit

\* ChordEngine: what changed among the controls
ControlEdges(old, new) ==
  {[key |-> k, pressed |-> k \in new] : k \in ((old \cup new) \ (old \cap new)) \cap Controls}

\* rescan_evdev_devices: any change of the devices forgets every key, but not what
\* the engine was told.  The history forgets with it.
Rescan ==
  /\ lost # {} \/ plugged # readers
  /\ readers' = plugged /\ lost' = {}
  /\ states' = [b \in Boards |-> {}] /\ prev' = {} /\ chord' = NoChord /\ dotted' = {}
  /\ UNCHANGED <<plugged, fingers, bounce, engine, out, keys>> /\ HostKept

\* poll_evdev; the age of a chord is compared after the dots were gathered.
PollEvdev ==
  /\ readers # {}
  /\ LET down == Bounced(UNION {states[b] : b \in readers}).down
         moved == down # bounce.down /\ down # prev
         c == IF moved THEN [Gathered(chord, down) EXCEPT !.prev = down] ELSE chord
         ends == (moved /\ Released(c, down)) \/ Overdue(c)
         fresh == IF moved THEN (down \ chord.prev) \cap Dots ELSE {}
         tells == moved /\ ControlEdges(chord.prev, down) # {}
     IN /\ bounce' = Bounced(UNION {states[b] : b \in readers})
        /\ prev' = IF moved THEN down ELSE prev
        /\ chord' = IF ends THEN [NoChord EXCEPT !.prev = c.prev]
                    ELSE [c EXCEPT !.age = IF c.active THEN @ + 1 ELSE 0]
        /\ engine' = IF tells THEN down ELSE engine
        /\ out' = [chord |-> IF ends THEN c.dots ELSE {},
                   edges |-> IF tells THEN ControlEdges(engine, down) ELSE {}]
        /\ dotted' = (dotted \cup fresh) \ (IF ends THEN c.dots ELSE {})
  /\ UNCHANGED <<plugged, fingers, readers, lost, states, keys>> /\ HostKept

HostStep == Plug \/ Unplug \/ Finger \/ Rescan \/ PollEvdev
HostSpec == HostInit /\ [][HostStep]_hostVars

-----------------------------------------------------------------------------
(* Properties                                                              *)

\* Each dot that goes down is in the next chord, whichever way the keys overlap and
\* whether the chord ends with the last release or by the time limit on a stuck key;
\* between chords none is left over (update, commit_chord).  The dots that a change
\* of the devices forgot are not counted.
ChordsComplete ==
  /\ dotted \subseteq chord.dots
  /\ ~chord.active => dotted = {}
===============================================================================
