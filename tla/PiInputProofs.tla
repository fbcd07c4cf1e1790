---------------------------- MODULE PiInputProofs -----------------------------
(***************************************************************************)
(* From the keys to the apps, for every keyboard, launcher and time limit: no  *)
(* dot is lost between a key and its chord, speech says what was asked for      *)
(* last, a dictation gives its words to its own take, and the shell pairs       *)
(* on_enter with on_exit and keeps a pending word in its visit.                 *)
(***************************************************************************)
EXTENDS HostKeys, SpeechKeys, PiShell, RecursionProofs, SequenceTheorems, TLAPS

-----------------------------------------------------------------------------
(* The keys.                                                               *)

\* The dots that went down and are in no chord yet are in the one that is open.
HostInv ==
  /\ chord = [prev |-> chord.prev, dots |-> chord.dots, active |-> chord.active,
              age |-> chord.age]
  /\ ChordsComplete

\* A poll: the dots that go down join the chord before it may end.
LEMMA PollKeeps == ASSUME HostInv, PollEvdev PROVE HostInv'
<1> DEFINE down == Bounced(UNION {states[b] : b \in readers}).down
           moved == down # bounce.down /\ down # prev
           c == IF moved THEN [Gathered(chord, down) EXCEPT !.prev = down] ELSE chord
           ends == (moved /\ Released(c, down)) \/ Overdue(c)
           fresh == IF moved THEN (down \ chord.prev) \cap Dots ELSE {}
<1>1. /\ chord' = IF ends THEN [NoChord EXCEPT !.prev = c.prev]
                  ELSE [c EXCEPT !.age = IF c.active THEN @ + 1 ELSE 0]
      /\ dotted' = (dotted \cup fresh) \ (IF ends THEN c.dots ELSE {})
  BY DEF PollEvdev
<1> HIDE DEF down
<1>2. CASE fresh = {}
  <2>1. c.dots = chord.dots /\ c.active = chord.active
    BY <1>2 DEF Gathered, HostInv
  <2>2. c = [prev |-> c.prev, dots |-> c.dots, active |-> c.active, age |-> c.age]
    BY <1>2 DEF Gathered, HostInv
  <2> HIDE DEF c, fresh, ends
  <2>3. CASE ends
    BY <1>1, <1>2, <2>1, <2>3 DEF HostInv, ChordsComplete, NoChord
  <2>4. CASE ~ends
    BY <1>1, <1>2, <2>1, <2>2, <2>4 DEF HostInv, ChordsComplete
  <2>5. QED
    BY <2>3, <2>4
<1>3. CASE fresh # {}
  <2>1. moved /\ fresh = (down \ chord.prev) \cap Dots
    BY <1>3
  <2>2. c.dots = chord.dots \cup (down \cap Dots) /\ c.active = TRUE
    BY <1>3, <2>1 DEF Gathered, HostInv
  <2>3. c = [prev |-> c.prev, dots |-> c.dots, active |-> c.active, age |-> c.age]
    BY <1>3, <2>1 DEF Gathered, HostInv
  <2>4. dotted \cup fresh \subseteq c.dots
    BY <2>1, <2>2 DEF HostInv, ChordsComplete
  <2> HIDE DEF c, fresh, ends
  <2>5. CASE ends
    BY <1>1, <2>4, <2>5 DEF HostInv, ChordsComplete, NoChord
  <2>6. CASE ~ends
    BY <1>1, <2>2, <2>3, <2>4, <2>6 DEF HostInv, ChordsComplete
  <2>7. QED
    BY <2>5, <2>6
<1>4. QED
  BY <1>2, <1>3

\* However keys overlap, bounce or stick, a dot that went down is in the chord that is
\* open, until that chord is given on with it or a change of devices forgets both
\* (host_chord_assembler.cpp, update, commit_chord and reset).
THEOREM ChordsAreComplete == HostSpec => []ChordsComplete
<1>1. HostInit => HostInv
  BY DEF HostInit, HostInv, ChordsComplete, NoChord
<1>2. HostInv /\ [HostStep]_hostVars => HostInv'
  <2> SUFFICES ASSUME HostInv, [HostStep]_hostVars PROVE HostInv'
    OBVIOUS
  <2>1. CASE PollEvdev
    BY <2>1, PollKeeps
  <2>2. CASE Rescan
    BY <2>2 DEF Rescan, HostInv, ChordsComplete, NoChord
  <2>3. CASE UNCHANGED <<chord, dotted>>
    BY <2>3 DEF HostInv, ChordsComplete
  <2>4. QED
    BY <2>1, <2>2, <2>3 DEF HostStep, Plug, Unplug, Finger, hostVars
<1>3. HostInv => ChordsComplete
  BY DEF HostInv
<1>4. QED
  BY <1>1, <1>2, <1>3, PTL DEF HostSpec

-----------------------------------------------------------------------------
(* Speech and dictation: what the hub keeps true, key after key.             *)

Commands == [do : {"speak", "stop", "rate"}, n : Nat]
Talkers == [queue : Seq(Commands), cmd : Commands \cup {NoCommand}, connected : BOOLEAN]
Mics == [active : BOOLEAN, suppress : BOOLEAN, open : BOOLEAN, running : BOOLEAN,
         thread : {"none", "loading", "listening", "giving", "closing", "ended"},
         joining : BOOLEAN]
Hubs(M, P) ==
  [shift : [down : BOOLEAN, fired : BOOLEAN, ticks : Nat], muted : BOOLEAN, mic : Mics,
   tts : Talkers, saying : Nat, wanted : Nat, asked : Nat, media : M, player : P]

\* Capture is open as long as the take is, and its thread never outlives both the
\* take and the join that follows it.
TakeInv(m) ==
  /\ m.open = m.active
  /\ m.thread # "none" => m.open \/ m.joining

\* An utterance nobody wants any longer, said or about to be, has a stop behind it.
StopWaits(queue) == \E i \in 1..Len(queue) : queue[i].do = "stop"
TalkInv(t, said, last) ==
  /\ \A i \in 1..Len(t.queue) : t.queue[i].do = "speak" => t.queue[i].n = last
  /\ said # 0 => t.connected
  /\ t.cmd.do = "speak" /\ t.cmd.n # last => StopWaits(t.queue)
  /\ said \notin {0, last} => t.cmd.do = "stop" \/ StopWaits(t.queue)

GoodHub(h) ==
  /\ \E M, P : h \in Hubs(M, P)
  /\ TakeInv(h.mic)
  /\ TalkInv(h.tts, h.saying, h.wanted)

-----------------------------------------------------------------------------
(* What NoSpeaks keeps of a queue.                                          *)

Wordless == {c \in Commands : c.do # "speak"}
\* What is erased are the speaks; what is kept are commands.
LEMMA NoSpeaksType ==
  ASSUME NEW queue \in Seq(Commands)
  PROVE  NoSpeaks(queue) \in Seq(Wordless)
<1> DEFINE S == {queue[i] : i \in {j \in DOMAIN queue : queue[j].do # "speak"}}
<1>1. \A c \in Commands \cap S : c \in Wordless
  BY DEF Wordless
<1>2. NoSpeaks(queue) = Among(queue, S)
  BY DEF NoSpeaks
<1> HIDE DEF S
<1>3. Among(queue, S) \in Seq(Commands \cap S)
  BY AmongProperties
<1> QED BY <1>1, <1>2, <1>3

-----------------------------------------------------------------------------
(* The hub's operations.                                                   *)

LEMMA StopTypes == Stop \in Commands /\ Stop.do = "stop"
                   /\ \A n \in Nat : Speak(n) \in Commands /\ Speak(n).do = "speak"
                                     /\ Speak(n).n = n
BY DEF Stop, Speak, Commands

\* A queue without speaks and a stop behind it suits any utterance, or none.
LEMMA StoppedQueue ==
  ASSUME NEW q \in Seq(Commands)
  PROVE  /\ Append(NoSpeaks(q), Stop) \in Seq(Commands)
         /\ StopWaits(Append(NoSpeaks(q), Stop))
         /\ \A i \in 1..Len(Append(NoSpeaks(q), Stop)) :
              Append(NoSpeaks(q), Stop)[i].do # "speak"
<1> DEFINE k == NoSpeaks(q)
<1>1. k \in Seq(Wordless)
  BY NoSpeaksType
<1> HIDE DEF k
<1>2. k \in Seq(Commands) /\ \A i \in 1..Len(k) : k[i].do # "speak"
  BY <1>1 DEF Wordless
<1>3. /\ Len(Append(k, Stop)) = Len(k) + 1
      /\ Append(k, Stop)[Len(k) + 1] = Stop
      /\ \A i \in 1..(Len(k) + 1) : i # Len(k) + 1 => i \in 1..Len(k) /\ Append(k, Stop)[i] = k[i]
  BY <1>2
<1>4. Append(k, Stop) \in Seq(Commands)
  BY <1>2, StopTypes
<1>5. Len(k) + 1 \in 1..Len(Append(k, Stop))
  BY <1>2, <1>3
<1>6. StopWaits(Append(k, Stop))
  BY <1>3, <1>5, StopTypes DEF StopWaits
<1>7. \A i \in 1..Len(Append(k, Stop)) : Append(k, Stop)[i].do # "speak"
  BY <1>2, <1>3, StopTypes
<1> QED BY <1>4, <1>6, <1>7 DEF k

LEMMA SpokenQueue ==
  ASSUME NEW q \in Seq(Commands), NEW n \in Nat
  PROVE  /\ NoSpeaks(q) \o <<Stop, Speak(n)>> \in Seq(Commands)
         /\ StopWaits(NoSpeaks(q) \o <<Stop, Speak(n)>>)
         /\ \A i \in 1..Len(NoSpeaks(q) \o <<Stop, Speak(n)>>) :
              (NoSpeaks(q) \o <<Stop, Speak(n)>>)[i].do = "speak"
                => (NoSpeaks(q) \o <<Stop, Speak(n)>>)[i].n = n
<1> DEFINE k == NoSpeaks(q)
<1>1. k \in Seq(Wordless)
  BY NoSpeaksType
<1> HIDE DEF k
<1>2. k \in Seq(Commands) /\ \A i \in 1..Len(k) : k[i].do # "speak"
  BY <1>1 DEF Wordless
<1>a. PICK a : a = Stop
  OBVIOUS
<1>b. PICK b : b = Speak(n)
  OBVIOUS
<1>t. a \in Commands /\ b \in Commands /\ a.do = "stop" /\ b.n = n
  BY <1>a, <1>b, StopTypes
<1> DEFINE s == k \o <<a, b>>
<1>3. /\ s \in Seq(Commands) /\ Len(s) = Len(k) + 2
      /\ s[Len(k) + 1] = a /\ s[Len(k) + 2] = b
      /\ \A i \in 1..Len(k) : s[i] = k[i]
  BY <1>2, <1>t
<1> HIDE DEF s
<1>4. Len(k) + 1 \in 1..Len(s)
  BY <1>2, <1>3
<1>5. StopWaits(s)
  BY <1>3, <1>4, <1>t DEF StopWaits
<1>6. \A i \in 1..Len(s) : i \in 1..Len(k) \/ i = Len(k) + 1 \/ i = Len(k) + 2
  BY <1>2, <1>3
<1>7. \A i \in 1..Len(s) : s[i].do = "speak" => s[i].n = n
  BY <1>2, <1>3, <1>6, <1>t
<1> QED BY <1>3, <1>5, <1>7, <1>a, <1>b DEF s, k

LEMMA GoodStopped ==
  ASSUME NEW h, GoodHub(h) PROVE GoodHub(Stopped(h)) /\ Stopped(h).mic = h.mic
<1>1. PICK M, P : h \in Hubs(M, P)
  BY DEF GoodHub
<1>2. PICK q \in Seq(Commands) : q = Append(NoSpeaks(h.tts.queue), Stop)
  BY <1>1, StoppedQueue DEF Hubs, Talkers
<1>3. StopWaits(q) /\ \A i \in 1..Len(q) : q[i].do # "speak"
  BY <1>1, <1>2, StoppedQueue DEF Hubs, Talkers
<1>n. PICK n \in Nat : n = 0
  OBVIOUS
<1>4. Stopped(h) = [h EXCEPT !.tts.queue = q, !.wanted = n]
  BY <1>n, <1>2 DEF Stopped
<1>5. /\ Stopped(h) \in Hubs(M, P) /\ Stopped(h).mic = h.mic
      /\ Stopped(h).tts.queue = q /\ Stopped(h).tts.cmd = h.tts.cmd
      /\ Stopped(h).tts.connected = h.tts.connected
      /\ Stopped(h).saying = h.saying /\ Stopped(h).wanted = n
  BY <1>1, <1>4, ZenonT(30) DEF Hubs, Talkers
<1> QED BY <1>3, <1>5 DEF GoodHub, TalkInv

LEMMA GoodSpoken ==
  ASSUME NEW h, GoodHub(h) PROVE GoodHub(Spoken(h)) /\ Spoken(h).mic = h.mic
<1>1. PICK M, P : h \in Hubs(M, P)
  BY DEF GoodHub
<1>n. PICK n \in Nat : n = h.asked + 1
  BY <1>1 DEF Hubs
<1>2. PICK q \in Seq(Commands) : q = NoSpeaks(h.tts.queue) \o <<Stop, Speak(n)>>
  BY <1>1, SpokenQueue DEF Hubs, Talkers
<1>3. StopWaits(q) /\ \A i \in 1..Len(q) : q[i].do = "speak" => q[i].n = n
  BY <1>1, <1>2, SpokenQueue DEF Hubs, Talkers
<1>4. Spoken(h) = [h EXCEPT !.tts.queue = q, !.wanted = n, !.asked = n]
  BY <1>n, <1>2 DEF Spoken
<1>5. /\ Spoken(h) \in Hubs(M, P) /\ Spoken(h).mic = h.mic
      /\ Spoken(h).tts.queue = q /\ Spoken(h).tts.cmd = h.tts.cmd
      /\ Spoken(h).tts.connected = h.tts.connected
      /\ Spoken(h).saying = h.saying /\ Spoken(h).wanted = n
  BY <1>1, <1>4, ZenonT(30) DEF Hubs, Talkers
<1> QED BY <1>3, <1>5 DEF GoodHub, TalkInv

LEMMA GoodEmitted ==
  ASSUME NEW h, GoodHub(h) PROVE GoodHub(Emitted(h)) /\ Emitted(h).mic = h.mic
BY GoodSpoken DEF Emitted

LEMMA GoodStopsCapture ==
  ASSUME NEW m \in Mics, m.thread # "none" => m.open \/ m.joining, ~m.active
  PROVE  StopsCapture(m) \in Mics /\ TakeInv(StopsCapture(m))
<1>1. CASE m.open
  <2>1. PICK b \in BOOLEAN : b = (m.thread # "none")
    OBVIOUS
  <2>2. StopsCapture(m) = [m EXCEPT !.open = FALSE, !.running = FALSE, !.joining = b]
    BY <1>1, <2>1 DEF StopsCapture
  <2>3. /\ StopsCapture(m) \in Mics
        /\ StopsCapture(m).open = FALSE /\ StopsCapture(m).active = m.active
        /\ StopsCapture(m).thread = m.thread /\ StopsCapture(m).joining = b
    BY <2>2 DEF Mics
  <2>4. m.active = FALSE
    BY DEF Mics
  <2>5. TakeInv(StopsCapture(m))
    BY <2>1, <2>3, <2>4 DEF TakeInv
  <2> QED BY <1>1, <2>3, <2>5
<1>2. CASE ~m.open
  BY <1>2 DEF StopsCapture, TakeInv, Mics
<1> QED BY <1>1, <1>2

\* An end of the take, by cancel or by the key: the app gets what it is given
\* while the thread is joined, and nothing after.
LEMMA GoodCancel ==
  ASSUME NEW h, GoodHub(h) PROVE GoodHub(CancelTake(h))
<1>1. PICK M, P : h \in Hubs(M, P)
  BY DEF GoodHub
<1>2. CASE ~h.mic.active
  BY <1>2 DEF CancelTake
<1>3. CASE h.mic.active
  <2> DEFINE e == [h.mic EXCEPT !.suppress = TRUE, !.active = FALSE]
  <2>1. /\ e \in Mics /\ e.open = h.mic.open /\ e.thread = h.mic.thread
        /\ e.joining = h.mic.joining /\ ~e.active
    BY <1>1 DEF Hubs, Mics
  <2> HIDE DEF e
  <2>2. PICK m \in Mics : m = StopsCapture(e) /\ TakeInv(m)
    BY <2>1, GoodStopsCapture DEF GoodHub, TakeInv, Mics
  <2>3. CancelTake(h) = [h EXCEPT !.mic = m]
    BY <1>3, <2>2 DEF CancelTake, e
  <2>4. CancelTake(h) \in Hubs(M, P) /\ CancelTake(h).mic = m /\ CancelTake(h).tts = h.tts
        /\ CancelTake(h).saying = h.saying /\ CancelTake(h).wanted = h.wanted
    BY <1>1, <2>3 DEF Hubs
  <2> QED BY <2>2, <2>4 DEF GoodHub
<1> QED BY <1>2, <1>3

LEMMA GoodGateOpens ==
  ASSUME NEW h, GoodHub(h), ~h.mic.joining PROVE GoodHub(SpeechGate(h, TRUE))
<1>1. PICK M, P : h \in Hubs(M, P)
  BY DEF GoodHub
<1> DEFINE e == [h.mic EXCEPT !.suppress = FALSE, !.active = TRUE]
<1>2. /\ e \in Mics /\ e.open = h.mic.open /\ e.thread = h.mic.thread
      /\ e.joining = FALSE /\ e.active = TRUE
  BY <1>1 DEF Hubs, Mics
<1> HIDE DEF e
<1>3. Captures(e) \in Mics /\ TakeInv(Captures(e))
  <2>1. CASE e.open
    BY <1>2, <2>1 DEF Captures, TakeInv, Mics
  <2>2. CASE ~e.open /\ e.running
    BY <1>2, <2>2 DEF Captures, TakeInv, Mics
  <2>3. CASE ~e.open /\ ~e.running
    BY <1>2, <2>3 DEF Captures, TakeInv, Mics
  <2> QED BY <2>1, <2>2, <2>3
<1>4. PICK m \in Mics : m = Captures(e) /\ TakeInv(m)
  BY <1>3
<1> DEFINE g == [h EXCEPT !.mic = m]
<1>5. g \in Hubs(M, P) /\ g.mic = m /\ g.tts = h.tts /\ g.saying = h.saying
      /\ g.wanted = h.wanted
  BY <1>1 DEF Hubs
<1>6. SpeechGate(h, TRUE) = Emitted(g)
  BY <1>4 DEF SpeechGate, e
<1> HIDE DEF g
<1>7. GoodHub(g)
  BY <1>4, <1>5 DEF GoodHub
<1> QED BY <1>6, <1>7, GoodEmitted

LEMMA GoodGateCloses ==
  ASSUME NEW h, GoodHub(h) PROVE GoodHub(SpeechGate(h, FALSE))
<1>1. PICK M, P : h \in Hubs(M, P)
  BY DEF GoodHub
<1> DEFINE e == [h.mic EXCEPT !.active = FALSE]
<1>2. /\ e \in Mics /\ e.open = h.mic.open /\ e.thread = h.mic.thread
      /\ e.joining = h.mic.joining /\ ~e.active
  BY <1>1 DEF Hubs, Mics
<1> HIDE DEF e
<1>3. PICK m \in Mics : m = StopsCapture(e) /\ TakeInv(m)
  BY <1>2, GoodStopsCapture DEF GoodHub, TakeInv, Mics
<1>4. SpeechGate(h, FALSE) = [h EXCEPT !.mic = m]
  BY <1>3 DEF SpeechGate, e
<1>5. /\ SpeechGate(h, FALSE) \in Hubs(M, P) /\ SpeechGate(h, FALSE).mic = m
      /\ SpeechGate(h, FALSE).tts = h.tts /\ SpeechGate(h, FALSE).saying = h.saying
      /\ SpeechGate(h, FALSE).wanted = h.wanted
  BY <1>1, <1>4 DEF Hubs
<1> QED BY <1>3, <1>5 DEF GoodHub

\* A hub that differs in nothing of speech and dictation.
LEMMA GoodSame ==
  ASSUME NEW h, GoodHub(h), NEW g, NEW M, NEW P, g \in Hubs(M, P),
         g.mic = h.mic, g.tts = h.tts, g.saying = h.saying, g.wanted = h.wanted
  PROVE  GoodHub(g)
BY DEF GoodHub

LEMMA GoodShift ==
  ASSUME NEW h, GoodHub(h), NEW pressed \in BOOLEAN
  PROVE  GoodHub(ShiftToggle(h, pressed)) /\ ShiftToggle(h, pressed).mic = h.mic
<1>1. PICK M, P : h \in Hubs(M, P)
  BY DEF GoodHub
<1>2. CASE h.media.playing
  <2>1. CASE pressed = h.media.shift
    BY <1>2, <2>1 DEF ShiftToggle, ShiftOverMedia
  <2>2. CASE pressed # h.media.shift
    <3>1. PICK md : md = [h.media EXCEPT !.shift = pressed, !.paused = pressed]
      OBVIOUS
    <3>2. PICK pl : pl = IF up THEN SetPaused(h.player, pressed) ELSE h.player
      OBVIOUS
    <3> DEFINE g == [h EXCEPT !.media = md, !.player = pl]
    <3>3. g = [h EXCEPT !.media.shift = pressed, !.media.paused = pressed,
                        !.player = IF up THEN SetPaused(@, pressed) ELSE @]
      BY <1>1, <3>1, <3>2 DEF Hubs
    <3>4. g \in Hubs({md}, {pl}) /\ g.mic = h.mic /\ g.tts = h.tts
          /\ g.saying = h.saying /\ g.wanted = h.wanted
      BY <1>1 DEF Hubs
    <3>5. ShiftToggle(h, pressed) = Emitted(g)
      BY <1>2, <2>2, <3>3 DEF ShiftToggle, ShiftOverMedia
    <3> HIDE DEF g
    <3>6. GoodHub(g)
      BY <3>4, GoodSame
    <3> QED BY <3>4, <3>5, <3>6, GoodEmitted
  <2> QED BY <2>1, <2>2
<1>3. CASE ~h.media.playing /\ pressed
  <2> DEFINE g == [h EXCEPT !.shift = [down |-> TRUE, fired |-> FALSE, ticks |-> 0]]
  <2>1. g \in Hubs(M, P) /\ g.mic = h.mic /\ g.tts = h.tts /\ g.saying = h.saying
        /\ g.wanted = h.wanted
    BY <1>1 DEF Hubs
  <2>2. ShiftToggle(h, pressed) = g
    BY <1>3 DEF ShiftToggle
  <2> HIDE DEF g
  <2> QED BY <2>1, <2>2, GoodSame
<1>4. CASE ~h.media.playing /\ ~pressed
  <2> DEFINE g == [h EXCEPT !.shift.down = FALSE]
  <2>1. g \in Hubs(M, P) /\ g.mic = h.mic /\ g.tts = h.tts /\ g.saying = h.saying
        /\ g.wanted = h.wanted
    BY <1>1 DEF Hubs
  <2>2. ShiftToggle(h, pressed) = IF g.shift.fired THEN g ELSE Stopped(g)
    BY <1>4 DEF ShiftToggle, ShiftTap
  <2> HIDE DEF g
  <2>3. GoodHub(g)
    BY <2>1, GoodSame
  <2> QED BY <2>1, <2>2, <2>3, GoodStopped
<1> QED BY <1>2, <1>3, <1>4

LEMMA GoodShiftTick ==
  ASSUME NEW h, GoodHub(h)
  PROVE  GoodHub(ShiftTick(h)) /\ ShiftTick(h).mic = h.mic
<1>1. PICK M, P : h \in Hubs(M, P)
  BY DEF GoodHub
<1> DEFINE g == [h EXCEPT !.shift.fired = TRUE]
<1>2. g \in Hubs(M, P) /\ g.mic = h.mic /\ g.tts = h.tts /\ g.saying = h.saying
      /\ g.wanted = h.wanted
  BY <1>1 DEF Hubs
<1>3. ShiftTick(h) = h \/ ShiftTick(h) = g \/ ShiftTick(h) = MuteToggled(g)
  BY DEF ShiftTick
<1> HIDE DEF g
<1>4. GoodHub(g)
  BY <1>2, GoodSame
<1>5. GoodHub(MuteToggled(g)) /\ MuteToggled(g).mic = g.mic
  <2>1. ASSUME NEW b \in BOOLEAN
        PROVE  GoodHub([g EXCEPT !.muted = b]) /\ [g EXCEPT !.muted = b].mic = g.mic
    <3> DEFINE k == [g EXCEPT !.muted = b]
    <3>1. k \in Hubs(M, P) /\ k.mic = g.mic /\ k.tts = g.tts /\ k.saying = g.saying
          /\ k.wanted = g.wanted
      BY <1>2 DEF Hubs
    <3> HIDE DEF k
    <3>2. GoodHub(k) /\ k.mic = g.mic
      BY <1>4, <3>1, GoodSame
    <3> QED BY <3>2 DEF k
  <2> DEFINE u == [g EXCEPT !.muted = FALSE]
             v == [g EXCEPT !.muted = TRUE]
  <2>2. GoodHub(u) /\ u.mic = g.mic /\ GoodHub(v) /\ v.mic = g.mic
    BY <2>1
  <2>3. MuteToggled(g) = Emitted(u) \/ MuteToggled(g) = Spoken(Stopped(v))
    BY DEF MuteToggled
  <2> HIDE DEF u, v
  <2> QED BY <2>2, <2>3, GoodEmitted, GoodStopped, GoodSpoken
<1> QED BY <1>2, <1>3, <1>4, <1>5

\* An edge of Speech that opens a take must find nothing to join.
LEMMA GoodEdge ==
  ASSUME NEW h, GoodHub(h), NEW k, NEW down,
         k = "speech" /\ "speech" \in down /\ ~Swallowed(k, down) => ~h.mic.joining
  PROVE  /\ GoodHub(ControlEdge(h, k, down))
         /\ k = "shift" /\ "shift" \notin down => ControlEdge(h, k, down).mic = h.mic
<1>b. (k \in down) \in BOOLEAN
  OBVIOUS
<1>1. PICK p \in BOOLEAN : p = (k \in down)
  BY <1>b, Zenon
<1>2. PICK c : c = IF p /\ k # "speech" THEN CancelTake(h) ELSE h
  OBVIOUS
<1>3. GoodHub(c) /\ (~p \/ k = "speech" => c = h)
  BY <1>2, GoodCancel
<1>4. ControlEdge(h, k, down) =
        IF Swallowed(k, down) THEN h
        ELSE CASE k = "shift" -> ShiftToggle(c, p)
               [] k = "speech" -> SpeechGate(c, p)
               [] OTHER -> c
  BY <1>1, <1>2 DEF ControlEdge
<1>5. CASE Swallowed(k, down)
  BY <1>4, <1>5
<1>6. CASE ~Swallowed(k, down) /\ k = "shift"
  BY <1>1, <1>3, <1>4, <1>6, GoodShift
<1>7. CASE ~Swallowed(k, down) /\ k = "speech"
  <2>1. ControlEdge(h, k, down) = SpeechGate(h, p)
    BY <1>3, <1>4, <1>7
  <2>2. CASE p
    BY <1>1, <1>7, <2>1, <2>2, GoodGateOpens
  <2>3. CASE ~p
    BY <1>7, <2>1, <2>3, GoodGateCloses
  <2> QED BY <2>2, <2>3
<1>8. CASE ~Swallowed(k, down) /\ k # "shift" /\ k # "speech"
  BY <1>3, <1>4, <1>8
<1> QED BY <1>5, <1>6, <1>7, <1>8

\* The edges of a frame: Speech goes down unswallowed only when nothing before it in
\* the frame has ended a take.
LEMMA GoodEdges ==
  ASSUME NEW h, GoodHub(h), NEW down, ~(RebootPair \subseteq down) => ~h.mic.joining,
         NEW changed \in {UiPair, RebootPair} \cup {{k} : k \in UiPair \cup RebootPair}
  PROVE  GoodHub(Edges(h, down, changed))
<1> DEFINE E(s, k) == IF k \in changed THEN ControlEdge(s, k, down) ELSE s
<1> DEFINE a == E(h, "backspace")
           b == E(a, "enter")
           c == E(b, "shift")
<1>1. Edges(h, down, changed) = E(c, "speech")
  BY DEF Edges
<1>2. GoodHub(a) /\ ("backspace" \notin changed => a = h)
  BY GoodEdge
<1> HIDE DEF a
<1>3. GoodHub(b) /\ ("enter" \notin changed => b = a)
  BY <1>2, GoodEdge
<1> HIDE DEF b
<1>4. GoodHub(c) /\ ("shift" \notin changed \/ "shift" \notin down => c.mic = b.mic)
  BY <1>3, GoodEdge
<1> HIDE DEF c
<1>5. "speech" \in changed => "backspace" \notin changed /\ "enter" \notin changed
  BY DEF UiPair, RebootPair
<1>6. "speech" \in down /\ ~Swallowed("speech", down) =>
        "shift" \notin down /\ ~(RebootPair \subseteq down)
  BY DEF Swallowed, RebootPair
<1>7. "speech" \in changed /\ "speech" \in down /\ ~Swallowed("speech", down) => ~c.mic.joining
  BY <1>2, <1>3, <1>4, <1>5, <1>6
<1>8. GoodHub(E(c, "speech"))
  BY <1>4, <1>7, GoodEdge
<1> QED BY <1>1, <1>8

-----------------------------------------------------------------------------
(* The steps.                                                              *)

\* GoodHub(Hub0), said of the variables.
SpeechOK ==
  /\ shift \in [down : BOOLEAN, fired : BOOLEAN, ticks : Nat] /\ muted \in BOOLEAN
  /\ mic \in Mics /\ tts \in Talkers
  /\ saying \in Nat /\ wanted \in Nat /\ asked \in Nat
  /\ TakeInv(mic) /\ TalkInv(tts, saying, wanted)

LEMMA HubIsGood ==
  ASSUME SpeechOK PROVE Hub0 \in Hubs({media}, {player}) /\ GoodHub(Hub0) /\ Hub0.mic = mic
<1>1. /\ Hub0 \in Hubs({media}, {player}) /\ Hub0.mic = mic /\ Hub0.tts = tts
      /\ Hub0.saying = saying /\ Hub0.wanted = wanted
  BY DEF SpeechOK, Hub0, Hubs
<1> QED BY <1>1 DEF SpeechOK, GoodHub

LEMMA BecomesOK ==
  ASSUME NEW h, GoodHub(h), Becomes(h) PROVE SpeechOK'
<1>1. PICK M, P : h \in Hubs(M, P)
  BY DEF GoodHub
<1> QED BY <1>1 DEF Hubs, GoodHub, Becomes, SpeechOK

LEMMA HubSteps ==
  ASSUME SpeechOK, KeyState \/ DotChord \/ SpeechTick \/ Announce PROVE SpeechOK'
<1>1. CASE KeyState
  <2>1. PICK changed \in {UiPair, RebootPair} \cup {{k} : k \in UiPair \cup RebootPair} :
          LET down == (held \ changed) \cup (changed \ held)
              begins == combo.reboot = 0 /\ RebootPair \subseteq down
              h == IF begins THEN CancelTake(Hub0) ELSE Hub0
          IN  Becomes(Edges(h, down, changed))
    BY <1>1 DEF KeyState
  <2> DEFINE down == (held \ changed) \cup (changed \ held)
             h == IF combo.reboot = 0 /\ RebootPair \subseteq down THEN CancelTake(Hub0) ELSE Hub0
  <2>2. GoodHub(h) /\ (~(RebootPair \subseteq down) => ~h.mic.joining)
    BY <1>1, HubIsGood, GoodCancel DEF KeyState, UiThread
  <2>3. Becomes(Edges(h, down, changed))
    BY <2>1
  <2> HIDE DEF h, down
  <2> QED BY <2>2, <2>3, GoodEdges, BecomesOK
<1>2. CASE DotChord
  BY <1>2, HubIsGood, GoodCancel, BecomesOK DEF DotChord
<1>3. CASE SpeechTick
  <2>1. PICK h : /\ h = Hub0 \/ h = Emitted(Hub0)
                 /\ Becomes(ShiftTick([h EXCEPT !.shift.ticks = IF @ < ShiftHold THEN @ + 1 ELSE @]))
    BY <1>3 DEF SpeechTick
  <2>2. GoodHub(h)
    BY <2>1, HubIsGood, GoodEmitted
  <2>3. PICK M, P : h \in Hubs(M, P)
    BY <2>2 DEF GoodHub
  <2>4. PICK n \in Nat : n = IF h.shift.ticks < ShiftHold THEN h.shift.ticks + 1 ELSE h.shift.ticks
    BY <2>3 DEF Hubs
  <2> DEFINE g == [h EXCEPT !.shift.ticks = n]
  <2>5. g \in Hubs(M, P) /\ g.mic = h.mic /\ g.tts = h.tts /\ g.saying = h.saying
        /\ g.wanted = h.wanted
    BY <2>3 DEF Hubs
  <2>6. Becomes(ShiftTick(g))
    BY <2>1, <2>4
  <2> HIDE DEF g
  <2>7. GoodHub(g)
    BY <2>2, <2>5, GoodSame
  <2> QED BY <2>6, <2>7, GoodShiftTick, BecomesOK
<1>4. CASE Announce
  <2>1. \E h \in {Emitted(Hub0), Emitted(Stopped(Hub0))} : Becomes(h)
    BY <1>4 DEF Announce
  <2>2. GoodHub(Emitted(Hub0)) /\ GoodHub(Emitted(Stopped(Hub0)))
    BY HubIsGood, GoodStopped, GoodEmitted
  <2> QED BY <2>1, <2>2, BecomesOK
<1> QED BY <1>1, <1>2, <1>3, <1>4

LEMMA StopStays ==
  ASSUME NEW q \in Seq(Commands), NEW c \in Commands, StopWaits(q)
  PROVE  StopWaits(Append(q, c))
<1>1. PICK i \in 1..Len(q) : q[i].do = "stop"
  BY DEF StopWaits
<1>2. i \in 1..Len(Append(q, c)) /\ Append(q, c)[i] = q[i]
  OBVIOUS
<1> QED BY <1>1, <1>2 DEF StopWaits

\* What the worker takes from the head, and what it leaves.
LEMMA TakesOK ==
  ASSUME SpeechOK, TakesCommand PROVE SpeechOK'
<1> DEFINE q == tts.queue
           c == Head(q)
           r == Tail(q)
<1>1. q \in Seq(Commands) /\ q # <<>> /\ tts.cmd.do = "none" /\ tts.connected \in BOOLEAN
  BY DEF SpeechOK, Talkers, TakesCommand, NoCommand
<1>2. /\ c \in Commands /\ r \in Seq(Commands) /\ c = q[1] /\ 1 \in 1..Len(q)
      /\ \A i \in 1..Len(r) : i + 1 \in 1..Len(q) /\ r[i] = q[i + 1]
      /\ \A i \in 1..Len(q) : i # 1 => i - 1 \in 1..Len(r) /\ r[i - 1] = q[i]
  BY <1>1
<1>3. tts' = [tts EXCEPT !.cmd = c, !.queue = r]
  BY DEF TakesCommand
<1>q. \A i \in 1..Len(q) : q[i].do = "speak" => q[i].n = wanted
  BY DEF SpeechOK, TalkInv
<1>s. saying # 0 => tts.connected
  BY DEF SpeechOK, TalkInv
<1>w. saying \notin {0, wanted} => StopWaits(q)
  BY <1>1 DEF SpeechOK, TalkInv
<1> HIDE DEF q, c, r
<1>4. tts' \in Talkers /\ tts'.cmd = c /\ tts'.queue = r /\ tts'.connected = tts.connected
  BY <1>2, <1>3 DEF SpeechOK, Talkers
<1>5. UNCHANGED <<shift, muted, mic, saying, wanted, asked>>
  BY DEF TakesCommand, WorkerKept, SpeechKept
<1>6. StopWaits(q) => c.do = "stop" \/ StopWaits(r)
  BY <1>2 DEF StopWaits
<1>7. \A i \in 1..Len(r) : r[i].do = "speak" => r[i].n = wanted
  BY <1>2, <1>q
<1>8. c.do = "speak" => c.n = wanted
  BY <1>2, <1>q
<1>9. TalkInv(tts', saying, wanted)
  BY <1>4, <1>6, <1>7, <1>8, <1>s, <1>w DEF TalkInv
<1> QED BY <1>4, <1>5, <1>9 DEF SpeechOK

LEMMA DoesOK ==
  ASSUME SpeechOK, DoesCommand PROVE SpeechOK'
<1>1. PICK reached \in {tts.connected, tts.connected \/ tts.cmd.do # "stop"} :
        /\ tts' = [tts EXCEPT !.cmd = NoCommand, !.connected = reached]
        /\ saying' = IF ~reached THEN saying
                     ELSE CASE tts.cmd.do = "speak" -> tts.cmd.n
                            [] tts.cmd.do = "stop" -> 0
                            [] tts.cmd.do = "rate" -> saying
  BY DEF DoesCommand
<1>2. tts.cmd \in Commands /\ tts.connected \in BOOLEAN /\ tts.queue \in Seq(Commands)
  BY DEF SpeechOK, Talkers, DoesCommand
<1>3. reached \in BOOLEAN /\ (tts.connected => reached)
  BY <1>1, <1>2
<1>4. /\ tts' \in Talkers /\ tts'.cmd = NoCommand /\ tts'.queue = tts.queue
      /\ tts'.connected = reached
  BY <1>1, <1>3 DEF SpeechOK, Talkers
<1>5. UNCHANGED <<shift, muted, mic, wanted, asked>>
  BY DEF DoesCommand, WorkerKept, SpeechKept
<1>6. saying' \in Nat
  BY <1>1, <1>2 DEF Commands, SpeechOK
<1>7. saying' # 0 => reached
  BY <1>1, <1>3 DEF SpeechOK, TalkInv
<1>8. saying' \notin {0, wanted} => StopWaits(tts.queue)
  <2>1. CASE ~reached
    BY <1>1, <1>3, <2>1 DEF SpeechOK, TalkInv
  <2>2. CASE reached /\ tts.cmd.do = "speak"
    BY <1>1, <2>2 DEF SpeechOK, TalkInv
  <2>3. CASE reached /\ tts.cmd.do = "stop"
    BY <1>1, <2>3
  <2>4. CASE reached /\ tts.cmd.do = "rate"
    BY <1>1, <2>4 DEF SpeechOK, TalkInv
  <2> QED BY <1>2, <2>1, <2>2, <2>3, <2>4 DEF Commands
<1>9. TalkInv(tts', saying', wanted)
  <2>1. NoCommand.do # "speak"
    BY DEF NoCommand
  <2> QED BY <1>4, <1>7, <1>8, <2>1 DEF SpeechOK, TalkInv
<1> QED BY <1>4, <1>5, <1>6, <1>9 DEF SpeechOK

LEMMA WorkerSteps ==
  ASSUME SpeechOK, NewRate \/ MediaTurns \/ TakesCommand \/ DoesCommand \/ SaidIt
  PROVE  SpeechOK'
<1>1. CASE NewRate
  <2> DEFINE c == [do |-> "rate", n |-> 0]
             r == Append(tts.queue, c)
  <2>1. c \in Commands /\ c.do = "rate" /\ tts.queue \in Seq(Commands)
    BY DEF Commands, SpeechOK, Talkers
  <2>2. tts' = [tts EXCEPT !.queue = r]
    BY <1>1 DEF NewRate
  <2> HIDE DEF c
  <2>3. /\ r \in Seq(Commands)
        /\ \A i \in 1..Len(r) : r[i] = c \/ (i \in 1..Len(tts.queue) /\ r[i] = tts.queue[i])
    BY <2>1
  <2>4. StopWaits(tts.queue) => StopWaits(r)
    BY <2>1, StopStays
  <2> HIDE DEF r
  <2>5. tts' \in Talkers /\ tts'.queue = r /\ tts'.cmd = tts.cmd
        /\ tts'.connected = tts.connected
    BY <2>2, <2>3 DEF SpeechOK, Talkers
  <2>6. TalkInv(tts', saying, wanted)
    BY <2>1, <2>3, <2>4, <2>5 DEF SpeechOK, TalkInv
  <2> QED BY <1>1, <2>5, <2>6 DEF NewRate, SpeechOK
<1>2. CASE MediaTurns
  BY <1>2 DEF MediaTurns, SpeechOK, speechVars
<1>3. CASE SaidIt
  BY <1>3 DEF SaidIt, WorkerKept, SpeechKept, SpeechOK, TalkInv
<1> QED BY <1>1, <1>2, <1>3, TakesOK, DoesOK

LEMMA CaptureSteps ==
  ASSUME SpeechOK,
         \/ ModelLoads \/ ModelFails \/ Recognises \/ Gives \/ LoopEnds \/ GivesLast
         \/ CaptureJoined
  PROVE  SpeechOK'
<1>k. UNCHANGED <<shift, muted, tts, saying, wanted, asked>>
  BY DEF ModelLoads, ModelFails, Recognises, Gives, LoopEnds, GivesLast, CaptureJoined,
         CaptureKept, SpeechKept
<1>1. mic' \in Mics /\ TakeInv(mic') => SpeechOK'
  BY <1>k DEF SpeechOK
<1>2. ASSUME NEW from, NEW to, from # "none", Thread(from, to),
             to \in {"listening", "giving", "closing", "ended"}
      PROVE  mic' \in Mics /\ TakeInv(mic')
  <2>1. mic' = [mic EXCEPT !.thread = to] /\ mic.thread # "none"
    BY <1>2 DEF Thread
  <2>2. mic' \in Mics /\ mic'.open = mic.open /\ mic'.active = mic.active
        /\ mic'.joining = mic.joining
    BY <1>2, <2>1 DEF SpeechOK, Mics
  <2> QED BY <2>1, <2>2 DEF SpeechOK, TakeInv
<1>3. CASE ModelLoads \/ Recognises \/ Gives \/ LoopEnds \/ GivesLast
  BY <1>3, <1>2, <1>1 DEF ModelLoads, Recognises, Gives, LoopEnds, GivesLast, Checked
<1>4. CASE ModelFails
  <2>1. mic' = [mic EXCEPT !.thread = "ended", !.running = FALSE] /\ mic.thread # "none"
    BY <1>4 DEF ModelFails
  <2>2. mic' \in Mics /\ mic'.open = mic.open /\ mic'.active = mic.active
        /\ mic'.joining = mic.joining
    BY <2>1 DEF SpeechOK, Mics
  <2>3. TakeInv(mic')
    BY <2>1, <2>2 DEF SpeechOK, TakeInv
  <2> QED BY <1>1, <2>2, <2>3
<1>5. CASE CaptureJoined
  <2>1. mic' = [mic EXCEPT !.thread = "none", !.joining = FALSE]
    BY <1>5 DEF CaptureJoined
  <2>2. mic' \in Mics /\ mic'.open = mic.open /\ mic'.active = mic.active
        /\ mic'.thread = "none"
    BY <2>1 DEF SpeechOK, Mics
  <2>3. TakeInv(mic')
    BY <2>2 DEF SpeechOK, TakeInv
  <2> QED BY <1>1, <2>2, <2>3
<1> QED BY <1>3, <1>4, <1>5

LEMMA SpeechInvariant == SpeechSpec => []SpeechOK
<1>1. SpeechInit => SpeechOK
  <2> SUFFICES ASSUME SpeechInit PROVE SpeechOK
    OBVIOUS
  <2>1. mic \in Mics /\ mic.thread = "none" /\ mic.open = mic.active
    BY DEF SpeechInit, Mics
  <2>2. tts \in Talkers /\ tts.queue = <<>> /\ tts.cmd = NoCommand
    BY DEF SpeechInit, Talkers
  <2>3. NoCommand.do # "speak"
    BY DEF NoCommand
  <2>4. TakeInv(mic) /\ TalkInv(tts, saying, wanted)
    BY <2>1, <2>2, <2>3 DEF SpeechInit, TakeInv, TalkInv
  <2>5. shift \in [down : BOOLEAN, fired : BOOLEAN, ticks : Nat] /\ muted \in BOOLEAN
        /\ saying \in Nat /\ wanted \in Nat /\ asked \in Nat
    BY DEF SpeechInit
  <2> QED BY <2>1, <2>2, <2>4, <2>5 DEF SpeechOK
<1>2. SpeechOK /\ [SpeechStep]_speechVars => SpeechOK'
  <2>1. ASSUME SpeechOK, UNCHANGED speechVars PROVE SpeechOK'
    BY <2>1 DEF SpeechOK, speechVars
  <2> QED BY <2>1, HubSteps, WorkerSteps, CaptureSteps DEF SpeechStep
<1> QED BY <1>1, <1>2, PTL DEF SpeechSpec

\* Whatever keys, rates and stops fall between the worker's steps, and whether or not
\* Speech Dispatcher can be reached: nothing waits to be said but what was asked for
\* last, and an idle worker leaves nothing else said (speak, stop, worker_loop).
THEOREM LastIsSaid == SpeechSpec => []SaysTheLast
<1>1. SpeechOK => SaysTheLast
  <2> SUFFICES ASSUME SpeechOK PROVE SaysTheLast
    OBVIOUS
  <2>1. tts.queue \in Seq(Commands) /\ DOMAIN tts.queue = 1..Len(tts.queue)
    BY DEF SpeechOK, Talkers
  <2>2. tts.queue = <<>> => ~StopWaits(tts.queue)
    BY DEF StopWaits
  <2>3. NoCommand.do # "stop"
    BY DEF NoCommand
  <2> QED BY <2>1, <2>2, <2>3 DEF SpeechOK, TalkInv, SaysTheLast
<1> QED BY <1>1, SpeechInvariant, PTL

\* The capture thread gives the app text only in an open take or while the thread is
\* joined, however keys, chords and the thread interleave (stop_capture).
THEOREM TakesAreDelivered == SpeechSpec => DeliversOpenTake
<1>1. SpeechOK /\ [SpeechStep]_speechVars =>
        [given' # given => mic.active \/ mic.joining]_given
  <2> SUFFICES ASSUME SpeechOK, [SpeechStep]_speechVars, given' # given
               PROVE  mic.active \/ mic.joining
    OBVIOUS
  <2>1. Gives \/ GivesLast
    BY DEF SpeechStep, KeyState, DotChord, SpeechTick, Announce, NewRate, MediaTurns,
           TakesCommand, DoesCommand, SaidIt, WorkerKept, ModelLoads, ModelFails,
           Recognises, LoopEnds, CaptureJoined, speechVars
  <2>2. mic.thread # "none"
    BY <2>1 DEF Gives, GivesLast, Thread
  <2> QED BY <2>2 DEF SpeechOK, TakeInv
<1> QED BY <1>1, SpeechInvariant, PTL DEF SpeechSpec, DeliversOpenTake

-----------------------------------------------------------------------------
(* The shell.  The invariant is one of the record that a key changes, Good(s): *)
(* each operation of the registry and of the menu keeps it.                   *)

Apps == Range(Standalone) \cup {"network"}
Overs == {"status", "timer", "morse", "paper", "save"}

RegState ==
  [front : Apps \cup {"none"}, over : Overs \cup {"none"}, field : BOOLEAN,
   word : Seq(Nat), marked : BOOLEAN, frozen : BOOLEAN]
State(o) ==
  [reg : RegState, overlay : {o}, home : DOMAIN LauncherRows, morse : BOOLEAN,
   visit : Nat, began : SUBSET (Apps \cup Overs), wrote : [of : SUBSET Nat, to : Nat]]

\* The pairing of on_enter and on_exit.
Pairs(s) ==
  /\ s.began = {s.reg.front, s.reg.over} \ {"none"}
  /\ s.morse <=> s.reg.over = "morse"

\* The pending word is of this visit.
Visits(s) == s.reg.word \in Seq({s.visit}) /\ s.wrote.of \subseteq {s.wrote.to}

Good(s) == s \in State(s.overlay) /\ Pairs(s) /\ Visits(s)

-----------------------------------------------------------------------------
(* The names                                                               *)

LEMMA Names ==
  /\ Apps \cap (Overs \cup {"none"}) = {}
  /\ Range(Inlines) = Overs
<1>1. Range(Inlines) = Overs
  BY DEF Inlines, Range, Overs
<1>2. QED
  BY <1>1, NamesAssumption DEF Apps, Overs

LEMMA Rows ==
  /\ Len(LauncherRows) = Len(Standalone) + 2 /\ DOMAIN LauncherRows = 1..Len(LauncherRows)
  /\ Len(Standalone) \in Nat
  /\ \A n \in DOMAIN LauncherRows :
       LauncherRows[n] \in Range(Standalone) \cup {"Settings", "Power"}
<1> DEFINE S == Range(Standalone) \cup {"Settings", "Power"}
<1>1. Standalone \in Seq(S)
  <2>1. \A n \in 1..Len(Standalone) : Standalone[n] \in S
    BY NamesAssumption DEF Range
  <2>2. QED
    BY <2>1, NamesAssumption
<1>2. <<"Settings", "Power">> \in Seq(S) /\ Len(<<"Settings", "Power">>) = 2
  OBVIOUS
<1> HIDE DEF S
<1>3. LauncherRows \in Seq(S) /\ Len(LauncherRows) = Len(Standalone) + 2
  BY <1>1, <1>2 DEF LauncherRows
<1>4. QED
  BY <1>1, <1>3 DEF S

-----------------------------------------------------------------------------
(* The registry                                                            *)

\* on_exit of the inline app keeps the promises, and leaves none over the app.
LEMMA InlineLeftKeeps ==
  ASSUME NEW s, Good(s)
  PROVE  Good(InlineLeft(s)) /\ InlineLeft(s).reg.over = "none"
<1>1. CASE s.reg.over = "none"
  BY <1>1 DEF InlineLeft
<1>2. CASE s.reg.over # "none"
  <2> DEFINE m == s.morse /\ s.reg.over # "morse"
             t == [s EXCEPT !.reg.over = "none", !.began = s.began \ {s.reg.over},
                            !.morse = m]
  <2>1. InlineLeft(s) = t
    BY <1>2 DEF InlineLeft
  <2>2. m = FALSE
    BY DEF Good, Pairs
  <2> HIDE DEF m
  <2>3. t \in State(t.overlay)
    BY <2>2 DEF Good, State, RegState
  <2>4. /\ t.reg.over = "none" /\ t.reg.front = s.reg.front /\ t.reg.word = s.reg.word
        /\ t.began = s.began \ {s.reg.over} /\ t.morse = FALSE
        /\ t.visit = s.visit /\ t.wrote = s.wrote
    BY <2>2 DEF Good, State, RegState
  <2> HIDE DEF t
  <2>5. Pairs(t)
    <3>1. s.reg.front \in Apps \cup {"none"} /\ s.reg.over \in Overs \cup {"none"}
      BY DEF Good, State, RegState
    <3>2. QED
      BY <2>4, <3>1, <1>2, Names DEF Good, Pairs
  <2>6. Visits(t)
    BY <2>4 DEF Good, Visits
  <2>7. QED
    BY <2>1, <2>3, <2>4, <2>5, <2>6 DEF Good
<1>3. QED
  BY <1>1, <1>2

\* on_exit of the app keeps them too, and its word stays where it was.
LEMMA FrontLeftKeeps ==
  ASSUME NEW s, Good(s)
  PROVE  /\ Good(FrontLeft(s)) /\ FrontLeft(s).reg.front = "none"
         /\ FrontLeft(s).reg.over = s.reg.over
<1>1. CASE s.reg.front = "none"
  BY <1>1 DEF FrontLeft
<1>2. CASE s.reg.front # "none"
  <2> DEFINE t == FrontLeft(s)
  <2>1. t \in State(t.overlay)
    BY <1>2 DEF Good, State, RegState, FrontLeft
  <2>2. /\ t.reg.front = "none" /\ t.reg.over = s.reg.over /\ t.reg.word = s.reg.word
        /\ t.began = s.began \ {s.reg.front} /\ t.morse = s.morse
        /\ t.visit = s.visit /\ t.wrote = s.wrote
    BY <1>2 DEF Good, State, RegState, FrontLeft
  <2> HIDE DEF t
  <2>3. Pairs(t)
    <3>1. s.reg.front \in Apps \cup {"none"} /\ s.reg.over \in Overs \cup {"none"}
      BY DEF Good, State, RegState
    <3>2. QED
      BY <2>2, <3>1, <1>2, Names DEF Good, Pairs
  <2>4. Visits(t)
    BY <2>2 DEF Good, Visits
  <2>5. QED
    BY <2>1, <2>2, <2>3, <2>4 DEF Good, t
<1>3. QED
  BY <1>1, <1>2

\* An operation that leaves front, over, word, visit and the history alone.
LEMMA OthersKeep ==
  ASSUME NEW s, Good(s), NEW t, t \in State(t.overlay),
         t.reg.front = s.reg.front, t.reg.over = s.reg.over, t.reg.word = s.reg.word,
         t.began = s.began, t.morse = s.morse, t.visit = s.visit, t.wrote = s.wrote
  PROVE  Good(t)
BY DEF Good, Pairs, Visits

\* clear_word_buffer: no word is of every visit.
LEMMA WordClearedKeeps ==
  ASSUME NEW s, Good(s)
  PROVE  /\ Good(WordCleared(s)) /\ WordCleared(s).reg.word = <<>>
         /\ WordCleared(s).reg.front = s.reg.front /\ WordCleared(s).reg.over = s.reg.over
<1> DEFINE t == WordCleared(s)
<1>1. t \in State(t.overlay)
  <2>1. <<>> \in Seq(Nat)
    OBVIOUS
  <2>2. QED
    BY <2>1 DEF Good, State, RegState, WordCleared
<1>2. /\ t.reg.front = s.reg.front /\ t.reg.over = s.reg.over /\ t.reg.word = <<>>
      /\ t.began = s.began /\ t.morse = s.morse /\ t.visit = s.visit /\ t.wrote = s.wrote
  BY DEF Good, State, RegState, WordCleared
<1> HIDE DEF t
<1>3. <<>> \in Seq({s.visit})
  OBVIOUS
<1>4. QED
  BY <1>1, <1>2, <1>3 DEF Good, Pairs, Visits, t

\* AppRegistry::exit, open_field and dismiss_frozen_prompt.
LEMMA ExitedKeeps == ASSUME NEW s, Good(s) PROVE Good(Exited(s))
BY FrontLeftKeeps, WordClearedKeeps DEF Exited

LEMMA FieldOpenedKeeps == ASSUME NEW s, Good(s) PROVE Good(FieldOpened(s))
<1>1. CASE s.reg.front = "none"
  BY <1>1 DEF FieldOpened
<1>2. CASE s.reg.front # "none"
  <2> DEFINE t == FieldOpened(s)
  <2>1. t \in State(t.overlay)
    BY <1>2 DEF Good, State, RegState, FieldOpened
  <2>2. /\ t.reg.front = s.reg.front /\ t.reg.over = s.reg.over
        /\ t.reg.word = s.reg.word /\ t.began = s.began /\ t.morse = s.morse
        /\ t.visit = s.visit /\ t.wrote = s.wrote
    BY <1>2 DEF Good, State, RegState, FieldOpened
  <2> HIDE DEF t
  <2>3. QED
    BY <2>1, <2>2, OthersKeep DEF t
<1>3. QED
  BY <1>1, <1>2

LEMMA DismissedKeeps == ASSUME NEW s, Good(s) PROVE Good(Dismissed(s))
<1> DEFINE t == Dismissed(s)
<1>1. t \in State(t.overlay)
  BY DEF Good, State, RegState, Dismissed
<1>2. /\ t.reg.front = s.reg.front /\ t.reg.over = s.reg.over
      /\ t.reg.word = s.reg.word /\ t.began = s.began /\ t.morse = s.morse
      /\ t.visit = s.visit /\ t.wrote = s.wrote
  BY DEF Good, State, RegState, Dismissed
<1> HIDE DEF t
<1>3. QED
  BY <1>1, <1>2, OthersKeep DEF t

\* enter: a new visit, and it begins with no word.
LEMMA EnteredKeeps == ASSUME NEW s, Good(s), NEW a \in Apps PROVE Good(Entered(s, a))
<1> DEFINE left == WordCleared(FrontLeft(InlineLeft(s)))
           b == left.began \cup {a}
           t == [left EXCEPT !.reg.front = a, !.began = b, !.visit = left.visit + 1]
<1>1. /\ Good(left) /\ left.reg.front = "none" /\ left.reg.over = "none"
      /\ left.reg.word = <<>>
  BY InlineLeftKeeps, FrontLeftKeeps, WordClearedKeeps
<1>2. Entered(s, a) = t
  BY DEF Entered
<1> HIDE DEF left
<1>3. t \in State(t.overlay)
  <2>1. left \in State(left.overlay) /\ left.visit + 1 \in Nat
    BY <1>1 DEF Good, State
  <2>2. b \in SUBSET (Apps \cup Overs)
    BY <2>1 DEF State
  <2> HIDE DEF b
  <2>3. QED
    BY <2>1, <2>2 DEF State, RegState
<1>4. /\ t.reg.front = a /\ t.reg.over = "none" /\ t.reg.word = <<>>
      /\ t.morse = left.morse /\ t.wrote = left.wrote
      /\ t.began = left.began \cup {a} /\ t.visit = left.visit + 1
  BY <1>1 DEF Good, State, RegState
<1> HIDE DEF t, b
<1>5. Pairs(t)
  BY <1>1, <1>4, Names DEF Good, Pairs
<1>6. Visits(t)
  <2>1. <<>> \in Seq({t.visit})
    OBVIOUS
  <2>2. QED
    BY <1>1, <1>4, <2>1 DEF Good, Visits
<1>7. QED
  BY <1>2, <1>3, <1>5, <1>6 DEF Good

\* enter_inline: the app under it keeps its visit, except under Save and Exit.
LEMMA InlineEnteredKeeps ==
  ASSUME NEW s, Good(s), NEW i \in Overs PROVE Good(InlineEntered(s, i))
<1> DEFINE left == InlineLeft(s)
           m == left.morse \/ i = "morse"
           t == [left EXCEPT !.reg.over = i, !.began = @ \cup {i}, !.morse = m]
<1>1. Good(left) /\ left.reg.over = "none"
  BY InlineLeftKeeps
<1>2. InlineEntered(s, i) = IF i = "save" THEN Exited(t) ELSE t
  BY DEF InlineEntered
<1> HIDE DEF left
<1>3. m \in BOOLEAN /\ (m <=> i = "morse")
  BY <1>1 DEF Good, Pairs
<1> HIDE DEF m
<1>4. t \in State(t.overlay)
  BY <1>1, <1>3 DEF Good, State, RegState
<1>5. /\ t.reg.front = left.reg.front /\ t.reg.over = i /\ t.reg.word = left.reg.word
      /\ t.visit = left.visit /\ t.wrote = left.wrote
      /\ t.began = left.began \cup {i} /\ (t.morse <=> i = "morse")
  BY <1>1, <1>3 DEF Good, State, RegState
<1> HIDE DEF t
<1>6. Pairs(t)
  <2>1. left.reg.front \in Apps \cup {"none"} /\ i # "none"
    BY <1>1, Names DEF Good, State, RegState, Overs
  <2>2. t.began = {left.reg.front, i} \ {"none"}
    BY <1>1, <1>5, <2>1 DEF Good, Pairs
  <2>3. QED
    BY <1>5, <2>2 DEF Pairs
<1>7. Visits(t)
  BY <1>1, <1>5 DEF Good, Visits
<1>8. Good(t)
  BY <1>4, <1>6, <1>7 DEF Good
<1>9. QED
  BY <1>2, <1>8, ExitedKeeps

-----------------------------------------------------------------------------
(* The menu                                                                *)

\* Nothing that is promised is about the menu itself.
LEMMA OverlayKeeps ==
  ASSUME NEW s, Good(s), NEW o PROVE Good([s EXCEPT !.overlay = o])
<1> DEFINE t == [s EXCEPT !.overlay = o]
<1>1. t \in State(t.overlay)
  BY DEF Good, State
<1>2. /\ t.reg = s.reg /\ t.began = s.began /\ t.morse = s.morse
      /\ t.visit = s.visit /\ t.wrote = s.wrote
  BY DEF Good, State
<1> HIDE DEF t
<1>3. Good(t)
  BY <1>1, <1>2, OthersKeep
<1>4. QED
  BY <1>3 DEF t

LEMMA StackKeeps ==
  ASSUME NEW s, Good(s), NEW stack PROVE Good([s EXCEPT !.overlay.stack = stack])
<1>1. [s EXCEPT !.overlay.stack = stack]
        = [s EXCEPT !.overlay = [s.overlay EXCEPT !.stack = stack]]
  BY DEF Good, State
<1>2. QED
  BY <1>1, OverlayKeeps

LEMMA MenuKeeps ==
  ASSUME NEW s, Good(s)
  PROVE  /\ Good(Closed(s)) /\ Good(MenuBack(s))
         /\ \A items : Good(Opened(s, items)) /\ Good(Pushed(s, items))
         /\ \A n : Good(MovedTo(s, n))
<1>1. \A stack : Good([s EXCEPT !.overlay.stack = stack])
  BY StackKeeps
<1>2. Good(Closed(s)) /\ \A items : Good(Opened(s, items))
  BY OverlayKeeps DEF Closed, Opened
<1>3. \A items : Good(Pushed(s, items))
  BY <1>1 DEF Pushed
<1>4. Good(MenuBack(s))
  BY <1>1, <1>2 DEF MenuBack
<1>5. \A n : Good(MovedTo(s, n))
  BY <1>1 DEF MovedTo
<1>6. QED
  BY <1>2, <1>3, <1>4, <1>5

\* What an item of the menu does: it enters an app or an inline app, leaves one,
\* opens a field, takes the prompt away, or touches only the menu.
LEMMA ActivationsKeep ==
  ASSUME NEW s, Good(s), NEW item, NEW t \in Activations(s, item) PROVE Good(t)
<1>1. Good(Closed(s)) /\ Good(MenuBack(s)) /\ \A items : Good(Pushed(s, items))
  BY MenuKeeps
<1>2. Good(Closed(FieldOpened(s)))
  BY FieldOpenedKeeps, MenuKeeps
<1>3. Good(Closed(Exited(InlineLeft(s))))
  BY InlineLeftKeeps, ExitedKeeps, MenuKeeps
<1>4. Good(Closed(Dismissed(s))) /\ Good(Closed(Dismissed(Exited(s))))
  BY ExitedKeeps, DismissedKeeps, MenuKeeps
<1>5. item \in Range(Standalone) => Good(Closed(Entered(s, item)))
  BY EnteredKeeps, MenuKeeps DEF Apps
<1>6. Good(Closed(Entered(s, "network")))
  BY EnteredKeeps, MenuKeeps DEF Apps
<1>7. item \in Range(Inlines) => Good(InlineEntered(s, item))
  BY InlineEnteredKeeps, Names
<1>8. QED
  BY <1>1, <1>2, <1>3, <1>4, <1>5, <1>6, <1>7, Zenon DEF Activations

LEMMA MenuKeyKeeps ==
  ASSUME NEW s, Good(s), NEW k \in {"up", "down", "enter", "backspace"},
         NEW t \in MenuKey(s, k)
  PROVE  Good(t)
<1>1. CASE k = "enter"
  BY <1>1, ActivationsKeep DEF MenuKey
<1>2. CASE k # "enter"
  BY <1>2, MenuKeeps DEF MenuKey
<1>3. QED
  BY <1>1, <1>2

-----------------------------------------------------------------------------
(* Keys and words                                                          *)

\* A chord added, a chord taken back: the word stays one of this visit.
LEMMA WordKeeps ==
  ASSUME NEW s, Good(s), NEW w \in Seq({s.visit}) PROVE Good([s EXCEPT !.reg.word = w])
<1> DEFINE t == [s EXCEPT !.reg.word = w]
<1>1. w \in Seq(Nat)
  <2>1. s.visit \in Nat
    BY DEF Good, State
  <2>2. QED
    BY <2>1
<1>2. t \in State(t.overlay)
  BY <1>1 DEF Good, State, RegState
<1>3. /\ t.reg.front = s.reg.front /\ t.reg.over = s.reg.over /\ t.reg.word = w
      /\ t.began = s.began /\ t.morse = s.morse /\ t.visit = s.visit /\ t.wrote = s.wrote
  BY <1>1 DEF Good, State, RegState
<1> HIDE DEF t
<1>4. Good(t)
  BY <1>2, <1>3 DEF Good, Pairs, Visits
<1>5. QED
  BY <1>4 DEF t

\* commit_word: what is written is the word of this visit.
LEMMA CommittedKeeps == ASSUME NEW s, Good(s) PROVE Good(Committed(s))
<1>1. CASE s.reg.word = <<>>
  BY <1>1 DEF Committed
<1>2. CASE s.reg.word # <<>>
  <2> DEFINE word == Range(s.reg.word)
             t == [s EXCEPT !.reg.word = <<>>, !.wrote = [of |-> word, to |-> s.visit]]
  <2>1. Committed(s) = t
    BY <1>2 DEF Committed
  <2>2. s.visit \in Nat /\ word \subseteq {s.visit} /\ word \in SUBSET Nat
    BY DEF Good, State, Visits, Range
  <2> HIDE DEF word
  <2>3. <<>> \in Seq(Nat) /\ <<>> \in Seq({s.visit})
    OBVIOUS
  <2>4. t \in State(t.overlay)
    BY <2>2, <2>3 DEF Good, State, RegState
  <2>5. /\ t.reg.front = s.reg.front /\ t.reg.over = s.reg.over /\ t.reg.word = <<>>
        /\ t.began = s.began /\ t.morse = s.morse /\ t.visit = s.visit
        /\ t.wrote.of = word /\ t.wrote.to = s.visit
    BY DEF Good, State, RegState
  <2> HIDE DEF t
  <2>6. Good(t)
    BY <2>2, <2>3, <2>4, <2>5 DEF Good, Pairs, Visits
  <2>7. QED
    BY <2>1, <2>6
<1>3. QED
  BY <1>1, <1>2

\* The field of an app is opened and left.
LEMMA FieldKeeps == ASSUME NEW s, Good(s) PROVE Good([s EXCEPT !.reg.field = ~@])
<1> DEFINE b == ~s.reg.field
           t == [s EXCEPT !.reg.field = b]
<1>1. b \in BOOLEAN
  OBVIOUS
<1> HIDE DEF b
<1>2. t \in State(t.overlay)
  BY <1>1 DEF Good, State, RegState
<1>3. /\ t.reg.front = s.reg.front /\ t.reg.over = s.reg.over /\ t.reg.word = s.reg.word
      /\ t.began = s.began /\ t.morse = s.morse /\ t.visit = s.visit /\ t.wrote = s.wrote
  BY DEF Good, State, RegState
<1> HIDE DEF t
<1>4. Good(t)
  BY <1>2, <1>3, OthersKeep
<1>5. QED
  BY <1>4 DEF t, b

LEMMA AppControlKeeps ==
  ASSUME NEW s, Good(s), NEW k, NEW t \in AppControl(s, k) PROVE Good(t)
<1>1. CASE InField(s.reg) /\ k = "backspace" /\ s.reg.word # <<>>
  <2>1. s.reg.word \in Seq({s.visit})
    BY DEF Good, Visits
  <2>2. Front(s.reg.word) \in Seq({s.visit})
    BY <2>1, <1>1 DEF Front
  <2>3. t = [s EXCEPT !.reg.word = Front(s.reg.word)]
    BY <1>1 DEF AppControl
  <2>4. QED
    BY <2>2, <2>3, WordKeeps
<1>2. CASE ~(InField(s.reg) /\ k = "backspace" /\ s.reg.word # <<>>)
  <2>1. PICK r : Good(r) /\ t \in IF r.reg.over # "none" THEN InlineKey(r, k) ELSE FrontKey(r, k)
    BY <1>2, CommittedKeeps DEF AppControl
  <2>2. CASE t \in InlineKey(r, k)
    BY <2>1, <2>2, InlineLeftKeeps DEF InlineKey
  <2>3. CASE t \in FrontKey(r, k)
    BY <2>1, <2>3, FieldKeeps, ExitedKeeps DEF FrontKey
  <2>4. QED
    BY <2>1, <2>2, <2>3
<1>3. QED
  BY <1>1, <1>2

\* The finger of the launcher moves between its rows.
LEMMA HomeKeeps ==
  ASSUME NEW s, Good(s), NEW n \in DOMAIN LauncherRows PROVE Good([s EXCEPT !.home = n])
<1> DEFINE t == [s EXCEPT !.home = n]
<1>1. t \in State(t.overlay)
  BY DEF Good, State
<1>2. /\ t.reg = s.reg /\ t.began = s.began /\ t.morse = s.morse
      /\ t.visit = s.visit /\ t.wrote = s.wrote
  BY DEF Good, State
<1> HIDE DEF t
<1>3. Good(t)
  BY <1>1, <1>2, OthersKeep
<1>4. QED
  BY <1>3 DEF t

LEMMA LauncherKeyKeeps ==
  ASSUME NEW s, Good(s), NEW k \in {"up", "down", "enter", "backspace"},
         NEW t \in LauncherKey(s, k)
  PROVE  Good(t)
<1>1. s.home \in DOMAIN LauncherRows
  BY DEF Good, State
<1>2. CASE k = "up"
  <2> DEFINE n == IF s.home = 1 THEN s.home ELSE s.home - 1
  <2>1. n \in DOMAIN LauncherRows
    BY <1>1, Rows
  <2>2. t = [s EXCEPT !.home = n]
    BY <1>2 DEF LauncherKey
  <2> HIDE DEF n
  <2>3. QED
    BY <2>1, <2>2, HomeKeeps
<1>3. CASE k = "down"
  <2> DEFINE n == IF s.home = Len(LauncherRows) THEN s.home ELSE s.home + 1
  <2>1. n \in DOMAIN LauncherRows
    BY <1>1, Rows
  <2>2. t = [s EXCEPT !.home = n]
    BY <1>3 DEF LauncherKey
  <2> HIDE DEF n
  <2>3. QED
    BY <2>1, <2>2, HomeKeeps
<1>4. CASE k = "backspace"
  BY <1>4 DEF LauncherKey
<1>5. CASE k = "enter"
  <2> DEFINE row == LauncherRows[s.home]
  <2>1. t = CASE row = "Settings" -> Opened(s, SettingsItems)
              [] row = "Power" -> Opened(s, PowerItems)
              [] OTHER -> Entered(s, row)
    BY <1>5 DEF LauncherKey
  <2>2. row \in Range(Standalone) \cup {"Settings", "Power"}
    BY <1>1, Rows
  <2> HIDE DEF row
  <2>3. \A items : Good(Opened(s, items))
    BY MenuKeeps
  <2>4. row \notin {"Settings", "Power"} => Good(Entered(s, row))
    BY <2>2, EnteredKeeps DEF Apps
  <2>5. QED
    BY <2>1, <2>3, <2>4
<1>6. QED
  BY <1>2, <1>3, <1>4, <1>5

-----------------------------------------------------------------------------
(* The steps                                                               *)

LEMMA TurnsKeep == ASSUME NEW s, Good(s), Turns(s) PROVE Good(Shell)'
<1>1. s = [reg |-> s.reg, overlay |-> s.overlay, home |-> s.home, morse |-> s.morse,
           visit |-> s.visit, began |-> s.began, wrote |-> s.wrote]
  BY DEF Good, State
<1>2. Shell' = s
  BY <1>1 DEF Turns, Shell
<1>3. Good(s) => Good(Shell')
  BY <1>2
<1>4. QED
  BY <1>3 DEF Good, State, Pairs, Visits, Shell

LEMMA InitGood == ShellInit => Good(Shell)
<1> SUFFICES ASSUME ShellInit PROVE Good(Shell)
  OBVIOUS
<1>1. 1 \in DOMAIN LauncherRows
  BY Rows
<1>2. <<>> \in Seq(Nat) /\ <<>> \in Seq({0})
  OBVIOUS
<1>3. Shell \in State(Shell.overlay)
  BY <1>1, <1>2 DEF ShellInit, Shell, State, RegState
<1>4. Pairs(Shell) /\ Visits(Shell)
  BY <1>2 DEF ShellInit, Shell, Pairs, Visits
<1>5. QED
  BY <1>3, <1>4 DEF Good

LEMMA StepKeeps == ASSUME Good(Shell), [ShellStep]_shellVars PROVE Good(Shell)'
<1>1. CASE ControlKey
  <2>1. PICK k \in {"up", "down", "enter", "backspace"} :
          \E s \in IF overlay.open THEN MenuKey(Shell, k)
                  ELSE IF reg.front # "none" \/ reg.over # "none" THEN AppControl(Shell, k)
                  ELSE LauncherKey(Shell, k) : Turns(s)
    BY <1>1 DEF ControlKey
  <2>2. PICK s : /\ s \in MenuKey(Shell, k) \cup AppControl(Shell, k)
                           \cup LauncherKey(Shell, k)
                 /\ Turns(s)
    BY <2>1
  <2>3. Good(s)
    BY <2>2, MenuKeyKeeps, AppControlKeeps, LauncherKeyKeeps
  <2>4. QED
    BY <2>2, <2>3, TurnsKeep
<1>2. CASE MenuToggle
  <2>1. Good(MenuClosed(Shell)) /\ Good(MenuOpened(Shell))
    BY MenuKeeps, DismissedKeeps DEF MenuClosed, MenuOpened
  <2>2. QED
    BY <1>2, <2>1, TurnsKeep DEF MenuToggle
<1>3. CASE BrailleChord
  <2>1. CASE Turns([Shell EXCEPT !.reg.word = Append(@, visit)])
    <3>1. Shell.reg.word \in Seq({Shell.visit}) /\ Shell.visit = visit
      BY DEF Good, Visits, Shell
    <3>2. Append(Shell.reg.word, visit) \in Seq({Shell.visit})
      BY <3>1
    <3>3. QED
      BY <2>1, <3>2, WordKeeps, TurnsKeep
  <2>2. CASE \E n \in DOMAIN LauncherRows : Turns([Shell EXCEPT !.home = n])
    BY <2>2, HomeKeeps, TurnsKeep
  <2>3. QED
    BY <1>3, <2>1, <2>2 DEF BrailleChord
<1>4. CASE SpaceOrLetter
  BY <1>4, CommittedKeeps, TurnsKeep DEF SpaceOrLetter
<1>5. CASE AppWaits
  <2>1. PICK b \in BOOLEAN, f \in {FALSE, reg.field} :
          reg' = [reg EXCEPT !.marked = b, !.field = f]
    BY <1>5 DEF AppWaits
  <2>2. reg \in RegState
    BY DEF Good, State, Shell
  <2>3. f \in BOOLEAN
    BY <2>2 DEF RegState
  <2>4. /\ reg' \in RegState /\ reg'.front = reg.front /\ reg'.over = reg.over
        /\ reg'.word = reg.word
    BY <2>1, <2>2, <2>3 DEF RegState
  <2>5. UNCHANGED <<overlay, home, morse, visit, began, wrote>>
    BY <1>5 DEF AppWaits
  <2>6. QED
    BY <2>4, <2>5 DEF Good, State, Pairs, Visits, Shell
<1>6. CASE WatchdogAsks
  <2> DEFINE t == [Shell EXCEPT !.reg.frozen = TRUE]
  <2>1. t \in State(t.overlay)
    BY DEF Good, State, RegState
  <2>2. /\ t.reg.front = Shell.reg.front /\ t.reg.over = Shell.reg.over
        /\ t.reg.word = Shell.reg.word /\ t.began = Shell.began /\ t.morse = Shell.morse
        /\ t.visit = Shell.visit /\ t.wrote = Shell.wrote
    BY DEF Good, State, RegState
  <2>3. Turns(Opened(t, FrozenItems))
    BY <1>6 DEF WatchdogAsks
  <2> HIDE DEF t
  <2>4. Good(t)
    BY <2>1, <2>2, OthersKeep
  <2>5. QED
    BY <2>3, <2>4, MenuKeeps, TurnsKeep
<1>7. CASE UNCHANGED shellVars
  BY <1>7 DEF shellVars, Good, State, Pairs, Visits, Shell
<1>8. QED
  BY <1>1, <1>2, <1>3, <1>4, <1>5, <1>6, <1>7 DEF ShellStep

\* For every launcher: an app whose on_enter ran is the active one or the inline one
\* over it, and Morse haptics are on exactly while their inline app is (enter,
\* enter_inline, exit of app_registry.cpp).
THEOREM AppsArePaired == ShellSpec => []ExitsPaired
<1>1. Good(Shell) => ExitsPaired
  BY DEF Good, Pairs, ExitsPaired, Shell
<1>2. QED
  BY InitGood, StepKeeps, <1>1, PTL DEF ShellSpec

\* For every launcher: the word that a field is given was typed, chord by chord, in
\* the visit of the app that it is given to (clear_word_buffer in enter and exit).
THEOREM WordsStay == ShellSpec => []WordStaysInVisit
<1>1. Good(Shell) => WordStaysInVisit
  BY DEF Good, Visits, WordStaysInVisit, Shell
<1>2. QED
  BY InitGood, StepKeeps, <1>1, PTL DEF ShellSpec
===============================================================================
