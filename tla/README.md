# Braillatron: a verification development

TLA+ models of the control software in `src/mobile-braille-embosser/`, their
TLC configurations, and TLAPS proofs. Paths below are relative to that
directory.

## 1. The system

A Braillatron is a braille embosser. There are two products in the tree. The
*embosser* takes a BRF file over a cable or Wi-Fi and punches it: an ESP32-S3
(`emboss_radio`) parses the bytes and sends cells over a UART to a FYSETC Spider
(`emboss_spider`), which moves the motors. The *mobile* device is a Raspberry Pi
running several daemons, with an Arduino that reads the keys and holds the
motor supply.

| Part | State it keeps | Operations | Interacts with |
|---|---|---|---|
| Motor pipeline, `firmware-embosser/emboss_pipeline.c` | job state and fault, motor power, paper, carriage and line position, ring of waiting Row B strikes | cell, newline, form feed, feed, finish, set_armed, set_paper_present, fault, safety_cut, clear_fault(_held) | motor callbacks out; faults come back in while a callback runs |
| BRF parser, `emboss_job.c` | header phase, held bytes, CR-before-LF flag | feed a byte, finish, reset | calls back cell, newline, form feed, filename, overflow |
| Spider link end, `emboss_spider.c` | armed, time of last heartbeat, last STATUS | rx, poll, stall | drives the pipeline; STATUS frames out |
| Radio link end, `emboss_radio.c` | a parser of its own | feed, finish, heartbeat, clear_fault | frames out |
| Link framing, `shared/embosser_link.c` | parser phase | encode, feed a byte | between the two ends |
| Step conversion, `emboss_steps.c` | drives | travel, feed, strike | under the pipeline |
| Arduino interlock, `firmware-arduino/src/{braillatron_app,watchdog,fail_safes,mpu6050_isr,telemetry_handler,protocol_rx}.cpp` | supply pin, loss / free-fall / battery latches, heartbeat time | main loop, frame handlers, free-fall interrupt, hardware watchdog | Pi frames in, supply out |
| Arduino keyboard, `keyboard_buttons`, `chord_engine` | debounce, chord in progress | scan, release | key frames to the Pi |
| Pi keyboard and fault hooks, `daemon-dietpi/src/keyboard` | last announced fault, devices, chords, holds of Shift, Speech and the restart pairs | poll, rescan, recover | motion gate, serial, shell |
| Pi motion, `motion_gate`, `kinematics`, `motion` | gate and reason, travel log, delay line, what is believed of the carriage | block, unblock, emboss, travel | Klipper through Moonraker, one script at a time |
| Pi telemetry, `telemetry`, `sentinel_main` | battery, limits, homing state | sample, home, write file | gate, through a JSON file |
| Pi connect, `connect` | job queue, event file, player, a store for each backend | request, submit, poll_events | apps on one side; mail, weather, media and library services on the other |
| Pi display, `display`, `ui/display` | screens published, queue of frames, pairing code, sessions | publish, serve, pair, switch | browsers |
| Pi shell, `ui/apps/app_registry.cpp`, `menu_overlay`, `focus_nav`, `output_hub` | active app and inline app, pending word, menu, busy mark, speech and dictation queues | keys, chords, menus, ticks | every app |
| Pi apps, `ui/apps` | a phase, lists and cursors each | keys, answers | connect daemon, stores, shell |
| Pi documents, `documents` | text and line index, edit session, address book, catalog, lists | open, edit, save | apps, files |

What is hard in it:

* a fault enters the pipeline **through the motor callback of the command it
  interrupts**, so every command is cut at every callback;
* Row B is punched some distance to the right of Row A, so strikes are deferred
  across commands and must be flushed, in place, before the paper moves;
* a document is cut into calls anywhere, while jobs begin and end inside calls;
* power comes back only by a protocol (CLEAR_FAULT, then a heartbeat) whose
  messages mix with old heartbeats and with the rest of the interrupted job;
* the Arduino's interlock is shared by a loop and an interrupt, works with a
  clock reading that goes stale, and loses its memory in a reset;
* on the Pi one thread does everything, heartbeats included, next to workers
  that stop through flags and condition variables, and state passes through
  files that can be old or half written;
* a script given to Klipper may be carried out, fail, or be given up and carried out
  later, and the Pi counts on where the carriage then is;
* the apps ask a daemon that answers late, out of turn or (after a crash) never,
  and the answer changes an app that has gone on, or was left, meanwhile;
* lists are replaced and shrink under cursors, and stores are read again under
  pointers into them.

What makes each part correct: dots are struck once, at their own place, all of
them before the paper moves, and none without power (pipeline, Pi motion); the
callbacks are what the cable grammar says of the bytes, wherever they are cut
(parser, feed); power follows the heartbeats and an explicit recovery (link); the
supply is off whenever something wants it off (interlock); a gate that a fault asks
for is closed in the end, whatever recoveries came before (fault hooks); an app that
waits is answered or the user is asked (connect); cursors and open entries stay
those of what is shown (apps, documents); chords and words arrive whole and where
they were typed (keyboard, shell); viewers see the last screen (display).

## 2. Modules

| Module | Models | How it corresponds to the code |
|---|---|---|
| `EmbossPipeline` | `emboss_pipeline.c` | A command is a sequence of steps, one per stretch of code between two motor callbacks; `pc` names the stretch or the callback. `Caller` is what may come in between: faults, arming, paper, clear_fault. |
| `TactileLine` | (contract) | What a line of paper may look like, without carriage, queue or callbacks: each dot at its place, once, and all before the paper moves. The motors may be on or off at first. |
| `EmbossJob` | `emboss_job.c` | One function per C function, from parser and byte to parser and tokens. |
| `EmbossJobStream` | its two drivers | The parser fed byte by byte by a program that resets it at the end of each document (pipeline) or does not (radio), against the cable grammar written by positions of the stream. |
| `EmbossFeed` | `emboss_pipeline_feed`, `_finish` | The parser inside the pipeline: calls begin, take bytes and return; each token runs the pipeline's command to its end before the next. |
| `EmbossLink` | `emboss_spider.c` | Heartbeats, frames, poll, stall and STATUS around the pipeline's steps. |
| `SafetyRail` | the Arduino interlock | The main loop, split where the free-fall interrupt can be told apart, with time as two ages. |
| `PiEmboss` | `motion/`, `kinematics/` of the Pi | A document becomes strikes and feeds, Row B waits in the delay line, and each script to Klipper is one action that succeeds, fails, or is given up and may still be carried out. |
| `PiMotion` | `ui_app.cpp` (poll), `global_hooks.cpp`, `keyboard_service.cpp` (faults), `telemetry_bridge.cpp` | The phases of one poll around `PiEmboss`: a cable job, the queued frames, the telemetry file, the heartbeat. |
| `ConnectCalls` | `connect_client`, `connect_job_queue`, `connect_main`, `mpv_service`, the busy mark of `app_registry.cpp` | Queue, one worker, event file, player, watchdog prompt, crash and restart. |
| `MediaApps`, `WeatherApp`, `LibraryApp`, `CommsApps` | YouTube, Radio, Podcasts, Music; Weather; Library; Gmail, Messages; each with its backend | A view is the phase of an app with its lists and cursor. One action per key and phase, per answer, and per job of the worker. |
| `DocumentApps`, `ContactsApp` | Brailler, Transcriber, edit session, `brf_store`; Contacts and its store | A text is a short sequence of letters marked by where they came from; a contact is id and key. |
| `ReferenceApps`, `CalculatorApp` | Dictionary, Wikipedia, Spelling; Calculator with its parser | Lists and positions; exact fractions for doubles, with the limits that the code looks at. |
| `TimerService` | `timer_service.cpp`, `timer_inline.cpp` | Clock and loop in half seconds. |
| `HostKeys` | `evdev_input`, `key_debouncer`, `host_chord_assembler`, `chord_engine` | A poll of the keys is one action and one tick. |
| `SpeechKeys` | Shift, Speech and restart pairs; the speech and dictation threads of `backend.cpp` | One action per edge, per tick and per turn of a thread. |
| `PiShell` | `app_registry.cpp`, `menu_overlay.cpp`, `focus_nav.cpp`, routing of keys | A key maps one record, `Shell`, to another; what an app does with a key is a choice. |
| `RemoteDisplay` | `remote_frame_publisher.cpp`, `http_server.cpp`, `display_service.cpp` | Two publishing threads, displayd's accept and poll threads, browsers. |
| `ListOps` | the loops that filter a list | What is left of a list, entry by entry, written so that it can be proved about. |
| `...Proofs` | | Theorems; `RecursionProofs` has what they need of recursive functions. |
| `MC...` | | Values for the constants; `MCPiCalls` and `MCPiScreens` compose the Pi's apps. |

`EmbossFeed` extends `EmbossPipeline` and `EmbossJobStream`, whose parser and grammar
it uses; what drives the parser in it is the feed call. `EmbossLink` extends
`EmbossPipeline`. `EmbossPipeline` instantiates `TactileLine`. `PiMotion` extends
`PiEmboss`. All modules of apps extend `ConnectCalls`, which has what they share:
the active app, the busy mark, the daemon and the keys left to press.
`MCPiCalls` composes the apps that call the daemon, `MCPiScreens` the shell, the
keys, the display and the apps that work on what the Pi keeps. In a behaviour of
either, `focus` names the part that is used, and the others stay as they began: the
parts share the registry and the daemon, which all of them have, and `players`
exercises the two apps that meet in the player.

Choices a reader should know:

* **Units.** Only the order of cell pitch and Row B offset matters, and how many
  pitches an offset spans, so positions are small integers. `12` and `5` are the
  firmware's 6.0 mm and 2.5 mm.
* **History variables.** `line`, `marks` and `again` (what was accepted, what was
  struck, and what was struck when it was there already on the open line) in
  `EmbossPipeline`: marks are a set, so without `again` a second strike would be
  no step of the contract at all; `sent` and `out` in the streams,
  `dark` (a token met motors without power) in `EmbossFeed`,
  `stage` in `EmbossLink`, `lossOpen` in `SafetyRail`, `wanted`, `punched` and
  `steady` in `PiEmboss`, and those that the comments of the other modules call
  history. No guard reads them but for a bound, and the rule that a sender ends its
  call at a form feed.
* **Paper and position.** `y_um` is `y_line` times a constant and is left out. A
  move that a fault cuts short is taken as finished, as the code does.
* **The wire.** Frames are lost at will and damaged ones are lost ones, because
  of the CRC. The ESP32's program may send any frame at any time, so what arrives
  is any frame at any time.
* **What the services answer** is a choice: a mail server, a weather site, Klipper and
  systemd are not the repository's. Each request may fail.
* **The calculator's numbers** are fractions of integers. The model has the limits that
  the code looks at: a divisor nearer to zero than `1 / Tiny` is refused, as is a number
  beyond what `std::stod` takes (`Largest`, `Finest`); a result within `1 / Close` of an
  integer is printed as one, any other with `Figures` figures, with an exponent where
  `%g` writes one. What doubles do besides is left out: rounding, so that a tie in the
  last figure may go either way (`Printings` is a set), and infinity and NaN. A result
  beyond `long long` is cast to it all the same, which is undefined: `Wholes` has what
  the processors of the Pi and of a PC give.
* **A sensor that starts.** `mpu6050_isr_init` reads the status, which releases the
  line, before it attaches the interrupt (`mpu6050_isr.cpp:94`), so `SafetyRail` begins,
  and begins again after a reset, with the line high or low.
* **Where the Pi counts on its luck.** `steady` turns false when a script is carried
  out after it was given up, when one runs without motor supply, when a session is
  restored in the middle of a line, or when the first strike of a session is not where
  the carriage stands. What `DotsInPlace` and `PaperIndexTrue` promise is promised
  while it is true, so of a script carried out late they say nothing; each of these is
  a weakness of the code, not of the model.
* **Defect operators.** A definition named `X_Defect` is `X` with a plausible
  bug. The specification does not use it: with it in place of `X` the property
  it is paired with in `PROJECT.json` fails.

## 3. Runs

| Run | Question | Answer |
|---|---|---|
| `pipeline_firmware` | The firmware's geometry, with segmented travel and faults at every callback: do form feeds end on a page, do faults stay dead and stop strikes, does the ring never fill, do commands return, and is `TactileLine` implemented? | yes |
| `pipeline_wide` | The same code with an offset of two and a half pitches, where Row B really waits across cells and the ring overflows, and with no travel callback: is each dot at its place, and does the inductive invariant hold? | yes |
| `link_frames` | Any frames, gaps, stalls and motor faults in any order: is power tied to heartbeats, does it come back only by CLEAR_FAULT and a heartbeat, is STATUS current, does a gap cut? | yes |
| `link_gap` | "a 1000 ms gap is a safety cut", always? | no: see 5 |
| `stream_pipeline` | Is the parser the cable grammar, for every stream of six bytes and finishes? | yes |
| `feed_calls` | A sender that ends its feed call at a form feed: do the cuts of its bytes into calls never matter, is the filename that of the current document, and is the open line on the paper what the text says? | yes |
| `rail_loop` | Interrupt, frames, time and resets at every step: is the supply off whenever a hold is set, is a loss held until CLEAR_FAULT, does silence cut? | yes |
| `rail_race` | Does a line that is still low keep the latch? | no: see 5 |
| `pi_motion` | Cable jobs, faults, a flat battery, recoveries, keys and failing or late scripts in any order: are the dots at their place and complete, is the paper index true, does a fault close the gate in the end, does the battery keep it closed, is a kept job not embossed by a later key? | yes |
| `pi_sign` | Are deferred dots in place in a line that starts with a capital sign? | no: see 5 |
| `pi_calls` | Eight apps, the daemon, its crash and the watchdog: do cursors stay in their lists, does a wait end, does the weather end its own? | yes |
| `pi_screens` | Documents, contacts, reference, calculator, timers, keys, speech, shell and display: eleven properties, one or two for each | yes |

The eleven of `pi_screens`: the target of an edit stays in its line while it is
replaced (`TargetStays`); the contact that is shown is in the store (`OpenIsStored`);
positions are in the text that is read (`ReadersInText`); what the calculator
accepts is an expression of its grammar (`ParsesGrammar`); timers keep the time (`KeepsTime`);
each dot pressed is in a chord, unless the devices changed, which forgets the dots that
are down (`ChordsComplete`); what is said last is what was
asked last (`SaysTheLast`); dictated words belong to a take that is open
(`DeliversOpenTake`); a word is given to the visit it was typed in
(`WordStaysInVisit`); on_enter and on_exit are paired (`ExitsPaired`); a browser that
stays sees the last screen (`ViewersCatchUp`).

### Bounds

* `MaxX`, `MaxLine` bound the cells on a line and the lines fed. The firmware run
  has room for three cells and for a page of two lines twice over: a form feed
  from a page start, from inside a page and with a line open all happen. The wide
  run has room for three cells before the flush, with a ring of two, so that the
  ring overflows.
* Cells: none, one row, the other, both. A row's dots are struck together, so
  which dots they are adds nothing.
* `Gap = 2` ticks and `MaxBatch = 2` frames in a call: a gap can pass during a
  batch, between batches, during a callback, and a heartbeat can count with a time
  that is already old.
* A header prefix of two bytes and `LineCap = 4`, `FilenameCap = 2`: every header
  phase, a header that fails at each byte, an overflowing line and an overflowing
  filename fit in six bytes. (The code's prefix is `BRF1 `, a space or tab last; the
  matching is by position, so its length is not special.) The feed run takes five
  bytes between two faults, of four kinds (a cell that starts a header, a space, a
  line end, a form feed), at most three cells on a line and three lines: enough for
  two documents with a header cut anywhere.
* `Timeout = 3`, `MaxLag = 2`, `MaxFrames = 3`: a turn of the loop takes less than
  the timeout, as the hardware watchdog (500 ms against 3000 ms) enforces.
* `pi_motion`: two documents (a line with both rows; a page), one fault, one key, one
  cable job, one script that goes wrong, one frame queued, and the pitch and
  offset of the machine, in microsteps. One of each is enough for every
  pair of a step of the motion path with a thing that goes wrong in it; what two
  faults do is `SafetyRail`'s question.
* `pi_calls`: one crash of the daemon, two requests or unread lines at a time, four to
  eight keys for each app (`Budget`). The deepest phase of an app is five keys away,
  and a stale answer needs one key to ask and one to leave.
* `pi_screens`: two to twelve keys for each part, two devices with two dots and a
  control, texts of at most five letters, calculator lines of five characters over
  a digit, a point and four signs, with limits that such lines reach (a divisor below a
  quarter, a number beyond 1000 or below a tenth, two figures, integers below 100), countdowns of one and two seconds with a loop late by up to a second
  and a half, one browser and a queue of one frame.

CHECK_DEADLOCK is off where a stream or a budget of keys ends by its bound.
Elsewhere the system never stops.

### Fairness

* `EmbossPipeline!FairSpec`: weak fairness of the running command's steps: a
  motor callback returns. The code has no timeout on it; if a motor hung, nothing
  would.
* `EmbossLink!FairLink`: weak fairness of command steps, of frames already
  received and of the end of a handler (one thread, no blocking), and strong
  fairness of poll between calls, because the loop alternates rx and poll and
  polling is disabled while rx runs. Heartbeats, frames, faults and time have no
  fairness.
* `SafetyRail!FairSpec`: weak fairness of the main loop, which waits for nothing
  (the hardware watchdog resets one that does). Interrupts, frames and time are
  free.
* `PiMotion!FairSpec`: weak fairness of the UI thread, each of whose scripts is
  answered or given up after its timeout, and of `Broadcast`, by which the Arduino repeats
  a latched fault. Faults, keys, jobs, the serial line and the telemetry are free.
* `MCPiCalls!Spec`: weak fairness of the UI's poll, of the daemon's worker, of its
  restart (systemd's `Restart=`) and of the watchdog's look at the mark. That a backend
  answers is its client's timeout. No key need be pressed.
* `MCPiScreens!Spec`: weak fairness of each thread that publishes, sends or serves, of
  displayd's restart, and of a browser's request once it was accepted.

## 4. Proofs

All theorems hold for every value of the constants under the named assumptions:
cells are sets of dots; pitch, offset, ring size and page length are positive;
timing constants and durations are naturals; dots are numbered from 1 to 6 and the
bound of failing scripts is at least one; the names of the launcher's apps are none of
the inline apps'; a document has a line and its characters are marks; a search finds
words of the dictionary and no spelling list is empty; mails and chats have numbers;
no control character is in the BRF table, and a header has room for its prefix; a typed
blank is no character of the calculator's line, whose limits are naturals.

* **`EmbossPipelineProofs`.** `TypeCorrect` ([]TypeOK), `FaultCutsPower`
  ([]FaultIsDead), `FaultStopsStrikes` (NoStrikeInFault). Being dead in a fault is
  not inductive alone: `FaultPlaces` adds that a fault reaches a command only
  inside a callback and that the command returns at its next step.
  `FormFeedsEndPages`: a form feed that returned in a sound machine left the paper at
  the top of a page. `PageInv` has what each place of a form feed knows of the lines
  fed, and that only a fault makes it return elsewhere.
  `Invariant` ([]IInv), from it `DotsAreFaithful`, `LinesAreComplete`,
  `NoStrikePassed`, and `ImplementsContract` (Spec => TactileLine's Spec).
  `LineFaithful` says that marks and dots owed together are what was accepted, and are
  disjoint; so no strike meets a dot that is there (`StruckOnce`, the conjunct of `IInv`
  from which the contract's `again` stays empty). To keep it when a strike is made one needs that no two owed dots are the same mark, hence that the queue is
  ordered and ahead of the carriage (`QueueInv`), hence that every due column lies
  behind the place of the next cell plus the offset (`ColumnInv`). `LineComplete`
  follows because a newline travels one whole offset, and by `ColumnInv` nothing is
  due later. `NarrowQueue` adds that with an offset no longer than the pitch, as on
  the machine, the ring never overflows, whatever its size.
  The steps are proved for `Move`, a weaker relation than Next: no bound on the room
  left, finish in any state, callbacks without power, an overflow from outside. So the
  link and the byte feed both inherit them.
  Of the link above it (`EmbossLink`) the same module has `PowerIsArmed`,
  `RecoveryIsExplicit`, `StatusIsTrue`: every step of the link is a step of the pipeline or leaves it alone
  (`LinkKeepsLine`: IInv holds here too), and the link's own invariant relates
  arming, recovery stage and last STATUS to the place the thread is in. By the same
  lemma `LinkEndsPages` and `LinkImplementsContract`: what the pipeline promises, its
  contract included, it promises behind any frames too.
* **`EmbossParserProofs`.** `DocumentsAreParsed`, `CutsKeepDocuments`,
  `FilenamesAreCurrent`, for every header prefix, alphabet and capacity. The grammar
  speaks of positions of the whole text, the parser holds a line of it: `Reads` says
  what the parser knows of the open document, and each byte class has a lemma that the
  byte keeps it and emits what the grammar gains (`Tells`); nothing the grammar says of
  earlier bytes changes, since their tokens are fixed once the first line is decided.
  `DocumentsAreParsed` assumes `Resets`, that the end of a document resets the parser:
  the radio's caller does not do it, and §5 has what follows. In the pipeline the reset
  comes later than the form feed, with motion, loss of power and faults between:
  `FlowInv` says where the thread can be, `TextInv` that `Reads` holds or that the open
  document is over and a reset parser will do (`FreshReads`), `NameInv` that the tokens
  still to be acted upon leave the name of their document. That a document which is
  over leaves the pipeline idle or done, the condition of both resets, is part of it.
  Both theorems assume `FFEndsCall`, as the property's runs do: a byte behind a form
  feed in the same call meets a parser about to be reset (§5). Without that
  assumption, `FeedKeepsLine`, `FeedImplementsContract` and `FeedEndsPages`: whatever
  the parser makes of the bytes, its tokens are well-formed (`Loaded`: a cell token has
  dots), so what its callbacks do to the motors is a `Move` of the pipeline, and the
  pipeline's invariant, contract and page ends hold under it.
  `TextReachesPaper` joins the two ends, from the bytes to the paper: while there is
  power and no fault, the open line is what the grammar reads after the last line end,
  column by column. It is no consequence of the two halves: that a cell is struck where
  the carriage was when it was accepted (`LineFaithful`) and that the tokens are those of
  the text say nothing of where the carriage was. `PaperInv` adds this: `Carriage`, that
  the carriage is, or travels to, the place of the next cell; that a line with cells is
  open, so a form feed closes it; and that while a line end is carried out its token is
  told and its line still there (`Closing`). It uses `CutsKeepDocuments`, the pipeline's
  invariant, and `Narrow`, that no strike waits between commands, so that finish's drain
  does not move the carriage.
* **`SafetyRailProofs`.** `TypeCorrect`, `RailIsSafe`, and `LossIsHeld` (between two
  resets of the MCU). The invariant has to follow the loop through the window
  between its check and its write.
* **`PiMotionProofs`.** `DotsAreInPlace`, `DotsAreComplete`, `PaperIndexIsTrue`,
  `GateWaits`, `KeptIsKept`. The offset of Row B is shorter than the pitch, so the
  delay line is empty again when a cell is through: `Core` says so, and that while
  `steady` the dots punched and the dots the strikes under way still owe are the dots
  asked for. That strikes are punched at the line they were asked for on needs `Calls`:
  the gate is closed, and the telemetry read, only when nothing is under way. So the
  returns behind a closed gate (`Dropped`, `StrikeDropped`) are in the model as in the
  code, and neither is ever taken. `KeptIsKept` has an invariant of its own: the job
  that waits for Enter is one that was asked about.
* **`PiInputProofs`**, three machines of the keys.
  `AppsArePaired`, `WordsStay`, for every launcher, every set of apps with a field and
  any number of keys. The invariant `Good` is one of the record `Shell`: each operation
  of the registry and of the menu is a lemma from a good record to a good one, and a key
  is a choice among such operations. `WordsStay` needs more than its property: the
  pending word, which no property mentions, is of this visit.
  `ChordsAreComplete`, whatever the devices, the debouncing and the time limit: a dot
  joins the chord in the poll that finds it down, before the chord may end.
  `LastIsSaid`, `TakesAreDelivered`: of the utterances in the speech queue only the last
  may be the wanted one, and when it is not, a stop waits behind it; the worker that
  takes a stop therefore leaves nothing unwanted. A thread that still captures is that
  of the open take or one somebody joins, so its words have a taker.
* **`PiAppsProofs`**, what the apps promise their reader.
  `TimeIsKept`: the invariant balances an account. What was taken and what the next tick
  finds is the time that went by, less `MaxLate` at most for each pause or restart; a
  tick moves time from one column to the other.
  `ReplacesWhatWasTaken`: the span of an open replacement lies inside its line and
  covers its target. No handler that can run meanwhile (typing, dictation, a copied
  contact card, a reload) shortens or changes a line up to where it ended: `Grown`, proved
  for each operation of the store, is what carries the span over. That word and letter
  spans lie in their line at the moment of selection rests on lemmas about the word
  boundaries.
  `IndexesStayInText`: a reader of the dictionary, an article or a spelling list stands at
  an entry that exists, since each list is opened only when it is not empty.
  `CursorsStayInLists`: a cursor of mail or messages is at an entry, or at the first of an
  empty list; a removed entry, a replaced or a doubled list, late answers and a restart of
  the daemon keep that. `Among` never makes a list longer (`AmongProperties`).
  `OpenStaysStored`, for every address book whose contacts have numbers
  (`ContactsAssumption`): `ShowsStored` adds that the recent contacts are those of the
  store wherever their list can be reached without another reading, and that sorting and
  importing bring in nothing that was not stored.
* **`CalculatorProofs`.** `ParserFollowsGrammar`: whatever is typed and printed, the parser,
  which goes through the line once and never back, accepts just the lines that the
  grammar gives a meaning, and finds that meaning; so no line has two. The grammar is
  written by parts of the line (`Language`), the parser by positions (`Parser`), both as
  recursive functions, and four things are needed.
  First, that these definitions define something. A call of a rule asks only calls
  further on in the line, or at the same place of a lower rule (`CallRank`); a part means
  what shorter parts, or the same as a term, mean (`SpanRank`). So each is the fixed point
  of its rules (`ParserFixed`, `LanguageFixed`).
  Second, every meaning is found (`EveryMeaning`, by the length of the part). A part
  must begin and end where the scanner does: a digit that follows a digit is no
  new factor (`Fresh`, `Stop`). A term is then the last factor behind a shorter term, and the
  loop that read the shorter term goes on with that factor, to the same value.
  Third, what is found is meant (`EverythingMeant`, by what remains of the line): each
  loop extends the part it has read by one factor or term. Only that there is a meaning is
  shown here; that it is the value found follows from the second.
  Fourth, an invariant of the line: the grammar has no blanks, and the parser skips them
  anywhere, so the two agree only where blanks come first. `CalcInv` says so: a
  blank is kept only before an equation, and a printed result, digits with at most a
  sign, a point and an exponent, has none (`PrintedType`). Both sides refuse the same
  divisors because values that are the same are as near to zero (`SameNearZero`).
* **`RecursionProofs`** is what these use: a least natural, induction stated for a set of
  naturals, the existence of a function given by recursion over `0..n`, and from them
  what `Among` keeps; recursion along a rank (`FixedPoint`: a step whose value at a
  place depends on lower places has a fixed point), that two such fixed points agree
  (`SameAlong`), and induction along a rank (`HoldsUpward`).

Only model-checked: liveness (CommandReturns, GapCuts, SilenceCuts, GateCatchesUp,
BatteryHolds, WaitEnds, LoadingEnds, ViewersCatchUp), which needs fairness, out of
this prover's reach. Every other property of a passing run, each invariant and each action
property, is stated by a theorem.

## 5. What the code does and its words do not say

Shown by a run:

1. *A disarmed link with its motors on* (`link_gap`). CLEAR_FAULT while nothing
   is faulted disarms the link and leaves the power on; poll then never cuts.
2. *A fall forgotten* (`rail_race`). The free-fall interrupt between the pin's
   reading and the clearing of the latch it sets.
3. *A capital sign shifts its line* (`pi_sign`). The bridge takes the carriage to be
   where the first strike is asked for. A first cell without Row A dots strikes first
   at its Row B place, and what follows is one offset to the left.

Met while modelling, in the models as the code has it, without a run of their own:

* *Firmware.* The radio's parser is never reset: from the second job on the header
  is text (`Resets = FALSE` in `EmbossJobStream`). A form feed and the beginning of the
  next header in one feed call, the rest in another: the second call's reset drops
  the held bytes. With its first cell in the same call, the cell clears the filename.
* *Interlock.* CLEAR_FAULT stamps the heartbeat later than the loop's own `now_ms`,
  the unsigned age wraps if a millisecond lies between them, and the loss it cleared is
  latched again in the same turn:
  `SilenceCuts` does not speak of such a loss too many. A fall between the status read
  and `attachInterrupt` (`mpu6050_isr.cpp:94-97`) is never latched; `LowKeepsLatch` is
  about a latch that was set. The latches live in RAM: after a reset a heartbeat and a
  working sensor bring the supply back; `LossHeld` is stated between two resets.
* *Pi motion.* No heartbeat is sent while a document is embossed (`ui_app.cpp:201`;
  `shared/protocol.md:75` has its period), so the Arduino may cut the supply of a long
  one. After an emergency stop Klipper may not be told to restart
  (`global_hooks.cpp:135`).
* *Connect.* An answer is taken by the view that is open, not by the one that asked:
  a late inbox doubles the list (`gmail_app.cpp:302`), an archived mail removes the
  entry under the cursor (441), a thread takes another's lines (`messages_app.cpp:161`), a message that reopens one
  while the chats are empty reads `chats_[0]` (163; `CursorsInLists` says nothing of an
  empty list),
  Radio's late answer takes YouTube's busy mark. Weather, Library, Music and Podcasts set
  no mark, so after a crash of the daemon nothing asks; Music stays at Scanning.
  `rss_backend.cpp:321` writes `"feeds": [` and line 271 looks for `"feeds":[`, so
  subscriptions are lost with the process (V9.md:93 keeps them).
* *Shell.* Chords reach the app under an open menu (`keyboard_service.cpp:430`; V9.md:117
  gives them to the overlay). Save and Exit and the prompt's "Yes" leave the inline
  app active, and the launcher takes no key until Menu. Quick Status, Morse and
  Paper take no leaving key.
* *Speech.* Speech pressed before Shift stops the speech even when the pair is
  abandoned (`output_hub.cpp:643`; the comment at 663 says otherwise). Shift held
  when the media starts mutes when it ends.
* *Stores.* Contacts moves an import before it saves; updating one replaces its id.
  The catalog is written by two processes and loses an update. A trailing blank line
  is lost by save and load. An edit session survives leaving the Brailler. "Review
  missed" asks the whole list.
* *Timer.* A started stopwatch cannot be stopped from the screen, only replaced.

Hazards beyond the list in `PROJECT.json`, none of them modelled: line width is not
limited (`emboss_pipeline.c:266`), nor is the position corrected after a move cut short
(149); step conversion truncates (`emboss_steps.c:12`); a STATUS lost is not repeated
(`emboss_spider.c:30`); gate and reason are two writes (`motion_gate.cpp:15`); homing
ends Complete after a failed feed (`homing_service.cpp:56`); the event file is read
while it is written (`connect_client.cpp:127`); a menu's closure is destroyed while it
runs (`menu_overlay.cpp:126`); an idle browser connection holds up `stop()`
(`http_server.cpp:226`); a browser that leaves with a key down leaves it stuck (694).

## 6. Not modelled, and the plan

Not modelled: the Arduino's key matrix and byte framing (their effect, keys and
frames whole, lost or late, is in `HostKeys`, `SafetyRail`, `PiMotion`); the step
conversion; telemetry sampling and homing; pairing codes; the setup and test apps
(one list each, filled by a command that blocks the UI); braille tables, layout,
wording, HTTP and file formats (data with no control of their own); device and
network wrappers; scripts and configuration.

Next, in this order:

1. The same statement, from the bytes to the paper, across the UART: the radio's parser,
   the frames and the Spider's pipeline behind it, as long as no frame is lost.
2. `PairingAuth`: lockout, expiry, sessions, and `RemoteDisplay` over it.
3. Telemetry and homing, and the gate composed with `SafetyRail`: the carriage is
   asked to move only with the rail on, or the document is marked.
4. The byte machines of the two serial links against a lossy line.
