----------------------------- MODULE ConnectCalls -----------------------------
(***************************************************************************)
(* How the apps of the UI process call the connect daemon                    *)
(* (daemon-dietpi/src/connect, ui/apps/app_registry.cpp): a short request is  *)
(* answered on the socket while the UI waits; a long one is queued for the    *)
(* daemon's one worker, and its answer comes back as a line of the event      *)
(* file, which the UI reads from where it left off.                          *)
(*                                                                         *)
(* An app object outlives its screen: the answer runs its callback whether it *)
(* is the active app or not.  The registry has one busy mark for all apps; a  *)
(* mark that gets old brings the prompt "App not responding".                *)
(***************************************************************************)
EXTENDS Naturals, Sequences, ListOps

CONSTANTS
  MaxCrashes,  \* bound: crashes of the daemon
  MaxQueue     \* bound: requests queued and lines unread

VARIABLES
  app,     \* active_, or "none"
  busy,    \* is busy_since_ms_ set?
  prompt,  \* frozen_prompt_open_: "none", or its menu is "shown" or "hidden"
  up,      \* does the daemon listen?
  jobs,    \* ConnectJobQueue::jobs_, and the job the worker has
  outbox,  \* lines of the event file behind event_offset_
  player,  \* mpv: what is loaded, its pause property, and MpvService::paused_
  media,   \* OutputHub: media_playing_, media_paused_, media_shift_paused_
  keys,    \* what is left of the bound on keys
  crashes  \* crashes so far

registry == <<app, busy, prompt>>
daemon   == <<up, jobs, outbox>>
sound    == <<player, media>>
callVars == <<registry, daemon, sound, keys, crashes>>

Key == keys > 0 /\ keys' = keys - 1

-----------------------------------------------------------------------------
(* ConnectJobQueue, EventWriter, ConnectClient                              *)

Room == Len(jobs) + Len(outbox) < MaxQueue

\* A request the daemon queues (is_async_command), for a slot, book or contact n.
SubmitFor(to, cmd, n) == jobs' = Append(jobs, [to |-> to, cmd |-> cmd, n |-> n])
Submit(to, cmd) == SubmitFor(to, cmd, 0)

\* connect.response for a job, behind the events its backend wrote; n is what
\* was found.
Reply(job, ok, n) == [event |-> "response", to |-> job.to, cmd |-> job.cmd, ok |-> ok, n |-> n]
Response(job, ok) == Reply(job, ok, job.n)
Event(service, name) ==
  [event |-> name, to |-> service, cmd |-> "none", ok |-> TRUE, n |-> 0]

\* The worker ends the job at the head of the queue.
JobOf(to, cmd) == up /\ jobs # <<>> /\ Head(jobs).to = to /\ Head(jobs).cmd = cmd
JobDone(lines) == jobs' = Tail(jobs) /\ outbox' = outbox \o lines

\* The next line of the event file; poll_events has moved the offset.
Line == Head(outbox)
TakeLine == outbox # <<>> /\ outbox' = Tail(outbox)
Answers(to) == TakeLine /\ Line.event = "response" /\ Line.to = to

\* The daemon dies with its queue, its player and its answers, and is started
\* again by systemd.  A callback that waits is then never run.
DaemonCrash ==
  /\ up /\ crashes < MaxCrashes /\ crashes' = crashes + 1
  /\ up' = FALSE /\ jobs' = <<>>
  /\ player' = [item |-> "none", paused |-> FALSE, believed |-> FALSE]
  /\ UNCHANGED <<registry, outbox, media, keys>>

DaemonStart ==
  /\ ~up /\ up' = TRUE
  /\ UNCHANGED <<registry, jobs, outbox, sound, keys, crashes>>

-----------------------------------------------------------------------------
(* MpvService                                                              *)

\* mark_playing and loadfile; mpv keeps its pause property from file to file.
Load(p, who) == [item |-> who, paused |-> p.paused, believed |-> FALSE]
SetPaused(p, pause) ==
  IF p.believed = pause THEN p ELSE [p EXCEPT !.paused = pause, !.believed = pause]
Silent(p) == [p EXCEPT !.item = "none"]

-----------------------------------------------------------------------------
(* OutputHub: the media flags                                              *)

MediaPlaying(m, playing) ==
  IF playing THEN [m EXCEPT !.playing = TRUE]
             ELSE [playing |-> FALSE, paused |-> FALSE, shift |-> FALSE]
MediaPaused(m, paused) == [m EXCEPT !.paused = paused]
Started(m) == MediaPaused(MediaPlaying(m, TRUE), FALSE)

\* What the hub does with a line before the app sees it.
Hub(m, line) ==
  CASE line.event = "playing" -> Started(m)
    [] line.event = "ended"   -> MediaPlaying(m, FALSE)
    [] OTHER -> m

\* Shift held over playing media pauses it, and released resumes it.
ShiftPress ==
  /\ Key /\ media.playing /\ ~media.shift
  /\ player' = IF up THEN SetPaused(player, TRUE) ELSE player
  /\ media' = [media EXCEPT !.shift = TRUE, !.paused = TRUE]
  /\ UNCHANGED <<registry, daemon, crashes>>

ShiftRelease ==
  /\ media.playing /\ media.shift
  /\ player' = IF up THEN SetPaused(player, FALSE) ELSE player
  /\ media' = [media EXCEPT !.shift = FALSE, !.paused = FALSE]
  /\ UNCHANGED <<registry, daemon, keys, crashes>>

\* "Pause playback" and "Stop playback" of the quick settings.
MenuPause ==
  /\ Key /\ media.playing /\ up /\ prompt # "shown"
  /\ player' = SetPaused(player, ~player.believed)
  /\ media' = MediaPaused(media, ~player.believed)
  /\ UNCHANGED <<registry, daemon, crashes>>

MenuStop ==
  /\ Key /\ media.playing /\ prompt # "shown"
  /\ player' = IF up THEN Silent(player) ELSE player
  /\ media' = MediaPlaying(media, FALSE)
  /\ UNCHANGED <<registry, daemon, crashes>>

-----------------------------------------------------------------------------
(* AppRegistry: entering, leaving, the watchdog and its prompt               *)

\* Keys reach the active app unless the menu of the prompt is open.
Reaches(a) == Key /\ app = a /\ prompt # "shown"

Launch(a) == Key /\ app = "none" /\ prompt # "shown" /\ app' = a

\* "Back to app list", Backspace at the top of an app, or "Yes" at the prompt.
Leave(a) ==
  /\ Key /\ app = a /\ app' = "none"
  /\ prompt' = IF prompt = "shown" THEN "none" ELSE prompt

\* kFrozenTimeoutMs after mark_busy.  Only YouTube and Radio mark, and both clear
\* the mark when they are left, so it is never found without an app.
Frozen ==
  /\ busy /\ app # "none" /\ prompt = "none"
  /\ prompt' = "shown"
  /\ UNCHANGED <<app, busy, daemon, sound, keys, crashes>>

\* "No", or Menu pressed until the menu is closed.
Dismiss ==
  /\ Key /\ prompt # "none" /\ prompt' = "none" /\ busy' = FALSE
  /\ UNCHANGED <<app, daemon, sound, crashes>>

\* on_menu_back closes the menu and leaves frozen_prompt_open_ set.
BackFromPrompt ==
  /\ Key /\ prompt = "shown" /\ prompt' = "hidden"
  /\ UNCHANGED <<app, busy, daemon, sound, crashes>>

CallInit ==
  /\ app = "none" /\ busy = FALSE /\ prompt = "none"
  /\ up = TRUE /\ jobs = <<>> /\ outbox = <<>> /\ crashes = 0
  /\ player = [item |-> "none", paused |-> FALSE, believed |-> FALSE]
  /\ media = [playing |-> FALSE, paused |-> FALSE, shift |-> FALSE]

CallStep ==
  \/ DaemonCrash
  \/ Frozen \/ Dismiss \/ BackFromPrompt
  \/ ShiftPress \/ ShiftRelease \/ MenuPause \/ MenuStop
===============================================================================
