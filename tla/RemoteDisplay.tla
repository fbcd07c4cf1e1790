---------------------------- MODULE RemoteDisplay ----------------------------
(***************************************************************************)
(* The screen of the Pi in a browser (daemon-dietpi/src/display,              *)
(* ui/display/remote_frame_publisher.cpp, ui/output_hub.cpp): two threads of    *)
(* the UI process publish frames to displayd, whose poll thread sends them to   *)
(* the browsers its accept thread let in; the settings switch it on and off.    *)
(*                                                                         *)
(* A frame is the number of the screen it shows; two screens have different     *)
(* checksums.  Who may see the screen (PairingAuth) is a choice: a browser's     *)
(* request is let in or not.  Keys from the browser are the device of HostKeys.   *)
(***************************************************************************)
EXTENDS ConnectCalls

CONSTANTS
  Viewers,  \* browsers
  Backlog   \* bound: frames sent and not read, listen()'s backlog

VARIABLES
  screen,  \* chrome_model_
  remote,  \* OutputHub and RemoteFramePublisher: enabled_, last_crc32_, the switch
           \* as the file has it, need-frame, g_repaint
  sender,  \* what each publishing thread is at, with its frame and need_frame
  wire,    \* frames in the socket
  cmds,    \* commands in displayd's socket
  shower,  \* displayd: is it up, does its HttpServer run, its cached frame, whom its
           \* accept thread serves
  viewer,  \* what became of each browser's connection
  shown    \* the frame each browser shows

displayVars == <<screen, remote, sender, wire, cmds, shower, viewer, shown>>

Resting == [at |-> "idle", frame |-> 0, need |-> FALSE]
NoThread == [Resting EXCEPT !.at = "off"]

\* Both processes have read the setting, and the UI has asked displayd to serve.
DisplayInit ==
  /\ screen = 1
  /\ \E on \in BOOLEAN :
       /\ remote = [on |-> on, last |-> 0, file |-> on, need |-> FALSE, repaint |-> FALSE]
       /\ sender = [ui |-> Resting, thread |-> IF on THEN Resting ELSE NoThread]
       /\ cmds = IF on THEN <<"start">> ELSE <<>>
       /\ shower = [at |-> "polls", http |-> on, cached |-> 0, serves |-> "none"]
  /\ wire = <<>>
  /\ viewer = [v \in Viewers |-> "off"] /\ shown = [v \in Viewers |-> 0]

DisplayKept == UNCHANGED <<registry, daemon, sound>>
Listens == shower.at \in {"polls", "stopping"}

-----------------------------------------------------------------------------
(* RemoteFramePublisher::publish, by the UI thread and by its own thread       *)

\* The screen s as a thread saw it, if it is to be sent.
Framed(s, force) ==
  IF remote.on /\ (force \/ s # remote.last)
  THEN [at |-> "framed", frame |-> s, need |-> force /\ remote.need]
  ELSE Resting

\* sync_chrome and render_chrome, for a new screen or after SIGUSR1
RenderChrome ==
  /\ sender.ui.at = "idle"
  /\ \/ Key /\ screen' = screen + 1 /\ UNCHANGED remote
     \/ remote.repaint /\ remote' = [remote EXCEPT !.repaint = FALSE] /\ UNCHANGED <<screen, keys>>
  /\ sender' = [sender EXCEPT !.ui = Framed(screen', remote.need)]
  /\ UNCHANGED <<wire, cmds, shower, viewer, shown, crashes>> /\ DisplayKept

\* The thread publishes again only what changed.
ThreadFrames_OnChange ==
  /\ sender.thread.at = "idle" /\ sender' = [sender EXCEPT !.thread = Framed(screen, FALSE)]
  /\ sender.thread # sender'.thread
  /\ UNCHANGED <<screen, remote, wire, cmds, shower, viewer, shown, keys, crashes>> /\ DisplayKept
\* remote_display_thread_main, every second or four times a second
ThreadFrames ==
  /\ sender.thread.at = "idle" /\ sender' = [sender EXCEPT !.thread = Framed(screen, TRUE)]
  /\ UNCHANGED <<screen, remote, wire, cmds, shower, viewer, shown, keys, crashes>> /\ DisplayKept

\* send_packet: connect() waits while the backlog is full, and fails when nobody
\* listens.
Sends(t) ==
  /\ sender[t].at = "framed" /\ (Listens => Len(wire) < Backlog)
  /\ wire' = IF Listens THEN Append(wire, sender[t].frame) ELSE wire
  /\ sender' = [sender EXCEPT ![t].at = IF Listens THEN "sent" ELSE "failed"]
  /\ UNCHANGED <<screen, remote, cmds, shower, viewer, shown, keys, crashes>> /\ DisplayKept

\* last_crc32_ is set after the frame is out, by whichever thread comes last.
Published(t) ==
  /\ sender[t].at \in {"sent", "failed"}
  /\ remote' = IF sender[t].at = "failed" THEN [remote EXCEPT !.last = 0]
               ELSE [remote EXCEPT !.last = sender[t].frame, !.need = @ /\ ~sender[t].need]
  /\ sender' = [sender EXCEPT ![t] = Resting]
  /\ UNCHANGED <<screen, wire, cmds, shower, viewer, shown, keys, crashes>> /\ DisplayKept

-----------------------------------------------------------------------------
(* The switch: sync_remote_display_publisher                               *)

\* The setting is written, and displayd asked; the UI waits.
Switch ==
  /\ Key /\ sender.ui.at = "idle"
  /\ remote' = [remote EXCEPT !.on = ~@, !.file = ~remote.on]
  /\ cmds' = IF Listens THEN Append(cmds, IF remote.on THEN "stop" ELSE "start") ELSE cmds
  /\ sender' = [sender EXCEPT !.ui.at = "asking"]
  /\ UNCHANGED <<screen, wire, shower, viewer, shown, crashes>> /\ DisplayKept

\* The answer came, or none within two seconds: the thread is started, or joined
\* between two of its frames.
Switched ==
  /\ sender.ui.at = "asking"
  /\ sender.thread.at \in {"off", "idle"} \/ remote.on
  /\ sender' = [sender EXCEPT !.ui = Resting,
                              !.thread = IF ~remote.on THEN NoThread ELSE IF @.at = "off" THEN Resting ELSE @]
  /\ UNCHANGED <<screen, remote, wire, cmds, shower, viewer, shown, keys, crashes>> /\ DisplayKept

-----------------------------------------------------------------------------
(* displayd: DisplayService::poll                                          *)

Open == {v \in Viewers : viewer[v] = "open"}
Drops(states) == [v \in Viewers |-> IF viewer[v] \in states THEN "off" ELSE viewer[v]]

\* poll_once and broadcast_frame; a browser that is gone fails the send.
FrameTaken ==
  /\ shower.at = "polls" /\ wire # <<>> /\ wire' = Tail(wire)
  /\ IF shower.http
     THEN /\ shower' = [shower EXCEPT !.cached = Head(wire)]
          /\ shown' = [v \in Viewers |-> IF v \in Open THEN Head(wire) ELSE shown[v]]
          /\ viewer' = Drops({"gone"})
     ELSE UNCHANGED <<shower, shown, viewer>>
  /\ UNCHANGED <<screen, remote, sender, cmds, keys, crashes>> /\ DisplayKept

\* handle_command; stop() ends the accept thread first.
CommandTaken ==
  /\ shower.at = "polls" /\ cmds # <<>> /\ cmds' = Tail(cmds)
  /\ remote' = [remote EXCEPT !.file = Head(cmds) = "start"]
  /\ shower' = IF Head(cmds) = "start" THEN [shower EXCEPT !.http = TRUE]
               ELSE IF shower.http THEN [shower EXCEPT !.at = "stopping"] ELSE shower
  /\ UNCHANGED <<screen, sender, wire, viewer, shown, keys, crashes>> /\ DisplayKept

\* The accept thread is joined when its last request is done; then the browsers are
\* closed, and the cached frame is gone with the server.
HttpStopped ==
  /\ shower.at = "stopping" /\ shower.serves = "none"
  /\ shower' = [at |-> "polls", http |-> FALSE, cached |-> 0, serves |-> "none"]
  /\ viewer' = Drops({"queued", "open", "gone"})
  /\ UNCHANGED <<screen, remote, sender, wire, cmds, shown, keys, crashes>> /\ DisplayKept

\* poll_clients
ClientsPolled ==
  /\ shower.at = "polls" /\ \E v \in Viewers : viewer[v] = "gone"
  /\ viewer' = Drops({"gone"})
  /\ UNCHANGED <<screen, remote, sender, wire, cmds, shower, shown, keys, crashes>> /\ DisplayKept

ShowerCrash ==
  /\ Listens /\ crashes < MaxCrashes /\ crashes' = crashes + 1
  /\ shower' = [at |-> "down", http |-> FALSE, cached |-> 0, serves |-> "none"]
  /\ wire' = <<>> /\ cmds' = <<>> /\ viewer' = [v \in Viewers |-> "off"]
  /\ UNCHANGED <<screen, remote, sender, shown, keys>> /\ DisplayKept

\* main() reads the file, and only then start() listens.
ShowerStart ==
  /\ shower.at \in {"down", "read"}
  /\ shower' = IF shower.at = "down" THEN [shower EXCEPT !.at = "read", !.http = remote.file]
               ELSE [shower EXCEPT !.at = "polls"]
  /\ UNCHANGED <<screen, remote, sender, wire, cmds, viewer, shown, keys, crashes>> /\ DisplayKept

-----------------------------------------------------------------------------
(* The browsers, and the accept thread                                      *)

Browser(v, was, is) == viewer[v] = was /\ viewer' = [viewer EXCEPT ![v] = is]
BrowserKept == UNCHANGED <<screen, sender, wire, cmds, keys, crashes>> /\ DisplayKept

Connects(v) ==
  /\ shower.http /\ shower.at = "polls" /\ Browser(v, "off", "queued")
  /\ UNCHANGED <<remote, shower, shown>> /\ BrowserKept

Accepts(v) ==
  /\ shower.at = "polls" /\ shower.serves = "none" /\ Browser(v, "queued", "served")
  /\ shower' = [shower EXCEPT !.serves = v] /\ UNCHANGED <<remote, shown>> /\ BrowserKept

\* handle_client. A browser let in is sent the cached frame; if there is none, the UI
\* is asked for one.
Upgrades(v) ==
  /\ Browser(v, "served", "open")
  /\ shower' = [shower EXCEPT !.serves = "none"]
  /\ shown' = [shown EXCEPT ![v] = IF shower.cached # 0 THEN shower.cached ELSE @]
  /\ remote' = IF shower.cached # 0 THEN remote ELSE [remote EXCEPT !.need = TRUE, !.repaint = TRUE]
  /\ BrowserKept

\* Any other request, or none: the connection is closed.
TurnedAway(v) ==
  /\ Browser(v, "served", "off") /\ shower' = [shower EXCEPT !.serves = "none"]
  /\ UNCHANGED <<remote, shown>> /\ BrowserKept

\* A browser goes without a word.
Goes(v) == Browser(v, "open", "gone") /\ UNCHANGED <<remote, shower, shown>> /\ BrowserKept

Publishing == ThreadFrames \/ \E t \in {"ui", "thread"} : Sends(t) \/ Published(t)
Showing == FrameTaken \/ CommandTaken \/ HttpStopped \/ ClientsPolled \/ ShowerStart
DisplayStep ==
  \/ RenderChrome \/ Switch \/ Switched \/ Publishing \/ Showing \/ ShowerCrash
  \/ \E v \in Viewers : Connects(v) \/ Accepts(v) \/ Upgrades(v) \/ TurnedAway(v) \/ Goes(v)

-----------------------------------------------------------------------------
(* Properties                                                              *)

\* A browser that stays connected while the display is on shows the screen of the Pi
\* in the end, whichever thread published last, and whether displayd was restarted,
\* its frame lost or the browser came before the first frame (publish, need-frame).
ViewersCatchUp ==
  \A v \in Viewers : <>[](viewer[v] = "open" /\ remote.on) => <>[](shown[v] = screen)
===============================================================================
