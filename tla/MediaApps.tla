------------------------------- MODULE MediaApps -------------------------------
(***************************************************************************)
(* The apps that play (ui/apps/{youtube,radio,podcasts,music}_app.cpp) with  *)
(* their backends (connect/{youtube,radio,rss,music}_backend.cpp).  A view    *)
(* is the app object: its phase and what its lists hold.                     *)
(*                                                                         *)
(* Podcasts and Music never get past their first list (see ReadStore and      *)
(* MusicParsed), so what their other phases do is left out.                   *)
(***************************************************************************)
EXTENDS ConnectCalls

VARIABLES
  tube,   \* YouTubeApp: phase, results_source_, are there results, is a query typed
  radio,  \* RadioApp: phase, are there stations
  pods,   \* PodcastsApp: phase, pending_load_feeds_; RssBackend: OPML files that
          \* wait, feeds_, and how feeds_path is written
  music   \* MusicApp: phase, are there artists

mediaVars == <<tube, radio, pods, music>>

-----------------------------------------------------------------------------
(* YouTube                                                                 *)

tubeOthers == <<radio, pods, music, crashes>>
TubeReset(v) == [v EXCEPT !.phase = "menu", !.results = FALSE, !.typed = FALSE]

YoutubeEnter ==
  /\ Launch("youtube") /\ tube' = TubeReset(tube)
  /\ UNCHANGED <<busy, prompt, daemon, sound, tubeOthers>>

\* mpv keeps playing.
YoutubeLeave ==
  /\ Leave("youtube") /\ busy' = FALSE /\ tube' = TubeReset(tube)
  /\ UNCHANGED <<daemon, sound, tubeOthers>>

\* parse_results_response: an answer is shown whatever was asked for since.
TubeParsed(v, ok) ==
  [v EXCEPT !.results = ok,
            !.phase = IF ok THEN "results" ELSE IF v.source = "search" THEN "search" ELSE "menu"]

TubeAsk_Unmarked(v, cmd) ==
  IF up THEN Room /\ Submit("youtube", cmd) /\ UNCHANGED busy /\ tube' = v
        ELSE busy' = FALSE /\ tube' = TubeParsed(v, FALSE) /\ UNCHANGED jobs

\* mark_busy and request_async; without the daemon the callback runs at once.
TubeAsk(v, cmd) ==
  IF up THEN Room /\ Submit("youtube", cmd) /\ busy' = TRUE /\ tube' = v
        ELSE busy' = FALSE /\ tube' = TubeParsed(v, FALSE) /\ UNCHANGED jobs

\* load_feed and the search of handle_search
YoutubeFeed ==
  /\ Reaches("youtube") /\ tube.phase = "menu"
  /\ \E source \in {"recommended", "shorts"} :
       TubeAsk([tube EXCEPT !.phase = "loading", !.source = source], source)
  /\ UNCHANGED <<app, prompt, up, outbox, sound, tubeOthers>>

YoutubeSearch ==
  /\ Reaches("youtube") /\ tube.phase = "search" /\ tube.typed
  /\ TubeAsk([tube EXCEPT !.phase = "loading", !.source = "search", !.results = FALSE], "search")
  /\ UNCHANGED <<app, prompt, up, outbox, sound, tubeOthers>>

YoutubeType ==
  /\ Reaches("youtube")
  /\ \/ tube.phase = "menu" /\ tube' = [tube EXCEPT !.phase = "search", !.typed = FALSE]
     \/ tube.phase = "search" /\ tube' = [tube EXCEPT !.typed = TRUE]
     \/ tube.phase = "search" /\ tube.typed /\ tube' = [tube EXCEPT !.typed = FALSE]
  /\ UNCHANGED <<app, busy, prompt, daemon, sound, tubeOthers>>

\* enter_menu, from loading, an empty query, or a feed
YoutubeMenu ==
  /\ Reaches("youtube")
  /\ \/ tube.phase = "loading"
     \/ tube.phase = "search" /\ ~tube.typed
     \/ tube.phase = "results" /\ tube.source # "search"
  /\ busy' = FALSE /\ tube' = TubeReset(tube)
  /\ UNCHANGED <<app, prompt, daemon, sound, tubeOthers>>

YoutubeBackToSearch ==
  /\ Reaches("youtube") /\ tube.phase = "results" /\ tube.source = "search"
  /\ tube' = [tube EXCEPT !.phase = "search", !.results = FALSE]
  /\ UNCHANGED <<app, busy, prompt, daemon, sound, tubeOthers>>

\* play_selected and YoutubeBackend::play
YoutubePlay ==
  /\ Reaches("youtube") /\ tube.phase = "results" /\ tube.results /\ up /\ Room
  /\ \/ /\ player' = Load(player, "youtube") /\ media' = Started(media)
        /\ outbox' = Append(outbox, Event("youtube", "playing"))
        /\ tube' = [tube EXCEPT !.phase = "playing"]
     \/ /\ player' = [player EXCEPT !.believed = FALSE] \* mpv load failed
        /\ UNCHANGED <<media, outbox, tube>>
  /\ UNCHANGED <<app, busy, prompt, up, jobs, tubeOthers>>

\* Backspace of handle_playing, and YoutubeBackend::stop
YoutubeStop ==
  /\ Reaches("youtube") /\ tube.phase = "playing"
  /\ IF up THEN Room /\ player' = Silent(player)
                /\ outbox' = Append(outbox, Event("youtube", "ended"))
           ELSE UNCHANGED <<player, outbox>>
  /\ media' = MediaPlaying(media, FALSE) /\ tube' = [tube EXCEPT !.phase = "results"]
  /\ UNCHANGED <<app, busy, prompt, up, jobs, tubeOthers>>

\* Enter of handle_playing, and YoutubeBackend::pause_toggle
YoutubePause ==
  /\ Reaches("youtube") /\ tube.phase = "playing" /\ up /\ Room
  /\ player' = SetPaused(player, ~player.believed)
  /\ media' = MediaPaused(media, player'.believed)
  /\ outbox' = IF player'.believed THEN outbox ELSE Append(outbox, Event("youtube", "playing"))
  /\ UNCHANGED <<app, busy, prompt, up, jobs, tube, tubeOthers>>

\* on_connect_event
YoutubeEvent ==
  /\ TakeLine /\ Line.event # "response" /\ Line.to = "youtube"
  /\ media' = Hub(media, Line)
  /\ tube' = IF app = "youtube" /\ Line.event = "ended"
               THEN [tube EXCEPT !.phase = "results"] ELSE tube
  /\ UNCHANGED <<registry, up, jobs, player, keys, tubeOthers>>

YoutubeAnswer ==
  /\ Answers("youtube") /\ busy' = FALSE /\ tube' = TubeParsed(tube, Line.ok)
  /\ UNCHANGED <<app, prompt, up, jobs, sound, keys, tubeOthers>>

\* The worker: yt-dlp finds videos or not.
YoutubeWork ==
  /\ \E cmd \in {"search", "recommended", "shorts"}, ok \in BOOLEAN :
       JobOf("youtube", cmd) /\ JobDone(<<Response(Head(jobs), ok)>>)
  /\ UNCHANGED <<registry, up, sound, keys, mediaVars, crashes>>

YoutubeKey ==
  \/ YoutubeEnter \/ YoutubeLeave \/ YoutubeFeed \/ YoutubeSearch \/ YoutubeType
  \/ YoutubeMenu \/ YoutubeBackToSearch \/ YoutubePlay \/ YoutubeStop \/ YoutubePause
YoutubePoll == YoutubeEvent \/ YoutubeAnswer

-----------------------------------------------------------------------------
(* Radio                                                                   *)

radioOthers == <<tube, pods, music, crashes>>

\* parse_stations_response, and the callback of play_station
RadioParsed(v, cmd, ok) ==
  IF cmd = "list" THEN [phase |-> "stations", stations |-> ok]
                  ELSE [v EXCEPT !.phase = IF ok THEN "playing" ELSE "stations"]

RadioAsk(v, cmd) ==
  IF up THEN Room /\ Submit("radio", cmd) /\ busy' = TRUE /\ radio' = v
        ELSE busy' = FALSE /\ radio' = RadioParsed(v, cmd, FALSE) /\ UNCHANGED jobs

RadioEnter ==
  /\ Launch("radio") /\ RadioAsk([phase |-> "loading", stations |-> FALSE], "list")
  /\ UNCHANGED <<prompt, up, outbox, sound, radioOthers>>

\* RadioBackend::stop
StopRadio ==
  IF up THEN Room /\ player' = Silent(player) /\ outbox' = Append(outbox, Event("radio", "ended"))
        ELSE UNCHANGED <<player, outbox>>

RadioLeave ==
  /\ Leave("radio") /\ busy' = FALSE /\ StopRadio /\ media' = MediaPlaying(media, FALSE)
  /\ radio' = [phase |-> "loading", stations |-> FALSE]
  /\ UNCHANGED <<up, jobs, radioOthers>>

RadioStart ==
  /\ Reaches("radio") /\ radio.phase = "stations" /\ radio.stations
  /\ RadioAsk([radio EXCEPT !.phase = "starting"], "play")
  /\ UNCHANGED <<app, prompt, up, outbox, sound, radioOthers>>

RadioStop ==
  /\ Reaches("radio") /\ radio.phase = "playing"
  /\ StopRadio /\ media' = MediaPlaying(media, FALSE)
  /\ radio' = [radio EXCEPT !.phase = "stations"]
  /\ UNCHANGED <<app, busy, prompt, up, jobs, radioOthers>>

RadioEvent ==
  /\ TakeLine /\ Line.event # "response" /\ Line.to = "radio"
  /\ media' = Hub(media, Line)
  /\ radio' = IF app = "radio" /\ Line.event = "ended"
                THEN [radio EXCEPT !.phase = "stations"] ELSE radio
  /\ UNCHANGED <<registry, up, jobs, player, keys, radioOthers>>

RadioAnswer ==
  /\ Answers("radio") /\ busy' = FALSE /\ radio' = RadioParsed(radio, Line.cmd, Line.ok)
  /\ UNCHANGED <<app, prompt, up, jobs, sound, keys, radioOthers>>

RadioList ==
  /\ JobOf("radio", "list") /\ \E ok \in BOOLEAN : JobDone(<<Response(Head(jobs), ok)>>)
  /\ UNCHANGED <<registry, up, sound, keys, mediaVars, crashes>>

\* RadioBackend::play
RadioPlay ==
  /\ JobOf("radio", "play")
  /\ \/ /\ player' = Load(player, "radio")
        /\ JobDone(<<Event("radio", "playing"), Response(Head(jobs), TRUE)>>)
     \/ /\ player' = [player EXCEPT !.believed = FALSE] \* mpv load failed
        /\ JobDone(<<Response(Head(jobs), FALSE)>>)
  /\ UNCHANGED <<registry, up, media, keys, mediaVars, crashes>>

RadioKey == RadioEnter \/ RadioLeave \/ RadioStart \/ RadioStop
RadioPoll == RadioEvent \/ RadioAnswer

-----------------------------------------------------------------------------
(* Podcasts                                                                *)

podsOthers == <<tube, radio, music, crashes>>

\* load_store looks for `"feeds":[`; save_store writes `"feeds": [`.
ReadStore(file) == file = "compact"

\* import_opml: new subscriptions go to feeds_ and to the file, and the OPML
\* file is moved away.
ImportOpml(v) ==
  [v EXCEPT !.feeds = @ \/ v.opml, !.opml = FALSE,
            !.file = IF v.feeds \/ v.opml THEN "spaced" ELSE "empty"]

\* refresh: import, read the file again, fetch the feeds, write.
Refresh(v) ==
  LET read == ReadStore(ImportOpml(v).file)
  IN  [ImportOpml(v) EXCEPT !.feeds = read, !.file = IF read THEN "spaced" ELSE "empty"]

\* on_enter: podcasts.import_opml at once, podcasts.refresh queued
PodcastsEnter ==
  /\ Launch("podcasts")
  /\ IF up THEN Room /\ Submit("podcasts", "refresh")
                /\ pods' = [ImportOpml(pods) EXCEPT !.phase = "loading", !.load = FALSE]
           ELSE pods' = [pods EXCEPT !.phase = "feeds", !.load = FALSE] /\ UNCHANGED jobs
  /\ UNCHANGED <<busy, prompt, up, outbox, sound, podsOthers>>

PodcastsLeave ==
  /\ Leave("podcasts") /\ busy' = (busy /\ prompt # "shown")
  /\ pods' = [pods EXCEPT !.phase = "loading", !.load = FALSE]
  /\ UNCHANGED <<daemon, sound, podsOthers>>

\* Enter of handle_feeds, while there are none
PodcastsRetry ==
  /\ Reaches("podcasts") /\ pods.phase = "feeds"
  /\ IF up THEN Room /\ Submit("podcasts", "retry") /\ UNCHANGED pods
           ELSE pods' = [pods EXCEPT !.load = TRUE] /\ UNCHANGED jobs
  /\ UNCHANGED <<app, busy, prompt, up, outbox, sound, podsOthers>>

PodcastsAnswer ==
  /\ Answers("podcasts")
  /\ pods' = IF Line.ok \/ Line.cmd = "retry" THEN [pods EXCEPT !.load = TRUE]
                                             ELSE [pods EXCEPT !.phase = "feeds"]
  /\ UNCHANGED <<registry, up, jobs, sound, keys, podsOthers>>

\* on_poll: load_feeds and RssBackend::list_feeds, which reads the file again
PodcastsLoad ==
  /\ app = "podcasts" /\ pods.load
  /\ pods' = [pods EXCEPT !.load = FALSE, !.phase = "feeds",
                          !.feeds = IF up THEN ReadStore(pods.file) ELSE pods.feeds]
  /\ UNCHANGED <<callVars, tube, radio, music>>

PodcastsRefresh ==
  /\ \E cmd \in {"refresh", "retry"}, ok \in BOOLEAN :
       /\ JobOf("podcasts", cmd) /\ JobDone(<<Response(Head(jobs), ok)>>)
       /\ pods' = IF ok THEN Refresh(pods) ELSE pods \* podcasts disabled
  /\ UNCHANGED <<registry, up, sound, keys, podsOthers>>

PodcastsKey == PodcastsEnter \/ PodcastsLeave \/ PodcastsRetry
PodcastsPoll == PodcastsAnswer \/ PodcastsLoad

-----------------------------------------------------------------------------
(* Music                                                                   *)

musicOthers == <<tube, radio, pods, crashes>>

\* parse_scan_response cuts the answer at its first "]", inside the tracks of the
\* first album, so that no artist is complete: "No music found", still scanning.
MusicParsed(v, ok) == [phase |-> "scanning", artists |-> FALSE]

MusicEnter ==
  /\ Launch("music")
  /\ IF up THEN Room /\ Submit("music", "scan") ELSE UNCHANGED jobs
  /\ music' = [phase |-> "scanning", artists |-> FALSE]
  /\ UNCHANGED <<busy, prompt, up, outbox, sound, musicOthers>>

MusicLeave ==
  /\ Leave("music") /\ busy' = (busy /\ prompt # "shown")
  /\ music' = [phase |-> "scanning", artists |-> FALSE]
  /\ UNCHANGED <<daemon, sound, musicOthers>>

MusicAnswer ==
  /\ Answers("music") /\ music' = MusicParsed(music, Line.ok)
  /\ UNCHANGED <<registry, up, jobs, sound, keys, musicOthers>>

\* scan: files that wait are moved in, the tree is built
MusicScan ==
  /\ JobOf("music", "scan") /\ \E ok \in BOOLEAN : JobDone(<<Response(Head(jobs), ok)>>)
  /\ UNCHANGED <<registry, up, sound, keys, mediaVars, crashes>>

-----------------------------------------------------------------------------
MediaInit ==
  /\ tube = [phase |-> "menu", source |-> "recommended", results |-> FALSE, typed |-> FALSE]
  /\ radio = [phase |-> "loading", stations |-> FALSE]
  /\ pods \in [phase : {"loading"}, load : {FALSE}, opml : BOOLEAN, feeds : {FALSE},
               file : {"empty"}]
  /\ music = [phase |-> "scanning", artists |-> FALSE]
===============================================================================
