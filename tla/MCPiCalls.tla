------------------------------ MODULE MCPiCalls ------------------------------
(***************************************************************************)
(* The apps that call the connect daemon, for TLC.  One app (or YouTube with  *)
(* Radio, which share the player) is used in a behaviour: focus says which,    *)
(* and Budget how many keys are pressed.                                      *)
(***************************************************************************)
EXTENDS MediaApps, WeatherApp, LibraryApp, CommsApps

CONSTANTS Budget

VARIABLES
  focus,
  waiting  \* history: has the user answered "No" at the prompt, to wait on?

appVars == <<mediaVars, weatherVars, libraryVars, commsVars>>
vars == <<focus, waiting, callVars, appVars>>

MCBudget ==
  ("youtube" :> 7) @@ ("radio" :> 7) @@ ("players" :> 5) @@ ("podcasts" :> 5) @@ ("music" :> 4)
  @@ ("weather" :> 7) @@ ("library" :> 8) @@ ("gmail" :> 7) @@ ("messages" :> 5)
MCShelf == <<1, 2>>
MCInbox == <<4>>
MCMails == <<1, 2>>
MCChats == <<1, 2>>

Init ==
  /\ focus \in DOMAIN Budget /\ keys = Budget[focus]
  /\ waiting = FALSE
  /\ CallInit /\ MediaInit /\ WeatherInit /\ LibraryInit /\ CommsInit
  \* one initial state of the apps that are not used
  /\ focus # "podcasts" => ~pods.opml
  /\ focus # "weather" => sky.city = [s \in Slots |-> 0]
  /\ focus # "library" => shelf.inbox = <<>>
  /\ focus \notin {"gmail", "messages"} => post.oauth

On(names) == focus \in names
OnMedia == UNCHANGED <<weatherVars, libraryVars, commsVars>>
OnWeather == On({"weather"}) /\ UNCHANGED <<mediaVars, libraryVars, commsVars>>
OnLibrary == On({"library"}) /\ UNCHANGED <<mediaVars, weatherVars, commsVars>>
OnComms == UNCHANGED <<mediaVars, weatherVars, libraryVars>>

Keys ==
  \/ OnMedia /\ On({"youtube", "players"}) /\ YoutubeKey
  \/ OnMedia /\ On({"radio", "players"}) /\ RadioKey
  \/ OnMedia /\ On({"podcasts"}) /\ PodcastsKey
  \/ OnMedia /\ On({"music"}) /\ (MusicEnter \/ MusicLeave)
  \/ OnWeather /\ WeatherKey
  \/ OnLibrary /\ LibraryKey
  \/ OnComms /\ On({"gmail"}) /\ GmailKey
  \/ OnComms /\ On({"messages"}) /\ MessagesKey

\* poll_events and on_poll, in every turn of the UI loop
Polls ==
  \/ OnMedia /\ (YoutubePoll \/ RadioPoll \/ PodcastsPoll \/ MusicAnswer)
  \/ OnWeather /\ WeatherPoll
  \/ OnLibrary /\ LibraryPoll
  \/ OnComms /\ On({"gmail"}) /\ GmailPoll
  \/ OnComms /\ On({"messages"}) /\ MessagesPoll

\* The worker, and what the daemon does of itself
Worker ==
  \/ OnMedia /\ (YoutubeWork \/ RadioList \/ RadioPlay \/ PodcastsRefresh \/ MusicScan)
  \/ OnWeather /\ (WeatherBegin \/ WeatherNotFound \/ WeatherEnd)
  \/ OnLibrary /\ (LibrarySearched \/ WorthwhileSearched \/ DownloadBegin \/ DownloadEnd
                   \/ WorthwhileDownload)
  \/ OnComms /\ On({"gmail"}) /\ GmailWork
  \/ OnComms /\ On({"messages"}) /\ MessagesWork

Restart ==
  \/ OnMedia /\ On({"youtube", "radio", "players", "podcasts", "music"}) /\ DaemonStart
     /\ UNCHANGED mediaVars
  \/ OnWeather /\ WeatherRestart
  \/ OnLibrary /\ LibraryRestart
  \/ OnComms /\ On({"gmail", "messages"}) /\ CommsRestart

Others ==
  \/ CallStep /\ UNCHANGED appVars
  \/ OnWeather /\ WeatherRefresh
  \/ OnComms /\ On({"messages"}) /\ MessageArrives

Next ==
  /\ UNCHANGED focus
  /\ Keys \/ Polls \/ Worker \/ Restart \/ Others
  /\ waiting' = (waiting \/ Dismiss)

\* The UI loop turns and looks at its watchdog, the worker takes its jobs, and
\* systemd starts the daemon again; nobody need press a key.
Spec ==
  /\ Init /\ [][Next]_vars
  /\ WF_vars(Polls /\ UNCHANGED <<focus, waiting>>) /\ WF_vars(Worker /\ UNCHANGED <<focus, waiting>>)
  /\ WF_vars(Restart /\ UNCHANGED <<focus, waiting>>)
  /\ WF_vars(Frozen /\ UNCHANGED <<focus, waiting, appVars>>)

-----------------------------------------------------------------------------
\* A user who waits for YouTube, and used no other app, is not left waiting: the
\* answer comes, or the daemon took it along and the prompt says that the app does
\* not respond.  Who answers "No" there is on their own: the mark is gone with the
\* prompt.  So is who has used Radio: its late answer takes YouTube's mark away.
WaitEnds == (focus = "youtube" /\ app = "youtube" /\ tube.phase = "loading") ~>
              (app # "youtube" \/ tube.phase # "loading" \/ prompt # "none" \/ waiting)

\* Weather sets no busy mark; as long as the daemon lives, each way to fail ends
\* the wait for a forecast all the same.
LoadingEnds == (app = "weather" /\ wx.layer = "loading") ~>
                 (app # "weather" \/ wx.layer # "loading" \/ crashes > 0)
===============================================================================
