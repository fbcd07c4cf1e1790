----------------------------- MODULE MCPiScreens -----------------------------
(***************************************************************************)
(* The shell, the keys, the apps that work on what the Pi itself keeps, and its   *)
(* screen in a browser, for TLC.  focus says which is used in a behaviour, Budget how many keys are      *)
(* pressed and devices plugged.                                              *)
(***************************************************************************)
EXTENDS ContactsApp, ReferenceApps, CalculatorApp, TimerService,
        HostKeys, SpeechKeys, PiShell, RemoteDisplay

CONSTANTS Budget

VARIABLE focus

appVars == <<documentVars, contactsVars, referenceVars, calc, timerVars>>
deskVars == <<hostVars, speechVars, shellVars, displayVars>>
vars == <<focus, callVars, appVars, deskVars>>

MCBudget ==
  ("documents" :> 7) @@ ("contacts" :> 11) @@ ("reference" :> 12) @@ ("calculator" :> 7)
  @@ ("timer" :> 6) @@ ("keys" :> 5) @@ ("speech" :> 4) @@ ("shell" :> 12)
  @@ ("display" :> 2)
MCStandalone == <<"brailler", "youtube">>
MCText == << <<"o", "o", " ", "o">>, <<>>, <<"o">> >>
MCBook == << [id |-> 1, key |-> 2], [id |-> 2, key |-> 1] >>
MCWords == ("able" :> 2) @@ ("abler" :> 1)
MCMatches ==
  ("a" :> <<"able", "abler">>) @@ ("able" :> <<"able", "abler">>) @@ ("abler" :> <<"abler">>)
  @@ ("abl" :> <<"abler">>) @@ ("z" :> <<>>)
MCLists == << <<"x", "y", "z">>, <<"u", "v">> >>

Init ==
  /\ focus \in DOMAIN Budget /\ keys = Budget[focus]
  /\ CallInit /\ DocumentInit /\ ContactsInit /\ ReferenceInit /\ CalculatorInit /\ TimerInit
  /\ HostInit /\ SpeechInit /\ ShellInit /\ DisplayInit
  /\ remote.on <=> focus = "display"
  /\ focus # "contacts" => store.mem = Book \* one initial state of an app not used

Next ==
  /\ UNCHANGED focus
  /\ \/ /\ focus = "documents" /\ (DocumentKey \/ DocumentPoll)
        /\ UNCHANGED <<contactsVars, referenceVars, calc, timerVars, deskVars>>
     \/ /\ focus = "contacts" /\ (ContactsKey \/ ContactsWork)
        /\ UNCHANGED <<referenceVars, calc, timerVars, deskVars>>
     \/ /\ focus = "reference" /\ (DictionaryKey \/ WikipediaKey \/ SpellingKey)
        /\ UNCHANGED <<documentVars, contactsVars, calc, timerVars, deskVars>>
     \/ /\ focus = "calculator" /\ CalculatorKey
        /\ UNCHANGED <<documentVars, contactsVars, referenceVars, timerVars, deskVars>>
     \/ /\ focus = "timer" /\ (TimerKey \/ TimerWork)
        /\ UNCHANGED <<documentVars, contactsVars, referenceVars, calc, deskVars>>
     \/ /\ focus = "keys" /\ HostStep /\ UNCHANGED <<appVars, speechVars, shellVars, displayVars>>
     \/ /\ focus = "speech" /\ SpeechStep /\ UNCHANGED <<appVars, hostVars, shellVars, displayVars>>
     \/ /\ focus = "shell" /\ ShellStep /\ UNCHANGED <<appVars, hostVars, speechVars, displayVars>>
     \/ focus = "display" /\ DisplayStep /\ UNCHANGED <<appVars, hostVars, speechVars, shellVars>>

Show == focus = "display" /\ UNCHANGED <<focus, appVars, hostVars, speechVars, shellVars>>

\* The threads that publish the screen and that show it run, systemd starts displayd
\* again, and a browser that was accepted sends its request or goes; nobody need
\* press a key.
Spec ==
  /\ Init /\ [][Next]_vars
  /\ WF_vars(Show /\ ThreadFrames) /\ WF_vars(Show /\ (Sends("ui") \/ Published("ui")))
  /\ WF_vars(Show /\ (Sends("thread") \/ Published("thread"))) /\ WF_vars(Show /\ Switched)
  /\ WF_vars(Show /\ FrameTaken) /\ WF_vars(Show /\ CommandTaken)
  /\ WF_vars(Show /\ HttpStopped) /\ WF_vars(Show /\ ShowerStart)
  /\ WF_vars(Show /\ \E v \in Viewers : Upgrades(v) \/ TurnedAway(v))
===============================================================================
