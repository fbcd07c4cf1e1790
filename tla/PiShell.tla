------------------------------- MODULE PiShell --------------------------------
(***************************************************************************)
(* The shell of the UI process: where a key goes (keyboard_service.cpp), the   *)
(* launcher (focus_nav.cpp, ui_app.cpp), the menu over it (menu_overlay.cpp,    *)
(* output_hub.cpp), the registry of standalone and inline apps with its pending *)
(* word (ui/apps/app_registry.cpp, word_buffer_input.cpp), and the inline apps   *)
(* that have no module of their own.                                         *)
(*                                                                         *)
(* What an app does with a key is abstract: it keeps the key, opens or leaves   *)
(* its text field, or leaves.  A chord of the pending word is the visit of the  *)
(* app in which it was typed.                                                *)
(***************************************************************************)
EXTENDS ConnectCalls, SequencesExt

CONSTANTS
  Standalone,  \* the apps of the launcher, in its order
  Fields       \* those with a field that takes whole words (buffers_braille_words)

\* The ids given to register_app (app_registry.cpp) are different names.
ASSUME NamesAssumption ==
  /\ Standalone \in Seq(STRING)
  /\ Range(Standalone) \cap {"none", "status", "timer", "morse", "paper", "save"} = {}

VARIABLES
  reg,     \* AppRegistry: active_, active_inline_, its word buffer, busy_since_ms_,
           \* frozen_prompt_open_; is the active app in its text field?
  overlay, \* MenuOverlay: open_, stack_
  home,    \* focus_index_ of the launcher
  morse,   \* morse_passive_
  visit,   \* history: how often an app was entered
  began,   \* history: apps whose on_enter ran and whose on_exit did not yet
  wrote    \* history: the word given last: the visits it was typed in, and whose it is

shellVars == <<reg, overlay, home, morse, visit, began, wrote>>

Inlines == <<"status", "timer", "morse", "paper", "save">>
LauncherRows == Standalone \o <<"Settings", "Power">>
InField(r) == r.over = "none" /\ r.front \in Fields /\ r.field

ShellInit ==
  /\ reg = [front |-> "none", over |-> "none", field |-> FALSE, word |-> <<>>,
            marked |-> FALSE, frozen |-> FALSE]
  /\ overlay = [open |-> FALSE, stack |-> <<>>]
  /\ home = 1 /\ morse = FALSE /\ visit = 0 /\ began = {}
  /\ wrote = [of |-> {}, to |-> 0]

\* What a key changes, as one record.
Shell == [reg |-> reg, overlay |-> overlay, home |-> home, morse |-> morse, visit |-> visit,
          began |-> began, wrote |-> wrote]
Turns(s) ==
  /\ reg' = s.reg /\ overlay' = s.overlay /\ home' = s.home /\ morse' = s.morse
  /\ visit' = s.visit /\ began' = s.began /\ wrote' = s.wrote

-----------------------------------------------------------------------------
(* AppRegistry: entering and leaving                                        *)

\* on_exit of the inline app; Morse Code Output ends with it.
InlineLeft(s) ==
  IF s.reg.over = "none" THEN s
  ELSE [s EXCEPT !.reg.over = "none", !.began = @ \ {s.reg.over},
                 !.morse = @ /\ s.reg.over # "morse"]

\* on_exit of the app, which takes its own busy mark away.
FrontLeft(s) ==
  IF s.reg.front = "none" THEN s
  ELSE [s EXCEPT !.reg.front = "none", !.reg.field = FALSE, !.reg.marked = FALSE,
                 !.began = @ \ {s.reg.front}]

\* Only the preview is cleared.
WordCleared_Preview(s) == s
WordCleared(s) == [s EXCEPT !.reg.word = <<>>]

FieldOpened(s) == IF s.reg.front = "none" THEN s ELSE [s EXCEPT !.reg.field = TRUE]
Exited(s) == IF s.reg.front = "none" THEN s ELSE WordCleared(FrontLeft(s))

\* enter
Entered(s, a) ==
  LET left == WordCleared(FrontLeft(InlineLeft(s)))
  IN [left EXCEPT !.reg.front = a, !.began = @ \cup {a}, !.visit = @ + 1]

\* enter_inline: Save and Exit leaves the app from its own on_enter.
InlineEntered_Over(s, i) ==
  LET over == [s EXCEPT !.reg.over = i, !.began = @ \cup {i}, !.morse = @ \/ i = "morse"]
  IN IF i = "save" THEN Exited(over) ELSE over
InlineEntered(s, i) ==
  LET left == InlineLeft(s)
      over == [left EXCEPT !.reg.over = i, !.began = @ \cup {i}, !.morse = @ \/ i = "morse"]
  IN IF i = "save" THEN Exited(over) ELSE over

\* dismiss_frozen_prompt
Dismissed(s) == [s EXCEPT !.reg.frozen = FALSE, !.reg.marked = FALSE]

-----------------------------------------------------------------------------
(* MenuOverlay                                                             *)

Level(items) == [items |-> items, at |-> 1]
Opened(s, items) == [s EXCEPT !.overlay = [open |-> TRUE, stack |-> << Level(items) >>]]
Closed(s) == [s EXCEPT !.overlay = [open |-> FALSE, stack |-> <<>>]]
Pushed(s, items) == [s EXCEPT !.overlay.stack = Append(@, Level(items))]
Top(s) == Last(s.overlay.stack)

\* move_up, move_down stop at the ends.
MovedTo(s, n) ==
  IF n \in DOMAIN Top(s).items
  THEN [s EXCEPT !.overlay.stack = [@ EXCEPT ![Len(@)].at = n]]
  ELSE s

\* pop_level; on_menu_back closes the menu at its first level.
MenuBack(s) ==
  IF Len(s.overlay.stack) > 1 THEN [s EXCEPT !.overlay.stack = Front(@)] ELSE Closed(s)

PowerItems == <<"Cancel", "Restart", "Shut down now">>
FrozenItems == <<"No", "Yes">>
SettingsItems == <<"more settings", "WiFi networks", "a setting">>
ReviewItems == <<"By line", "By word", "By letter">>
InlineItems(r) ==
  <<"Print">> \o Inlines
  \o (IF r.front = "brailler" THEN <<"Review navigation", "Look up word">> ELSE <<>>)
  \o <<"Back to app list">>

\* on_menu_overlay(true)
MenuOpened(s) == Opened(s, IF s.reg.front = "none" THEN LauncherRows ELSE InlineItems(s.reg))

\* on_global_menu(false)
MenuClosed(s) == Closed(IF s.reg.frozen THEN Dismissed(s) ELSE s)

\* The on_activate of the item under the finger; switch_app may not reach a fresh
\* page, and then nothing changes.
Activations(s, item) ==
  CASE item \in Range(Standalone) -> {s, Closed(Entered(s, item))}
    [] item = "Settings" -> {Pushed(s, SettingsItems)}
    [] item = "more settings" -> {Pushed(s, <<"a setting">>)}
    [] item = "WiFi networks" -> {Closed(Entered(s, "network"))}
    [] item = "Power" -> {Pushed(s, PowerItems)}
    [] item = "Cancel" -> {MenuBack(s)}
    [] item = "Print" -> {Closed(s), Closed(FieldOpened(s))} \* or another action of the app
    [] item \in Range(ReviewItems) -> {Closed(s)}
    [] item \in Range(Inlines) -> {InlineEntered(s, item)} \* the menu stays open
    [] item = "Review navigation" -> {Pushed(s, ReviewItems)}
    [] item = "Back to app list" -> {Closed(Exited(InlineLeft(s)))}
    [] item = "No" -> {Closed(Dismissed(s))}
    [] item = "Yes" -> {Closed(Dismissed(Exited(s)))}
    [] OTHER -> {s} \* a setting, a request to power off, a message

MenuKey(s, k) ==
  LET at == Top(s).at
  IN CASE k = "up" -> {MovedTo(s, at - 1)}
       [] k = "down" -> {MovedTo(s, at + 1)}
       [] k = "enter" -> Activations(s, Top(s).items[at])
       [] k = "backspace" -> {MenuBack(s)}

-----------------------------------------------------------------------------
(* AppRegistry: keys and words                                             *)

\* commit_word and deliver_text, if a word is pending.
Committed(s) ==
  IF s.reg.word = <<>> THEN s
  ELSE [s EXCEPT !.reg.word = <<>>, !.wrote = [of |-> Range(s.reg.word), to |-> s.visit]]

\* on_control of an inline app: only the timer's setup can be left with a key.
InlineKey(s, k) ==
  IF s.reg.over = "timer" /\ k \in {"backspace", "enter"} THEN {s, InlineLeft(s)} ELSE {s}

\* on_control of an app: it keeps the key, goes to or from its field, or leaves.
FrontKey(s, k) ==
  {s} \cup (IF k \in {"backspace", "enter"} THEN {[s EXCEPT !.reg.field = ~@]} ELSE {})
      \cup (IF k = "backspace" THEN {Exited(s)} ELSE {})

AppControl(s, k) ==
  IF InField(s.reg) /\ k = "backspace" /\ s.reg.word # <<>>
  THEN {[s EXCEPT !.reg.word = Front(@)]}
  ELSE LET t == IF InField(s.reg) /\ k = "enter" THEN Committed(s) ELSE s
       IN IF t.reg.over # "none" THEN InlineKey(t, k) ELSE FrontKey(t, k)

\* FocusNavigator, and handle_activate
LauncherKey(s, k) ==
  LET row == LauncherRows[s.home]
  IN CASE k = "up" -> {[s EXCEPT !.home = IF @ = 1 THEN @ ELSE @ - 1]}
       [] k = "down" -> {[s EXCEPT !.home = IF @ = Len(LauncherRows) THEN @ ELSE @ + 1]}
       [] k = "backspace" -> {s}
       [] k = "enter" -> {CASE row = "Settings" -> Opened(s, SettingsItems)
                            [] row = "Power" -> Opened(s, PowerItems)
                            [] OTHER -> Entered(s, row)}

ShellKept == UNCHANGED <<registry, daemon, sound, crashes>>

\* handle_control_edge, for a key pressed
ControlKey ==
  /\ Key
  /\ \E k \in {"up", "down", "enter", "backspace"} :
       \E s \in IF overlay.open THEN MenuKey(Shell, k)
                ELSE IF reg.front # "none" \/ reg.over # "none" THEN AppControl(Shell, k)
                ELSE LauncherKey(Shell, k) :
         Turns(s)
  /\ ShellKept

MenuToggle ==
  /\ Key /\ Turns(IF overlay.open THEN MenuClosed(Shell) ELSE MenuOpened(Shell)) /\ ShellKept

\* handle_chord and on_chord: it asks for no menu.
BrailleChord ==
  /\ Key
  /\ \/ InField(reg) /\ Turns([Shell EXCEPT !.reg.word = Append(@, visit)])
     \/ reg.front = "none" /\ reg.over = "none" \* a letter jumps to a row
        /\ \E n \in DOMAIN LauncherRows : Turns([Shell EXCEPT !.home = n])
  /\ ShellKept

\* Space, or a letter of a plain keyboard: on_text ends the word.
SpaceOrLetter ==
  /\ Key /\ InField(reg) /\ Turns(Committed(Shell)) /\ ShellKept

\* An app waits for an answer, or has it, and then may leave its field.
AppWaits ==
  /\ reg.front # "none"
  /\ \E b \in BOOLEAN, f \in {FALSE, reg.field} : reg' = [reg EXCEPT !.marked = b, !.field = f]
  /\ UNCHANGED <<overlay, home, morse, visit, began, wrote, keys>> /\ ShellKept

\* tick_watchdog, kFrozenTimeoutMs after the mark; the prompt takes the place of
\* what the menu showed.
WatchdogAsks ==
  /\ reg.front # "none" /\ reg.marked /\ ~reg.frozen
  /\ Turns(Opened([Shell EXCEPT !.reg.frozen = TRUE], FrozenItems))
  /\ UNCHANGED keys /\ ShellKept

ShellStep ==
  \/ ControlKey \/ MenuToggle \/ BrailleChord \/ SpaceOrLetter \/ AppWaits \/ WatchdogAsks
ShellSpec == ShellInit /\ [][ShellStep]_shellVars

-----------------------------------------------------------------------------
(* Properties                                                              *)

\* A word is given to the visit of the app in which every chord of it was typed,
\* through menus, inline apps and the watchdog's prompt: no letters of one app, or of
\* an earlier visit, appear in another's field (clear_word_buffer).
WordStaysInVisit == wrote.of \subseteq {wrote.to}

\* Every app whose on_enter ran is the active one or the inline one over it, and has
\* its on_exit before another takes its place, so what on_enter switched on (Morse
\* haptics) is off again when it is left (enter, enter_inline, exit).
ExitsPaired ==
  /\ began = {reg.front, reg.over} \ {"none"}
  /\ morse <=> reg.over = "morse"
===============================================================================
