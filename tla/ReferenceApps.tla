----------------------------- MODULE ReferenceApps -----------------------------
(***************************************************************************)
(* The apps of the Pi that look things up (daemon-dietpi/src: ui/apps/        *)
(* dictionary_app.cpp, wikipedia_app.cpp and spelling_app.cpp, with           *)
(* documents/dictionary_store.cpp, documents/spelling_list_store.cpp and      *)
(* net/wikipedia_client.cpp).                                                 *)
(*                                                                         *)
(* Each has a list, a cursor into it, and lists one level down.  A Wikipedia    *)
(* request is made by the UI itself, which waits for the answer; the answer     *)
(* is any that the site or the network may give.                              *)
(***************************************************************************)
EXTENDS ConnectCalls

CONSTANTS
  Words,       \* dictionary: word -> number of its definitions
  Matches,    \* dictionary: what can be typed -> the words that begin with it
  Articles,    \* Wikipedia: numbers of lines an article may have
  Lists        \* spelling: the lists, each a sequence of words

\* A word can be typed whole; nothing empty is listed, or shown as an article.
ASSUME ReferenceAssumption ==
  /\ Words \in [DOMAIN Words -> Nat] /\ DOMAIN Words \subseteq DOMAIN Matches
  /\ Matches \in [DOMAIN Matches -> Seq(DOMAIN Words)]
  /\ Articles \subseteq Nat \ {0}
  /\ Lists \in Seq(Seq(STRING) \ {<<>>})

VARIABLES
  dict,   \* DictionaryApp: phase_, query_buffer_, matches_, match_index_, the
          \* number of entries_, entry_index_, of lines_, line_index_
  wiki,   \* WikipediaApp: phase_, the number of results_, result_index_, of
          \* lines_, line_index_
  spell   \* SpellingApp: phase_, list_index_, mode_index_, word_index_,
          \* active_list_, review_words_, session_

referenceVars == <<dict, wiki, spell>>
ReferenceKept == UNCHANGED <<busy, prompt, daemon, sound, crashes>>

NoDict == [at |-> "Search", query |-> "none", matches |-> <<>>, m |-> 1,
           entries |-> 0, e |-> 1, lines |-> 0, l |-> 1]
NoWiki == [at |-> "Search", typed |-> FALSE, results |-> 0, r |-> 1, lines |-> 0, l |-> 1]
NoSession == [score |-> 0, attempts |-> 0, missed |-> {}]
NoSpell == [at |-> "PickList", list |-> 1, mode |-> 1, word |-> 1, active |-> 0,
            review |-> <<>>, session |-> NoSession]

ReferenceInit == dict = NoDict /\ wiki = NoWiki /\ spell = NoSpell

In(a) == Reaches(a) /\ UNCHANGED app /\ ReferenceKept
Enter(a) == Launch(a) /\ ReferenceKept
Exit(a) == Leave(a) /\ UNCHANGED <<busy, daemon, sound, crashes>>
Moves(i, n) == {i - 1, i + 1} \cap (1..n)

-----------------------------------------------------------------------------
(* DictionaryApp, DictionaryStore                                          *)

\* lookup, and the list of definitions.
Reading(d, word) ==
  [d EXCEPT !.at = "ReadDefinition", !.query = word, !.entries = Words[word], !.e = 1]

Looked(d) ==
  LET found == Matches[d.query]
  IN CASE d.query \in DOMAIN Words -> Reading(d, d.query)
       [] d.query \notin DOMAIN Words /\ Len(found) = 1 -> Reading([d EXCEPT !.matches = found], found[1])
       [] OTHER -> IF found = <<>> THEN [d EXCEPT !.matches = found]
                   ELSE [d EXCEPT !.matches = found, !.m = 1, !.at = "PickMatch"]

DictionaryOpen == Enter("dictionary") /\ dict' = NoDict
DictionaryExit == Exit("dictionary") /\ dict' = NoDict

DictionarySearch ==
  /\ In("dictionary") /\ dict.at = "Search"
  /\ \/ \E q \in DOMAIN Matches \cup {"none"} :
          q # dict.query /\ dict' = [dict EXCEPT !.query = q]
     \/ dict.query # "none" /\ dict' = Looked(dict)

DictionaryPick ==
  /\ In("dictionary") /\ dict.at = "PickMatch"
  /\ \/ dict' = [dict EXCEPT !.at = "Search", !.matches = <<>>, !.m = 1]
     \/ \E i \in Moves(dict.m, Len(dict.matches)) : dict' = [dict EXCEPT !.m = i]
     \/ dict.matches # <<>> /\ dict' = Reading(dict, dict.matches[dict.m])

DictionaryRead ==
  /\ In("dictionary") /\ dict.at = "ReadDefinition"
  /\ \/ dict' = [dict EXCEPT !.at = "Search", !.entries = 0, !.e = 1]
     \/ \E i \in Moves(dict.e, dict.entries) : dict' = [dict EXCEPT !.e = i]
     \/ /\ dict.e <= dict.entries
        /\ \E n \in Articles : dict' = [dict EXCEPT !.at = "ReadText", !.lines = n, !.l = 1]

\* Enter embosses entries_[entry_index_] and moves nothing.
DictionaryReadText ==
  /\ In("dictionary") /\ dict.at = "ReadText"
  /\ \/ dict' = [dict EXCEPT !.at = "ReadDefinition", !.lines = 0, !.l = 1]
     \/ \E i \in Moves(dict.l, dict.lines) : dict' = [dict EXCEPT !.l = i]

-----------------------------------------------------------------------------
(* WikipediaApp, WikipediaClient                                           *)

WikipediaOpen == Enter("wikipedia") /\ wiki' = NoWiki
WikipediaExit == Exit("wikipedia") /\ wiki' = NoWiki

\* search: no body is "Network error", an empty list "No results".
WikipediaSearch ==
  /\ In("wikipedia") /\ wiki.at = "Search"
  /\ \/ wiki' = [wiki EXCEPT !.typed = ~@]
     \/ wiki.typed /\ UNCHANGED wiki
     \/ /\ wiki.typed
        /\ \E n \in Articles : wiki' = [wiki EXCEPT !.at = "PickResult", !.results = n, !.r = 1]

\* fetch_plaintext: an article without text, or none, changes nothing.
WikipediaPick ==
  /\ In("wikipedia") /\ wiki.at = "PickResult"
  /\ \/ wiki' = [wiki EXCEPT !.at = "Search", !.results = 0, !.r = 1]
     \/ \E i \in Moves(wiki.r, wiki.results) : wiki' = [wiki EXCEPT !.r = i]
     \/ UNCHANGED wiki
     \/ \E n \in Articles : wiki' = [wiki EXCEPT !.at = "Read", !.lines = n, !.l = 1]

WikipediaRead ==
  /\ In("wikipedia") /\ wiki.at = "Read"
  /\ \/ wiki' = [wiki EXCEPT !.at = "PickResult", !.lines = 0, !.l = 1]
     \/ \E i \in Moves(wiki.l, wiki.lines) : wiki' = [wiki EXCEPT !.l = i]

-----------------------------------------------------------------------------
(* SpellingApp, SpellingListStore                                          *)

\* What a quiz asks: the list, or the words to review.
Asked(s) == IF s.at = "Review" THEN s.review ELSE Lists[s.active]

SpellingOpen == Enter("spelling") /\ spell' = NoSpell
SpellingExit == Exit("spelling") /\ spell' = NoSpell

SpellingPickList ==
  /\ In("spelling") /\ spell.at = "PickList" /\ Lists # <<>>
  /\ \/ \E i \in Moves(spell.list, Len(Lists)) : spell' = [spell EXCEPT !.list = i]
     \/ spell' = [spell EXCEPT !.at = "PickMode", !.active = spell.list]

\* The session is cleared before the words missed in it are taken.
Started_SameWord(s) ==
  LET t == [s EXCEPT !.session = NoSession]
  IN CASE s.mode = 1 -> [t EXCEPT !.at = "Learn"]
       [] s.mode = 2 -> [t EXCEPT !.at = "Quiz"]
       [] s.mode = 3 -> [t EXCEPT !.at = "Review", !.review = Lists[s.active]]

StartedMode(s) ==
  LET t == [s EXCEPT !.session = NoSession, !.word = 1]
      missed == Among(Lists[s.active], t.session.missed)
  IN CASE s.mode = 1 -> [t EXCEPT !.at = "Learn"]
       [] s.mode = 2 -> [t EXCEPT !.at = "Quiz"]
       [] s.mode = 3 ->
            [t EXCEPT !.at = "Review",
                      !.review = IF missed = <<>> THEN Lists[s.active] ELSE missed]

SpellingPickMode ==
  /\ In("spelling") /\ spell.at = "PickMode"
  /\ \/ spell' = [spell EXCEPT !.at = "PickList"]
     \/ \E i \in Moves(spell.mode, 3) : spell' = [spell EXCEPT !.mode = i]
     \/ spell' = StartedMode(spell)

SpellingLearn ==
  /\ In("spelling") /\ spell.at = "Learn"
  /\ \/ spell' = [spell EXCEPT !.at = "PickMode"]
     \/ \E i \in Moves(spell.word, Len(Lists[spell.active])) :
          spell' = [spell EXCEPT !.word = i]

Marked(session, word, right) ==
  [score |-> session.score + (IF right THEN 1 ELSE 0), attempts |-> session.attempts + 1,
   missed |-> IF right THEN session.missed ELSE session.missed \cup {word}]

\* An answer; the last one ends the quiz, whose session is saved.
SpellingAnswer ==
  /\ In("spelling") /\ spell.at \in {"Quiz", "Review"}
  /\ \/ spell' = [spell EXCEPT !.at = "PickMode"]
     \/ \E right \in BOOLEAN :
          LET marked == [spell EXCEPT !.session = Marked(@, Asked(spell)[spell.word], right)]
          IN spell' = IF spell.word >= Len(Asked(spell)) THEN [marked EXCEPT !.at = "PickMode"]
                      ELSE [marked EXCEPT !.word = @ + 1]

-----------------------------------------------------------------------------
DictionaryKey ==
  /\ DictionaryOpen \/ DictionaryExit \/ DictionarySearch \/ DictionaryPick \/ DictionaryRead
       \/ DictionaryReadText
  /\ UNCHANGED <<wiki, spell>>
WikipediaKey ==
  /\ WikipediaOpen \/ WikipediaExit \/ WikipediaSearch \/ WikipediaPick \/ WikipediaRead
  /\ UNCHANGED <<dict, spell>>
SpellingKey ==
  /\ SpellingOpen \/ SpellingExit \/ SpellingPickList \/ SpellingPickMode \/ SpellingLearn
       \/ SpellingAnswer
  /\ UNCHANGED <<dict, wiki>>
ReferenceSpec == ReferenceInit /\ [][DictionaryKey \/ WikipediaKey \/ SpellingKey]_referenceVars

\* Every list an app indexes without looking is long enough for its index: a
\* screen reached again, after another list, starts again in its own.
ReadersInText ==
  /\ dict.at = "ReadText" => dict.e <= dict.entries
  /\ dict.at = "PickMatch" => dict.m <= Len(dict.matches)
  /\ wiki.at # "Search" => wiki.r <= wiki.results
  /\ spell.at \in {"Quiz", "Review"} => spell.word <= Len(Asked(spell))
===============================================================================
