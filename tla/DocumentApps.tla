----------------------------- MODULE DocumentApps ------------------------------
(***************************************************************************)
(* The document of the Pi and the apps that write it (daemon-dietpi/src:      *)
(* documents/brf_store.cpp, documents/edit_session.cpp, ui/apps/brailler_app  *)
(* .cpp, ui/apps/transcriber_app.cpp).                                        *)
(*                                                                         *)
(* One BrfStore and one EditSession belong to the UI process, not to the app:  *)
(* leaving the Brailler in the middle of an edit keeps the edit, and the next  *)
(* visit goes on with it, over a document loaded anew.  A character is "o"     *)
(* (written), "n" (typed), "d" (dictated) or " ".                             *)
(***************************************************************************)
EXTENDS ConnectCalls, SequencesExt

CONSTANTS
  Text,       \* the document when the UI starts: a sequence of lines
  MaxText,    \* bound: characters of a line
  MaxChords,  \* bound: cells of a word
  QueueLimit, \* transcripts kept while a line is edited
  MaxHeard    \* bound: transcripts of the speech button

VARIABLES
  doc,    \* BrfStore::lines_; each handler that changes it also saves it
  edit,   \* EditSession: state_, nav_unit_, review_line_, review_column_, the
          \* captured span, and (for the properties) its text as it was
  brl,    \* BraillerApp: pending_chords_ (how many), dictation_queue_
  heard   \* transcripts so far

\* A character: written in an earlier visit, typed, dictated, or the space.
Marks == {"o", "n", "d", " "}
\* A document always has a line.
Lines == Seq(Seq(Marks)) \ {<<>>}
ASSUME DocumentAssumption == Text \in Lines /\ MaxChords \in Nat

documentVars == <<doc, edit, brl, heard>>
Calls == <<busy, prompt, daemon, sound, crashes>>

NoSpan == [from |-> 1, len |-> 0]
Reviewing == edit.st \in {"LineReview", "AwaitFullCell"}
Editing == Reviewing \/ edit.st = "ReplacementLine"

DocumentInit ==
  /\ doc = Text /\ heard = 0
  /\ edit = [st |-> "EmbossMode", unit |-> "Line", line |-> 1, col |-> 1,
             span |-> NoSpan, target |-> <<>>]
  /\ brl = [chords |-> 0, queue |-> 0]

-----------------------------------------------------------------------------
(* BrfStore                                                                *)

\* What load reads of what save wrote: an empty last line is not in the file.
Reloaded(lines) ==
  IF Len(lines) > 1 /\ Last(lines) = <<>> THEN Front(lines) ELSE lines

LineAt(lines, i) == IF i <= Len(lines) THEN lines[i] ELSE <<>>
Typed(lines, chars) == [lines EXCEPT ![Len(lines)] = @ \o chars]

Erased(lines) ==
  IF Last(lines) # <<>> THEN [lines EXCEPT ![Len(lines)] = Front(@)]
  ELSE IF Len(lines) > 1 THEN Front(lines) ELSE lines

\* delete_word_at and insert_word_at, each refused outside the line.
WordDeleted(lines, i, span) ==
  IF i > Len(lines) \/ span.from + span.len - 1 > Len(lines[i]) THEN lines
  ELSE [lines EXCEPT ![i] = SubSeq(@, 1, span.from - 1)
                              \o SubSeq(@, span.from + span.len, Len(@))]
WordInserted(lines, i, from, word) ==
  IF i > Len(lines) \/ from > Len(lines[i]) + 1 THEN lines
  ELSE [lines EXCEPT ![i] = SubSeq(@, 1, from - 1) \o word \o SubSeq(@, from, Len(@))]

-----------------------------------------------------------------------------
(* EditSession                                                             *)

Least(S) == CHOOSE i \in S : \A j \in S : i <= j
Greatest(S) == CHOOSE i \in S : \A j \in S : i >= j
Letters(l, from, to) == {i \in from..to : i \in DOMAIN l /\ l[i] # " "}

\* word_bounds: the word, or the one space, at column c.
WordAt(l, c) ==
  LET k == IF c > Len(l) THEN Len(l) ELSE c
      spaces == (1..Len(l)) \ Letters(l, 1, Len(l))
      from == Greatest({0} \cup {s \in spaces : s < k}) + 1
      to == Least({Len(l) + 1} \cup {s \in spaces : s > k}) - 1
  IN IF l = <<>> THEN NoSpan
     ELSE IF k \in spaces THEN [from |-> k, len |-> 1]
     ELSE [from |-> from, len |-> to - from + 1]

LastWord(l) == WordAt(l, Len(l)).from

\* begin_line_review; the document always has a line.
Begun(e, i) ==
  LET line == IF i > Len(doc) THEN Len(doc) ELSE i
      l == doc[line]
      col == IF l = <<>> \/ e.unit = "Line" THEN 1
             ELSE IF e.unit = "Letter" THEN Len(l) ELSE LastWord(l)
  IN [e EXCEPT !.st = "LineReview", !.line = line, !.col = col]

At(e, line, col) == [e EXCEPT !.st = "LineReview", !.line = line, !.col = col]

\* move_review by one unit back or on; at an end of the document nothing moves.
MovedBack(e) ==
  LET l == LineAt(doc, e.line)
      before == Letters(l, 1, e.col - 1)
      prev == LineAt(doc, e.line - 1)
  IN CASE e.unit = "Letter" /\ e.col > 1 -> At(e, e.line, e.col - 1)
       [] e.unit = "Word" /\ e.col > 1 /\ before # {} ->
            At(e, e.line, WordAt(l, Greatest(before)).from)
       [] OTHER ->
            IF e.line = 1 THEN e
            ELSE At(e, e.line - 1,
                    IF e.unit = "Line" \/ prev = <<>> THEN 1
                    ELSE IF e.unit = "Letter" THEN Len(prev) ELSE LastWord(prev))

MovedOn(e) ==
  LET l == LineAt(doc, e.line)
      word == WordAt(l, e.col)
      after == Letters(l, word.from + word.len, Len(l))
      next == LineAt(doc, e.line + 1)
  IN CASE e.unit = "Letter" /\ e.col < Len(l) -> At(e, e.line, e.col + 1)
       [] e.unit = "Word" /\ l # <<>> /\ after # {} -> At(e, e.line, Least(after))
       [] OTHER ->
            IF e.line >= Len(doc) THEN e
            ELSE At(e, e.line + 1,
                    IF e.unit = "Word" /\ Letters(next, 1, Len(next)) # {}
                    THEN Least(Letters(next, 1, Len(next))) ELSE 1)

\* set_nav_unit; while a line is reviewed the column is kept in the line, and at
\* the start of a word.
Snapped(e, unit) ==
  LET line == IF e.line > Len(doc) THEN Len(doc) ELSE e.line
      l == doc[line]
      col == IF l = <<>> THEN 1 ELSE IF e.col > Len(l) THEN Len(l) ELSE e.col
  IN At(e, line, IF unit = "Word" THEN WordAt(l, col).from ELSE col)

WithUnit(e, unit) == [IF Reviewing THEN Snapped(e, unit) ELSE e EXCEPT !.unit = unit]

\* capture_mistake_span.
SpanOf(e) ==
  LET l == LineAt(doc, e.line)
  IN IF l = <<>> THEN NoSpan
     ELSE CASE e.unit = "Line" -> [from |-> 1, len |-> Len(l)]
            [] e.unit = "Word" -> WordAt(l, e.col)
            [] e.unit = "Letter" -> IF e.col <= Len(l) THEN [from |-> e.col, len |-> 1] ELSE NoSpan

Covered(lines, i, span) ==
  SubSeq(LineAt(lines, i), span.from, span.from + span.len - 1)

\* on_full_cell: the full cell takes the span and feeds the paper a line; any
\* other cell only waits for it.
FullCell(e, full) ==
  IF ~full THEN [e EXCEPT !.st = "AwaitFullCell"]
  ELSE [e EXCEPT !.st = "ReplacementLine", !.span = SpanOf(e),
                 !.target = Covered(doc, e.line, SpanOf(e))]

Cancelled(e) == [e EXCEPT !.st = "EmbossMode"]

\* on_replacement_chord: neither refusal is looked at.
Replaced(e, word) ==
  IF e.span.len = 0 /\ Len(doc) >= e.line THEN WordInserted(doc, e.line, 1, word)
  ELSE WordInserted(WordDeleted(doc, e.line, e.span), e.line, e.span.from, word)

-----------------------------------------------------------------------------
(* BraillerApp                                                             *)

InBrailler == Reaches("brailler") /\ UNCHANGED <<app, Calls>>
Short(lines) == \A i \in DOMAIN lines : Len(lines[i]) <= MaxText
Word(n) == [i \in 1..n |-> "n"]

BraillerEnter ==
  /\ Launch("brailler")
  /\ doc' = Reloaded(doc) /\ brl' = [chords |-> 0, queue |-> 0]
  /\ UNCHANGED <<edit, heard, Calls>>

\* The edit session is left as it is.
BraillerLeave ==
  /\ Leave("brailler")
  /\ brl' = [chords |-> 0, queue |-> 0]
  /\ UNCHANGED <<doc, edit, heard, busy, daemon, sound, crashes>>

Chord ==
  /\ InBrailler
  /\ \/ /\ Reviewing
        /\ \E full \in BOOLEAN : edit' = FullCell(edit, full)
        /\ UNCHANGED brl
     \/ /\ ~Reviewing /\ brl.chords < MaxChords
        /\ brl' = [brl EXCEPT !.chords = @ + 1]
        /\ UNCHANGED edit
  /\ UNCHANGED <<doc, heard>>

\* Space commits the word; in a replacement it replaces the span with it.
SpaceText ==
  /\ InBrailler
  /\ IF edit.st = "ReplacementLine"
     THEN IF brl.chords = 0 THEN UNCHANGED <<doc, edit>>
          ELSE doc' = Replaced(edit, Word(brl.chords)) /\ edit' = Cancelled(edit)
     ELSE doc' = Typed(doc, Append(Word(brl.chords), " ")) /\ UNCHANGED edit
  /\ Short(doc') /\ brl' = [brl EXCEPT !.chords = 0]
  /\ UNCHANGED heard

\* The review moves on under an open replacement.
Steps_AlsoReplacing(e) == {[m EXCEPT !.st = e.st] : m \in {MovedBack(e), MovedOn(e)}}

\* on_control, by what the edit session is doing.
Steps(e) ==
  IF e.st \in {"LineReview", "AwaitFullCell"} THEN {MovedBack(e), MovedOn(e)} ELSE {e}

MoveKey ==
  /\ InBrailler /\ Editing
  /\ edit' \in Steps(edit)
  /\ UNCHANGED <<doc, brl, heard>>

EnterKey ==
  /\ InBrailler /\ edit.st # "ReplacementLine"
  /\ edit' = Begun(edit, IF Reviewing THEN edit.line ELSE Len(doc))
  /\ UNCHANGED <<doc, brl, heard>>

BackspaceKey ==
  /\ InBrailler
  /\ CASE Editing -> edit' = Cancelled(edit) /\ brl' = [brl EXCEPT !.chords = 0]
                       /\ UNCHANGED doc
       [] ~Editing /\ brl.chords > 0 -> brl' = [brl EXCEPT !.chords = @ - 1]
                                          /\ UNCHANGED <<doc, edit>>
       [] OTHER -> doc' = Erased(doc) /\ UNCHANGED <<edit, brl>>
  /\ UNCHANGED heard

NavUnit ==
  /\ InBrailler
  /\ \E unit \in {"Line", "Word", "Letter"} :
       unit # edit.unit /\ edit' = WithUnit(edit, unit)
  /\ UNCHANGED <<doc, brl, heard>>

\* Dictation: a transcript waits while a line is edited, up to the limit of the
\* queue, and goes to the end of the document on the next poll after it.
WithDictation(lines) ==
  LET l == Last(lines)
  IN Typed(lines, IF l # <<>> /\ Last(l) # " " THEN <<" ", "d">> ELSE <<"d">>)

Dictate ==
  /\ app = "brailler" /\ heard < MaxHeard /\ heard' = heard + 1
  /\ IF Editing
     THEN brl' = (IF brl.queue < QueueLimit THEN [brl EXCEPT !.queue = @ + 1] ELSE brl)
          /\ UNCHANGED doc
     ELSE doc' = WithDictation(doc) /\ UNCHANGED brl
  /\ UNCHANGED <<app, edit, keys, Calls>>

BraillerPoll ==
  /\ app = "brailler" /\ ~Editing /\ brl.queue > 0
  /\ doc' = WithDictation(doc) /\ brl' = [brl EXCEPT !.queue = @ - 1]
  /\ UNCHANGED <<app, edit, heard, keys, Calls>>

-----------------------------------------------------------------------------
(* TranscriberApp: a transcript is embossed and added to the document        *)

TranscriberEnter ==
  /\ Launch("transcriber")
  /\ UNCHANGED <<documentVars, Calls>>

TranscriberLeave ==
  /\ Leave("transcriber")
  /\ UNCHANGED <<documentVars, busy, daemon, sound, crashes>>

Transcribe ==
  /\ app = "transcriber" /\ heard < MaxHeard /\ heard' = heard + 1
  /\ doc' = Typed(doc, <<"d">>)
  /\ UNCHANGED <<app, edit, brl, keys, Calls>>

DocumentKey ==
  \/ BraillerEnter \/ BraillerLeave \/ Chord \/ SpaceText \/ MoveKey \/ EnterKey
  \/ BackspaceKey \/ NavUnit \/ TranscriberEnter \/ TranscriberLeave
DocumentPoll == Dictate \/ BraillerPoll \/ Transcribe

-----------------------------------------------------------------------------
\* What a replacement will overwrite is what the user was told it would,
\* whatever is dictated, copied or loaded before the word is finished.
TargetStays ==
  edit.st = "ReplacementLine" /\ edit.span.len > 0
    => /\ edit.span.from + edit.span.len - 1 <= Len(LineAt(doc, edit.line))
       /\ Covered(doc, edit.line, edit.span) = edit.target
===============================================================================
