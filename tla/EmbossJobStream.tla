--------------------------- MODULE EmbossJobStream ---------------------------
(***************************************************************************)
(* A parser fed byte by byte, and what comes out of it set against the      *)
(* cable grammar read directly off the bytes: documents, each ended by a    *)
(* form feed or by the caller's finish (the idle gap), each with an         *)
(* optional header line.                                                    *)
(*                                                                         *)
(* Two programs drive the parser.  emboss_pipeline.c resets it whenever a   *)
(* document ends and faults on an overflow; emboss_radio.c does neither,    *)
(* and has no use for the filename.                                         *)
(***************************************************************************)
EXTENDS EmbossJob

CONSTANTS
  Alphabet,  \* the bytes a sender uses
  Resets,    \* does the end of a document reset the parser?
  MaxSent    \* bound: length of a run

ASSUME ResetsAssumption == Resets \in BOOLEAN

\* A call of finish is no byte.
ASSUME FinishAssumption == "finish" \notin Alphabet \cup CellBytes

VARIABLES
  job,   \* the parser
  sent,  \* bytes fed so far; "finish" marks a call of finish
  out    \* tokens emitted so far

streamVars == <<job, sent, out>>

Overflowed == \E i \in DOMAIN out : out[i].op = "overflow"
Going == Len(sent) < MaxSent /\ ~(Resets /\ Overflowed)

\* What the driver's callbacks do with the tokens of one call.
Emit(p, ends) ==
  /\ out' = out \o p.out
  /\ job' = IF Resets /\ ends THEN NewJob ELSE p.job

FeedByte(byte) ==
  /\ Going
  /\ sent' = Append(sent, byte)
  /\ Emit(OnByte(job, byte), byte = "ff")

FinishJob ==
  /\ Going
  /\ sent' = Append(sent, "finish")
  /\ Emit(JobFinish(job), TRUE)

StreamInit == job = NewJob /\ sent = <<>> /\ out = <<>>
StreamNext == (\E byte \in Alphabet : FeedByte(byte)) \/ FinishJob
StreamSpec == StreamInit /\ [][StreamNext]_streamVars

-----------------------------------------------------------------------------
(* The cable grammar, by positions of a text: bytes and calls of finish.    *)

LineEnds == {"cr", "lf", "ff", "finish"}
DocEnds(text) == {i \in DOMAIN text : text[i] \in {"ff", "finish"}}
DocFirst(text, i) == 1 + Max({0} \cup {e \in DocEnds(text) : e < i})

\* The first line of the document that starts at position d.
LineEnd(text, d) ==
  Min({i \in d..Len(text) : text[i] \in LineEnds} \cup {Len(text) + 1})
FirstLine(text, d) == SubSeq(text, d, LineEnd(text, d) - 1)

Spells(line, n) ==
  \A i \in 1..n : \/ line[i] = HeaderPrefix[i]
                  \/ i = Len(HeaderPrefix) /\ line[i] = "tab"
HasHeader(text, d) == /\ Len(FirstLine(text, d)) >= Len(HeaderPrefix)
                      /\ Spells(FirstLine(text, d), Len(HeaderPrefix))

\* A first line that may yet become a header is not acted upon.
Undecided(text, d) == /\ LineEnd(text, d) > Len(text)
                      /\ Len(FirstLine(text, d)) < Len(HeaderPrefix)
                      /\ Spells(FirstLine(text, d), Len(FirstLine(text, d)))

HeaderTokens(text, d) ==
  LET line == FirstLine(text, d)
      over == LineEnd(text, d) <= Len(text)
      name == Trim(SubSeq(line, Len(HeaderPrefix) + 1, Len(line))) IN
  IF Len(line) > LineCap \/ (over /\ Len(name) >= FilenameCap)
    THEN <<Token("overflow", <<>>)>>
  ELSE IF over THEN <<Token("filename", name)>> ELSE <<>>

\* What a byte says, but for a header's: a line feed says nothing after a
\* carriage return of its document.
Says(byte, afterCr) ==
  CASE byte = "lf" /\ afterCr -> <<>>
    [] byte \in {"cr", "lf"} /\ ~(byte = "lf" /\ afterCr) -> <<Token("newline", <<>>)>>
    [] byte = "ff"           -> <<Token("formfeed", <<>>)>>
    [] byte \in CellBytes    -> <<Token("cell", byte)>>
    [] OTHER                 -> <<>>

\* What the byte at position i means, wherever in its document it stands.
Meaning(text, i) ==
  LET d == DocFirst(text, i)
      inHeader == HasHeader(text, d) /\ i < LineEnd(text, d)
      endsHeader == HasHeader(text, d) /\ i = LineEnd(text, d) /\ text[i] # "ff" IN
  IF inHeader THEN IF i = d THEN HeaderTokens(text, d) ELSE <<>>
  ELSE IF endsHeader \/ Undecided(text, d) THEN <<>>
  ELSE Says(text[i], i > d /\ text[i - 1] = "cr")

Meant(text) == Joined([i \in DOMAIN text |-> Meaning(text, i)])

-----------------------------------------------------------------------------
(* Properties                                                              *)

StreamTypeOK ==
  /\ job.hdr \in {"maybe", "filename", "body"} /\ job.swallow \in BOOLEAN
  /\ Len(job.line) <= LineCap
  /\ job.hdr = "body" => job.line = <<>>
  /\ job.hdr = "filename" => Len(job.line) >= Len(HeaderPrefix)

\* Whatever the bytes and wherever the documents end, the callbacks receive
\* exactly what the grammar says: no header byte is punched, no body byte that
\* looks like one is swallowed, and a line end is one newline however written.
ParsesDocuments == out = Meant(sent)

=============================================================================
