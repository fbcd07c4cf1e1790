------------------------------ MODULE EmbossJob ------------------------------
(***************************************************************************)
(* The streaming BRF parser (firmware-embosser/emboss_job.c).  A job's      *)
(* first line may be a header, "BRF1 filename"; until it is known to be one *)
(* its bytes are held back, and they are replayed as cells if it is not.    *)
(*                                                                         *)
(* The parser is pure: OnByte and JobFinish take a job and return the new   *)
(* one with the tokens its callbacks receive, in order.  A byte is a model  *)
(* value or one of the named control bytes; a cell token carries its byte.  *)
(***************************************************************************)
EXTENDS Integers, Sequences, FiniteSetsExt, ListOps

CONSTANTS
  HeaderPrefix,  \* BRAILLATRON_BRF_HEADER_PREFIX, a sequence of bytes
  CellBytes,     \* the bytes braillatron_brf_ascii_to_dot_mask translates
  LineCap,       \* EMBOSS_LINE_CAP
  FilenameCap    \* EMBOSS_FILENAME_CAP

ASSUME PrefixAssumption == HeaderPrefix \in Seq(CellBytes) /\ HeaderPrefix # <<>>
ASSUME ControlAssumption == CellBytes \cap {"cr", "lf", "ff"} = {}
ASSUME CapAssumption ==
  /\ LineCap \in Nat /\ LineCap >= Len(HeaderPrefix)
  /\ FilenameCap \in Nat \ {0}

Blanks == {"space", "tab"}

NewJob == [hdr |-> "maybe", line |-> <<>>, swallow |-> FALSE]

Token(op, arg) == [op |-> op, arg |-> arg]
Body == [hdr |-> "body", line |-> <<>>, swallow |-> FALSE]

Parsed(job, out) == [job |-> job, out |-> out]

-----------------------------------------------------------------------------
\* accept_content_byte: a line feed right after a carriage return is the same
\* line end; bytes outside the table are dropped.
ContentTokens_TwoLineEnds(swallow, byte) ==
  CASE byte \in {"cr", "lf"} -> <<Token("newline", <<>>)>>
    [] byte = "ff"           -> <<Token("formfeed", <<>>)>>
    [] byte \in CellBytes    -> <<Token("cell", byte)>>
    [] OTHER                 -> <<>>

ContentTokens(swallow, byte) ==
  CASE byte = "lf" /\ swallow -> <<>>
    [] byte \in {"cr", "lf"} /\ ~(byte = "lf" /\ swallow)
                             -> <<Token("newline", <<>>)>>
    [] byte = "ff"           -> <<Token("formfeed", <<>>)>>
    [] byte \in CellBytes    -> <<Token("cell", byte)>>
    [] OTHER                 -> <<>>

Content(job, byte) ==
  Parsed([job EXCEPT !.swallow = (byte = "cr")],
         ContentTokens(job.swallow, byte))

\* store_filename: what follows the prefix, without the blanks around it.
Trim(name) ==
  LET solid == {i \in DOMAIN name : name[i] \notin Blanks} IN
  IF solid = {} THEN <<>> ELSE SubSeq(name, Min(solid), Max(solid))

StoreFilename(line) ==
  LET name == Trim(SubSeq(line, Len(HeaderPrefix) + 1, Len(line))) IN
  IF Len(name) >= FilenameCap THEN <<Token("overflow", <<>>)>>
                              ELSE <<Token("filename", name)>>

\* replay_prefix_as_cells: the held bytes go through accept_content_byte.
Then(p, byte) ==
  LET q == Content(p.job, byte) IN Parsed(q.job, p.out \o q.out)
Replay(held) ==
  LET upTo[i \in 0..Len(held)] ==
        IF i = 0 THEN Parsed(Body, <<>>) ELSE Then(upTo[i - 1], held[i])
  IN upTo[Len(held)]

\* close_first_line: the first line is over, by a line end or otherwise.
CloseFirstLine(job, asNewline) ==
  IF job.hdr = "filename" THEN Parsed(Body, StoreFilename(job.line))
  ELSE Replay(IF asNewline THEN Append(job.line, "lf") ELSE job.line)

-----------------------------------------------------------------------------
\* on_byte.  A tab may stand for the blank that ends the prefix.
FirstLineEnd(job, byte) ==
  LET closed == CloseFirstLine(job, byte # "ff") IN
  Parsed([closed.job EXCEPT !.swallow = (byte = "cr")],
         IF byte = "ff" THEN Append(closed.out, Token("formfeed", <<>>))
                        ELSE closed.out)

FitsPrefix(line, byte) ==
  LET n == Len(line) IN
  /\ n < Len(HeaderPrefix)
  /\ \/ byte = HeaderPrefix[n + 1]
     \/ n + 1 = Len(HeaderPrefix) /\ byte = "tab"

MaybeHeader(job, byte) ==
  LET line == Append(job.line, byte) IN
  IF FitsPrefix(job.line, byte)
    THEN Parsed([job EXCEPT !.line = line,
                            !.hdr = IF Len(line) = Len(HeaderPrefix)
                                      THEN "filename" ELSE "maybe"], <<>>)
    ELSE Replay(line)

FilenameByte(job, byte) ==
  IF Len(job.line) >= LineCap THEN Parsed(job, <<Token("overflow", <<>>)>>)
  ELSE Parsed([job EXCEPT !.line = Append(job.line, byte)], <<>>)

OnByte(job, byte) ==
  CASE job.hdr = "body" -> Content(job, byte)
    [] job.hdr # "body" /\ byte \in {"cr", "lf", "ff"} -> FirstLineEnd(job, byte)
    [] job.hdr = "maybe" /\ byte \notin {"cr", "lf", "ff"} -> MaybeHeader(job, byte)
    [] job.hdr = "filename" /\ byte \notin {"cr", "lf", "ff"} -> FilenameByte(job, byte)

\* emboss_job_finish: a partial header is flushed as cells.
JobFinish(job) ==
  IF job.hdr = "body" THEN Parsed(job, <<>>) ELSE CloseFirstLine(job, FALSE)

=============================================================================
