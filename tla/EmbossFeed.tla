----------------------------- MODULE EmbossFeed -----------------------------
(***************************************************************************)
(* The embosser as a sender of BRF bytes sees it: emboss_pipeline_feed and  *)
(* emboss_pipeline_finish drive the parser of EmbossJob, whose callbacks    *)
(* drive the motor pipeline of EmbossPipeline.                              *)
(*                                                                         *)
(* A feed call takes any number of bytes; call says which call is running,  *)
(* todo holds the tokens of the current byte that are still to be acted     *)
(* upon.  sent, out and dark are history: the bytes fed since the last      *)
(* fault, the tokens acted upon and whether one met motors without power.   *)
(* (cell, newline and form_feed, the commands of the link, are not mixed    *)
(* with bytes by any program: see EmbossLink.)                              *)
(***************************************************************************)
EXTENDS EmbossPipeline, EmbossJobStream

CONSTANTS
  DotsOf,     \* braillatron_brf_ascii_to_dot_mask, on CellBytes
  FFEndsCall, \* does a sender end its feed call at a form feed?
  PaperSensor \* is one fitted?  Until it reports, paper is not known

ASSUME DotsAssumption == DotsOf \in [CellBytes -> Cells]

VARIABLES
  todo, call, filename,
  dark   \* history: was a token acted upon without power since the last fault?

parser == <<job, todo, call, filename>>
fvars == <<vars, parser, sent, out, dark>>

Idle == pc = "ready" /\ todo = <<>>
Between == Idle /\ call = "none"

\* The parser takes one byte, of a call that is running or begins.
Take(before, byte) ==
  LET p == OnByte(before, byte) IN
  /\ Len(sent) < MaxSent /\ CellFits /\ LineFits(PageLines + 1)
  /\ sent' = Append(sent, byte)
  /\ job' = p.job /\ todo' = p.out

\* begin_job_if_idle
BeginJob ==
  IF state \in {"idle", "done"} THEN filename' = <<>> ELSE UNCHANGED filename
Parser_ResetEachCall == NewJob
Parser == IF state \in {"idle", "done"} THEN NewJob ELSE job

-----------------------------------------------------------------------------
\* emboss_pipeline_feed, with its first byte, and the bytes after it.
FeedCall(byte) ==
  /\ Between /\ state # "fault"
  /\ call' = "feed"
  /\ state' = Begun /\ BeginJob
  /\ Take(Parser, byte)
  /\ UNCHANGED <<fault, motors, paper, pos, pending, flow, hist, out, dark>>

NextByte(byte) ==
  /\ call = "feed" /\ Idle /\ state # "fault"
  /\ FFEndsCall /\ sent # <<>> => sent[Len(sent)] # "ff"
  /\ Take(job, byte)
  /\ UNCHANGED <<vars, call, filename, out, dark>>

FeedReturns ==
  /\ call = "feed" /\ Idle
  /\ call' = "none"
  /\ UNCHANGED <<vars, job, todo, filename, sent, out, dark>>

\* emboss_pipeline_finish: flush the held bytes, then drain and reset.
FinishCall ==
  /\ Between /\ state # "fault" /\ Len(sent) < MaxSent
  /\ state \in {"idle", "done"} => job.hdr # "maybe" \/ job.line # <<>>
  /\ CellFits
  /\ call' = "finish"
  /\ sent' = Append(sent, "finish")
  /\ LET p == JobFinish(job) IN job' = p.job /\ todo' = p.out
  /\ UNCHANGED <<vars, filename, out, dark>>

StartDrain ==
  /\ call = "finish" /\ Idle
  /\ pc' = "drain"
  /\ UNCHANGED <<ctl, paper, pos, pending, regs, ff, feeds, hist>>
  /\ UNCHANGED <<parser, sent, out, dark>>

-----------------------------------------------------------------------------
(* The parser's callbacks: one token at a time.                            *)

\* note_new_job
NoteNewJob_ClearsAlways == filename' = <<>>
NoteNewJob ==
  IF state \in {"idle", "done"} THEN filename' = <<>> ELSE UNCHANGED filename

\* Without motor power a cell or a line end only opens the job.
Unpowered == /\ state' = Begun
             /\ UNCHANGED <<fault, motors, paper, pos, pending, flow, hist>>

OnCell(byte) ==
  /\ NoteNewJob /\ UNCHANGED job
  /\ IF motors THEN SubmitCell(DotsOf[byte]) ELSE Unpowered

OnNewline ==
  /\ NoteNewJob /\ UNCHANGED job
  /\ IF motors THEN SubmitNewline ELSE Unpowered

\* Without power form_feed moves nothing, yet ends the job.
OnFormFeed ==
  /\ NoteNewJob
  /\ \/ motors /\ SubmitFormFeed /\ UNCHANGED job
     \/ ~motors /\ Refuse /\ UNCHANGED job
     \/ /\ ~motors /\ paper # "absent"
        /\ state' = "done" /\ job' = NewJob
        /\ UNCHANGED <<fault, motors, paper, pos, pending, flow, hist>>

OnFilename(name) == filename' = name /\ UNCHANGED <<vars, job>>

OnOverflow == /\ EnterFault("overflow")
              /\ UNCHANGED <<paper, pos, flow, hist, job, filename>>

OnToken ==
  /\ pc = "ready" /\ todo # <<>> /\ state # "fault"
  /\ LET t == Head(todo) IN
     /\ out' = Append(out, t) /\ dark' = (dark \/ ~motors)
     /\ \/ t.op = "cell"     /\ OnCell(t.arg)
        \/ t.op = "newline"  /\ OnNewline
        \/ t.op = "formfeed" /\ OnFormFeed
        \/ t.op = "filename" /\ OnFilename(t.arg)
        \/ t.op = "overflow" /\ OnOverflow
  /\ todo' = Tail(todo)
  /\ UNCHANGED <<call, sent>>

\* A fault mutes the callbacks.
DropTokens ==
  /\ pc = "ready" /\ todo # <<>> /\ state = "fault"
  /\ todo' = <<>>
  /\ UNCHANGED <<vars, job, call, filename, sent, out, dark>>

-----------------------------------------------------------------------------
(* The pipeline underneath.  form_feed and finish reset the parser when    *)
(* they are through, leave_fault when the caller clears the fault.          *)

Running ==
  /\ Step
  /\ IF PageDone \/ (pc = "drain" /\ pc' = "ready")
       THEN job' = NewJob ELSE UNCHANGED job
  /\ IF pc = "drain" /\ pc' = "ready" THEN call' = "none" ELSE UNCHANGED call
  /\ UNCHANGED <<todo, filename, sent, out, dark>>

Faulted(r) ==
  /\ Fault(r) /\ (pc = "ready" => Between)
  /\ UNCHANGED <<parser, sent, out, dark>>

Cleared(enable) ==
  /\ Between /\ LeaveFault(enable)
  /\ job' = NewJob /\ sent' = <<>> /\ out' = <<>> /\ dark' = FALSE
  /\ UNCHANGED <<todo, call, filename>>

Armed(a) == Between /\ SetArmed(a) /\ UNCHANGED <<parser, sent, out, dark>>
Paper(p) == PaperSensor /\ Between /\ SetPaperPresent(p) /\ UNCHANGED <<parser, sent, out, dark>>

FeedInit ==
  /\ Init
  /\ job = NewJob /\ todo = <<>> /\ call = "none" /\ filename = <<>>
  /\ sent = <<>> /\ out = <<>> /\ dark = FALSE

FeedNext ==
  \/ \E byte \in Alphabet : FeedCall(byte) \/ NextByte(byte)
  \/ FeedReturns \/ FinishCall \/ StartDrain \/ OnToken \/ DropTokens
  \/ Running
  \/ \E r \in Reasons : Faulted(r)
  \/ \E b \in BOOLEAN : Cleared(b) \/ Armed(b) \/ Paper(b)

FeedSpec == FeedInit /\ [][FeedNext]_fvars

-----------------------------------------------------------------------------
(* Properties                                                              *)

FeedTypeOK ==
  /\ TypeOK
  /\ StreamTypeOK
  /\ call \in {"none", "feed", "finish"}
  /\ Len(todo) <= Len(HeaderPrefix) + 1
  /\ call = "none" => todo = <<>>
  /\ Len(filename) < FilenameCap

\* However a sender cuts its bytes into calls, the tokens acted upon are those
\* of the documents it sent: a call boundary loses nothing, and no header is
\* punched.
CutsDoNotMatter == state # "fault" => out \o todo = Meant(sent)

\* The document the sender is in, or has just ended.
Current == IF sent # <<>> THEN DocFirst(sent, Len(sent)) ELSE 1

\* The filename the pipeline reports is that of the current document's header,
\* once the header line is over, and no earlier document's.
FilenameIsCurrent ==
  todo = <<>> /\ state # "fault" /\ sent # <<>> /\ ~Undecided(sent, Current) =>
    filename = IF HasHeader(sent, Current) /\ LineEnd(sent, Current) <= Len(sent)
                 THEN HeaderTokens(sent, Current)[1].arg ELSE <<>>

\* The cells of the open line, as tokens tell them: those after the last line end.
LineEnding(t) == t.op \in {"newline", "formfeed"}
RowAfter(row, t) ==
  IF LineEnding(t) THEN <<>> ELSE IF t.op = "cell" THEN Append(row, t.arg) ELSE row
Row(tokens) ==
  LET after[i \in 0..Len(tokens)] ==
        IF i = 0 THEN <<>> ELSE RowAfter(after[i - 1], tokens[i])
  IN after[Len(tokens)]

\* One cell pitch after the other, from a first column.
Placed(row, from) ==
  {[at |-> from + (i - 1) * CellPitch, cell |-> DotsOf[row[i]]] : i \in DOMAIN row}

\* A line end is carried out: its token is told, the line still open.
Closing ==
  /\ ff # "eject"
  /\ pc \in Returning \/ (pc \in Travels /\ regs.then = "newline")
Told(tokens) == IF Closing THEN SubSeq(tokens, 1, Len(tokens) - 1) ELSE tokens

\* From the bytes to the paper: as long as there is power, the open line has the
\* cells that the text has after its last line end, each one a pitch after the
\* other, from the margin if a line was ended since the last fault; and the paper
\* is moved on when just their dots are on it.  (With an offset longer than the
\* pitch, the drain of finish would leave the carriage between two columns.)
TextOnPaper ==
  ~dark /\ state # "fault" /\ todo = <<>> /\ RowBOffset <= CellPitch =>
    LET told == Told(Meant(sent))
    IN \E from \in {0} \cup {e.at : e \in line} :
         /\ line = Placed(Row(told), from)
         /\ from # 0 => \A i \in DOMAIN told : ~LineEnding(told[i])
         /\ pc \in Returning => marks = UNION {CellMarks(e) : e \in Placed(Row(told), from)}

=============================================================================
