------------------------------- MODULE CommsApps -------------------------------
(***************************************************************************)
(* Mail and messages: ui/apps/{gmail,messages}_app.cpp, the accounts menu of  *)
(* ui/output_hub.cpp, and connect/{gmail,signal}_backend.cpp.  Mails and      *)
(* chats are numbers; what they say is left out.  A callback acts on the view  *)
(* as it is when the answer comes, not as it was when it was asked.           *)
(***************************************************************************)
EXTENDS ConnectCalls

CONSTANTS
  Mails,  \* the inbox at the start, a sequence
  Chats   \* the contacts of the Signal account, a sequence

ASSUME CommsAssumption == Mails \in Seq(Nat) /\ Chats \in Seq(Nat)

VARIABLES
  mail,   \* GmailApp: phase_, inbox_, inbox_index_, active_id_, compose_field_,
          \* is there something in compose_
  post,   \* GmailBackend: the mails on the server, is OAuth linked, is IMAP, is an
          \* imap.ini received, link_watch_active_; gmail_link_pending_ of the hub
  talk,   \* MessagesApp: state_, chats_, selected_chat_, active_chat_, compose_
          \* and the two pending flags
  signal  \* SignalBackend: is it linked, link_watch_active_, does its daemon run;
          \* signal_link_pending_ of the hub

commsVars == <<mail, post, talk, signal>>
mailOthers == <<talk, signal, crashes>>
talkOthers == <<mail, post, crashes>>

MailReset == [phase |-> "menu", inbox |-> <<>>, at |-> 1, active |-> 0, field |-> 0, typed |-> FALSE]
TalkReset == [phase |-> "list", chats |-> <<>>, at |-> 1, active |-> 0, typed |-> FALSE,
              reload |-> FALSE, again |-> FALSE]

CommsInit ==
  /\ mail = MailReset /\ talk = TalkReset
  /\ \E linked \in BOOLEAN :
       /\ post = [box |-> {Mails[i] : i \in DOMAIN Mails}, oauth |-> linked, imap |-> FALSE,
                  ini |-> ~linked, watch |-> FALSE, notice |-> FALSE]
       /\ signal = [linked |-> linked, watch |-> FALSE, daemon |-> FALSE, notice |-> FALSE]

-----------------------------------------------------------------------------
(* GmailBackend, on the worker                                             *)

\* active_transport: IMAP when it is linked
Imap == post.imap
Linked == post.oauth \/ post.imap
KeepOrder(box) == Among(Mails, box)

\* list_inbox and read_message over either transport
MailListed ==
  /\ JobOf("gmail", "list")
  /\ \E ok \in BOOLEAN : JobDone(<<Response(Head(jobs), ok /\ Linked)>>)
  /\ UNCHANGED <<registry, up, sound, keys, post, mail, mailOthers>>

MailFetched ==
  /\ JobOf("gmail", "read")
  /\ \E ok \in BOOLEAN : JobDone(<<Response(Head(jobs), ok /\ Linked)>>)
  /\ UNCHANGED <<registry, up, sound, keys, post, mail, mailOthers>>

\* send_message and reply_message: by OAuth only
MailSent ==
  /\ \E cmd \in {"send", "reply"} :
       /\ JobOf("gmail", cmd)
       /\ \E ok \in BOOLEAN : JobDone(<<Response(Head(jobs), ok /\ post.oauth /\ ~Imap)>>)
  /\ UNCHANGED <<registry, up, sound, keys, post, mail, mailOthers>>

\* archive_message (by OAuth only), delete_message, star_message
MailActed ==
  /\ \E cmd \in {"archive", "delete", "star"}, ok \in BOOLEAN :
       /\ JobOf("gmail", cmd)
       /\ ok => Linked /\ (cmd = "archive" => ~Imap)
       /\ JobDone(<<Response(Head(jobs), ok)>>)
       /\ post' = IF ok /\ cmd # "star" THEN [post EXCEPT !.box = @ \ {Head(jobs).n}] ELSE post
  /\ UNCHANGED <<registry, up, sound, keys, mail, mailOthers>>

\* run_link_workflow: the code is shown, and the worker waits for the user's
\* approval as long as link_timeout_sec.
GmailLinkBegin ==
  /\ JobOf("gmail", "link") /\ ~post.oauth /\ ~post.watch
  /\ \/ /\ post' = [post EXCEPT !.watch = TRUE] /\ UNCHANGED jobs
        /\ outbox' = Append(outbox, Event("gmail", "link_pending"))
     \/ JobDone(<<Response(Head(jobs), FALSE)>>) /\ UNCHANGED post
  /\ UNCHANGED <<registry, up, sound, keys, mail, mailOthers>>

GmailLinkEnd ==
  /\ JobOf("gmail", "link")
  /\ \/ post.oauth /\ JobDone(<<Response(Head(jobs), TRUE)>>) /\ UNCHANGED post
     \/ /\ post.watch
        /\ \E ok \in BOOLEAN :
             /\ post' = [post EXCEPT !.watch = FALSE, !.oauth = ok]
             /\ JobDone(<<Event("gmail", IF ok THEN "linked" ELSE "link_failed"),
                          Response(Head(jobs), ok)>>)
  /\ UNCHANGED <<registry, up, sound, keys, mail, mailOthers>>

\* run_imap_link_workflow: a received imap.ini replaces the stored one, and is
\* what counts as linked even when the login with it fails.
ImapLinked ==
  /\ JobOf("gmail", "imap")
  /\ LET p == [post EXCEPT !.imap = @ \/ post.ini, !.ini = FALSE]
     IN  /\ post' = p
         /\ \E ok \in BOOLEAN :
              JobDone(<<Response(Head(jobs), ok /\ p.imap)>>)
  /\ UNCHANGED <<registry, up, sound, keys, mail, mailOthers>>

-----------------------------------------------------------------------------
(* GmailApp                                                                *)

mailIn == <<app, busy, prompt, up, outbox, sound, post, mailOthers>>
MailIn(phase) == Reaches("gmail") /\ mail.phase = phase /\ UNCHANGED mailIn
MailTo(v) == mail' = v /\ UNCHANGED jobs
\* A request that cannot be queued runs its callback at once.
AskMail(cmd, n, v, refused) ==
  IF up THEN Room /\ SubmitFor("gmail", cmd, n) /\ mail' = v ELSE MailTo(refused)

GmailEnter ==
  /\ Launch("gmail") /\ mail' = MailReset
  /\ UNCHANGED <<busy, prompt, daemon, sound, post, mailOthers>>

GmailLeave ==
  /\ Leave("gmail") /\ busy' = (busy /\ prompt # "shown") /\ mail' = MailReset
  /\ UNCHANGED <<daemon, sound, post, mailOthers>>

\* handle_menu: load_inbox or start_compose
GmailMenu ==
  /\ MailIn("menu")
  /\ \/ AskMail("list", 0, [mail EXCEPT !.phase = "inbox", !.inbox = <<>>, !.at = 1],
                [mail EXCEPT !.inbox = <<>>, !.at = 1])
     \/ MailTo([mail EXCEPT !.phase = "compose", !.field = 0, !.typed = FALSE])

\* handle_inbox: up, down, open_message
GmailInbox ==
  /\ MailIn("inbox")
  /\ \/ \E i \in DOMAIN mail.inbox \ {mail.at} : MailTo([mail EXCEPT !.at = i])
     \/ mail.at \in DOMAIN mail.inbox /\ AskMail("read", mail.inbox[mail.at], mail, mail)

\* handle_read and handle_action_select: run_action
GmailAct ==
  \/ MailIn("read") /\ MailTo([mail EXCEPT !.phase = "actions"])
  \/ /\ MailIn("actions")
     /\ \/ MailTo([mail EXCEPT !.phase = "read"]) \* also what export_brf ends in
        \/ \E cmd \in {"archive", "delete", "star"} :
             AskMail(cmd, mail.active, mail, [mail EXCEPT !.phase = "read"])

\* on_text, and Backspace while there is text
GmailType ==
  /\ \/ MailIn("compose") \/ MailIn("reply")
  /\ \E b \in BOOLEAN : MailTo([mail EXCEPT !.typed = b])

\* handle_compose and handle_reply: the next field, or send
GmailSend ==
  \/ /\ MailIn("compose") /\ mail.field < 2 /\ MailTo([mail EXCEPT !.field = @ + 1, !.typed = FALSE])
  \/ /\ MailIn("compose") /\ mail.field = 2 /\ AskMail("send", 0, mail, mail)
  \/ /\ MailIn("read") /\ MailTo([mail EXCEPT !.phase = "reply", !.typed = FALSE])
  \/ /\ MailIn("reply") /\ mail.typed /\ AskMail("reply", mail.active, mail, mail)

GmailBack ==
  \/ MailIn("inbox") /\ MailTo([mail EXCEPT !.phase = "menu"])
  \/ MailIn("read") /\ MailTo([mail EXCEPT !.phase = "inbox"])
  \/ MailIn("reply") /\ ~mail.typed /\ MailTo([mail EXCEPT !.phase = "read"])
  \/ /\ MailIn("compose") /\ ~mail.typed
     /\ \E b \in BOOLEAN :
          MailTo(IF mail.field > 0 THEN [mail EXCEPT !.field = @ - 1, !.typed = b]
                 ELSE [mail EXCEPT !.phase = "menu"])

\* The entry where the cursor is leaves the list, whichever mail was archived.
Drop(s, i) == IF i \in DOMAIN s THEN SubSeq(s, 1, i - 1) \o SubSeq(s, i + 1, Len(s)) ELSE s
MailErased_Unclamped(v) == [v EXCEPT !.phase = "inbox", !.inbox = Drop(v.inbox, v.at)]

MailErased(v) ==
  LET left == Drop(v.inbox, v.at)
  IN  [v EXCEPT !.phase = "inbox", !.inbox = left,
                !.at = IF v.at > Len(left) /\ left # <<>> THEN Len(left) ELSE v.at]

MailAnswered(v, line) ==
  CASE line.cmd = "list" -> IF line.ok THEN [v EXCEPT !.inbox = @ \o KeepOrder(post.box)]
                                       ELSE [v EXCEPT !.phase = "menu"]
    [] line.cmd = "read" -> IF line.ok THEN [v EXCEPT !.phase = "read", !.active = line.n] ELSE v
    [] line.cmd = "send" -> IF line.ok THEN [v EXCEPT !.phase = "menu", !.typed = FALSE] ELSE v
    [] line.cmd = "reply" -> IF line.ok THEN [v EXCEPT !.phase = "inbox", !.typed = FALSE] ELSE v
    [] line.cmd \in {"archive", "delete"} -> IF line.ok THEN MailErased(v) ELSE [v EXCEPT !.phase = "read"]
    [] line.cmd = "star" -> [v EXCEPT !.phase = "read"]
    [] OTHER -> v

GmailAnswer ==
  /\ Answers("gmail") /\ mail' = MailAnswered(mail, Line)
  /\ post' = IF Line.cmd = "link" THEN [post EXCEPT !.notice = FALSE] ELSE post
  /\ UNCHANGED <<registry, up, jobs, sound, keys, mailOthers>>

\* on_connect_event of the hub
GmailNotice ==
  /\ TakeLine /\ Line.to = "gmail" /\ Line.event # "response"
  /\ post' = [post EXCEPT !.notice = (Line.event = "link_pending")]
  /\ UNCHANGED <<registry, up, jobs, sound, keys, mail, mailOthers>>

-----------------------------------------------------------------------------
(* SignalBackend                                                           *)

\* list_chats and send_message start the signal-cli daemon.
DaemonUp(s) == [s EXCEPT !.daemon = s.linked]

SignalDone ==
  /\ \E cmd \in {"chats", "thread", "text"} :
       /\ JobOf("messages", cmd)
       /\ \E ok \in BOOLEAN : JobDone(<<Response(Head(jobs), ok /\ signal.linked)>>)
  /\ signal' = DaemonUp(signal)
  /\ UNCHANGED <<registry, up, sound, keys, talk, talkOthers>>

\* run_link_workflow: the phone may approve as long as the worker waits.
SignalLinkBegin ==
  /\ JobOf("messages", "link") /\ ~signal.watch
  /\ signal' = [signal EXCEPT !.watch = TRUE]
  /\ outbox' = Append(outbox, Event("messages", "link_pending"))
  /\ UNCHANGED <<registry, up, jobs, sound, keys, talk, talkOthers>>

SignalLinkEnd ==
  /\ JobOf("messages", "link") /\ signal.watch
  /\ \E ok \in BOOLEAN :
       /\ signal' = DaemonUp([signal EXCEPT !.watch = FALSE, !.linked = @ \/ ok])
       /\ JobDone(<<Event("messages", IF signal'.linked THEN "linked" ELSE "link_failed"),
                    Response(Head(jobs), signal'.linked)>>)
  /\ UNCHANGED <<registry, up, sound, keys, talk, talkOthers>>

\* The event thread: a message came in from the contact at place i of Chats.
MessageArrives ==
  /\ up /\ signal.linked /\ Room
  /\ \E i \in DOMAIN Chats :
       outbox' = Append(outbox, [Event("messages", "message") EXCEPT !.n = Chats[i]])
  /\ signal' = DaemonUp(signal)
  /\ UNCHANGED <<registry, up, jobs, sound, keys, talk, talkOthers>>

CommsRestart ==
  /\ DaemonStart
  /\ post' = [post EXCEPT !.watch = FALSE]
  /\ signal' = [signal EXCEPT !.watch = FALSE, !.daemon = FALSE]
  /\ UNCHANGED <<mail, talk>>

-----------------------------------------------------------------------------
(* MessagesApp                                                             *)

talkIn == <<app, busy, prompt, up, outbox, sound, talkOthers, signal>>
\* on_poll comes before the next key.
Polled == ~talk.reload /\ ~talk.again
TalkIn(phase) == Reaches("messages") /\ Polled /\ talk.phase = phase /\ UNCHANGED talkIn
AskTalk(cmd, n) == IF up THEN Room /\ SubmitFor("messages", cmd, n) ELSE UNCHANGED jobs

\* load_chats and open_thread
Cleared(v) == [v EXCEPT !.chats = <<>>, !.at = 1]
Opened(v) == [v EXCEPT !.phase = "thread", !.active = v.chats[v.at]]

MessagesEnter ==
  /\ Launch("messages")
  /\ talk' = [Cleared(talk) EXCEPT !.phase = "list", !.typed = FALSE] /\ AskTalk("chats", 0)
  /\ UNCHANGED <<busy, prompt, up, outbox, sound, talkOthers, signal>>

MessagesLeave ==
  /\ Leave("messages") /\ Polled /\ busy' = (busy /\ prompt # "shown")
  /\ UNCHANGED <<daemon, sound, commsVars, crashes>>

\* up, down, a chord; Enter
MessagesPick ==
  /\ TalkIn("list")
  /\ \/ \E i \in DOMAIN talk.chats \ {talk.at} : talk' = [talk EXCEPT !.at = i] /\ UNCHANGED jobs
     \/ talk.at \in DOMAIN talk.chats /\ talk' = Opened(talk) /\ AskTalk("thread", talk.chats[talk.at])

\* Enter and typing in the other states
MessagesWrite ==
  \/ TalkIn("thread") /\ talk' = [talk EXCEPT !.phase = "compose", !.typed = FALSE] /\ UNCHANGED jobs
  \/ /\ TalkIn("compose") /\ UNCHANGED jobs
     /\ \E b \in BOOLEAN : talk' = [talk EXCEPT !.typed = b]
  \/ TalkIn("compose") /\ talk.typed /\ AskTalk("text", talk.active) /\ UNCHANGED talk

MessagesBack ==
  /\ UNCHANGED jobs
  /\ \/ TalkIn("thread") /\ talk' = [talk EXCEPT !.phase = "list"]
     \/ TalkIn("compose") /\ ~talk.typed /\ talk' = [talk EXCEPT !.phase = "thread"]

TalkAnswered(v, line) ==
  CASE line.cmd = "chats" -> IF line.ok THEN [v EXCEPT !.chats = @ \o Chats] ELSE v
    [] line.cmd = "text" -> IF line.ok THEN [v EXCEPT !.typed = FALSE, !.phase = "thread"] ELSE v
    [] OTHER -> v

MessagesAnswer ==
  /\ Answers("messages") /\ talk' = TalkAnswered(talk, Line)
  /\ signal' = IF Line.cmd = "link" THEN [signal EXCEPT !.notice = FALSE] ELSE signal
  /\ UNCHANGED <<registry, up, jobs, sound, keys, talkOthers>>

\* on_connect_event of the hub and, when it is active, of the app
MessagesEvent ==
  /\ TakeLine /\ Line.to = "messages" /\ Line.event # "response"
  /\ signal' = IF Line.event = "message" THEN signal
               ELSE [signal EXCEPT !.notice = (Line.event = "link_pending")]
  /\ talk' = IF Line.event # "message" \/ app # "messages" THEN talk
             ELSE [talk EXCEPT !.again = @ \/ (talk.phase = "thread" /\ Line.n = talk.active),
                               !.reload = @ \/ talk.phase = "list"]
  /\ UNCHANGED <<registry, up, jobs, sound, keys, talkOthers>>

\* on_poll.  A list with no entry at the cursor has nothing there to open: what
\* that reads is not defined.
MessagesReload ==
  /\ app = "messages" /\ UNCHANGED <<app, busy, prompt, up, outbox, sound, keys, talkOthers, signal>>
  /\ \/ /\ talk.reload /\ talk' = [Cleared(talk) EXCEPT !.reload = FALSE]
        /\ AskTalk("chats", 0)
     \/ /\ ~talk.reload /\ talk.again
        /\ \E c \in IF talk.at \in DOMAIN talk.chats THEN {talk.chats[talk.at]}
                    ELSE {Chats[i] : i \in DOMAIN Chats} :
             /\ talk' = [talk EXCEPT !.again = FALSE, !.phase = "thread", !.active = c]
             /\ AskTalk("thread", c)

-----------------------------------------------------------------------------
(* The accounts menu                                                       *)

LinkGmail ==
  /\ Key /\ prompt # "shown" /\ UNCHANGED <<registry, up, outbox, sound, mail, mailOthers>>
  /\ \/ /\ up /\ Room /\ SubmitFor("gmail", "link", 0) /\ post' = [post EXCEPT !.notice = TRUE]
     \/ up /\ Room /\ SubmitFor("gmail", "imap", 0) /\ UNCHANGED post

LinkSignal ==
  /\ Key /\ prompt # "shown" /\ up /\ Room /\ SubmitFor("messages", "link", 0)
  /\ signal' = [signal EXCEPT !.notice = TRUE]
  /\ UNCHANGED <<registry, up, outbox, sound, talk, talkOthers>>

GmailKey ==
  \/ GmailEnter \/ GmailLeave \/ GmailMenu \/ GmailInbox \/ GmailAct \/ GmailType \/ GmailSend
  \/ GmailBack \/ LinkGmail
GmailPoll == GmailAnswer \/ GmailNotice
MessagesKey ==
  \/ MessagesEnter \/ MessagesLeave \/ MessagesPick \/ MessagesWrite \/ MessagesBack \/ LinkSignal
MessagesPoll == MessagesAnswer \/ MessagesEvent \/ MessagesReload
GmailWork ==
  \/ MailListed \/ MailFetched \/ MailSent \/ MailActed \/ GmailLinkBegin \/ GmailLinkEnd
  \/ ImapLinked
MessagesWork == SignalDone \/ SignalLinkBegin \/ SignalLinkEnd

CommsStep ==
  \/ GmailKey \/ GmailPoll \/ GmailWork
  \/ MessagesKey \/ MessagesPoll \/ MessagesWork \/ MessageArrives
  \/ CommsRestart
CommsSpec == CommsInit /\ [][CommsStep]_commsVars

\* The lists and the cursors in them change at different times, by keys and by
\* answers; a cursor is always at an entry of a list that has one
\* (inbox_[inbox_index_] and chats_[selected_chat_] are read unchecked).  Of an
\* empty list nothing is said: see MessagesReload.
CursorsInLists ==
  /\ mail.inbox # <<>> => mail.at \in DOMAIN mail.inbox
  /\ talk.chats # <<>> => talk.at \in DOMAIN talk.chats
===============================================================================
