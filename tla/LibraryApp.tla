------------------------------ MODULE LibraryApp ------------------------------
(***************************************************************************)
(* The library app (ui/apps/library_app.cpp), its store                      *)
(* (documents/library_store.cpp) and the two backends that fetch for it       *)
(* (connect/library_backend.cpp, connect/worthwhile_backend.cpp).             *)
(*                                                                         *)
(* The catalog is one file that two processes write: the UI from the books    *)
(* its store has in memory, the daemon's worker by reading it and writing it   *)
(* back with one book more.  Pointers into the store are positions in it.     *)
(***************************************************************************)
EXTENDS ConnectCalls, TLC

CONSTANTS
  Shelf,   \* books in the catalog at the start, a sequence
  Offers,  \* books the public sources have
  Media,   \* books Worthwhile has
  Audio,   \* which of them all are audio
  Inbox    \* files received in the import directory

VARIABLES
  lib,   \* LibraryApp: phase_, phase_before_print_, local_books_, results, what
         \* is typed, the pending index, pending_refresh_local_, the book of
         \* document_, current_book_ as a position (0 is null), section_index_,
         \* worthwhile_mode_recent_; and books_ of its store
  shelf  \* catalog.json as books with their external_id or not, the import
         \* directory, what each state file says, the worker's copy of the
         \* catalog and the Worthwhile session

libraryVars == <<lib, shelf>>
Sections == 0..1
Entry(b, ext) == [b |-> b, ext |-> ext]
BooksOf(s) == [i \in DOMAIN s |-> s[i].b]
Here(s) == {s[i] : i \in DOMAIN s}

LibReset ==
  [phase |-> "menu", before |-> "read", list |-> <<>>, hits |-> {}, wwhits |-> {}, typed |-> FALSE,
   recent |-> FALSE, pend |-> 1, refresh |-> FALSE, doc |-> 0, cur |-> 0, sec |-> 0]

LibraryInit ==
  /\ lib = [mem |-> <<>>] @@ LibReset
  /\ \E in \in {<<>>, Inbox} :
       shelf = [disk |-> [i \in DOMAIN Shelf |-> Entry(Shelf[i], FALSE)], inbox |-> in,
                state |-> [b \in Here(Shelf \o Inbox) \cup Offers \cup Media |-> [of |-> 0, sec |-> 0]],
                work |-> <<>>, working |-> FALSE, session |-> FALSE]

-----------------------------------------------------------------------------
(* LibraryStore                                                            *)

\* save: every book in memory, without the external_id it did not load
SaveTo(f, mem) == [f EXCEPT !.disk = [i \in DOMAIN mem |-> Entry(mem[i], FALSE)]]

\* refresh: load_catalog, and process_import_dir registers and saves
MemOf(f) == BooksOf(f.disk) \o f.inbox
Imported(f) == IF f.inbox = <<>> THEN f ELSE SaveTo([f EXCEPT !.inbox = <<>>], MemOf(f))

\* register_book with save
Registered(mem, b) == IF b \in Here(mem) THEN mem ELSE Append(mem, b)

\* remove_book: the book, its state file and its own file
Without(mem, b) == SelectSeq(mem, LAMBDA x : x # b)
Removed(f, mem, b) == [SaveTo(f, Without(mem, b)) EXCEPT !.state[b] = [of |-> 0, sec |-> 0]]

\* save_reading_progress, under the id at current_book_.  A position that the
\* vector has no longer is undefined: nothing, or any name.
Progress(f, v, id) ==
  IF v.cur = 0 \/ id = 0 THEN f ELSE [f EXCEPT !.state[id] = [of |-> v.doc, sec |-> v.sec]]
NamesAt(v) == IF v.cur \in DOMAIN v.mem THEN {v.mem[v.cur]} ELSE {0} \cup DOMAIN shelf.state

Refreshed(v, f) == [v EXCEPT !.mem = MemOf(f), !.list = MemOf(f)]

-----------------------------------------------------------------------------
(* LibraryBackend and WorthwhileBackend, on the worker                       *)

\* library.search; worthwhile.search and worthwhile.recent after ensure_session
LibrarySearched ==
  /\ JobOf("library", "search")
  /\ \E b \in Offers \cup {0} : JobDone(<<Reply(Head(jobs), b # 0, b)>>)
  /\ UNCHANGED <<registry, up, sound, keys, crashes, libraryVars>>

WorthwhileSearched ==
  /\ JobOf("library", "wwlist")
  /\ \E ok \in BOOLEAN : shelf' = [shelf EXCEPT !.session = ok]
  /\ \E b \in Media \cup {0} :
       JobDone(<<IF shelf'.session THEN Reply(Head(jobs), TRUE, b) ELSE Reply(Head(jobs), FALSE, 0)>>)
  /\ UNCHANGED <<registry, up, sound, keys, crashes, lib>>

\* library.download: the file is there, and register_downloaded_book has read
\* the catalog.
DownloadBegin ==
  /\ JobOf("library", "download") /\ ~shelf.working
  /\ shelf' = [shelf EXCEPT !.working = TRUE, !.work = shelf.disk]
  /\ UNCHANGED <<callVars, lib>>

\* The rest of it: a book it knows by its external_id is not entered again, and
\* the answer is ok whether the file could be written or not.
Entered(w, b) == IF Entry(b, TRUE) \in Here(w) THEN w ELSE Append(w, Entry(b, TRUE))
DownloadEnd ==
  /\ JobOf("library", "download")
  /\ \/ /\ shelf.working
        /\ JobDone(<<Response(Head(jobs), TRUE)>>)
        /\ shelf' = [shelf EXCEPT !.working = FALSE, !.disk = Entered(shelf.work, Head(jobs).n)]
     \/ /\ ~shelf.working
        /\ JobDone(<<Response(Head(jobs), FALSE)>>) /\ UNCHANGED shelf
  /\ UNCHANGED <<registry, up, sound, keys, crashes, lib>>

\* worthwhile.download: one more login and try when the session has run out
WorthwhileDownload ==
  /\ JobOf("library", "wwdown")
  /\ \E ok, again \in BOOLEAN :
       /\ JobDone(<<Response(Head(jobs), (shelf.session \/ again) /\ ok)>>)
       /\ shelf' = [shelf EXCEPT !.session = @ \/ again]
  /\ UNCHANGED <<registry, up, sound, keys, crashes, lib>>

\* A daemon that dies between the two halves of a download has written nothing.
LibraryRestart ==
  /\ DaemonStart /\ shelf' = [shelf EXCEPT !.working = FALSE, !.session = FALSE]
  /\ UNCHANGED lib

-----------------------------------------------------------------------------
(* The app                                                                 *)

To(phase) == lib' = [lib EXCEPT !.phase = phase]
uiOnly == <<app, busy, prompt, up, outbox, crashes>>
In(phases) == Reaches("library") /\ ~lib.refresh /\ lib.phase \in phases \* on_poll comes before a key

LibraryEnter ==
  /\ Launch("library") /\ UNCHANGED <<busy, prompt, daemon, sound, crashes>>
  /\ lib' = [mem |-> MemOf(shelf)] @@ LibReset /\ shelf' = Imported(shelf)

LibraryLeave ==
  /\ Leave("library") /\ ~lib.refresh /\ busy' = (busy /\ prompt # "shown")
  /\ \E id \in NamesAt(lib) : shelf' = Progress(shelf, lib, id)
  /\ lib' = [mem |-> lib.mem] @@ LibReset
  /\ UNCHANGED <<daemon, sound, crashes>>

\* handle_menu, handle_public_sources
LibraryChoose ==
  /\ UNCHANGED <<uiOnly, sound>>
  /\ \/ /\ In({"menu"}) /\ UNCHANGED jobs
        /\ \/ /\ shelf' = Imported(shelf)
              /\ LET v == Refreshed(lib, shelf)
                 IN  lib' = IF v.list = <<>> THEN v ELSE [v EXCEPT !.phase = "list"]
           \/ UNCHANGED shelf /\ (To("public") \/ To("wwmenu"))
     \/ /\ In({"public"}) /\ UNCHANGED <<jobs, shelf>>
        /\ lib' = [lib EXCEPT !.phase = "query", !.typed = FALSE]

\* on_text; and Backspace in query_buffer_, worthwhile_query_ or rename_buffer_
LibraryType ==
  /\ In({"query", "wwquery", "rename"})
  /\ \E b \in BOOLEAN : lib' = [lib EXCEPT !.typed = b]
  /\ UNCHANGED <<uiOnly, jobs, sound, shelf>>

\* A request that cannot be queued runs the callback with its error at once.
AskLibrary(cmd, n, v, refused) ==
  IF up THEN Room /\ SubmitFor("library", cmd, n) /\ lib' = v
        ELSE UNCHANGED jobs /\ lib' = refused

LibraryAsk ==
  /\ UNCHANGED <<uiOnly, sound, shelf>>
  /\ \/ /\ In({"query"}) /\ lib.typed
        /\ AskLibrary("search", 0, [lib EXCEPT !.phase = "results", !.hits = {}], [lib EXCEPT !.hits = {}])
     \/ /\ In({"results"})
        /\ \E b \in lib.hits : AskLibrary("download", b, [lib EXCEPT !.phase = "down"], lib)

\* handle_worthwhile_menu: a search, or the recent books; handle_worthwhile_search,
\* handle_worthwhile_results
WorthwhileAsk ==
  /\ UNCHANGED <<uiOnly, sound, shelf>>
  /\ \/ /\ In({"wwmenu"}) /\ UNCHANGED jobs
        /\ lib' = [lib EXCEPT !.phase = "wwquery", !.typed = FALSE, !.recent = FALSE]
     \/ /\ In({"wwmenu"})
        /\ IF up THEN Room /\ SubmitFor("library", "wwlist", 0) ELSE UNCHANGED jobs
        /\ lib' = [lib EXCEPT !.phase = IF up THEN "wwresults" ELSE @, !.wwhits = {}, !.recent = TRUE]
     \/ /\ In({"wwquery"}) /\ lib.typed
        /\ AskLibrary("wwlist", 0, [lib EXCEPT !.phase = "wwresults", !.wwhits = {}], [lib EXCEPT !.wwhits = {}])
     \/ /\ In({"wwresults"})
        /\ \E b \in lib.wwhits : AskLibrary("wwdown", b, [lib EXCEPT !.phase = "wwdown"], lib)

\* Backspace
LibraryBack ==
  /\ UNCHANGED <<uiOnly, jobs, sound>>
  /\ \/ UNCHANGED shelf /\ In({"public", "list", "wwmenu", "down", "wwdown"}) /\ To("menu")
     \/ UNCHANGED shelf /\ In({"rmpick", "renpick", "usb", "usbdir", "audio"}) /\ To("list")
     \/ UNCHANGED shelf /\ In({"rmask"}) /\ To("rmpick")
     \/ UNCHANGED shelf /\ In({"rename"}) /\ ~lib.typed /\ To("renpick")
     \/ UNCHANGED shelf /\ In({"query"}) /\ ~lib.typed /\ To("public")
     \/ UNCHANGED shelf /\ In({"results"}) /\ To("query")
     \/ UNCHANGED shelf /\ In({"wwquery"}) /\ ~lib.typed /\ To("wwmenu")
     \/ UNCHANGED shelf /\ In({"wwresults"}) /\ To(IF lib.recent THEN "wwmenu" ELSE "wwquery")
     \/ UNCHANGED shelf /\ In({"text"}) /\ To("read")
     \/ UNCHANGED shelf /\ In({"print"}) /\ To(lib.before)
     \/ /\ In({"read"}) /\ To("list")
        /\ \E id \in NamesAt(lib) : shelf' = Progress(shelf, lib, id)

\* "Remove", "Rename" and "Import from USB" of the app's menu
LibraryMenu ==
  /\ In({"list"}) /\ UNCHANGED <<uiOnly, jobs, sound, shelf>>
  /\ \/ lib.list # <<>> /\ (To("rmpick") \/ To("renpick"))
     \/ To("usb")

\* handle_remove_pick and handle_rename_pick keep the position of the book.
LibraryPick ==
  /\ In({"rmpick", "renpick"}) /\ UNCHANGED <<uiOnly, jobs, sound, shelf>>
  /\ \E i \in DOMAIN lib.list :
       lib' = [lib EXCEPT !.phase = IF @ = "rmpick" THEN "rmask" ELSE "rename", !.pend = i, !.typed = TRUE]

\* handle_remove_confirm, finalize_remove
LibraryRemove ==
  /\ In({"rmask"}) /\ lib.pend \in DOMAIN lib.list /\ UNCHANGED <<uiOnly, jobs, sound>>
  /\ LET b == lib.list[lib.pend]
         f == Imported(Removed(shelf, lib.mem, b))
     IN  /\ shelf' = f
         /\ lib' = [Refreshed(lib, f) EXCEPT !.phase = IF f.disk = <<>> THEN "menu" ELSE "list"]

\* handle_rename_entry: the catalog is written, the ids stay.
LibraryRename ==
  /\ In({"rename"}) /\ lib.typed /\ lib.pend \in DOMAIN lib.list /\ UNCHANGED <<uiOnly, jobs, sound>>
  /\ LET f == Imported(SaveTo(shelf, lib.mem))
     IN  shelf' = f /\ lib' = [Refreshed(lib, f) EXCEPT !.phase = "list"]

\* handle_usb_drive_pick; handle_usb_browse with import_file
LibraryUsb ==
  /\ UNCHANGED <<uiOnly, jobs, sound>>
  /\ \/ In({"usb"}) /\ To("usbdir") /\ UNCHANGED shelf
     \/ /\ In({"usbdir"})
        /\ \E b \in Here(Inbox) \ Here(MemOf(shelf) \o lib.mem) :
             LET f == SaveTo(shelf, Append(lib.mem, b))
             IN  shelf' = f /\ lib' = [Refreshed(lib, f) EXCEPT !.phase = "list"]

\* open_book: an e-book with the section its state file names
LibraryOpen ==
  /\ In({"list"}) /\ UNCHANGED <<uiOnly, jobs, sound, shelf>>
  /\ \E b \in Here(lib.list) \ Audio :
       lib' = [lib EXCEPT !.phase = "read", !.doc = b, !.sec = shelf.state[b].sec,
                 !.cur = IF b \in Here(lib.mem) THEN CHOOSE i \in DOMAIN lib.mem : lib.mem[i] = b
                         ELSE Len(lib.mem) + 1]

\* open_book: audio, by music.play_path
LibraryPlay ==
  /\ In({"list"}) /\ up /\ Room /\ UNCHANGED <<app, busy, prompt, up, jobs, crashes, shelf>>
  /\ \E b \in Here(lib.list) \cap Audio : lib' = [lib EXCEPT !.phase = "audio"]
  /\ player' = Load(player, "music") /\ media' = Started(media)
  /\ outbox' = Append(outbox, Event("music", "playing"))

\* handle_audio_playing
LibraryPause ==
  /\ In({"audio"}) /\ up /\ Room /\ UNCHANGED <<app, busy, prompt, up, jobs, crashes, libraryVars>>
  /\ player' = SetPaused(player, ~player.believed)
  /\ outbox' = IF player'.believed THEN outbox ELSE Append(outbox, Event("music", "playing"))
  /\ media' = MediaPaused(media, ~player.believed)

\* handle_reading, read_section_text
LibraryRead ==
  /\ In({"read"}) /\ UNCHANGED <<uiOnly, jobs, sound>>
  /\ \E s \in Sections, id \in NamesAt(lib) :
       LET v == [lib EXCEPT !.phase = IF s = lib.sec THEN "text" ELSE "read", !.sec = s]
       IN  lib' = v /\ shelf' = Progress(shelf, v, id)

\* "Print" of the app's menu, and handle_print_scope
LibraryPrint ==
  /\ UNCHANGED <<uiOnly, jobs, sound, shelf>>
  /\ \/ In({"read", "text"}) /\ lib' = [lib EXCEPT !.phase = "print", !.before = lib.phase]
     \/ In({"print"}) /\ To(lib.before)

\* The callbacks, whatever the app shows by now
LibAnswered(v, line) ==
  CASE line.cmd = "search" -> IF line.ok THEN [v EXCEPT !.phase = "results", !.hits = {line.n}]
                                         ELSE [v EXCEPT !.phase = "query", !.hits = {}]
    [] line.cmd = "download" -> IF line.ok THEN [v EXCEPT !.refresh = TRUE]
                                           ELSE [v EXCEPT !.phase = "results"]
    [] line.cmd = "wwlist" -> IF line.n # 0 THEN [v EXCEPT !.phase = "wwresults", !.wwhits = {line.n}]
                              ELSE [v EXCEPT !.phase = IF v.recent THEN "wwmenu" ELSE "wwquery", !.wwhits = {}]
    [] line.cmd = "wwdown" -> IF line.ok THEN [v EXCEPT !.phase = "wwresults", !.refresh = TRUE,
                                                        !.mem = Registered(@, line.n)]
                                         ELSE [v EXCEPT !.phase = "wwresults"]

LibraryAnswer ==
  /\ Answers("library") /\ lib' = LibAnswered(lib, Line)
  /\ shelf' = IF Line.cmd = "wwdown" /\ Line.ok /\ Line.n \notin Here(lib.mem)
                THEN SaveTo(shelf, Registered(lib.mem, Line.n)) ELSE shelf
  /\ UNCHANGED <<registry, up, jobs, sound, keys, crashes>>

\* on_poll: the list is read again in whatever phase the app is.
LibraryReload ==
  /\ app = "library" /\ lib.refresh /\ UNCHANGED callVars
  /\ shelf' = Imported(shelf)
  /\ lib' = [Refreshed(lib, shelf) EXCEPT !.refresh = FALSE, !.phase = IF @ = "down" THEN "list" ELSE @]

\* on_connect_event
LibraryEvent ==
  /\ TakeLine /\ Line.to = "music" /\ Line.event = "playing"
  /\ media' = Hub(media, Line) /\ UNCHANGED lib
  /\ UNCHANGED <<registry, up, jobs, player, keys, crashes, shelf>>

LibraryKey ==
  \/ LibraryEnter \/ LibraryLeave \/ LibraryChoose \/ LibraryType \/ LibraryAsk \/ WorthwhileAsk
  \/ LibraryBack
  \/ LibraryMenu \/ LibraryPick \/ LibraryRemove \/ LibraryRename \/ LibraryUsb \/ LibraryOpen
  \/ LibraryPlay \/ LibraryPause \/ LibraryRead \/ LibraryPrint
LibraryPoll == LibraryAnswer \/ LibraryReload \/ LibraryEvent
===============================================================================
