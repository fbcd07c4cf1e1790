------------------------------ MODULE ContactsApp ------------------------------
(***************************************************************************)
(* The address book of the Pi (daemon-dietpi/src: ui/apps/contacts_app.cpp,   *)
(* documents/contacts_store.cpp).                                             *)
(*                                                                         *)
(* A contact is [id, key]: the key is name and first phone number, by which    *)
(* contacts are told apart; ids are drawn anew.  Each screen reads the store   *)
(* again, and every reading also imports what lies in the import directory.    *)
(* The list of recently viewed contacts is a file of ids, and the open contact *)
(* a pointer into the store.                                                  *)
(***************************************************************************)
EXTENDS DocumentApps

CONSTANTS
  Book,      \* the contacts stored when the UI starts
  Names,     \* keys a user types or a file brings
  MaxIds,    \* bound: ids
  MaxFull    \* bound: saves that fail

Contacts == [id : Nat, key : Nat]
ASSUME ContactsAssumption ==
  Book \in Seq(Contacts) /\ Names \subseteq Nat /\ MaxFull \in Nat

VARIABLES
  con,    \* ContactsApp: phase_, query, address_book_contacts_, focus, the
          \* open contact, detail_from_recent_, the name typed, recent_contacts_
  store   \* ContactsStore: contacts_, its file, the import directory, the file
          \* of recent ids, the last id drawn, saves failed

contactsVars == <<con, store>>

IdsOf(contacts) == {contacts[i].id : i \in DOMAIN contacts}
Fresh == [at |-> "MainMenu", query |-> 0, list |-> <<>>, focus |-> 1, open |-> 0,
          fromRecent |-> FALSE, name |-> 0, recent |-> <<>>]

ContactsInit ==
  /\ con = Fresh
  /\ \E book \in {SubSeq(Book, 1, n) : n \in DOMAIN Book} :
       store = [mem |-> book, disk |-> book, inbox |-> <<>>, recent |-> <<>>,
                ids |-> Len(book), full |-> 0]

-----------------------------------------------------------------------------
(* ContactsStore                                                           *)

\* upsert_contact: the same name and number replaces the contact, with its id.
Upserted(contacts, c) ==
  LET same == {i \in DOMAIN contacts : contacts[i].key = c.key}
  IN IF same = {} THEN Append(contacts, c) ELSE [contacts EXCEPT ![Least(same)] = c]

WithContact(s, key) ==
  [s EXCEPT !.ids = @ + 1, !.mem = Upserted(@, [id |-> s.ids + 1, key |-> key])]

\* save, which may find the disk full; its file is renamed into place whole.
Saves(s) == {[s EXCEPT !.disk = s.mem]}
              \cup {t \in {[s EXCEPT !.full = @ + 1]} : t.full <= MaxFull}

\* load_json_store, then process_import_dir: a file is moved to processed/
\* before the store is saved.
Imported(s) ==
  LET with[i \in 0..Len(s.inbox)] == IF i = 0 THEN s ELSE WithContact(with[i - 1], s.inbox[i])
  IN with[Len(s.inbox)]
Imports(s) == IF s.inbox = <<>> THEN {s} ELSE Saves([Imported(s) EXCEPT !.inbox = <<>>])

Loads(s) == Imports([s EXCEPT !.mem = s.disk])

\* add_contact, with the answer it gives.
Adds(s, key) ==
  UNION {IF t.full = s.full THEN {[store |-> u, ok |-> TRUE] : u \in Loads(t)}
                            ELSE {[store |-> t, ok |-> FALSE]}
           : t \in Saves(WithContact(s, key))}

Found(s, query) == Among(s.mem, {s.mem[i] : i \in {j \in DOMAIN s.mem : query \in {0, s.mem[j].key}}})

-----------------------------------------------------------------------------
(* ContactsApp: its screens                                                *)

InContacts(phase) == Reaches("contacts") /\ con.at = phase /\ UNCHANGED app
Quiet == UNCHANGED <<documentVars, Calls>>
StoreKept == UNCHANGED store

\* Contacts by name: each goes behind those whose names do not come after its own.
Placed(sorted, c) ==
  LET has == {sorted[i] : i \in DOMAIN sorted}
  IN Among(sorted, {x \in has : x.key <= c.key}) \o <<c>>
       \o Among(sorted, {x \in has : x.key > c.key})
Sorted(contacts) ==
  LET by[i \in 0..Len(contacts)] == IF i = 0 THEN <<>> ELSE Placed(by[i - 1], contacts[i])
  IN by[Len(contacts)]
RecentOf(s) == Among(s.recent, IdsOf(s.mem))

Listed_NotRead(c, s) == [c EXCEPT !.at = "AddressBook", !.focus = IF c.list = <<>> THEN 1 ELSE 2]
Listed(c, s) ==
  LET list == Sorted(Found(s, c.query))
  IN [c EXCEPT !.at = "AddressBook", !.list = list, !.focus = IF list = <<>> THEN 1 ELSE 2]

MainMenu(c) == [c EXCEPT !.at = "MainMenu", !.query = 0, !.name = 0, !.focus = 1]
ReturnToMain(c, s) == [MainMenu(c) EXCEPT !.recent = RecentOf(s)]
RecentScreen(c) == [c EXCEPT !.at = "RecentList", !.focus = 1]

\* open_contact and note_recent_contact.
MaxRecent == 2
Opens(c, s, id) ==
  LET recent == <<id>> \o Among(c.recent, {c.recent[i] : i \in DOMAIN c.recent} \ {id})
      kept == SubSeq(recent, 1, IF Len(recent) > MaxRecent THEN MaxRecent ELSE Len(recent))
  IN /\ con' = [c EXCEPT !.open = id, !.fromRecent = (c.at = "RecentList"),
                         !.recent = kept, !.at = "Detail"]
     /\ store' = [s EXCEPT !.recent = kept]

ContactsEnter ==
  /\ Launch("contacts")
  /\ \E s \in Loads(store) : store' = s /\ con' = [Fresh EXCEPT !.recent = RecentOf(s)]
  /\ Quiet

ContactsLeave ==
  /\ Leave("contacts")
  /\ con' = Fresh
  /\ UNCHANGED <<store, documentVars, busy, daemon, sound, crashes>>

\* Up and Down in a list of n items.
Browse(phase, n) ==
  /\ InContacts(phase) /\ StoreKept /\ Quiet
  /\ \E i \in {con.focus - 1, con.focus + 1} \cap (1..n) : con' = [con EXCEPT !.focus = i]

ContactsBrowse ==
  \/ Browse("MainMenu", 3)
  \/ Browse("AddressBook", Len(con.list) + 1)
  \/ Browse("RecentList", Len(con.recent))
  \/ Browse("Actions", 2)

StartAdd(c) == [c EXCEPT !.at = "AddName", !.name = 0]

MainMenuEnter ==
  /\ InContacts("MainMenu") /\ Quiet
  /\ \/ con.focus = 1 /\ con' = RecentScreen(con) /\ StoreKept
     \/ /\ con.focus = 2
        /\ \E s \in Loads(store) : store' = s /\ con' = Listed([con EXCEPT !.query = 0], s)
     \/ con.focus = 3 /\ con' = StartAdd(con) /\ StoreKept

\* "Add contact" of the app's menu, on any screen.
AddAction ==
  /\ Reaches("contacts") /\ con.at # "AddName" /\ con' = StartAdd(con)
  /\ StoreKept /\ Quiet /\ UNCHANGED app

AddressBookKey ==
  /\ InContacts("AddressBook") /\ Quiet
  /\ \/ con' = ReturnToMain(con, store) /\ StoreKept
     \/ con.focus = 1 /\ con' = [con EXCEPT !.at = "Search"] /\ StoreKept
     \/ con.focus > 1 /\ Opens(con, store, con.list[con.focus - 1].id)

RecentKey ==
  /\ InContacts("RecentList") /\ Quiet
  /\ \/ con' = MainMenu(con) /\ StoreKept
     \/ con.recent # <<>> /\ Opens(con, store, con.recent[con.focus])

\* The query is typed, and Enter opens a single match at once.
SearchKey ==
  /\ InContacts("Search") /\ Quiet
  /\ \/ \E k \in Names : con' = [con EXCEPT !.query = k] /\ StoreKept
     \/ con.query # 0 /\ con' = [con EXCEPT !.query = 0] /\ StoreKept
     \/ \E s \in Loads(store) :
          IF Len(Found(s, con.query)) = 1
          THEN \/ Opens([con EXCEPT !.list = Found(s, con.query)], s, Found(s, con.query)[1].id)
               \/ con.query = 0 /\ store' = s /\ con' = Listed(con, s)
          ELSE store' = s /\ con' = Listed(con, s)

DetailKey ==
  /\ InContacts("Detail") /\ Quiet
  /\ \/ con' = [con EXCEPT !.at = "Actions", !.focus = 1] /\ StoreKept
     \/ con.fromRecent /\ con' = [RecentScreen(con) EXCEPT !.open = 0] /\ StoreKept
     \/ /\ ~con.fromRecent
        /\ \E s \in Loads(store) : store' = s /\ con' = [Listed(con, s) EXCEPT !.open = 0]

\* The card is added to the document, line by line; embossing it only needs
\* the hardware.
CopyCard ==
  /\ InContacts("Actions") /\ con.focus = 1
  /\ doc' = Append(Typed(doc, <<"o">>), <<"o">>) /\ Len(doc') <= Len(Text) + 1 /\ Short(doc')
  /\ con' = [con EXCEPT !.at = "Detail"]
  /\ StoreKept /\ UNCHANGED <<edit, brl, heard, Calls>>

ActionsKey ==
  /\ InContacts("Actions") /\ StoreKept /\ Quiet
  /\ con' = [con EXCEPT !.at = "Detail"]

AddKey ==
  /\ Quiet
  /\ \/ InContacts("AddName") /\ StoreKept
        /\ \/ con.name = 0 /\ \E k \in Names : con' = [con EXCEPT !.name = k]
           \/ con.name # 0 /\ con' \in {[con EXCEPT !.name = 0], [con EXCEPT !.at = "AddPhone"]}
           \/ con.name = 0 /\ con' = ReturnToMain(con, store)
     \/ InContacts("AddPhone") /\ StoreKept /\ con' = [con EXCEPT !.at = "AddName"]
     \/ InContacts("AddPhone") /\ store.ids < MaxIds
        /\ \E a \in Adds(store, con.name) :
             /\ store' = a.store
             /\ con' = IF a.ok THEN ReturnToMain(con, a.store) ELSE con

\* Somebody puts a file of contacts into the import directory.
ImportFile ==
  /\ store.inbox = <<>> /\ store.ids + 1 < MaxIds /\ app = "contacts"
  /\ \E k \in Names : store' = [store EXCEPT !.inbox = <<k>>]
  /\ UNCHANGED <<con, app, keys>> /\ Quiet

ContactsKey ==
  \/ ContactsEnter \/ ContactsLeave \/ ContactsBrowse \/ MainMenuEnter \/ AddAction
  \/ AddressBookKey \/ RecentKey \/ SearchKey \/ DetailKey \/ CopyCard \/ ActionsKey
  \/ AddKey
ContactsWork == ImportFile

ContactsSpec == ContactsInit /\ [][ContactsKey \/ ContactsWork]_contactsVars

\* The document with all that write it, whatever the rest of the UI does.
DocumentSpec == DocumentInit /\ [][DocumentKey \/ DocumentPoll \/ CopyCard]_documentVars

-----------------------------------------------------------------------------
\* The contact whose card is shown, copied or embossed is one the store still
\* has: the pointer to it outlives no reading of the store, and every line of
\* a list opens the contact it names.
OpenIsStored ==
  /\ con.at \in {"Detail", "Actions"} => con.open \in IdsOf(store.mem)
  /\ con.at = "AddressBook" => IdsOf(con.list) \subseteq IdsOf(store.mem)
  /\ con.at = "RecentList" => \A i \in DOMAIN con.recent : con.recent[i] \in IdsOf(store.mem)
===============================================================================
