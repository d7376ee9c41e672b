--------------------------- MODULE PersonalLibrary --------------------------
(***************************************************************************)
(* What a reader keeps: book lists, tags and recent books (auth/library.go *)
(* and server/personal_library.go), bookmarks and notes (auth/reading.go   *)
(* and server/reading.go) and requests for missing books (auth/sqlite.go   *)
(* and server/book_requests.go).                                           *)
(*                                                                         *)
(* The store has one connection, so a statement or a transaction is a      *)
(* step.  A handler that makes several is interleaved with the others of   *)
(* its own user and of other users, and with refreshes of the index.       *)
(*                                                                         *)
(* List names and tags are compared without case, in the handlers and by   *)
(* the tables: a name or a tag stands for all its spellings.               *)
(***************************************************************************)
EXTENDS Naturals, FiniteSets

CONSTANTS
    Users,      \* signed-in readers
    Managers,   \* those of them with the manager role
    Handlers,   \* requests being served
    userOf,     \* the account each is signed in as
    Books,      \* book IDs
    ListIds,    \* random IDs of lists
    NoteIds,    \* random IDs of bookmarks and notes
    RequestIds, \* random IDs of book requests
    Names,      \* list names
    Tags,       \* tags
    Revisions,  \* what can be saved as a note: its title and body
    tagsOf,     \* and the tags that come with it
    MaxTags,    \* tags per note (12 in the code)
    None        \* nothing

ASSUME PersonalAssumption ==
    /\ Managers \subseteq Users
    /\ userOf \in [Handlers -> Users]
    /\ tagsOf \in [Revisions -> SUBSET Tags]
    /\ MaxTags \in Nat
    /\ None \notin Users \cup Books \cup ListIds \cup NoteIds \cup Names \cup Revisions

VARIABLES
    indexed,    \* the books in the index
    lists,      \* user_book_lists: its IDs
    usedLists,  \* IDs given to lists so far
    owner,      \* user_book_lists.user_id
    listName,   \* user_book_lists.name
    entries,    \* user_book_list_items
    bookTags,   \* user_book_tags
    recent,     \* user_book_activity
    notes,      \* user_reading_items: its IDs
    usedNotes,  \* IDs given to notes so far
    noteOf,     \* user_reading_items.user_id
    text,       \* title and body
    noteTags,   \* user_reading_item_tags
    requests,   \* book_requests: who asked
    outcome,    \* status, and the book if there is one
    call        \* what each handler is about to do

listVars == <<lists, usedLists, owner, listName, entries>>
shelfVars == <<bookTags, recent>>
noteVars == <<notes, usedNotes, noteOf, text, noteTags>>
requestVars == <<requests, outcome>>
vars == <<indexed, listVars, shelfVars, noteVars, requestVars, call>>

(***************************************************************************)
(* Operators named X_Something, just before X, are X with a plausible bug. *)
(***************************************************************************)

Ops == {"idle", "createList", "addBook", "removeBook", "updateNote", "showNotes", "resolve"}

Call == [op : Ops, list : ListIds \cup {None}, name : Names \cup {None},
         book : Books \cup {None}, note : NoteIds \cup {None}, rev : Revisions \cup {None},
         seen : [NoteIds -> Revisions \cup {None}]]
Idle == [op |-> "idle", list |-> None, name |-> None, book |-> None, note |-> None,
         rev |-> None, seen |-> [n \in NoteIds |-> None]]

Is(h, op) == call[h].op = op
Finish(h) == call' = [call EXCEPT ![h] = Idle]

Outcomes == {"none", "pending", "unavailable"} \cup Books

Init ==
    /\ indexed \in SUBSET Books
    /\ lists = {} /\ usedLists = {}
    /\ owner = [l \in ListIds |-> None]
    /\ listName = [l \in ListIds |-> None]
    /\ entries = {} /\ bookTags = {} /\ recent = {}
    /\ notes = {} /\ usedNotes = {}
    /\ noteOf = [n \in NoteIds |-> None]
    /\ text = [n \in NoteIds |-> None]
    /\ noteTags = {}
    /\ requests = [r \in RequestIds |-> None]
    /\ outcome = [r \in RequestIds |-> "none"]
    /\ call = [h \in Handlers |-> Idle]

(***************************************************************************)
(* Book lists                                                              *)
(***************************************************************************)

(* BookListForUser and the WHERE clauses: the list exists and is the        *)
(* user's.                                                                  *)
OwnList(h, l) == l \in lists /\ owner[l] = userOf[h]

NameTaken(u, n) == \E l \in lists : owner[l] = u /\ listName[l] = n

(* CreateBookList looks for the name. *)
CreateListBegin(h, n) ==
    /\ Is(h, "idle")
    /\ ~NameTaken(userOf[h], n)
    /\ call' = [call EXCEPT ![h] = [Idle EXCEPT !.op = "createList", !.name = n]]
    /\ UNCHANGED <<indexed, listVars, shelfVars, noteVars, requestVars>>

(* Then it inserts the row, under a random ID no list has had; the table    *)
(* keeps names unique per user.                                             *)
NewListId_Recycled == ListIds \ lists
NewListId == ListIds \ usedLists
Insertable(h) == ~NameTaken(userOf[h], call[h].name)
CreateListInsert(h) ==
    /\ Is(h, "createList")
    /\ IF Insertable(h)
       THEN \E l \in NewListId :
              /\ lists' = lists \cup {l}
              /\ usedLists' = usedLists \cup {l}
              /\ owner' = [owner EXCEPT ![l] = userOf[h]]
              /\ listName' = [listName EXCEPT ![l] = call[h].name]
       ELSE UNCHANGED <<lists, usedLists, owner, listName>>
    /\ Finish(h)
    /\ UNCHANGED <<indexed, entries, shelfVars, noteVars, requestVars>>

(* DeleteBookList, and its rows in user_book_list_items. *)
DeleteList(h, l) ==
    /\ Is(h, "idle")
    /\ OwnList(h, l)
    /\ lists' = lists \ {l}
    /\ entries' = {e \in entries : e[1] # l}
    /\ UNCHANGED <<indexed, usedLists, owner, listName, shelfVars, noteVars,
                   requestVars, call>>

(* changeBookListMembership: the book is in the index, the list the user's. *)
MembershipBegin(h, op, l, b) ==
    /\ Is(h, "idle")
    /\ b \in indexed
    /\ OwnList(h, l)
    /\ call' = [call EXCEPT ![h] = [Idle EXCEPT !.op = op, !.list = l, !.book = b]]
    /\ UNCHANGED <<indexed, listVars, shelfVars, noteVars, requestVars>>

(* The transaction of AddBookToList: the list must exist (foreign key). *)
ListStillThere_Assumed(h) == TRUE
ListStillThere(h) == call[h].list \in lists
AddBook(h) ==
    /\ Is(h, "addBook")
    /\ entries' = IF ListStillThere(h) THEN entries \cup {<<call[h].list, call[h].book>>}
                  ELSE entries
    /\ Finish(h)
    /\ UNCHANGED <<indexed, lists, usedLists, owner, listName, shelfVars, noteVars,
                   requestVars>>

(* The transaction of RemoveBookFromList asks for no owner. *)
RemoveBook(h) ==
    /\ Is(h, "removeBook")
    /\ entries' = entries \ {<<call[h].list, call[h].book>>}
    /\ Finish(h)
    /\ UNCHANGED <<indexed, lists, usedLists, owner, listName, shelfVars, noteVars,
                   requestVars>>

(***************************************************************************)
(* Tags and recent books: one statement each                               *)
(***************************************************************************)

(* AddBookTag ("INSERT OR IGNORE") and RemoveBookTag. *)
Tagged(row, add) == IF add THEN bookTags \cup {row} ELSE bookTags \ {row}

(* changeBookTag *)
ChangeTag(h, b, t, add) ==
    /\ Is(h, "idle")
    /\ b \in indexed
    /\ bookTags' = Tagged(<<userOf[h], b, t>>, add)
    /\ UNCHANGED <<indexed, listVars, recent, noteVars, requestVars, call>>

(* handleReadBook: RecordBookRead. *)
ReadBook(h, b) ==
    /\ Is(h, "idle")
    /\ b \in indexed
    /\ recent' = recent \cup {<<userOf[h], b>>}
    /\ UNCHANGED <<indexed, listVars, bookTags, noteVars, requestVars, call>>

(***************************************************************************)
(* Bookmarks and notes                                                     *)
(***************************************************************************)
OwnNote(h, n) == n \in notes /\ noteOf[n] = userOf[h]

(* validateReadingItem and normalizeReadingTags. *)
Valid(rev) == Cardinality(tagsOf[rev]) <= MaxTags

TagRows(n, rev) == {n} \X tagsOf[rev]

(* handleCreateReadingItemAPI: the row and its tags in one transaction. *)
CreateNote(h, b, rev) ==
    /\ Is(h, "idle")
    /\ b \in indexed /\ Valid(rev)
    /\ \E n \in NoteIds \ usedNotes :
         /\ notes' = notes \cup {n}
         /\ usedNotes' = usedNotes \cup {n}
         /\ noteOf' = [noteOf EXCEPT ![n] = userOf[h]]
         /\ text' = [text EXCEPT ![n] = rev]
         /\ noteTags' = noteTags \cup TagRows(n, rev)
    /\ UNCHANGED <<indexed, listVars, shelfVars, requestVars, call>>

(* UpdateReadingItem reads the item first. *)
UpdateNoteBegin(h, n, rev) ==
    /\ Is(h, "idle")
    /\ Valid(rev) /\ OwnNote(h, n)
    /\ call' = [call EXCEPT ![h] = [Idle EXCEPT !.op = "updateNote", !.note = n, !.rev = rev]]
    /\ UNCHANGED <<indexed, listVars, shelfVars, noteVars, requestVars>>

(* Its transaction: UPDATE must find the row, then the tags are replaced.   *)
Untagged_Kept(n) == noteTags
Untagged(n) == {t \in noteTags : t[1] # n}
UpdateNote(h) ==
    LET n == call[h].note IN
    /\ Is(h, "updateNote")
    /\ IF OwnNote(h, n)
       THEN /\ text' = [text EXCEPT ![n] = call[h].rev]
            /\ noteTags' = Untagged(n) \cup TagRows(n, call[h].rev)
       ELSE UNCHANGED <<text, noteTags>>
    /\ Finish(h)
    /\ UNCHANGED <<indexed, listVars, shelfVars, notes, usedNotes, noteOf, requestVars>>

(* DeleteReadingItem, and its rows in user_reading_item_tags. *)
DeleteNote(h, n) ==
    /\ Is(h, "idle")
    /\ OwnNote(h, n)
    /\ notes' = notes \ {n}
    /\ noteTags' = Untagged(n)
    /\ UNCHANGED <<indexed, listVars, shelfVars, usedNotes, noteOf, text,
                   requestVars, call>>

(* ReadingItems reads the items, then attachReadingTags the tags of all     *)
(* the user's items, keeping those of the items read.                       *)
ShowNotesBegin(h) ==
    /\ Is(h, "idle")
    /\ call' = [call EXCEPT ![h] = [Idle EXCEPT !.op = "showNotes",
                                      !.seen = [n \in NoteIds |-> IF OwnNote(h, n) THEN text[n] ELSE None]]]
    /\ UNCHANGED <<indexed, listVars, shelfVars, noteVars, requestVars>>

ShownTags(h, n) == {t \in Tags : <<n, t>> \in noteTags /\ noteOf[n] = userOf[h]}

ShowNotes(h) ==
    /\ Is(h, "showNotes")
    /\ Finish(h)
    /\ UNCHANGED <<indexed, listVars, shelfVars, noteVars, requestVars>>

(***************************************************************************)
(* Book requests                                                           *)
(***************************************************************************)

(* handleCreateBookRequest: the transaction of CreateBookRequest. *)
CreateRequest(h) ==
    /\ Is(h, "idle")
    /\ \E r \in {x \in RequestIds : requests[x] = None} :
         /\ requests' = [requests EXCEPT ![r] = userOf[h]]
         /\ outcome' = [outcome EXCEPT ![r] = "pending"]
    /\ UNCHANGED <<indexed, listVars, shelfVars, noteVars, call>>

(* handleAdminBookRequestResolve finds the book in the index; the outcome   *)
(* None stands for "unavailable".                                           *)
ResolveBegin(h, b) ==
    /\ Is(h, "idle")
    /\ userOf[h] \in Managers
    /\ b \in indexed \cup {None}
    /\ call' = [call EXCEPT ![h] = [Idle EXCEPT !.op = "resolve", !.book = b]]
    /\ UNCHANGED <<indexed, listVars, shelfVars, noteVars, requestVars>>

(* ResolveBookRequest: also for a request resolved before. *)
Resolve(h, r) ==
    /\ Is(h, "resolve")
    /\ requests[r] # None
    /\ outcome' = [outcome EXCEPT ![r] = IF call[h].book = None THEN "unavailable"
                                         ELSE call[h].book]
    /\ Finish(h)
    /\ UNCHANGED <<indexed, listVars, shelfVars, noteVars, requests>>

(***************************************************************************)
(* The rest of the environment                                             *)
(***************************************************************************)

(* A statement fails: its transaction is rolled back and the page says so.  *)
Fail(h) ==
    /\ ~Is(h, "idle")
    /\ Finish(h)
    /\ UNCHANGED <<indexed, listVars, shelfVars, noteVars, requestVars>>

(* A refresh of the index. *)
Refresh(S) ==
    /\ indexed' = S
    /\ UNCHANGED <<listVars, shelfVars, noteVars, requestVars, call>>

ListStep(h) ==
    \/ \E n \in Names : CreateListBegin(h, n)
    \/ CreateListInsert(h) \/ AddBook(h) \/ RemoveBook(h)
    \/ \E l \in ListIds : DeleteList(h, l)
    \/ \E op \in {"addBook", "removeBook"}, l \in ListIds, b \in Books :
         MembershipBegin(h, op, l, b)

ShelfStep(h) ==
    \E b \in Books : ReadBook(h, b) \/ \E t \in Tags, add \in BOOLEAN : ChangeTag(h, b, t, add)

NoteStep(h) ==
    \/ \E b \in Books, rev \in Revisions : CreateNote(h, b, rev)
    \/ \E n \in NoteIds : DeleteNote(h, n) \/ \E rev \in Revisions : UpdateNoteBegin(h, n, rev)
    \/ UpdateNote(h) \/ ShowNotesBegin(h) \/ ShowNotes(h)

RequestStep(h) ==
    \/ CreateRequest(h)
    \/ \E b \in Books \cup {None} : ResolveBegin(h, b)
    \/ \E r \in RequestIds : Resolve(h, r)

Step(h) == ListStep(h) \/ ShelfStep(h) \/ NoteStep(h) \/ RequestStep(h) \/ Fail(h)

Next ==
    \/ \E h \in Handlers : Step(h)
    \/ \E S \in SUBSET Books : Refresh(S)

Spec == Init /\ [][Next]_vars

(***************************************************************************)
(* Properties                                                              *)
(***************************************************************************)

(* The shapes of the variables.                                             *)
TypeOK ==
    /\ indexed \subseteq Books
    /\ lists \subseteq ListIds /\ usedLists \subseteq ListIds
    /\ owner \in [ListIds -> Users \cup {None}]
    /\ listName \in [ListIds -> Names \cup {None}]
    /\ entries \subseteq ListIds \X Books
    /\ bookTags \subseteq Users \X Books \X Tags
    /\ recent \subseteq Users \X Books
    /\ notes \subseteq NoteIds /\ usedNotes \subseteq NoteIds
    /\ noteOf \in [NoteIds -> Users \cup {None}]
    /\ text \in [NoteIds -> Revisions \cup {None}]
    /\ noteTags \subseteq NoteIds \X Tags
    /\ requests \in [RequestIds -> Users \cup {None}]
    /\ outcome \in [RequestIds -> Outcomes]
    /\ call \in [Handlers -> Call]

(* Lists and their books: no book is on a list that was deleted while it    *)
(* was being added, and no user ends up with two lists of one name however  *)
(* many requests create it at once.                                         *)
ListsConsistent ==
    /\ lists \subseteq usedLists
    /\ \A l \in lists : owner[l] \in Users /\ listName[l] \in Names
    /\ \A e \in entries : e[1] \in lists
    /\ \A l, m \in lists : (owner[l] = owner[m] /\ listName[l] = listName[m]) => l = m

(* Notes and their tags: a note's tags are those saved with its text, also  *)
(* after updates that crossed each other, and a deleted note leaves none.   *)
NotesConsistent ==
    /\ notes \subseteq usedNotes
    /\ \A n \in notes : noteOf[n] \in Users /\ text[n] \in Revisions
    /\ \A n \in NoteIds : {t \in Tags : <<n, t>> \in noteTags}
                            = IF n \in notes THEN tagsOf[text[n]] ELSE {}

(* What a handler goes on with after its check was true of its own user     *)
(* then: the list it is about to change was its user's, and as long as the  *)
(* list exists it still is, because IDs are never used again.               *)
CallsConsistent ==
    \A h \in Handlers :
      /\ Is(h, "createList") => call[h].name \in Names
      /\ (Is(h, "addBook") \/ Is(h, "removeBook")) =>
           /\ call[h].list \in usedLists /\ call[h].book \in Books
           /\ owner[call[h].list] = userOf[h]
      /\ Is(h, "updateNote") => call[h].note \in NoteIds /\ call[h].rev \in Revisions
      /\ Is(h, "showNotes") => \A n \in NoteIds : call[h].seen[n] # None =>
                                 n \in usedNotes /\ noteOf[n] = userOf[h]

(* Together, what holds of the store between any two statements.            *)
StoreConsistent == TypeOK /\ ListsConsistent /\ NotesConsistent /\ CallsConsistent

(* The rows that are user v's alone. *)
ListsOf(v) == {<<l, listName[l]>> : l \in {m \in lists : owner[m] = v}}
EntriesOf(v) == {e \in entries : owner[e[1]] = v}
ShelfOf(v) == <<{t \in bookTags : t[1] = v}, {r \in recent : r[1] = v}>>
NotesOf(v) == {<<n, text[n]>> : n \in {m \in notes : noteOf[m] = v}}
NoteTagsOf(v) == {t \in noteTags : noteOf[t[1]] = v}
Rows(v) == <<ListsOf(v), EntriesOf(v), ShelfOf(v), NotesOf(v), NoteTagsOf(v)>>

(* No request changes a row of another user, although the transaction of    *)
(* RemoveBookFromList does not ask whose list it is: the check before it    *)
(* is enough because the ID of a deleted list is never another's.           *)
Isolation ==
    [][\A h \in Handlers : Step(h) =>
         \A v \in Users \ {userOf[h]} : Rows(v)' = Rows(v)]_vars

(* The page of notes, which reads notes and tags in two statements: unless  *)
(* a note was changed in between, it is shown with the tags saved with what *)
(* is shown of it, and a note deleted in between with none.                 *)
NotesPageWhole ==
    \A h \in Handlers, n \in NoteIds :
      (Is(h, "showNotes") /\ call[h].seen[n] # None) =>
        /\ n \notin notes => ShownTags(h, n) = {}
        /\ (n \in notes /\ text[n] = call[h].seen[n]) => ShownTags(h, n) = tagsOf[call[h].seen[n]]

=============================================================================
