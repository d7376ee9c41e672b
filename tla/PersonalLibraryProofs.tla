------------------------ MODULE PersonalLibraryProofs -----------------------
(***************************************************************************)
(* Proofs about PersonalLibrary, for any users, requests, books, lists,    *)
(* notes and tags.                                                         *)
(***************************************************************************)
EXTENDS PersonalLibrary, TLAPS

USE PersonalAssumption
USE DEF Is, Finish, listVars, shelfVars, noteVars, requestVars

(* One lemma for each action of a request: it keeps the store consistent. *)
LEMMA CreateListBeginKeeps ==
  ASSUME StoreConsistent, NEW h \in Handlers, NEW n \in Names, CreateListBegin(h, n)
  PROVE  StoreConsistent'
  BY DEF StoreConsistent, TypeOK, ListsConsistent, NotesConsistent, CallsConsistent,
         Call, Ops, Idle, CreateListBegin

LEMMA CreateListInsertKeeps ==
  ASSUME StoreConsistent, NEW h \in Handlers, CreateListInsert(h)
  PROVE  StoreConsistent'
<1>a. CASE Insertable(h)
  <2>a. PICK l \in ListIds \ usedLists :
          /\ lists' = lists \cup {l} /\ usedLists' = usedLists \cup {l}
          /\ owner' = [owner EXCEPT ![l] = userOf[h]]
          /\ listName' = [listName EXCEPT ![l] = call[h].name]
    BY <1>a DEF CreateListInsert, NewListId
  <2>b. call[h].name \in Names /\ userOf[h] \in Users /\ ~NameTaken(userOf[h], call[h].name)
    BY <1>a DEF StoreConsistent, CallsConsistent, CreateListInsert, Insertable
  <2>1. TypeOK'
    BY <2>a, <2>b DEF StoreConsistent, TypeOK, CreateListInsert, Call, Ops, Idle
  <2>2. ListsConsistent'
    BY <2>a, <2>b DEF StoreConsistent, TypeOK, ListsConsistent, CreateListInsert, NameTaken
  <2>3. NotesConsistent'
    BY DEF StoreConsistent, NotesConsistent, CreateListInsert
  <2>4. CallsConsistent'
    BY <2>a DEF StoreConsistent, TypeOK, CallsConsistent, CreateListInsert, Idle
  <2> QED
    BY <2>1, <2>2, <2>3, <2>4 DEF StoreConsistent
<1>b. CASE ~Insertable(h)
  BY <1>b DEF StoreConsistent, TypeOK, ListsConsistent, NotesConsistent,
              CallsConsistent, CreateListInsert, Call, Ops, Idle
<1> QED
  BY <1>a, <1>b

LEMMA DeleteListKeeps ==
  ASSUME StoreConsistent, NEW h \in Handlers, NEW l \in ListIds, DeleteList(h, l)
  PROVE  StoreConsistent'
<1>1. TypeOK'
  BY DEF StoreConsistent, TypeOK, ListsConsistent, NotesConsistent, CallsConsistent,
         Call, Ops, Idle, DeleteList, OwnList
<1>2. ListsConsistent'
  BY DEF StoreConsistent, TypeOK, ListsConsistent, NotesConsistent, CallsConsistent,
         Call, Ops, Idle, DeleteList, OwnList
<1>3. NotesConsistent'
  BY DEF StoreConsistent, TypeOK, ListsConsistent, NotesConsistent, CallsConsistent,
         Call, Ops, Idle, DeleteList, OwnList
<1>4. CallsConsistent'
  BY DEF StoreConsistent, TypeOK, ListsConsistent, NotesConsistent, CallsConsistent,
         Call, Ops, Idle, DeleteList, OwnList
<1> QED
  BY <1>1, <1>2, <1>3, <1>4 DEF StoreConsistent

LEMMA MembershipBeginKeeps ==
  ASSUME StoreConsistent, NEW h \in Handlers, NEW op \in {"addBook", "removeBook"}, NEW l \in ListIds, NEW b \in Books, MembershipBegin(h, op, l, b)
  PROVE  StoreConsistent'
  BY DEF StoreConsistent, TypeOK, ListsConsistent, NotesConsistent, CallsConsistent,
         Call, Ops, Idle, MembershipBegin, OwnList

LEMMA AddBookKeeps ==
  ASSUME StoreConsistent, NEW h \in Handlers, AddBook(h)
  PROVE  StoreConsistent'
  BY DEF StoreConsistent, TypeOK, ListsConsistent, NotesConsistent, CallsConsistent,
         Call, Ops, Idle, AddBook, ListStillThere

LEMMA RemoveBookKeeps ==
  ASSUME StoreConsistent, NEW h \in Handlers, RemoveBook(h)
  PROVE  StoreConsistent'
  BY DEF StoreConsistent, TypeOK, ListsConsistent, NotesConsistent, CallsConsistent,
         Call, Ops, Idle, RemoveBook

LEMMA ChangeTagKeeps ==
  ASSUME StoreConsistent, NEW h \in Handlers, NEW b \in Books, NEW t \in Tags, NEW add \in BOOLEAN, ChangeTag(h, b, t, add)
  PROVE  StoreConsistent'
  BY DEF StoreConsistent, TypeOK, ListsConsistent, NotesConsistent, CallsConsistent,
         Call, Ops, Idle, ChangeTag, Tagged

LEMMA ReadBookKeeps ==
  ASSUME StoreConsistent, NEW h \in Handlers, NEW b \in Books, ReadBook(h, b)
  PROVE  StoreConsistent'
  BY DEF StoreConsistent, TypeOK, ListsConsistent, NotesConsistent, CallsConsistent,
         Call, Ops, Idle, ReadBook

LEMMA CreateNoteKeeps ==
  ASSUME StoreConsistent, NEW h \in Handlers, NEW b \in Books, NEW rev \in Revisions, CreateNote(h, b, rev)
  PROVE  StoreConsistent'
<1>1. TypeOK'
  BY DEF StoreConsistent, TypeOK, ListsConsistent, NotesConsistent, CallsConsistent,
         Call, Ops, Idle, CreateNote, Valid, TagRows
<1>2. ListsConsistent'
  BY DEF StoreConsistent, TypeOK, ListsConsistent, NotesConsistent, CallsConsistent,
         Call, Ops, Idle, CreateNote, Valid, TagRows
<1>3. NotesConsistent'
  BY DEF StoreConsistent, TypeOK, ListsConsistent, NotesConsistent, CallsConsistent,
         Call, Ops, Idle, CreateNote, Valid, TagRows
<1>4. CallsConsistent'
  BY DEF StoreConsistent, TypeOK, ListsConsistent, NotesConsistent, CallsConsistent,
         Call, Ops, Idle, CreateNote, Valid, TagRows
<1> QED
  BY <1>1, <1>2, <1>3, <1>4 DEF StoreConsistent

LEMMA UpdateNoteBeginKeeps ==
  ASSUME StoreConsistent, NEW h \in Handlers, NEW n \in NoteIds, NEW rev \in Revisions, UpdateNoteBegin(h, n, rev)
  PROVE  StoreConsistent'
  BY DEF StoreConsistent, TypeOK, ListsConsistent, NotesConsistent, CallsConsistent,
         Call, Ops, Idle, UpdateNoteBegin, OwnNote

LEMMA UpdateNoteKeeps ==
  ASSUME StoreConsistent, NEW h \in Handlers, UpdateNote(h)
  PROVE  StoreConsistent'
<1>a. call[h].note \in NoteIds /\ call[h].rev \in Revisions /\ tagsOf[call[h].rev] \subseteq Tags
  BY DEF StoreConsistent, CallsConsistent, UpdateNote
<1>b. call' \in [Handlers -> Call]
  BY DEF StoreConsistent, TypeOK, UpdateNote, Call, Ops, Idle
<1>1. TypeOK'
  <2>1. CASE OwnNote(h, call[h].note)
    BY <1>a, <1>b, <2>1 DEF StoreConsistent, TypeOK, UpdateNote, Untagged, TagRows
  <2>2. CASE ~OwnNote(h, call[h].note)
    BY <1>b, <2>2 DEF StoreConsistent, TypeOK, UpdateNote
  <2> QED
    BY <2>1, <2>2
<1>2. ListsConsistent'
  BY DEF StoreConsistent, TypeOK, ListsConsistent, NotesConsistent, CallsConsistent,
         Call, Ops, Idle, UpdateNote, OwnNote, Untagged, TagRows
<1>3. NotesConsistent'
  BY DEF StoreConsistent, TypeOK, ListsConsistent, NotesConsistent, CallsConsistent,
         Call, Ops, Idle, UpdateNote, OwnNote, Untagged, TagRows
<1>4. CallsConsistent'
  BY DEF StoreConsistent, TypeOK, ListsConsistent, NotesConsistent, CallsConsistent,
         Call, Ops, Idle, UpdateNote, OwnNote, Untagged, TagRows
<1> QED
  BY <1>1, <1>2, <1>3, <1>4 DEF StoreConsistent

LEMMA DeleteNoteKeeps ==
  ASSUME StoreConsistent, NEW h \in Handlers, NEW n \in NoteIds, DeleteNote(h, n)
  PROVE  StoreConsistent'
<1>1. TypeOK'
  BY DEF StoreConsistent, TypeOK, ListsConsistent, NotesConsistent, CallsConsistent,
         Call, Ops, Idle, DeleteNote, OwnNote, Untagged
<1>2. ListsConsistent'
  BY DEF StoreConsistent, TypeOK, ListsConsistent, NotesConsistent, CallsConsistent,
         Call, Ops, Idle, DeleteNote, OwnNote, Untagged
<1>3. NotesConsistent'
  BY DEF StoreConsistent, TypeOK, ListsConsistent, NotesConsistent, CallsConsistent,
         Call, Ops, Idle, DeleteNote, OwnNote, Untagged
<1>4. CallsConsistent'
  BY DEF StoreConsistent, TypeOK, ListsConsistent, NotesConsistent, CallsConsistent,
         Call, Ops, Idle, DeleteNote, OwnNote, Untagged
<1> QED
  BY <1>1, <1>2, <1>3, <1>4 DEF StoreConsistent

LEMMA ShowNotesBeginKeeps ==
  ASSUME StoreConsistent, NEW h \in Handlers, ShowNotesBegin(h)
  PROVE  StoreConsistent'
<1>1. TypeOK'
  BY DEF StoreConsistent, TypeOK, ListsConsistent, NotesConsistent, CallsConsistent,
         Call, Ops, Idle, ShowNotesBegin, OwnNote
<1>2. ListsConsistent'
  BY DEF StoreConsistent, TypeOK, ListsConsistent, NotesConsistent, CallsConsistent,
         Call, Ops, Idle, ShowNotesBegin, OwnNote
<1>3. NotesConsistent'
  BY DEF StoreConsistent, TypeOK, ListsConsistent, NotesConsistent, CallsConsistent,
         Call, Ops, Idle, ShowNotesBegin, OwnNote
<1>4. CallsConsistent'
  BY DEF StoreConsistent, TypeOK, ListsConsistent, NotesConsistent, CallsConsistent,
         Call, Ops, Idle, ShowNotesBegin, OwnNote
<1> QED
  BY <1>1, <1>2, <1>3, <1>4 DEF StoreConsistent

LEMMA ShowNotesKeeps ==
  ASSUME StoreConsistent, NEW h \in Handlers, ShowNotes(h)
  PROVE  StoreConsistent'
  BY DEF StoreConsistent, TypeOK, ListsConsistent, NotesConsistent, CallsConsistent,
         Call, Ops, Idle, ShowNotes

LEMMA CreateRequestKeeps ==
  ASSUME StoreConsistent, NEW h \in Handlers, CreateRequest(h)
  PROVE  StoreConsistent'
  BY DEF StoreConsistent, TypeOK, ListsConsistent, NotesConsistent, CallsConsistent,
         Call, Ops, Idle, CreateRequest, Outcomes

LEMMA ResolveBeginKeeps ==
  ASSUME StoreConsistent, NEW h \in Handlers, NEW b \in Books \cup {None}, ResolveBegin(h, b)
  PROVE  StoreConsistent'
  BY DEF StoreConsistent, TypeOK, ListsConsistent, NotesConsistent, CallsConsistent,
         Call, Ops, Idle, ResolveBegin

LEMMA ResolveKeeps ==
  ASSUME StoreConsistent, NEW h \in Handlers, NEW r \in RequestIds, Resolve(h, r)
  PROVE  StoreConsistent'
  BY DEF StoreConsistent, TypeOK, ListsConsistent, NotesConsistent, CallsConsistent,
         Call, Ops, Idle, Resolve, Outcomes

LEMMA FailKeeps ==
  ASSUME StoreConsistent, NEW h \in Handlers, Fail(h)
  PROVE  StoreConsistent'
  BY DEF StoreConsistent, TypeOK, ListsConsistent, NotesConsistent, CallsConsistent,
         Call, Ops, Idle, Fail

(* So do refreshes of the index, which change no row. *)
LEMMA RefreshKeeps ==
  ASSUME StoreConsistent, NEW S \in SUBSET Books, Refresh(S)
  PROVE  StoreConsistent'
  BY DEF StoreConsistent, TypeOK, ListsConsistent, NotesConsistent, CallsConsistent,
         Refresh

LEMMA StutterKeeps ==
  ASSUME StoreConsistent, UNCHANGED vars
  PROVE  StoreConsistent'
  BY DEF StoreConsistent, TypeOK, ListsConsistent, NotesConsistent, CallsConsistent,
         vars

(* The store is consistent in every state: no orphaned entries or tags, no  *)
(* second list of a name, whatever requests of one user cross each other.   *)
THEOREM StoreAlwaysConsistent == Spec => []StoreConsistent
<1>1. Init => StoreConsistent
  BY DEF StoreConsistent, TypeOK, ListsConsistent, NotesConsistent, CallsConsistent,
         Init, Call, Ops, Idle, Outcomes
<1>2. StoreConsistent /\ [Next]_vars => StoreConsistent'
  BY CreateListBeginKeeps, CreateListInsertKeeps, DeleteListKeeps,
     MembershipBeginKeeps, AddBookKeeps, RemoveBookKeeps, ChangeTagKeeps,
     ReadBookKeeps, CreateNoteKeeps, UpdateNoteBeginKeeps, UpdateNoteKeeps,
     DeleteNoteKeeps, ShowNotesBeginKeeps, ShowNotesKeeps, CreateRequestKeeps,
     ResolveBeginKeeps, ResolveKeeps, FailKeeps, RefreshKeeps, StutterKeeps
  DEF Next, Step, ListStep, ShelfStep, NoteStep, RequestStep
<1> QED
  BY <1>1, <1>2, PTL DEF Spec

(* handleReadingItems and handleReaderContext: the second statement finds   *)
(* the tags saved with what the first one read.                             *)
THEOREM NotesPageAlwaysWhole == Spec => []NotesPageWhole
<1>1. StoreConsistent => NotesPageWhole
  <2> SUFFICES ASSUME StoreConsistent, NEW h \in Handlers, NEW n \in NoteIds,
                      Is(h, "showNotes"), call[h].seen[n] # None
               PROVE  /\ n \notin notes => ShownTags(h, n) = {}
                      /\ (n \in notes /\ text[n] = call[h].seen[n]) =>
                           ShownTags(h, n) = tagsOf[call[h].seen[n]]
    BY DEF NotesPageWhole
  <2>1. noteOf[n] = userOf[h]
    BY DEF StoreConsistent, CallsConsistent
  <2>2. ShownTags(h, n) = {t \in Tags : <<n, t>> \in noteTags}
    BY <2>1 DEF ShownTags
  <2>3. {t \in Tags : <<n, t>> \in noteTags} = IF n \in notes THEN tagsOf[text[n]] ELSE {}
    BY DEF StoreConsistent, NotesConsistent
  <2> QED
    BY <2>2, <2>3
<1> QED
  BY <1>1, StoreAlwaysConsistent, PTL

(***************************************************************************)
(* Isolation: one lemma for each action that changes a row                 *)
(***************************************************************************)
LEMMA CreateListInsertIsolated ==
  ASSUME StoreConsistent, NEW h \in Handlers, NEW v \in Users \ {userOf[h]}, CreateListInsert(h)
  PROVE  Rows(v)' = Rows(v)
<1>a. CASE Insertable(h)
  <2>a. PICK l \in ListIds \ usedLists :
          /\ lists' = lists \cup {l}
          /\ owner' = [owner EXCEPT ![l] = userOf[h]]
          /\ listName' = [listName EXCEPT ![l] = call[h].name]
    BY <1>a DEF CreateListInsert, NewListId
  <2>b. /\ l \notin lists /\ lists \subseteq ListIds /\ \A e \in entries : e[1] \in lists
        /\ owner \in [ListIds -> Users \cup {None}] /\ listName \in [ListIds -> Names \cup {None}]
    BY DEF StoreConsistent, TypeOK, ListsConsistent
  <2>1. /\ \A m \in lists : owner'[m] = owner[m] /\ listName'[m] = listName[m]
        /\ owner'[l] # v
    BY <2>a, <2>b
  <2>2. {m \in lists' : owner'[m] = v} = {m \in lists : owner[m] = v}
    BY <2>a, <2>b, <2>1
  <2>3. ListsOf(v)' = ListsOf(v)
    BY <2>1, <2>2 DEF ListsOf
  <2>4. EntriesOf(v)' = EntriesOf(v)
    BY <2>b, <2>1 DEF EntriesOf, CreateListInsert
  <2> QED
    BY <2>3, <2>4 DEF Rows, ShelfOf, NotesOf, NoteTagsOf, CreateListInsert
<1>b. CASE ~Insertable(h)
  BY <1>b DEF Rows, ListsOf, EntriesOf, ShelfOf, NotesOf, NoteTagsOf, CreateListInsert
<1> QED
  BY <1>a, <1>b

LEMMA DeleteListIsolated ==
  ASSUME StoreConsistent, NEW h \in Handlers, NEW l \in ListIds, NEW v \in Users \ {userOf[h]}, DeleteList(h, l)
  PROVE  Rows(v)' = Rows(v)
<1>1. {m \in lists' : owner'[m] = v} = {m \in lists : owner[m] = v}
  BY DEF DeleteList, OwnList
<1>2. ListsOf(v)' = ListsOf(v)
  BY <1>1 DEF ListsOf, DeleteList
<1>3. EntriesOf(v)' = EntriesOf(v)
  BY DEF EntriesOf, DeleteList, OwnList
<1> QED
  BY <1>2, <1>3 DEF Rows, ShelfOf, NotesOf, NoteTagsOf, DeleteList

LEMMA AddBookIsolated ==
  ASSUME StoreConsistent, NEW h \in Handlers, NEW v \in Users \ {userOf[h]}, AddBook(h)
  PROVE  Rows(v)' = Rows(v)
<1>1. owner[call[h].list] # v
  BY DEF StoreConsistent, CallsConsistent, AddBook
<1>2. EntriesOf(v)' = EntriesOf(v)
  BY <1>1 DEF EntriesOf, AddBook
<1> QED
  BY <1>2 DEF Rows, ListsOf, ShelfOf, NotesOf, NoteTagsOf, AddBook

LEMMA RemoveBookIsolated ==
  ASSUME StoreConsistent, NEW h \in Handlers, NEW v \in Users \ {userOf[h]}, RemoveBook(h)
  PROVE  Rows(v)' = Rows(v)
<1>1. owner[call[h].list] # v
  BY DEF StoreConsistent, CallsConsistent, RemoveBook
<1>2. EntriesOf(v)' = EntriesOf(v)
  BY <1>1 DEF EntriesOf, RemoveBook
<1> QED
  BY <1>2 DEF Rows, ListsOf, ShelfOf, NotesOf, NoteTagsOf, RemoveBook

LEMMA ChangeTagIsolated ==
  ASSUME StoreConsistent, NEW h \in Handlers, NEW b \in Books, NEW t \in Tags, NEW add \in BOOLEAN, NEW v \in Users \ {userOf[h]}, ChangeTag(h, b, t, add)
  PROVE  Rows(v)' = Rows(v)
<1>1. {t2 \in bookTags' : t2[1] = v} = {t2 \in bookTags : t2[1] = v}
  BY DEF ChangeTag, Tagged
<1> QED
  BY <1>1 DEF Rows, ListsOf, EntriesOf, ShelfOf, NotesOf, NoteTagsOf, ChangeTag

LEMMA ReadBookIsolated ==
  ASSUME StoreConsistent, NEW h \in Handlers, NEW b \in Books, NEW v \in Users \ {userOf[h]}, ReadBook(h, b)
  PROVE  Rows(v)' = Rows(v)
<1>1. {r \in recent' : r[1] = v} = {r \in recent : r[1] = v}
  BY DEF ReadBook
<1> QED
  BY <1>1 DEF Rows, ListsOf, EntriesOf, ShelfOf, NotesOf, NoteTagsOf, ReadBook

LEMMA CreateNoteIsolated ==
  ASSUME StoreConsistent, NEW h \in Handlers, NEW b \in Books, NEW rev \in Revisions, NEW v \in Users \ {userOf[h]}, CreateNote(h, b, rev)
  PROVE  Rows(v)' = Rows(v)
<1>a. PICK n \in NoteIds \ usedNotes :
        /\ notes' = notes \cup {n}
        /\ noteOf' = [noteOf EXCEPT ![n] = userOf[h]]
        /\ text' = [text EXCEPT ![n] = rev]
        /\ noteTags' = noteTags \cup TagRows(n, rev)
  BY DEF CreateNote
<1>b. /\ n \notin notes /\ notes \subseteq NoteIds
      /\ noteOf \in [NoteIds -> Users \cup {None}] /\ text \in [NoteIds -> Revisions \cup {None}]
      /\ \A t \in noteTags : t[1] \in notes
  BY DEF StoreConsistent, TypeOK, NotesConsistent
<1>1. (\A m \in notes : noteOf'[m] = noteOf[m] /\ text'[m] = text[m]) /\ noteOf'[n] # v
  BY <1>a, <1>b
<1>2. {m \in notes' : noteOf'[m] = v} = {m \in notes : noteOf[m] = v}
  BY <1>a, <1>b, <1>1
<1>3. NotesOf(v)' = NotesOf(v)
  BY <1>1, <1>2 DEF NotesOf
<1>4. NoteTagsOf(v)' = NoteTagsOf(v)
  BY <1>a, <1>b, <1>1 DEF NoteTagsOf, TagRows
<1> QED
  BY <1>3, <1>4 DEF Rows, ListsOf, EntriesOf, ShelfOf, CreateNote

LEMMA UpdateNoteIsolated ==
  ASSUME StoreConsistent, NEW h \in Handlers, NEW v \in Users \ {userOf[h]}, UpdateNote(h)
  PROVE  Rows(v)' = Rows(v)
<1> DEFINE n == call[h].note
<1>a. CASE OwnNote(h, n)
  <2>a. /\ text' = [text EXCEPT ![n] = call[h].rev]
        /\ noteTags' = Untagged(n) \cup TagRows(n, call[h].rev)
        /\ noteOf[n] # v
    BY <1>a DEF UpdateNote, OwnNote
  <2>b. text \in [NoteIds -> Revisions \cup {None}] /\ notes \subseteq NoteIds
    BY DEF StoreConsistent, TypeOK
  <2>1. \A m \in {x \in notes : noteOf[x] = v} : text'[m] = text[m]
    BY <2>a, <2>b
  <2>2. NotesOf(v)' = NotesOf(v)
    BY <2>1 DEF NotesOf, UpdateNote
  <2>3. NoteTagsOf(v)' = NoteTagsOf(v)
    BY <2>a DEF NoteTagsOf, UpdateNote, Untagged, TagRows
  <2> QED
    BY <2>2, <2>3 DEF Rows, ListsOf, EntriesOf, ShelfOf, UpdateNote
<1>b. CASE ~OwnNote(h, n)
  BY <1>b DEF Rows, ListsOf, EntriesOf, ShelfOf, NotesOf, NoteTagsOf, UpdateNote
<1> QED
  BY <1>a, <1>b

LEMMA DeleteNoteIsolated ==
  ASSUME StoreConsistent, NEW h \in Handlers, NEW n \in NoteIds, NEW v \in Users \ {userOf[h]}, DeleteNote(h, n)
  PROVE  Rows(v)' = Rows(v)
<1>1. {m \in notes' : noteOf'[m] = v} = {m \in notes : noteOf[m] = v}
  BY DEF DeleteNote, OwnNote
<1>2. NotesOf(v)' = NotesOf(v)
  BY <1>1 DEF NotesOf, DeleteNote
<1>3. NoteTagsOf(v)' = NoteTagsOf(v)
  BY DEF NoteTagsOf, DeleteNote, OwnNote, Untagged
<1> QED
  BY <1>2, <1>3 DEF Rows, ListsOf, EntriesOf, ShelfOf, DeleteNote

(* The other steps of a request change no such row. *)
LEMMA ReadersIsolated ==
  ASSUME NEW h \in Handlers, NEW v \in Users,
         \/ \E n \in Names : CreateListBegin(h, n)
         \/ \E op \in {"addBook", "removeBook"}, l \in ListIds, b \in Books :
              MembershipBegin(h, op, l, b)
         \/ \E n \in NoteIds, rev \in Revisions : UpdateNoteBegin(h, n, rev)
         \/ ShowNotesBegin(h) \/ ShowNotes(h) \/ CreateRequest(h) \/ Fail(h)
         \/ \E b \in Books \cup {None} : ResolveBegin(h, b)
         \/ \E r \in RequestIds : Resolve(h, r)
  PROVE  Rows(v)' = Rows(v)
<1>1. UNCHANGED <<listVars, shelfVars, noteVars>>
  BY DEF CreateListBegin, MembershipBegin, UpdateNoteBegin, ShowNotesBegin,
         ShowNotes, CreateRequest, ResolveBegin, Resolve, Fail
<1> QED
  BY <1>1 DEF Rows, ListsOf, EntriesOf, ShelfOf, NotesOf, NoteTagsOf

(* No request changes a row of another user: RemoveBookFromList deletes     *)
(* without asking whose list it is, and relies on BookListForUser before it *)
(* and on random IDs that are never given twice.                            *)
THEOREM UsersIsolated == Spec => Isolation
<1>1. ASSUME StoreConsistent, NEW h \in Handlers, Step(h), NEW v \in Users \ {userOf[h]}
      PROVE  Rows(v)' = Rows(v)
  BY <1>1, CreateListInsertIsolated, DeleteListIsolated, AddBookIsolated, RemoveBookIsolated,
     ChangeTagIsolated, ReadBookIsolated, CreateNoteIsolated, UpdateNoteIsolated,
     DeleteNoteIsolated, ReadersIsolated
  DEF Step, ListStep, ShelfStep, NoteStep, RequestStep
<1>2. StoreConsistent => [\A h \in Handlers : Step(h) =>
                            \A v \in Users \ {userOf[h]} : Rows(v)' = Rows(v)]_vars
  BY <1>1
<1> QED
  BY <1>2, StoreAlwaysConsistent, PTL DEF Isolation

=============================================================================
