----------------------------- MODULE Catalogue ------------------------------
(***************************************************************************)
(* Listing the catalogue: the sorts and filters of booklist, the web pages *)
(* (server/server.go) and the books endpoint (server/api_books.go) that    *)
(* use them, and the command that collects the pages of the endpoint       *)
(* (cli/run.go).                                                           *)
(*                                                                         *)
(* Indexer.BookList() hands out the slice itself.  The pages /books and    *)
(* /download sort it in place, cell by cell, while other requests copy it, *)
(* filter it or sort it too.  Nothing orders these accesses: a swap is two *)
(* stores, and a copy made between them has one book twice and another not *)
(* at all.  A copy is one step; one that overlaps more stores is torn in   *)
(* the same way.  A refresh puts a new slice in place of the old one,      *)
(* which its users keep.                                                   *)
(*                                                                         *)
(* Lists have at most 20 books: sort.SliceStable is then insertion sort.   *)
(***************************************************************************)
EXTENDS Booklist

CONSTANTS
    Scans,        \* sets of books a scan may find
    Queries,      \* filters of a search: the set of books each matches
    Web,          \* requests for a page
    Sorters,      \* those of them that may ask for a page that sorts in place
    Runs,         \* runs of "books list" and "books search"
    SortNames,    \* values of the sort parameter
    Limits,       \* values of --limit
    Offsets,      \* values of --offset
    MaxBookPage,  \* maxBookPage of the command, limit of the endpoint
    MaxLists,     \* bound on the index lists made
    None          \* no book, nothing asked

ASSUME CatalogueAssumption ==
    /\ Scans \cup Queries \subseteq SUBSET Books /\ Sorters \subseteq Web
    /\ {MaxBookPage, MaxLists} \subseteq Nat \ {0}
    /\ Limits \subseteq 1 .. MaxBookPage /\ Offsets \subseteq Nat
    /\ None \notin Books

VARIABLES
    slice,    \* backing arrays of the index lists, the last one current
    indexed,  \* the books Refresh put in each
    web,      \* what each request for a page is doing
    run       \* what each run of the command is doing

vars == <<slice, indexed, web, run>>

(***************************************************************************)
(* Operators named X_Something, just before X, are X with a plausible bug. *)
(***************************************************************************)

(***************************************************************************)
(* The requests                                                            *)
(***************************************************************************)
BookList == Len(slice)

(* The sorts a page makes on the shared list before it reads it. *)
SortsInPlace(kind, sort) ==
    CASE kind = "books" ->
           IF sort \in KnownSorts THEN <<"modified-desc", sort>> ELSE <<"modified-desc">>
      [] kind = "downloads" -> <<"title-asc">>
      [] OTHER -> <<>>

(* The books a page is about: handleAuthor, handleSeries, handleSearch and  *)
(* the lookups of one book.                                                 *)
About(kind, arg) ==
    CASE kind = "author" -> {b \in Books : author[b] = arg}
      [] kind = "series" -> {b \in Books : series[b] = arg}
      [] kind = "search" -> arg
      [] kind = "book" -> {arg}
      [] OTHER -> Books

(* handleDownloads writes no line for a book with an author and no series.  *)
Linked == {b \in Books : author[b] = 0 \/ series[b] # 0}

(* The loops of handleBook, handleDownload and findBook: the first match. *)
Lookup(s, id) == IF id \in ToSet(s) THEN <<id>> ELSE <<>>

(* What a page shows of its copy of the list.  handleSeries shows its books *)
(* by index whatever sort was asked for.                                    *)
Page(kind, arg, sort, s) ==
    LET of == Filtered(s, About(kind, arg)) IN
    CASE kind = "books" -> s
      [] kind = "downloads" -> Filtered(s, Linked)
      [] kind = "author" -> SortBy(SortBy(of, "title-asc"), sort)
      [] kind = "search" -> SortBy(SortBy(of, "title-asc"), sort)
      [] kind = "series" -> SortedWith(of, ByField(seriesIndex))
      [] kind = "authors" -> Firsts(s, author)
      [] kind = "seriess" -> Firsts(s, series)
      [] kind = "book" -> Lookup(s, arg)

(* Values of the sort parameter where the handler reads it. *)
SortsFor(kind) == IF kind \in {"books", "author", "search"} THEN SortNames ELSE {None}

PrivateKinds == {"author", "series", "search", "authors", "seriess", "book"}

Args(kind) ==
    CASE kind = "author" -> {author[b] : b \in Books} \ {0}
      [] kind = "series" -> {series[b] : b \in Books} \ {0}
      [] kind = "search" -> Queries
      [] kind = "book" -> Books
      [] OTHER -> {None}

IdleRequest == [stage |-> "idle", kind |-> None, arg |-> None, sort |-> None, gen |-> 0,
                todo |-> <<>>, i |-> 0, j |-> 0, held |-> None, page |-> <<>>, torn |-> FALSE]
NewRun == [stage |-> "new", sort |-> None, query |-> {}, limit |-> None,
           from |-> 0, offset |-> 0, items |-> <<>>, gens |-> {},
           torn |-> FALSE, steady |-> TRUE]

(* The list of the scan made when the server starts. *)
Init ==
    /\ \E S \in Scans : \E s \in SetToSeqs(S) : slice = <<s>> /\ indexed = <<S>>
    /\ web = [w \in Web |-> IdleRequest]
    /\ run = [c \in Runs |-> NewRun]

(* Indexer.Refresh ends: i.booklist = booklist.  In which order it found    *)
(* the files is the library's business.                                     *)
Refresh(S) ==
    /\ BookList < MaxLists
    /\ \E s \in SetToSeqs(S) : slice' = Append(slice, s)
    /\ indexed' = Append(indexed, S)
    /\ UNCHANGED <<web, run>>

(* A swap is half done on this list: a copy made now is torn. *)
HalfSwapped(g) == \E w \in Web : web[w].gen = g /\ web[w].held # None

(***************************************************************************)
(* Pages                                                                   *)
(***************************************************************************)

(* handleAuthors, handleAuthor, handleSeriess, handleSeries, handleSearch   *)
(* and the lookups: the page is made of a copy.                             *)
PrivatePage(w, kind, arg, sort) ==
    /\ web[w].stage = "idle"
    /\ web' = [web EXCEPT ![w] =
                 [@ EXCEPT !.stage = "done", !.kind = kind, !.arg = arg, !.sort = sort,
                    !.gen = BookList, !.torn = HalfSwapped(BookList),
                    !.page = Page(kind, arg, sort, slice[BookList])]]
    /\ UNCHANGED <<slice, indexed, run>>

(* handleBooks and handleDownloads sort the list they were given. *)
PageBegin(w, kind, sort) ==
    /\ web[w].stage = "idle"
    /\ web' = [web EXCEPT ![w] =
                 [@ EXCEPT !.stage = "sort", !.kind = kind, !.sort = sort, !.gen = BookList,
                    !.todo = SortsInPlace(kind, sort), !.i = 2, !.j = 2]]
    /\ UNCHANGED <<slice, indexed, run>>

(* Then they write the page from it. *)
PageEnd(w) ==
    LET g == web[w].gen IN
    /\ web[w].stage = "sort" /\ web[w].todo = <<>>
    /\ web' = [web EXCEPT ![w].stage = "done", ![w].torn = HalfSwapped(g),
                 ![w].page = Page(web[w].kind, None, web[w].sort, slice[g])]
    /\ UNCHANGED <<slice, indexed, run>>

PageSent(w) ==
    /\ web[w].stage = "done"
    /\ web' = [web EXCEPT ![w] = IdleRequest]
    /\ UNCHANGED <<slice, indexed, run>>

(* The loops of insertion sort: book i moves left to j. *)
Sorting(w) == web[w].stage = "sort" /\ web[w].todo # <<>> /\ web[w].held = None

Moves_PastEqual(w) == LET s == slice[web[w].gen]
                          j == web[w].j
                      IN  j > 1 /\ ~Less(Head(web[w].todo), s[j - 1], s[j])
Moves(w) == LET s == slice[web[w].gen]
                j == web[w].j
            IN  j > 1 /\ Less(Head(web[w].todo), s[j], s[j - 1])

SortAdvance(w) ==
    /\ Sorting(w)
    /\ IF web[w].i > Len(slice[web[w].gen])
       THEN web' = [web EXCEPT ![w].todo = Tail(@), ![w].i = 2, ![w].j = 2]
       ELSE /\ ~Moves(w)
            /\ web' = [web EXCEPT ![w].i = @ + 1, ![w].j = web[w].i + 1]
    /\ UNCHANGED <<slice, indexed, run>>

(* A store into a list; the runs that are between two pages of it. *)
Store(g, k, b) ==
    /\ slice' = [slice EXCEPT ![g][k] = b]
    /\ run' = [c \in Runs |-> IF g \in run[c].gens /\ run[c].stage = "fetch"
                              THEN [run[c] EXCEPT !.steady = FALSE] ELSE run[c]]

(* The swap loads both cells and stores them one after the other. *)
SwapFirst(w) ==
    LET g == web[w].gen
        j == web[w].j
    IN  /\ Sorting(w) /\ web[w].i <= Len(slice[g]) /\ Moves(w)
        /\ Store(g, j, slice[g][j - 1])
        /\ web' = [web EXCEPT ![w].held = slice[g][j]]
        /\ UNCHANGED indexed

SwapValue_Overwritten(w) == slice[web[w].gen][web[w].j]
SwapValue(w) == web[w].held
SwapSecond(w) ==
    /\ web[w].stage = "sort" /\ web[w].held # None
    /\ Store(web[w].gen, web[w].j - 1, SwapValue(w))
    /\ web' = [web EXCEPT ![w].held = None, ![w].j = @ - 1]
    /\ UNCHANGED indexed

(* handleRandom: the length of the list, and then an entry of the list.     *)
(* "% 0" on an empty list and an index past the end of a shorter one end    *)
(* the request in a panic, without a page.                                  *)
RandomBegin(w) ==
    /\ web[w].stage = "idle"
    /\ IF slice[BookList] = <<>>
       THEN web' = [web EXCEPT ![w] = [@ EXCEPT !.stage = "done", !.kind = "random"]]
       ELSE \E n \in DOMAIN slice[BookList] :
              web' = [web EXCEPT ![w] = [@ EXCEPT !.stage = "pick", !.kind = "random", !.i = n]]
    /\ UNCHANGED <<slice, indexed, run>>

RandomEnd(w) ==
    LET s == slice[BookList] IN
    /\ web[w].stage = "pick"
    /\ web' = [web EXCEPT ![w].stage = "done",
                 ![w].page = IF web[w].i \in DOMAIN s THEN << s[web[w].i] >> ELSE <<>>]
    /\ UNCHANGED <<slice, indexed, run>>

(***************************************************************************)
(* "books list" and "books search" over handleAPIBooks                     *)
(***************************************************************************)

(* cmdBooks: with --limit one page, without it every page from the offset. *)
RunBegin(c, sort, query, limit, offset) ==
    /\ run[c].stage = "new"
    /\ run' = [run EXCEPT ![c] =
                 [@ EXCEPT !.stage = "fetch", !.sort = sort, !.query = query, !.limit = limit,
                    !.from = offset, !.offset = offset]]
    /\ UNCHANGED <<slice, indexed, web>>

(* handleAPIBooks: books[start:end] of the filtered and sorted copy, and    *)
(* how many match.                                                          *)
Window(s, offset, limit) ==
    LET least(a, b) == IF a < b THEN a ELSE b
        start == least(offset, Len(s))
    IN  SubSeq(s, start + 1, least(start + limit, Len(s)))
Answer(c) ==
    LET matched == Filtered(slice[BookList], run[c].query)
        limit == IF run[c].limit = None THEN MaxBookPage ELSE run[c].limit
    IN  [items |-> Window(SortBy(matched, run[c].sort), run[c].offset, limit),
         total |-> Len(matched)]

(* The loop of cmdBooks: where the next page starts, and when it stops. *)
NextOffset_PlusOne(c, answer) == run[c].offset + Len(answer.items) + 1
NextOffset(c, answer) == run[c].offset + Len(answer.items)
Ends_PastTotal(c, answer) == run[c].limit # None \/ NextOffset(c, answer) > answer.total
Ends(c, answer) ==
    \/ run[c].limit # None
    \/ answer.items = <<>>
    \/ NextOffset(c, answer) >= answer.total

Fetch(c) ==
    /\ run[c].stage = "fetch"
    /\ run[c].sort \in KnownSorts
    /\ \E answer \in {Answer(c)} :
         run' = [run EXCEPT ![c] =
                   [@ EXCEPT !.stage = IF Ends(c, answer) THEN "done" ELSE "fetch",
                      !.offset = IF Ends(c, answer) THEN run[c].offset ELSE NextOffset(c, answer),
                      !.items = run[c].items \o answer.items,
                      !.gens = run[c].gens \cup {BookList},
                      !.torn = run[c].torn \/ HalfSwapped(BookList)]]
    /\ UNCHANGED <<slice, indexed, web>>

(* The endpoint does not know the sort, or the page cannot be had: the      *)
(* command reports the error and prints nothing.                            *)
FetchFails(c) ==
    /\ run[c].stage = "fetch"
    /\ run' = [run EXCEPT ![c] = [NewRun EXCEPT !.stage = "failed"]]
    /\ UNCHANGED <<slice, indexed, web>>

Refused(c) == run[c].sort \notin KnownSorts /\ FetchFails(c)

PageSteps(w) ==
    PageEnd(w) \/ SortAdvance(w) \/ SwapFirst(w) \/ SwapSecond(w) \/ RandomEnd(w)

Next ==
    \/ \E S \in Scans : Refresh(S)
    \/ \E w \in Web :
         \/ \E kind \in PrivateKinds : \E arg \in Args(kind), sort \in SortsFor(kind) :
              PrivatePage(w, kind, arg, sort)
         \/ RandomBegin(w)
         \/ PageSteps(w)
         \/ PageSent(w)
    \/ \E w \in Sorters, kind \in {"books", "downloads"} : \E sort \in SortsFor(kind) :
         PageBegin(w, kind, sort)
    \/ \E c \in Runs :
         \/ \E sort \in SortNames, query \in Queries, limit \in Limits \cup {None},
               offset \in Offsets : RunBegin(c, sort, query, limit, offset)
         \/ Fetch(c)
         \/ FetchFails(c)

Spec == Init /\ [][Next]_vars

(* The server answers the requests of the command and the command sends the *)
(* next one.  Nothing is asked of the pages.                                *)
FairSpec == Spec /\ \A c \in Runs : WF_vars(Refused(c) \/ Fetch(c))

(***************************************************************************)
(* Properties                                                              *)
(***************************************************************************)

(* While one page at a time sorts the shared list in place, the list holds  *)
(* each book of its scan once, apart from the book a swap has in hand.      *)
ListPreserved ==
    \A g \in DOMAIN slice :
        LET held == {web[w].held : w \in {x \in Web : web[x].gen = g}} \ {None}
        IN  /\ ToSet(slice[g]) \cup held = indexed[g]
            /\ Len(slice[g]) = Cardinality(indexed[g])

(* A page made of a list that has the books of a scan once shows each of    *)
(* them that it is about once, in the order asked for and, where that does  *)
(* not decide, in the default order of the page.                            *)
Shows(q, scan) ==
    LET books == About(q.kind, q.arg) \cap scan
        default == IF q.kind = "books" THEN "modified-desc" ELSE "title-asc"
        key == IF q.sort \in KnownSorts THEN q.sort ELSE default
        once(field) == /\ {field[b] : b \in ToSet(q.page)} = {field[b] : b \in books} \ {0}
                       /\ InOrder(q.page, {p \in Books \X Books : field[p[1]] <= field[p[2]]})
    IN  CASE q.kind \in {"books", "author", "search"} ->
               /\ OnceEach(q.page, books)
               /\ key \in KeySorts => InOrder(q.page, ThenBy(Before(key), Before(default)))
          [] q.kind = "series" ->
               OnceEach(q.page, books) /\ InOrder(q.page, ByField(seriesIndex))
          [] q.kind = "authors" -> once(author)
          [] q.kind = "seriess" -> once(series)
          [] q.kind = "book" -> OnceEach(q.page, books)
          [] OTHER -> TRUE

(* A page whose copy of the list no swap disturbed shows what it is asked   *)
(* for (handleBooks, handleAuthor, handleSearch, handleSeries,              *)
(* handleAuthors, handleSeriess and the lookups of one book).               *)
PageFaithful ==
    \A w \in Web :
        web[w].stage = "done" /\ web[w].kind # "random" /\ ~web[w].torn
            => Shows(web[w], indexed[web[w].gen])

(* A run of "books list" without --limit, all of whose pages are copies of  *)
(* one list that no swap disturbed: it lists in order; and if its sort key  *)
(* tells the books apart, or nobody sorted the list from the first page to  *)
(* the last, then it lists every matching book from the offset on, once.    *)
ListingFaithful ==
    \A c \in Runs : \A g \in DOMAIN slice :
        LET matching == indexed[g] \cap run[c].query
            listed == run[c].items
            due == Cardinality(matching) - run[c].from
        IN  run[c].stage = "done" /\ run[c].limit = None /\ run[c].gens = {g} /\ ~run[c].torn =>
              /\ run[c].sort \in KeySorts => InOrder(listed, Before(run[c].sort))
              /\ Distinguishes(run[c].sort, matching) \/ run[c].steady =>
                   /\ ToSet(listed) \subseteq matching
                   /\ Cardinality(ToSet(listed)) = Len(listed)
                   /\ Len(listed) = IF due > 0 THEN due ELSE 0

(* "books list" lists every matching book (the comment on the loop in       *)
(* cmdBooks), if its pages all come from one index and from whole copies of *)
(* it.  Violated: a web page sorted in place between two of its pages       *)
(* reorders the books of one second.                                        *)
EveryBookListed ==
    \A c \in Runs : \A g \in DOMAIN slice :
        LET finished == run[c].stage = "done" /\ run[c].limit = None /\ run[c].from = 0
            undisturbed == run[c].gens = {g} /\ ~run[c].torn
        IN  finished /\ undisturbed => indexed[g] \cap run[c].query \subseteq ToSet(run[c].items)

(* A run that keeps getting answers ends, also while the list changes under *)
(* its pages.                                                               *)
ListingEnds == \A c \in Runs : run[c].stage = "fetch" ~> run[c].stage \in {"done", "failed"}

=============================================================================
