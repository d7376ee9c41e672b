------------------------------ MODULE Booklist ------------------------------
(***************************************************************************)
(* The package booklist: the filters, orders and sorts that pages and      *)
(* endpoints put their copy of the catalogue through.  Each is a loop that *)
(* makes a list of the books of another one by one.                        *)
(***************************************************************************)
EXTENDS Integers, FiniteSets, Sequences, SequencesExt

CONSTANTS
    Books,        \* book IDs
    title,        \* Book.Title of each
    author,       \* Book.Author, 0 for none
    series,       \* Book.Series, 0 for none
    seriesIndex,  \* Book.SeriesIndex
    modTime       \* Book.ModTime.Unix()

ASSUME BooklistAssumption ==
    /\ {title, author, series, seriesIndex, modTime} \subseteq [Books -> Nat]
    /\ IsFiniteSet(Books)

(* The comparisons of SortBy.  Author and series orders never place a book  *)
(* that has none.                                                           *)
Less(sort, a, b) ==
    LET named(field) == field[a] # 0 /\ field[b] # 0 IN
    CASE sort = "author-asc" -> named(author) /\ author[a] < author[b]
      [] sort = "author-desc" -> named(author) /\ author[a] > author[b]
      [] sort = "title-asc" -> title[a] < title[b]
      [] sort = "title-desc" -> title[a] > title[b]
      [] sort = "series-asc" -> named(series) /\ series[a] < series[b]
      [] sort = "series-desc" -> named(series) /\ series[a] > series[b]
      [] sort = "seriesindex-asc" -> named(series) /\ seriesIndex[a] < seriesIndex[b]
      [] sort = "seriesindex-desc" -> named(series) /\ seriesIndex[a] > seriesIndex[b]
      [] sort = "modified-desc" -> modTime[a] > modTime[b]

KnownSorts == {"author-asc", "author-desc", "title-asc", "title-desc", "series-asc", "series-desc",
               "seriesindex-asc", "seriesindex-desc", "modified-desc"}

(* The orders as sets of pairs of books, the lesser first. *)
Before(sort) == {p \in Books \X Books : Less(sort, p[1], p[2])}
ByField(field) == {p \in Books \X Books : field[p[1]] < field[p[2]]}

(* What a loop over s makes of the empty list: step is its body, a function *)
(* of the list so far and the next book.                                    *)
Built(s, step) ==
    LET built[n \in 0 .. Len(s)] == IF n = 0 THEN <<>> ELSE step[built[n - 1]][s[n]]
    IN  built[Len(s)]

(* BookList.Filtered: the books of S. *)
Taking(S) == [t \in Seq(Books) |-> [b \in Books |-> IF b \in S THEN Append(t, b) ELSE t]]
Filtered(s, S) == Built(s, Taking(S))

(* The insertion sort of sort.SliceStable: a book moves left past the books *)
(* it comes before, and stops at the first it does not come before.         *)
Inserting(R) ==
    [t \in Seq(Books) |-> [b \in Books |->
        LET stops == {k \in DOMAIN t : <<b, t[k]>> \notin R}
        IN  InsertAt(t, IF stops = {} THEN 1 ELSE Max(stops) + 1, b)]]
SortedWith(s, R) == Built(s, Inserting(R))

(* SortBy on a list nobody else uses. *)
SortBy(s, sort) == IF sort \in KnownSorts THEN SortedWith(s, Before(sort)) ELSE s

(* Authors and Series keep the first book of each, sorted by name. *)
Meeting(field) ==
    [t \in Seq(Books) |-> [b \in Books |->
        IF field[b] # 0 /\ \A k \in DOMAIN t : field[t[k]] # field[b] THEN Append(t, b) ELSE t]]
Firsts(s, field) == SortedWith(Built(s, Meeting(field)), ByField(field))

(***************************************************************************)
(* What the properties ask of a list                                       *)
(***************************************************************************)

(* Orders by a key every book has. *)
KeySorts == {"title-asc", "title-desc", "modified-desc"}

(* No book comes before one that is to the left of it. *)
InOrder(s, R) == \A k \in DOMAIN s : \A i \in 1 .. k - 1 : <<s[k], s[i]>> \notin R

(* By R and, where R does not decide, by B. *)
ThenBy(R, B) == {p \in Books \X Books : p \in R \/ (<<p[2], p[1]>> \notin R /\ p \in B)}

Distinguishes(sort, S) == \A a, b \in S : a # b => Less(sort, a, b) \/ Less(sort, b, a)

OnceEach(s, S) == ToSet(s) = S /\ Len(s) = Cardinality(S)

=============================================================================
