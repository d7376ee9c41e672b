-------------------------- MODULE CatalogueProofs ---------------------------
(***************************************************************************)
(* Proofs about Catalogue, for any books, requests and runs: what is left  *)
(* of the shared list when a page sorts it in place (ListInv), what the    *)
(* pages made of it show meanwhile (PagesInv), and what the command        *)
(* collects from its copies (RunsInv).  What the sorts and filters compute *)
(* is proved in BooklistProofs.                                            *)
(***************************************************************************)
EXTENDS Catalogue, BooklistProofs

Fields == {"stage", "kind", "arg", "sort", "gen", "todo", "i", "j", "held", "page", "torn"}

(* The lists, and what a request for a page knows of them: the list it was  *)
(* given, its place in the loops of the sort and the book in its hand.      *)
Shape ==
    /\ slice \in Seq(Seq(Books)) /\ slice # <<>>
    /\ indexed \in Seq(SUBSET Books) /\ Len(indexed) = Len(slice)
    /\ DOMAIN web = Web
    /\ \A w \in Web :
          /\ DOMAIN web[w] = Fields
          /\ web[w].gen \in 0 .. Len(slice)
          /\ web[w].held \in Books \cup {None}
          /\ web[w].held # None =>
                /\ web[w].stage = "sort" /\ web[w].todo # <<>>
                /\ web[w].j > 1 /\ web[w].i <= Len(slice[web[w].gen])
          /\ web[w].stage = "sort" =>
                /\ w \in Sorters /\ web[w].gen > 0
                /\ web[w].i \in Nat /\ web[w].j \in 1 .. web[w].i

(* Two pages do not sort one list at the same time.  The code does not see  *)
(* to it: without it books get lost, see ListPreserved.                     *)
OneAtATime ==
    \A w, v \in Web : w # v /\ web[w].stage = "sort" /\ web[v].stage = "sort"
                         => web[w].gen # web[v].gen

(* The books in hand between the two stores of a swap of list g. *)
HeldOn(g) == {web[w].held : w \in {x \in Web : web[x].gen = g}} \ {None}

(* A half-done swap has one book twice, in neighbouring cells. *)
HalfSwaps ==
    \A w \in Web : web[w].held # None =>
        LET s == slice[web[w].gen]
            j == web[w].j
        IN  s[j] = s[j - 1]

(***************************************************************************)
(* Lists                                                                   *)
(***************************************************************************)

(* A list made of a set has each of its members once. *)
LEMMA ListOfSet ==
    ASSUME NEW S \in SUBSET Books, NEW s \in SetToSeqs(S)
    PROVE  s \in Seq(Books) /\ ToSet(s) = S /\ Len(s) = Cardinality(S)
<1>1. IsFiniteSet(S) /\ Cardinality(S) \in Nat
  BY FS_Subset, FS_CardinalityType, BooklistAssumption
<1>2. s \in [1 .. Cardinality(S) -> S] /\ \A i, j \in 1 .. Cardinality(S) : i # j => s[i] # s[j]
  BY DEF SetToSeqs
<1>3. s \in Seq(Books) /\ Len(s) = Cardinality(S)
  BY <1>1, <1>2
<1>4. s \in Injection(1 .. Cardinality(S), S)
  BY <1>2 DEF Injection, IsInjective
<1>5. IsFiniteSet(1 .. Cardinality(S)) /\ Cardinality(1 .. Cardinality(S)) = Cardinality(S)
  BY <1>1, FS_Interval
<1>6. s \in Surjection(1 .. Cardinality(S), S)
  BY <1>1, <1>4, <1>5, FS_Injection
<1> QED
  BY <1>2, <1>3, <1>6 DEF Surjection, ToSet

(* A store changes one cell of one list. *)
LEMMA StoreChanges ==
    ASSUME Shape, NEW g \in 1 .. Len(slice), NEW k \in DOMAIN slice[g], NEW b \in Books, Store(g, k, b)
    PROVE  /\ slice' \in Seq(Seq(Books)) /\ Len(slice') = Len(slice) /\ slice' # <<>>
           /\ slice'[g] \in Seq(Books) /\ Len(slice'[g]) = Len(slice[g])
           /\ slice'[g][k] = b /\ \A m \in DOMAIN slice[g] \ {k} : slice'[g][m] = slice[g][m]
           /\ \A n \in 1 .. Len(slice) : n # g => slice'[n] = slice[n]
           /\ \A n \in 1 .. Len(slice) : Len(slice'[n]) = Len(slice[n])
<1> DEFINE s == [slice[g] EXCEPT ![k] = b]
<1>1. slice[g] \in Seq(Books)
  BY DEF Shape
<1>2. /\ s \in Seq(Books) /\ Len(s) = Len(slice[g])
      /\ s[k] = b /\ \A m \in DOMAIN slice[g] \ {k} : s[m] = slice[g][m]
  BY <1>1
<1>3. slice' = [slice EXCEPT ![g] = s]
  BY DEF Store
<1> HIDE DEF s
<1>4. /\ slice' \in Seq(Seq(Books)) /\ Len(slice') = Len(slice)
      /\ slice'[g] = s /\ \A n \in 1 .. Len(slice) : n # g => slice'[n] = slice[n]
  BY <1>2, <1>3 DEF Shape
<1>5. slice' # <<>>
  BY <1>4 DEF Shape
<1> QED
  BY <1>2, <1>4, <1>5

(* The list of the cell, as a whole. *)
LEMMA StoredList ==
    ASSUME Shape, NEW g \in 1 .. Len(slice), NEW k, NEW b, Store(g, k, b)
    PROVE  slice'[g] = [slice[g] EXCEPT ![k] = b]
<1> DEFINE s == [slice[g] EXCEPT ![k] = b]
<1>1. slice' = [slice EXCEPT ![g] = s]
  BY DEF Store
<1>2. g \in DOMAIN slice
  BY DEF Shape
<1> HIDE DEF s
<1>3. slice'[g] = s
  BY <1>1, <1>2
<1> QED
  BY <1>3 DEF s

(***************************************************************************)
(* The requests                                                            *)
(***************************************************************************)

(* Requests that have no book in hand, before and after. *)
EmptyHanded ==
    /\ slice' = slice /\ indexed' = indexed
    /\ \A w \in Web : web'[w] = web[w] \/ (web[w].held = None /\ web'[w].held = None)

(* What may become of a request that has no book in hand after the step. *)
Ready(w, r) ==
    /\ DOMAIN r = Fields /\ r.gen \in 0 .. Len(slice) /\ r.held = None
    /\ r.stage = "sort" => w \in Sorters /\ r.gen > 0 /\ r.i \in Nat /\ r.j \in 1 .. r.i

(* A request that goes on with nothing in hand keeps the shape. *)
LEMMA ReadyKeeps ==
    ASSUME Shape, NEW w \in Web, NEW r, Ready(w, r), web[w].held = None,
           web' = [web EXCEPT ![w] = r], slice' = slice, indexed' = indexed
    PROVE  Shape' /\ EmptyHanded
<1>1. web'[w] = r /\ DOMAIN web' = Web /\ \A v \in Web \ {w} : web'[v] = web[v]
  BY DEF Shape
<1>2. Shape'
  BY <1>1 DEF Shape, Ready
<1> QED
  BY <1>1, <1>2 DEF EmptyHanded, Ready

(* Indexer.BookList is one of the published lists. *)
LEMMA CurrentList == ASSUME Shape PROVE BookList \in 1 .. Len(slice)
<1>1. Len(slice) \in Nat /\ Len(slice) # 0
  BY DEF Shape
<1> QED
  BY <1>1 DEF BookList

(* The steps of a request other than the two stores of a swap. *)
LEMMA RequestShape ==
    ASSUME Shape, NEW w \in Web,
           \/ \E kind, arg, sort : PrivatePage(w, kind, arg, sort)
           \/ w \in Sorters /\ \E kind, sort : PageBegin(w, kind, sort)
           \/ RandomBegin(w) \/ RandomEnd(w) \/ PageEnd(w) \/ PageSent(w) \/ SortAdvance(w)
    PROVE  Shape' /\ EmptyHanded
<1> DEFINE q == web[w]
<1>0. DOMAIN q = Fields /\ q.gen \in 0 .. Len(slice) /\ BookList \in 1 .. Len(slice)
  BY CurrentList DEF Shape
<1>a. q.stage # "sort" \/ q.todo = <<>> => q.held = None
  BY DEF Shape
<1>1. ASSUME NEW kind, NEW arg, NEW sort, PrivatePage(w, kind, arg, sort) PROVE Shape' /\ EmptyHanded
  <2> DEFINE r == [q EXCEPT !.stage = "done", !.kind = kind, !.arg = arg, !.sort = sort,
                            !.gen = BookList, !.torn = HalfSwapped(BookList),
                            !.page = Page(kind, arg, sort, slice[BookList])]
  <2>1. web' = [web EXCEPT ![w] = r] /\ slice' = slice /\ indexed' = indexed /\ q.held = None
    BY <1>1, <1>a DEF PrivatePage, Shape
  <2>2. Ready(w, r)
    BY <1>0, <2>1 DEF Ready, Fields
  <2> HIDE DEF r
  <2> QED
    BY <2>1, <2>2, ReadyKeeps
<1>2. ASSUME NEW kind, NEW sort, PageBegin(w, kind, sort), w \in Sorters PROVE Shape' /\ EmptyHanded
  <2> DEFINE r == [q EXCEPT !.stage = "sort", !.kind = kind, !.sort = sort, !.gen = BookList,
                            !.todo = SortsInPlace(kind, sort), !.i = 2, !.j = 2]
  <2>1. web' = [web EXCEPT ![w] = r] /\ slice' = slice /\ indexed' = indexed /\ q.held = None
    BY <1>2, <1>a DEF PageBegin, Shape
  <2>2. Ready(w, r)
    BY <1>0, <1>2, <2>1 DEF Ready, Fields
  <2> HIDE DEF r
  <2> QED
    BY <2>1, <2>2, ReadyKeeps
<1>3. CASE PageEnd(w)
  <2> DEFINE r == [q EXCEPT !.stage = "done", !.torn = HalfSwapped(q.gen),
                            !.page = Page(q.kind, None, q.sort, slice[q.gen])]
  <2>1. web' = [web EXCEPT ![w] = r] /\ slice' = slice /\ indexed' = indexed /\ q.held = None
    BY <1>3, <1>a DEF PageEnd, Shape
  <2>2. Ready(w, r)
    BY <1>0, <2>1 DEF Ready, Fields
  <2> HIDE DEF r
  <2> QED
    BY <2>1, <2>2, ReadyKeeps
<1>4. CASE PageSent(w)
  <2>1. web' = [web EXCEPT ![w] = IdleRequest] /\ slice' = slice /\ indexed' = indexed /\ q.held = None
    BY <1>4, <1>a DEF PageSent, Shape
  <2>2. Ready(w, IdleRequest)
    BY <1>0 DEF Ready, IdleRequest, Fields
  <2> QED
    BY <2>1, <2>2, ReadyKeeps
<1>5. CASE SortAdvance(w)
  <2> DEFINE next == [q EXCEPT !.todo = Tail(q.todo), !.i = 2, !.j = 2]
             on == [q EXCEPT !.i = q.i + 1, !.j = q.i + 1]
  <2>1. /\ q.stage = "sort" /\ q.held = None /\ slice' = slice /\ indexed' = indexed
        /\ web' = [web EXCEPT ![w] = next] \/ web' = [web EXCEPT ![w] = on]
    BY <1>5 DEF SortAdvance, Sorting, Shape
  <2>2. Ready(w, next) /\ Ready(w, on)
    BY <1>0, <2>1 DEF Ready, Fields, Shape
  <2> HIDE DEF next, on
  <2> QED
    BY <2>1, <2>2, ReadyKeeps
<1>6. CASE RandomBegin(w)
  <2>1. PICK r : /\ web' = [web EXCEPT ![w] = r]
                 /\ DOMAIN r = Fields /\ r.gen = q.gen /\ r.held = q.held /\ r.stage # "sort"
    <3>1. CASE slice[BookList] = <<>>
      <4> DEFINE r == [q EXCEPT !.stage = "done", !.kind = "random"]
      <4>1. web' = [web EXCEPT ![w] = r]
        BY <1>6, <3>1 DEF RandomBegin, Shape
      <4>2. DOMAIN r = Fields /\ r.gen = q.gen /\ r.held = q.held /\ r.stage # "sort"
        BY <1>0 DEF Fields
      <4> QED
        BY <4>1, <4>2
    <3>2. CASE slice[BookList] # <<>>
      <4>1. PICK n \in DOMAIN slice[BookList] :
              web' = [web EXCEPT ![w] = [q EXCEPT !.stage = "pick", !.kind = "random", !.i = n]]
        BY <1>6, <3>2 DEF RandomBegin
      <4> DEFINE r == [q EXCEPT !.stage = "pick", !.kind = "random", !.i = n]
      <4>2. DOMAIN r = Fields /\ r.gen = q.gen /\ r.held = q.held /\ r.stage # "sort"
        BY <1>0 DEF Fields
      <4> QED
        BY <4>1, <4>2
    <3> QED
      BY <3>1, <3>2
  <2>2. q.held = None /\ slice' = slice /\ indexed' = indexed
    BY <1>6, <1>a DEF RandomBegin
  <2> QED
    BY <1>0, <2>1, <2>2, ReadyKeeps DEF Ready
<1>7. CASE RandomEnd(w)
  <2>1. PICK p : web' = [web EXCEPT ![w] = [q EXCEPT !.stage = "done", !.page = p]]
    BY <1>7 DEF RandomEnd, Shape
  <2>2. q.held = None /\ slice' = slice /\ indexed' = indexed
    BY <1>7, <1>a DEF RandomEnd
  <2>3. Ready(w, [q EXCEPT !.stage = "done", !.page = p])
    BY <1>0, <2>2 DEF Ready, Fields
  <2> QED
    BY <2>1, <2>2, <2>3, ReadyKeeps
<1> QED
  BY <1>1, <1>2, <1>3, <1>4, <1>5, <1>6, <1>7

(* What Shape says of one request, when only its place changes. *)
LEMMA OneRequestShape ==
    ASSUME Shape, NEW w \in Web, NEW r,
           slice' \in Seq(Seq(Books)), Len(slice') = Len(slice), slice' # <<>>,
           \A n \in 1 .. Len(slice) : Len(slice'[n]) = Len(slice[n]),
           indexed' = indexed,
           web' = [web EXCEPT ![w] = r],
           web[w].stage = "sort", r.stage = "sort", r.gen = web[w].gen, r.i = web[w].i,
           DOMAIN r = Fields, r.held \in Books \cup {None}, r.j \in 1 .. r.i,
           r.held # None => r.todo # <<>> /\ r.j > 1 /\ r.i <= Len(slice[r.gen])
    PROVE  /\ Shape' /\ web'[w] = r
           /\ \A v \in Web \ {w} : web'[v] = web[v]
<1>1. web'[w] = r /\ DOMAIN web' = Web /\ \A v \in Web \ {w} : web'[v] = web[v]
  BY DEF Shape
<1>2. ASSUME NEW v \in Web, web[v].stage = "sort"
      PROVE  Len(slice'[web[v].gen]) = Len(slice[web[v].gen])
  <2>1. web[v].gen \in 1 .. Len(slice)
    BY <1>2 DEF Shape
  <2> QED
    BY <2>1
<1> QED
  BY <1>1, <1>2, SMTT(30) DEF Shape

(* The two stores of a swap keep the shape. *)
LEMMA SwapFirstShape ==
    ASSUME Shape, NEW w \in Web, SwapFirst(w)
    PROVE  LET g == web[w].gen
               j == web[w].j
           IN  /\ Shape'
               /\ g \in 1 .. Len(slice) /\ j \in 2 .. Len(slice[g]) /\ slice[g] \in Seq(Books)
               /\ web[w].stage = "sort" /\ web[w].held = None /\ indexed' = indexed
               /\ Store(g, j, slice[g][j - 1])
               /\ web'[w].held = slice[g][j] /\ web'[w].gen = g /\ web'[w].j = j
               /\ \A v \in Web \ {w} : web'[v] = web[v]
<1> DEFINE g == web[w].gen
           j == web[w].j
<1>1. /\ web[w].stage = "sort" /\ web[w].held = None /\ web[w].todo # <<>> /\ indexed' = indexed
      /\ web[w].i <= Len(slice[g]) /\ j > 1 /\ Store(g, j, slice[g][j - 1])
  BY DEF SwapFirst, Sorting, Moves
<1>2. /\ g \in 1 .. Len(slice) /\ web[w].i \in Nat /\ j \in 1 .. web[w].i
      /\ DOMAIN web[w] = Fields /\ DOMAIN web = Web
  BY <1>1 DEF Shape
<1>3. slice[g] \in Seq(Books) /\ Len(slice[g]) \in Nat
  BY <1>2 DEF Shape
<1>4. j \in 2 .. Len(slice[g])
  BY <1>1, <1>2, <1>3
<1>5. slice[g][j] \in Books /\ slice[g][j - 1] \in Books
  BY <1>3, <1>4
<1>6. /\ slice' \in Seq(Seq(Books)) /\ Len(slice') = Len(slice) /\ slice' # <<>>
      /\ \A n \in 1 .. Len(slice) : Len(slice'[n]) = Len(slice[n])
  BY <1>1, <1>2, <1>3, <1>4, <1>5, StoreChanges
<1> DEFINE r == [web[w] EXCEPT !.held = slice[g][j]]
<1>7. web' = [web EXCEPT ![w] = r]
  BY DEF SwapFirst
<1>8. /\ DOMAIN r = Fields /\ r.held = slice[g][j] /\ r.gen = g /\ r.j = j /\ r.i = web[w].i
      /\ r.stage = "sort" /\ r.todo = web[w].todo
  BY <1>1, <1>2 DEF Fields
<1> HIDE DEF r
<1>9. Shape' /\ web'[w] = r /\ \A v \in Web \ {w} : web'[v] = web[v]
  BY <1>1, <1>2, <1>4, <1>5, <1>6, <1>7, <1>8, OneRequestShape
<1> QED
  BY <1>1, <1>2, <1>3, <1>4, <1>8, <1>9

(* The second store puts the book in hand down, in the cell before. *)
LEMMA SwapSecondShape ==
    ASSUME Shape, NEW w \in Web, SwapSecond(w)
    PROVE  LET g == web[w].gen
               j == web[w].j
           IN  /\ Shape'
               /\ g \in 1 .. Len(slice) /\ j \in 2 .. Len(slice[g]) /\ slice[g] \in Seq(Books)
               /\ web[w].stage = "sort" /\ web[w].held \in Books /\ indexed' = indexed
               /\ Store(g, j - 1, web[w].held)
               /\ web'[w].held = None /\ web'[w].gen = g
               /\ \A v \in Web \ {w} : web'[v] = web[v]
<1> DEFINE g == web[w].gen
           j == web[w].j
<1>1. /\ web[w].stage = "sort" /\ web[w].held # None /\ indexed' = indexed
      /\ Store(g, j - 1, web[w].held)
  BY DEF SwapSecond, SwapValue
<1>2. /\ g \in 1 .. Len(slice) /\ web[w].i \in Nat /\ j \in 2 .. web[w].i /\ web[w].held \in Books
      /\ DOMAIN web[w] = Fields /\ DOMAIN web = Web
  BY <1>1 DEF Shape
<1>3. slice[g] \in Seq(Books) /\ Len(slice[g]) \in Nat
  BY <1>2 DEF Shape
<1>4. web[w].i <= Len(slice[g]) /\ j \in 2 .. Len(slice[g]) /\ j - 1 \in DOMAIN slice[g]
  BY <1>1, <1>2, <1>3, SMTT(30) DEF Shape
<1>5. /\ slice' \in Seq(Seq(Books)) /\ Len(slice') = Len(slice) /\ slice' # <<>>
      /\ \A n \in 1 .. Len(slice) : Len(slice'[n]) = Len(slice[n])
  BY <1>1, <1>2, <1>4, StoreChanges
<1> DEFINE r == [web[w] EXCEPT !.held = None, !.j = j - 1]
<1>6. web' = [web EXCEPT ![w] = r]
  BY DEF SwapSecond
<1>7. /\ DOMAIN r = Fields /\ r.held = None /\ r.gen = g /\ r.j = j - 1 /\ r.i = web[w].i
      /\ r.stage = "sort"
  BY <1>1, <1>2 DEF Fields
<1> HIDE DEF r
<1>a. r.j \in 1 .. r.i
  BY <1>2, <1>7
<1>8. Shape' /\ web'[w] = r /\ \A v \in Web \ {w} : web'[v] = web[v]
  BY <1>1, <1>2, <1>5, <1>6, <1>7, <1>a, OneRequestShape
<1> QED
  BY <1>1, <1>2, <1>3, <1>4, <1>7, <1>8

(***************************************************************************)
(* The shared list                                                         *)
(***************************************************************************)

Preserved(g) ==
    /\ ToSet(slice[g]) \cup HeldOn(g) = indexed[g]
    /\ Len(slice[g]) = Cardinality(indexed[g])

ListInv == HalfSwaps /\ \A g \in 1 .. Len(slice) : Preserved(g)

(* Who holds what of list g depends on hands and lists only. *)
LEMMA EmptyHandedKeeps == ASSUME Shape, ListInv, EmptyHanded PROVE ListInv'
<1>1. \A g : HeldOn(g)' = HeldOn(g)
  BY DEF EmptyHanded, HeldOn
<1>2. HalfSwaps'
  BY DEF EmptyHanded, ListInv, HalfSwaps
<1> QED
  BY <1>1, <1>2 DEF EmptyHanded, ListInv, Preserved

(* A refresh publishes a whole list that no request has seen yet. *)
LEMMA RefreshKeeps ==
    ASSUME Shape, NEW S \in Scans, Refresh(S)
    PROVE  Shape' /\ (ListInv => ListInv')
<1>1. PICK s \in SetToSeqs(S) : slice' = Append(slice, s)
  BY DEF Refresh
<1>2. S \in SUBSET Books /\ s \in Seq(Books) /\ ToSet(s) = S /\ Len(s) = Cardinality(S)
  BY CatalogueAssumption, ListOfSet
<1>3. /\ slice' \in Seq(Seq(Books)) /\ Len(slice') = Len(slice) + 1 /\ slice' # <<>>
      /\ slice'[Len(slice')] = s /\ \A n \in 1 .. Len(slice) : slice'[n] = slice[n]
      /\ Len(slice) \in Nat
  BY <1>1, <1>2 DEF Shape
<1>4. /\ indexed' \in Seq(SUBSET Books) /\ Len(indexed') = Len(slice')
      /\ indexed'[Len(slice')] = S /\ \A n \in 1 .. Len(slice) : indexed'[n] = indexed[n]
      /\ web' = web
  BY <1>2, <1>3 DEF Refresh, Shape
<1>5. \A w \in Web : web[w].held # None => web[w].gen \in 1 .. Len(slice)
  BY DEF Shape
<1>6. Shape'
  BY <1>3, <1>4, <1>5 DEF Shape
<1>7. ASSUME ListInv PROVE ListInv'
  <2>1. HalfSwaps'
    BY <1>3, <1>4, <1>5, <1>7 DEF ListInv, HalfSwaps
  <2>2. \A g \in 1 .. Len(slice) : HeldOn(g)' = HeldOn(g)
    BY <1>4 DEF HeldOn
  <2>3. ASSUME NEW g, g = Len(slice') PROVE HeldOn(g)' = {}
    <3>1. \A w \in Web : web[w].gen # g
      BY <1>3, <2>3 DEF Shape
    <3> QED
      BY <1>4, <3>1 DEF HeldOn
  <2>4. ASSUME NEW g \in 1 .. Len(slice') PROVE Preserved(g)'
    <3>1. CASE g \in 1 .. Len(slice)
      BY <1>3, <1>4, <1>7, <2>2, <3>1 DEF ListInv, Preserved
    <3>2. CASE g = Len(slice')
      BY <1>2, <1>3, <1>4, <2>3, <3>2 DEF Preserved
    <3> QED
      BY <1>3, <3>1, <3>2
  <2> QED
    BY <2>1, <2>4 DEF ListInv
<1> QED
  BY <1>6, <1>7

(* Requests that do not sort list g hold nothing of it. *)
LEMMA OnlySorterHolds ==
    ASSUME Shape, OneAtATime, NEW w \in Web, web[w].stage = "sort"
    PROVE  \A v \in Web \ {w} : web[v].held # None => web[v].gen # web[w].gen
BY DEF Shape, OneAtATime

(* The first store takes a book in hand and leaves its neighbour twice: the *)
(* list and what is held of it have the same books as before.               *)
LEMMA SwapFirstKeeps ==
    ASSUME Shape, OneAtATime, ListInv, NEW w \in Web, SwapFirst(w)
    PROVE  ListInv'
<1> SUFFICES ASSUME NEW g, g = web[w].gen
             PROVE  ListInv'
  OBVIOUS
<1> DEFINE j == web[w].j
           s == slice[g]
           t == slice'[g]
<1>1. /\ g \in 1 .. Len(slice) /\ j \in 2 .. Len(s) /\ s \in Seq(Books)
      /\ web[w].stage = "sort" /\ web[w].held = None /\ indexed' = indexed
      /\ Store(g, j, s[j - 1])
      /\ web'[w].held = s[j] /\ web'[w].gen = g /\ web'[w].j = j
      /\ \A v \in Web \ {w} : web'[v] = web[v]
  BY SwapFirstShape
<1>2. j \in DOMAIN s /\ j - 1 \in DOMAIN s /\ s[j] \in Books /\ s[j - 1] \in Books
  BY <1>1
<1>3. /\ Len(slice') = Len(slice)
      /\ t \in Seq(Books) /\ Len(t) = Len(s)
      /\ t[j] = s[j - 1] /\ \A m \in DOMAIN s \ {j} : t[m] = s[m]
      /\ \A n \in 1 .. Len(slice) : n # g => slice'[n] = slice[n]
  BY <1>1, <1>2, StoreChanges, ZenonT(30)
<1>4. \A v \in Web \ {w} : web[v].held # None => web[v].gen # g
  BY <1>1, OnlySorterHolds
<1>5. \A v \in Web : web[v].held # None => web[v].gen \in 1 .. Len(slice)
  BY DEF Shape
<1>6. s[j] # None
  BY <1>2, CatalogueAssumption
<1> HIDE DEF j, s, t
<1>7. HalfSwaps'
  <2> SUFFICES ASSUME NEW v \in Web, web'[v].held # None
               PROVE  slice'[web'[v].gen][web'[v].j] = slice'[web'[v].gen][web'[v].j - 1]
    BY DEF HalfSwaps
  <2>1. CASE v = w
    <3>1. j - 1 \in DOMAIN s \ {j}
      BY <1>1, <1>2
    <3>2. t[j] = t[j - 1]
      BY <1>3, <3>1
    <3> QED
      BY <1>1, <2>1, <3>2 DEF t
  <2>2. CASE v # w
    BY <1>1, <1>3, <1>4, <1>5, <2>2, SMTT(30) DEF ListInv, HalfSwaps
  <2> QED
    BY <2>1, <2>2
<1>8. HeldOn(g) = {} /\ HeldOn(g)' = {s[j]}
  BY <1>1, <1>4, <1>6 DEF HeldOn
<1>9. \A n \in 1 .. Len(slice) : n # g => HeldOn(n)' = HeldOn(n)
  BY <1>1 DEF HeldOn
<1>10. ToSet(t) \cup {s[j]} = ToSet(s)
  <2>1. DOMAIN t = DOMAIN s
    BY <1>1, <1>3
  <2> QED
    BY <1>2, <1>3, <2>1 DEF ToSet
<1>11. Preserved(g)'
  BY <1>1, <1>3, <1>8, <1>10 DEF ListInv, Preserved, s, t
<1>12. \A n \in 1 .. Len(slice') : n # g => Preserved(n)'
  BY <1>1, <1>3, <1>9 DEF ListInv, Preserved
<1> QED
  BY <1>7, <1>11, <1>12 DEF ListInv

(* The second store puts it back, over one of the two: every book is in the *)
(* list again, once.                                                        *)
LEMMA SwapSecondKeeps ==
    ASSUME Shape, OneAtATime, ListInv, NEW w \in Web, SwapSecond(w)
    PROVE  ListInv'
<1> SUFFICES ASSUME NEW g, g = web[w].gen
             PROVE  ListInv'
  OBVIOUS
<1> DEFINE j == web[w].j
           s == slice[g]
           t == slice'[g]
<1>1. /\ g \in 1 .. Len(slice) /\ j \in 2 .. Len(s) /\ s \in Seq(Books)
      /\ web[w].stage = "sort" /\ web[w].held \in Books /\ indexed' = indexed
      /\ Store(g, j - 1, web[w].held)
      /\ web'[w].held = None /\ web'[w].gen = g
      /\ \A v \in Web \ {w} : web'[v] = web[v]
  BY SwapSecondShape
<1>2. j \in DOMAIN s /\ j - 1 \in DOMAIN s /\ j # j - 1
  BY <1>1
<1>3. /\ Len(slice') = Len(slice)
      /\ t \in Seq(Books) /\ Len(t) = Len(s)
      /\ t[j - 1] = web[w].held /\ \A m \in DOMAIN s \ {j - 1} : t[m] = s[m]
      /\ \A n \in 1 .. Len(slice) : n # g => slice'[n] = slice[n]
  BY <1>1, <1>2, StoreChanges, ZenonT(30)
<1>4. \A v \in Web \ {w} : web[v].held # None => web[v].gen # g
  BY <1>1, OnlySorterHolds
<1>5. \A v \in Web : web[v].held # None => web[v].gen \in 1 .. Len(slice)
  BY DEF Shape
<1>6. web[w].held # None /\ s[j] = s[j - 1]
  BY <1>1, CatalogueAssumption DEF ListInv, HalfSwaps
<1> HIDE DEF j, s, t
<1>7. HalfSwaps'
  BY <1>1, <1>3, <1>4, <1>5, SMTT(30) DEF ListInv, HalfSwaps
<1>8. HeldOn(g) = {web[w].held} /\ HeldOn(g)' = {}
  BY <1>1, <1>4, <1>6 DEF HeldOn
<1>9. \A n \in 1 .. Len(slice) : n # g => HeldOn(n)' = HeldOn(n)
  BY <1>1 DEF HeldOn
<1>10. ToSet(t) = ToSet(s) \cup {web[w].held}
  <2>1. DOMAIN t = DOMAIN s
    BY <1>1, <1>3
  <2>2. s[j - 1] = t[j]
    BY <1>2, <1>3, <1>6
  <2> QED
    BY <1>2, <1>3, <2>1, <2>2 DEF ToSet
<1>11. Preserved(g)'
  BY <1>1, <1>3, <1>8, <1>10 DEF ListInv, Preserved, s, t
<1>12. \A n \in 1 .. Len(slice') : n # g => Preserved(n)'
  BY <1>1, <1>3, <1>9 DEF ListInv, Preserved
<1> QED
  BY <1>7, <1>11, <1>12 DEF ListInv

(* One step per action. *)
LEMMA CatalogueStep ==
    ASSUME Shape, [Next]_vars
    PROVE  Shape' /\ (OneAtATime /\ ListInv => ListInv')
<1>1. CASE slice' = slice /\ indexed' = indexed /\ web' = web
  <2>1. Shape' /\ EmptyHanded
    BY <1>1 DEF Shape, EmptyHanded
  <2> QED
    BY <2>1, EmptyHandedKeeps
<1>2. ASSUME NEW S \in Scans, Refresh(S) PROVE Shape' /\ (ListInv => ListInv')
  BY <1>2, RefreshKeeps
<1>3. ASSUME NEW w \in Web,
             \/ \E kind, arg, sort : PrivatePage(w, kind, arg, sort)
             \/ w \in Sorters /\ \E kind, sort : PageBegin(w, kind, sort)
             \/ RandomBegin(w) \/ RandomEnd(w) \/ PageEnd(w) \/ PageSent(w) \/ SortAdvance(w)
      PROVE  Shape' /\ (ListInv => ListInv')
  BY <1>3, RequestShape, EmptyHandedKeeps
<1>4. ASSUME NEW w \in Web, SwapFirst(w) PROVE Shape' /\ (OneAtATime /\ ListInv => ListInv')
  BY <1>4, SwapFirstShape, SwapFirstKeeps
<1>5. ASSUME NEW w \in Web, SwapSecond(w) PROVE Shape' /\ (OneAtATime /\ ListInv => ListInv')
  BY <1>5, SwapSecondShape, SwapSecondKeeps
<1>6. ASSUME NEW c \in Runs,
             \/ \E sort, query, limit, offset : RunBegin(c, sort, query, limit, offset)
             \/ Fetch(c) \/ FetchFails(c)
      PROVE  slice' = slice /\ indexed' = indexed /\ web' = web
  BY <1>6 DEF RunBegin, Fetch, FetchFails
<1>7. Sorters \subseteq Web
  BY CatalogueAssumption
<1>8. CASE UNCHANGED vars
  BY <1>1, <1>8 DEF vars
<1> QED
  BY <1>1, <1>2, <1>3, <1>4, <1>5, <1>6, <1>7, <1>8 DEF Next, PageSteps

(* The server starts with a list made of a scan. *)
LEMMA CatalogueInit == ASSUME Init PROVE Shape /\ ListInv
<1>0. PICK S \in Scans : \E s \in SetToSeqs(S) : slice = <<s>> /\ indexed = <<S>>
  BY DEF Init
<1>1. PICK s \in SetToSeqs(S) : slice = <<s>> /\ indexed = <<S>>
  BY <1>0
<1>2. S \in SUBSET Books /\ s \in Seq(Books) /\ ToSet(s) = S /\ Len(s) = Cardinality(S)
  BY CatalogueAssumption, ListOfSet
<1>3. /\ slice \in Seq(Seq(Books)) /\ slice # <<>> /\ Len(slice) = 1 /\ slice[1] = s
      /\ indexed \in Seq(SUBSET Books) /\ Len(indexed) = 1 /\ indexed[1] = S
  BY <1>1, <1>2
<1>4. \A w \in Web : web[w] = IdleRequest
  BY DEF Init
<1>5. /\ DOMAIN IdleRequest = Fields /\ IdleRequest.gen = 0 /\ IdleRequest.held = None
      /\ IdleRequest.stage # "sort"
  BY DEF IdleRequest, Fields
<1>6. Shape
  BY <1>3, <1>4, <1>5 DEF Init, Shape
<1>7. \A g : HeldOn(g) = {}
  BY <1>4, <1>5 DEF HeldOn
<1> QED
  BY <1>2, <1>3, <1>4, <1>5, <1>6, <1>7 DEF ListInv, HalfSwaps, Preserved

(* The lists and what requests know of them have their types, also with     *)
(* several pages sorting one list: a swap never leaves the list.            *)
THEOREM ShapeInvariant == Spec => []Shape
<1>1. Init => Shape
  BY CatalogueInit
<1>2. Shape /\ [Next]_vars => Shape'
  BY CatalogueStep
<1> QED
  BY <1>1, <1>2, PTL DEF Spec

(* As long as no two pages sort one list at once (handleBooks and           *)
(* handleDownloads sort the slice of Indexer.BookList in place), refreshes, *)
(* copies and the halves of swaps interleave without a book being lost.     *)
THEOREM ListAlwaysPreserved == Spec /\ []OneAtATime => []ListPreserved
<1>1. Init => ListInv
  BY CatalogueInit
<1>2. Shape /\ OneAtATime /\ ListInv /\ [Next]_vars => ListInv'
  BY CatalogueStep
<1>3. Shape /\ ListInv => ListPreserved
  <2>1. Shape => DOMAIN slice = 1 .. Len(slice)
    BY DEF Shape
  <2> QED
    BY <2>1 DEF ListInv, Preserved, HeldOn, ListPreserved
<1> QED
  BY <1>1, <1>2, <1>3, ShapeInvariant, PTL DEF Spec

(* One request at a time that sorts in place, as in the run, sorts alone.   *)
LEMMA OneSorter ==
    ASSUME \A w, v \in Sorters : w = v PROVE Spec => []OneAtATime
<1>1. Shape => OneAtATime
  BY DEF Shape, OneAtATime
<1> QED
  BY <1>1, ShapeInvariant, PTL

(* Then the list is preserved whatever else happens. *)
THEOREM OneSorterPreserves ==
    ASSUME \A w, v \in Sorters : w = v PROVE Spec => []ListPreserved
<1>1. Spec => []OneAtATime
  BY OneSorter
<1> QED
  BY <1>1, ListAlwaysPreserved, PTL

(***************************************************************************)
(* Sorting the shared list in place                                        *)
(***************************************************************************)

(* The list as it is once the book in hand is put down, and where that      *)
(* book goes.                                                               *)
Settled(q, l) == IF q.held = None THEN l ELSE [l EXCEPT ![q.j - 1] = q.held]
Place(q) == IF q.held = None THEN q.j ELSE q.j - 1

(* Book i has moved left to j: the books before i are in order but for the  *)
(* one at j, which comes before those it has passed.  The books it has not  *)
(* passed and those after i are as they were, in the order B.               *)
PartSorted(s, i, j, R, B) ==
    /\ \A b \in DOMAIN s : \A a \in 1 .. b - 1 :
          /\ b <= i /\ a # j /\ b # j => <<s[b], s[a]>> \notin ThenBy(R, B)
          /\ b > i \/ b = j => <<s[b], s[a]>> \notin B
    /\ \A b \in DOMAIN s : b \in j + 1 .. i => <<s[j], s[b]>> \in R

Key(sort) == IF sort \in KnownSorts THEN sort ELSE "modified-desc"

(* handleBooks sorts by date and then by the sort asked for, if any. *)
SortsWell(q, l) ==
    /\ q.kind \in {"books", "downloads"}
    /\ q.i > Len(l) => q.j = q.i
    /\ q.kind = "books" =>
         \/ /\ q.todo = SortsInPlace("books", q.sort)
            /\ PartSorted(Settled(q, l), q.i, Place(q), Before("modified-desc"), {})
         \/ /\ q.sort \in KnownSorts /\ q.todo = <<q.sort>>
            /\ q.sort \in KeySorts =>
                 PartSorted(Settled(q, l), q.i, Place(q), Before(q.sort), Before("modified-desc"))
         \/ /\ q.todo = <<>>
            /\ Key(q.sort) \in KeySorts =>
                 InOrder(l, ThenBy(Before(Key(q.sort)), Before("modified-desc")))

(* What a request knows of its list l, made of a scan. *)
RequestWell(q, l, scan) ==
    /\ q.stage = "sort" => SortsWell(q, l)
    /\ q.stage = "pick" => q.kind = "random"
    /\ q.stage = "done" /\ q.kind # "random" /\ ~q.torn => Shows(q, scan)

PagesInv == \A w \in Web : LET g == web[w].gen IN
    /\ web[w].stage = "done" /\ web[w].kind # "random" => g > 0
    /\ RequestWell(web[w], slice[g], indexed[g])

(* A sort starts with nothing sorted, ... *)
LEMMA PartSortedBegin ==
    ASSUME NEW s \in Seq(Books), NEW R, NEW B, InOrder(s, B)
    PROVE  PartSorted(s, 2, 2, R, B)
<1>1. ASSUME NEW b \in DOMAIN s, NEW a \in 1 .. b - 1
      PROVE  /\ b <= 2 /\ a # 2 /\ b # 2 => <<s[b], s[a]>> \notin ThenBy(R, B)
             /\ <<s[b], s[a]>> \notin B
  BY DEF InOrder
<1>2. \A b \in DOMAIN s : b \notin 2 + 1 .. 2
  OBVIOUS
<1> QED
  BY <1>1, <1>2 DEF PartSorted

(* ... a book that has found its place is in order with those before, ...   *)
LEMMA PartSortedOn ==
    ASSUME NEW s \in Seq(Books), NEW i \in Nat, NEW j \in 1 .. i, NEW R, NEW B,
           i <= Len(s), PartSorted(s, i, j, R, B), WeakOrder(R, Books),
           j > 1 => <<s[j], s[j - 1]>> \notin R
    PROVE  PartSorted(s, i + 1, i + 1, R, B)
<1>0. DOMAIN s = 1 .. Len(s) /\ Len(s) \in Nat /\ \A k \in 1 .. Len(s) : s[k] \in Books
  OBVIOUS
<1>1. ASSUME NEW b \in 1 .. Len(s), NEW a \in 1 .. b - 1, b <= i
      PROVE  <<s[b], s[a]>> \notin ThenBy(R, B)
  <2>0. s[a] \in Books /\ s[b] \in Books /\ s[j] \in Books /\ a \in 1 .. Len(s) /\ j \in 1 .. Len(s)
    BY <1>0
  <2>1. CASE a # j /\ b # j
    BY <1>0, <1>1, <2>1 DEF PartSorted
  <2>2. CASE a = j
    <3>1. b \in j + 1 .. i
      BY <1>1, <2>2
    <3>2. <<s[j], s[b]>> \in R
      BY <1>0, <3>1 DEF PartSorted
    <3> QED
      BY <2>0, <2>2, <3>2 DEF ThenBy, WeakOrder
  <2>3. CASE b = j
    <3>1. <<s[j], s[a]>> \notin B
      BY <1>0, <2>0, <2>3 DEF PartSorted
    <3>2. <<s[j], s[a]>> \notin R
      <4>1. CASE a = j - 1
        BY <2>3, <4>1
      <4>2. CASE a # j - 1
        <5>1. j - 1 \in 1 .. Len(s) /\ a \in 1 .. (j - 1) - 1 /\ j - 1 <= i /\ j > 1 /\ a # j
          BY <1>0, <2>3, <4>2
        <5>2. s[j - 1] \in Books /\ <<s[j - 1], s[a]>> \notin ThenBy(R, B)
          BY <1>0, <5>1, SMTT(30) DEF PartSorted
        <5>3. <<s[j - 1], s[a]>> \notin R
          BY <2>0, <5>2 DEF ThenBy
        <5>4. \A x, y, z \in Books : <<x, z>> \in R => <<x, y>> \in R \/ <<y, z>> \in R
          BY Zenon DEF WeakOrder
        <5>5. <<s[j], s[a]>> \in R => <<s[j], s[j - 1]>> \in R \/ <<s[j - 1], s[a]>> \in R
          BY <2>0, <5>2, <5>4, Zenon
        <5> QED
          BY <5>1, <5>3, <5>5
      <4> QED
        BY <4>1, <4>2
    <3> QED
      BY <2>3, <3>1, <3>2 DEF ThenBy
  <2> QED
    BY <2>1, <2>2, <2>3
<1>2. ASSUME NEW b \in 1 .. Len(s), NEW a \in 1 .. b - 1, b > i
      PROVE  <<s[b], s[a]>> \notin B
  BY <1>0, <1>2 DEF PartSorted
<1>3. ASSUME NEW b \in DOMAIN s, NEW a \in 1 .. b - 1
      PROVE  /\ b <= i + 1 /\ a # i + 1 /\ b # i + 1 => <<s[b], s[a]>> \notin ThenBy(R, B)
             /\ b > i + 1 \/ b = i + 1 => <<s[b], s[a]>> \notin B
  BY <1>0, <1>1, <1>2, SMTT(30)
<1>4. \A b \in DOMAIN s : b \notin (i + 1) + 1 .. i + 1
  OBVIOUS
<1> QED
  BY <1>3, <1>4 DEF PartSorted

(* ... as the whole list is when the last one has, ... *)
LEMMA PartSortedEnd ==
    ASSUME NEW s \in Seq(Books), NEW i \in Nat, NEW R, NEW B,
           i > Len(s), PartSorted(s, i, i, R, B)
    PROVE  InOrder(s, ThenBy(R, B))
<1>1. \A b \in DOMAIN s : b <= i /\ b # i /\ \A a \in 1 .. b - 1 : a # i
  OBVIOUS
<1> QED
  BY <1>1 DEF PartSorted, InOrder

(* ... and a book that has not swaps with the one before it. *)
LEMMA PartSortedSwap ==
    ASSUME NEW s \in Seq(Books), NEW t \in Seq(Books), NEW i \in Nat, NEW j \in 2 .. i, NEW R, NEW B,
           i <= Len(s), PartSorted(s, i, j, R, B), <<s[j], s[j - 1]>> \in R,
           Len(t) = Len(s), t[j] = s[j - 1], t[j - 1] = s[j],
           \A k \in 1 .. Len(s) : k # j /\ k # j - 1 => t[k] = s[k]
    PROVE  PartSorted(t, i, j - 1, R, B)
<1>0. /\ DOMAIN s = 1 .. Len(s) /\ DOMAIN t = 1 .. Len(s) /\ Len(s) \in Nat
      /\ j \in 1 .. Len(s) /\ j - 1 \in 1 .. Len(s)
  OBVIOUS
<1>1. /\ \A b \in 1 .. Len(s) : \A a \in 1 .. b - 1 :
            /\ b <= i /\ a # j /\ b # j => <<s[b], s[a]>> \notin ThenBy(R, B)
            /\ b > i \/ b = j => <<s[b], s[a]>> \notin B
      /\ \A b \in 1 .. Len(s) : b \in j + 1 .. i => <<s[j], s[b]>> \in R
  BY <1>0 DEF PartSorted
<1>2. ASSUME NEW b \in 1 .. Len(s), NEW a \in 1 .. b - 1, b <= i, a # j - 1, b # j - 1
      PROVE  <<t[b], t[a]>> \notin ThenBy(R, B)
  <2>1. CASE b = j
    <3>1. t[b] = s[j - 1] /\ t[a] = s[a] /\ a \in 1 .. (j - 1) - 1 /\ j - 1 <= i /\ a # j
      BY <1>0, <1>2, <2>1
    <3> QED
      BY <1>0, <1>1, <3>1
  <2>2. CASE a = j
    <3>1. t[a] = s[j - 1] /\ t[b] = s[b] /\ j - 1 \in 1 .. b - 1 /\ b # j
      BY <1>0, <1>2, <2>2
    <3> QED
      BY <1>0, <1>1, <1>2, <3>1
  <2>3. CASE a # j /\ b # j
    <3>1. t[a] = s[a] /\ t[b] = s[b]
      BY <1>0, <1>2, <2>3
    <3> QED
      BY <1>1, <1>2, <2>3, <3>1
  <2> QED
    BY <2>1, <2>2, <2>3
<1>3. ASSUME NEW b \in 1 .. Len(s), NEW a \in 1 .. b - 1, b > i \/ b = j - 1
      PROVE  <<t[b], t[a]>> \notin B
  <2>1. CASE b = j - 1
    <3>1. t[b] = s[j] /\ t[a] = s[a] /\ a \in 1 .. j - 1
      BY <1>0, <2>1, SMTT(30)
    <3> QED
      BY <1>0, <1>1, <3>1
  <2>2. CASE b > i
    <3>1. t[b] = s[b] /\ j \in 1 .. b - 1 /\ j - 1 \in 1 .. b - 1
      BY <1>0, <2>2
    <3>2. \A c \in 1 .. b - 1 : <<s[b], s[c]>> \notin B
      BY <1>1, <2>2
    <3>3. t[a] = s[j - 1] \/ t[a] = s[j] \/ t[a] = s[a]
      BY <1>0
    <3> QED
      BY <3>1, <3>2, <3>3
  <2> QED
    BY <1>3, <2>1, <2>2
<1>4. ASSUME NEW b \in 1 .. Len(s), b \in (j - 1) + 1 .. i PROVE <<t[j - 1], t[b]>> \in R
  <2>1. CASE b = j
    BY <2>1
  <2>2. CASE b # j
    <3>1. b \in j + 1 .. i /\ t[b] = s[b]
      BY <1>0, <1>4, <2>2
    <3> QED
      BY <1>1, <3>1
  <2> QED
    BY <2>1, <2>2
<1> QED
  BY <1>0, <1>2, <1>3, <1>4 DEF PartSorted

(* Nothing is out of the empty order. *)
LEMMA AnyOrder == ASSUME NEW s PROVE InOrder(s, {})
BY DEF InOrder

(* The two sorts of handleBooks. *)
LEMMA BooksSorts ==
    ASSUME NEW sort
    PROVE  LET todo == SortsInPlace("books", sort) IN
           /\ todo # <<>> /\ Head(todo) = "modified-desc"
           /\ Tail(todo) = IF sort \in KnownSorts THEN <<sort>> ELSE <<>>
BY DEF SortsInPlace

(* The order that handleBooks sorts by first. *)
LEMMA ModifiedIsKey == "modified-desc" \in KeySorts /\ "modified-desc" \in KnownSorts
BY DEF KeySorts, KnownSorts

(* A page starts to sort the list it was given, ... *)
LEMMA SortsBegin ==
    ASSUME NEW l \in Seq(Books), NEW q, q.kind \in {"books", "downloads"},
           q.todo = SortsInPlace(q.kind, q.sort), q.i = 2, q.j = 2, q.held = None
    PROVE  SortsWell(q, l)
<1>1. PartSorted(l, 2, 2, Before("modified-desc"), {})
  BY AnyOrder, PartSortedBegin
<1>2. Settled(q, l) = l /\ Place(q) = 2
  BY DEF Settled, Place
<1> QED
  BY <1>1, <1>2 DEF SortsWell

(* ... puts one book after the other in its place, ... *)
LEMMA SortsOn ==
    ASSUME NEW l \in Seq(Books), NEW q, NEW r, SortsWell(q, l),
           q.held = None, q.todo # <<>>, q.i \in Nat, q.j \in 1 .. q.i, q.i <= Len(l),
           q.j > 1 => ~Less(Head(q.todo), l[q.j], l[q.j - 1]),
           r.kind = q.kind, r.sort = q.sort, r.todo = q.todo, r.held = None,
           r.i = q.i + 1, r.j = q.i + 1
    PROVE  SortsWell(r, l)
<1>1. Settled(q, l) = l /\ Place(q) = q.j /\ Settled(r, l) = l /\ Place(r) = q.i + 1
  BY DEF Settled, Place
<1>2. q.j > 1 => l[q.j] \in Books /\ l[q.j - 1] \in Books
  <2> SUFFICES ASSUME q.j > 1 PROVE q.j \in 1 .. Len(l) /\ q.j - 1 \in 1 .. Len(l)
    OBVIOUS
  <2> QED
    OBVIOUS
<1>3. q.j > 1 => <<l[q.j], l[q.j - 1]>> \notin Before(Head(q.todo))
  BY <1>2, BeforeIsLess
<1>4. ASSUME NEW B, Head(q.todo) \in KeySorts,
             PartSorted(l, q.i, q.j, Before(Head(q.todo)), B)
      PROVE  PartSorted(l, q.i + 1, q.i + 1, Before(Head(q.todo)), B)
  <2>1. WeakOrder(Before(Head(q.todo)), Books)
    BY <1>4, KeyOrder
  <2> QED
    BY <1>3, <1>4, <2>1, PartSortedOn
<1>5. CASE q.kind # "books"
  BY <1>5 DEF SortsWell
<1>6. CASE q.kind = "books" /\ q.todo = SortsInPlace("books", q.sort)
                            /\ PartSorted(l, q.i, q.j, Before("modified-desc"), {})
  <2>1. Head(q.todo) = "modified-desc"
    BY <1>6, BooksSorts
  <2>2. PartSorted(l, q.i + 1, q.i + 1, Before("modified-desc"), {})
    BY <1>4, <1>6, <2>1, ModifiedIsKey
  <2> QED
    BY <1>1, <1>6, <2>2 DEF SortsWell
<1>7. CASE q.kind = "books" /\ q.sort \in KnownSorts /\ q.todo = <<q.sort>>
           /\ (q.sort \in KeySorts => PartSorted(l, q.i, q.j, Before(q.sort), Before("modified-desc")))
  <2>1. Head(q.todo) = q.sort
    BY <1>7
  <2>2. q.sort \in KeySorts =>
          PartSorted(l, q.i + 1, q.i + 1, Before(q.sort), Before("modified-desc"))
    BY <1>4, <1>7, <2>1
  <2> QED
    BY <1>1, <1>7, <2>2 DEF SortsWell
<1> QED
  BY <1>1, <1>5, <1>6, <1>7 DEF SortsWell

(* ... and goes on to its next sort, if there is one. *)
LEMMA SortsNext ==
    ASSUME NEW l \in Seq(Books), NEW q, NEW r, SortsWell(q, l),
           q.held = None, q.todo # <<>>, q.i \in Nat, q.i > Len(l),
           r.kind = q.kind, r.sort = q.sort, r.todo = Tail(q.todo), r.held = None, r.i = 2, r.j = 2
    PROVE  SortsWell(r, l)
<1>1. /\ Settled(q, l) = l /\ Place(q) = q.i /\ q.j = q.i
      /\ Settled(r, l) = l /\ Place(r) = 2
  BY DEF Settled, Place, SortsWell
<1>2. CASE q.kind # "books"
  BY <1>2 DEF SortsWell
<1>3. CASE q.kind = "books" /\ q.todo = SortsInPlace("books", q.sort)
                            /\ PartSorted(l, q.i, q.i, Before("modified-desc"), {})
  <2>1. InOrder(l, ThenBy(Before("modified-desc"), {}))
    BY <1>3, PartSortedEnd
  <2>2. InOrder(l, Before("modified-desc"))
    BY <2>1, OrderedFirst
  <2>3. CASE q.sort \in KnownSorts
    <3>1. r.todo = <<q.sort>>
      BY <1>3, <2>3, BooksSorts
    <3>2. PartSorted(l, 2, 2, Before(q.sort), Before("modified-desc"))
      BY <2>2, PartSortedBegin
    <3> QED
      BY <1>1, <1>3, <2>3, <3>1, <3>2 DEF SortsWell
  <2>4. CASE q.sort \notin KnownSorts
    <3>1. r.todo = <<>> /\ Key(r.sort) = "modified-desc"
      BY <1>3, <2>4, BooksSorts DEF Key
    <3>2. InOrder(l, ThenBy(Before("modified-desc"), Before("modified-desc")))
      BY <2>2 DEF InOrder, ThenBy
    <3> QED
      BY <1>1, <1>3, <3>1, <3>2 DEF SortsWell
  <2> QED
    BY <2>3, <2>4
<1>4. CASE q.kind = "books" /\ q.sort \in KnownSorts /\ q.todo = <<q.sort>>
           /\ (q.sort \in KeySorts => PartSorted(l, q.i, q.i, Before(q.sort), Before("modified-desc")))
  <2>1. r.todo = <<>> /\ Key(r.sort) = q.sort
    BY <1>4 DEF Key
  <2>2. q.sort \in KeySorts => InOrder(l, ThenBy(Before(q.sort), Before("modified-desc")))
    BY <1>4, PartSortedEnd
  <2> QED
    BY <1>1, <1>4, <2>1, <2>2 DEF SortsWell
<1> QED
  BY <1>1, <1>2, <1>3, <1>4 DEF SortsWell

(* The first store of a swap settles where the second will put the book. *)
LEMMA SortsFirst ==
    ASSUME NEW l \in Seq(Books), NEW m \in Seq(Books), NEW q, NEW r, SortsWell(q, l),
           q.held = None, q.todo # <<>>, q.i \in Nat, q.j \in 2 .. q.i, q.i <= Len(l),
           Less(Head(q.todo), l[q.j], l[q.j - 1]),
           m = [l EXCEPT ![q.j] = l[q.j - 1]],
           r.kind = q.kind, r.sort = q.sort, r.todo = q.todo, r.i = q.i, r.j = q.j, r.held = l[q.j]
    PROVE  SortsWell(r, m)
<1> DEFINE j == q.j
           t == [m EXCEPT ![j - 1] = l[j]]
<1>0. /\ j \in 1 .. Len(l) /\ j - 1 \in 1 .. Len(l) /\ j # j - 1 /\ Len(l) \in Nat
      /\ l[j] \in Books /\ l[j - 1] \in Books
  OBVIOUS
<1>1. Settled(q, l) = l /\ Place(q) = j /\ Settled(r, m) = t /\ Place(r) = j - 1
  BY <1>0, CatalogueAssumption DEF Settled, Place
<1>2. Len(m) = Len(l) /\ m[j] = l[j - 1] /\ \A k \in 1 .. Len(l) : k # j => m[k] = l[k]
  BY <1>0
<1>3. /\ t \in Seq(Books) /\ Len(t) = Len(m) /\ t[j - 1] = l[j]
      /\ \A k \in 1 .. Len(l) : k # j - 1 => t[k] = m[k]
  BY <1>0, <1>2
<1> HIDE DEF t
<1>4. /\ t[j] = l[j - 1] /\ Len(t) = Len(l)
      /\ \A k \in 1 .. Len(l) : k # j /\ k # j - 1 => t[k] = l[k]
  BY <1>0, <1>2, <1>3
<1>5. <<l[j], l[j - 1]>> \in Before(Head(q.todo))
  BY <1>0, BeforeIsLess
<1>6. ASSUME NEW B, PartSorted(l, q.i, j, Before(Head(q.todo)), B)
      PROVE  PartSorted(t, q.i, j - 1, Before(Head(q.todo)), B)
  BY <1>3, <1>4, <1>5, <1>6, PartSortedSwap
<1>7. ~(r.i > Len(m))
  BY <1>2
<1>8. CASE q.kind # "books"
  BY <1>7, <1>8 DEF SortsWell
<1>9. CASE q.kind = "books" /\ q.todo = SortsInPlace("books", q.sort)
                            /\ PartSorted(l, q.i, j, Before("modified-desc"), {})
  <2>1. Head(q.todo) = "modified-desc"
    BY <1>9, BooksSorts
  <2>2. PartSorted(t, q.i, j - 1, Before("modified-desc"), {})
    BY <1>6, <1>9, <2>1
  <2> QED
    BY <1>1, <1>7, <1>9, <2>2 DEF SortsWell
<1>10. CASE q.kind = "books" /\ q.sort \in KnownSorts /\ q.todo = <<q.sort>>
            /\ (q.sort \in KeySorts => PartSorted(l, q.i, j, Before(q.sort), Before("modified-desc")))
  <2>1. Head(q.todo) = q.sort
    BY <1>10
  <2>2. q.sort \in KeySorts => PartSorted(t, q.i, j - 1, Before(q.sort), Before("modified-desc"))
    BY <1>6, <1>10, <2>1
  <2> QED
    BY <1>1, <1>7, <1>10, <2>2 DEF SortsWell
<1> QED
  BY <1>1, <1>8, <1>9, <1>10 DEF SortsWell

(* The second store puts it there. *)
LEMMA SortsSecond ==
    ASSUME NEW l \in Seq(Books), NEW m, NEW q, NEW r, SortsWell(q, l),
           q.held # None, q.todo # <<>>, q.i \in Nat, q.i <= Len(l), Len(m) = Len(l),
           m = [l EXCEPT ![q.j - 1] = q.held],
           r.kind = q.kind, r.sort = q.sort, r.todo = q.todo, r.i = q.i, r.j = q.j - 1, r.held = None
    PROVE  SortsWell(r, m)
<1>1. Settled(q, l) = m /\ Settled(r, m) = m /\ Place(q) = Place(r)
  BY DEF Settled, Place
<1>2. ~(r.i > Len(m))
  OBVIOUS
<1> QED
  BY <1>1, <1>2 DEF SortsWell

(***************************************************************************)
(* What pages show                                                         *)
(***************************************************************************)

(* A lookup finds the book if the list has it. *)
LEMMA LookupShows ==
    ASSUME NEW s \in Seq(Books), NEW id \in Books
    PROVE  OnceEach(Lookup(s, id), {id} \cap ToSet(s))
<1>1. CASE id \in ToSet(s)
  <2>1. Lookup(s, id) = <<id>> /\ {id} \cap ToSet(s) = {id}
    BY <1>1 DEF Lookup
  <2>2. Cardinality({id}) = 1 /\ Len(<<id>>) = 1 /\ ToSet(<<id>>) = {id}
    <3>1. Cardinality({id}) = 1
      BY FS_Singleton
    <3>2. Len(<<id>>) = 1 /\ DOMAIN <<id>> = {1} /\ <<id>>[1] = id
      OBVIOUS
    <3> QED
      BY <3>1, <3>2 DEF ToSet
  <2> QED
    BY <2>1, <2>2 DEF OnceEach
<1>2. CASE id \notin ToSet(s)
  <2>1. Lookup(s, id) = <<>> /\ {id} \cap ToSet(s) = {}
    BY <1>2 DEF Lookup
  <2>2. Cardinality({}) = 0 /\ Len(<<>>) = 0 /\ ToSet(<<>>) = {}
    BY FS_EmptySet, EmptyList
  <2> QED
    BY <2>1, <2>2 DEF OnceEach
<1> QED
  BY <1>1, <1>2

(* A page made of a whole copy of the list shows what it is about. *)
LEMMA PrivateShows ==
    ASSUME NEW s \in Seq(Books), NEW scan, OnceEach(s, scan), NEW kind \in PrivateKinds,
           NEW arg \in Args(kind), NEW sort, NEW q, q.kind = kind, q.arg = arg, q.sort = sort,
           q.page = Page(kind, arg, sort, s)
    PROVE  Shows(q, scan)
<1> DEFINE of == Filtered(s, About(kind, arg))
<1>1. scan \subseteq Books /\ scan = ToSet(s)
  BY OnceEachNoneTwice DEF OnceEach
<1>2. PICK S : S = About(kind, arg) \cap scan
  OBVIOUS
<1>3. of \in Seq(Books) /\ OnceEach(of, S) /\ S \subseteq Books
  <2>1. scan \cap About(kind, arg) = S
    BY <1>2
  <2> QED
    BY <1>1, <1>2, <2>1, FilteredOnce
<1> HIDE DEF of
<1>4. CASE kind \in {"author", "search"}
  <2>1. q.page = SortBy(SortBy(of, "title-asc"), sort)
    BY <1>4 DEF Page, of
  <2>2. PICK key : key = IF sort \in KnownSorts THEN sort ELSE "title-asc"
    OBVIOUS
  <2>3. "title-asc" \in KeySorts
    BY DEF KeySorts
  <2>4. /\ OnceEach(q.page, S)
        /\ key \in KeySorts => InOrder(q.page, ThenBy(Before(key), Before("title-asc")))
    BY <1>3, <2>1, <2>2, <2>3, SortedTwice
  <2> QED
    BY <1>2, <1>4, <2>2, <2>4 DEF Shows
<1>5. CASE kind = "series"
  <2>1. q.page = SortedWith(of, ByField(seriesIndex))
    BY <1>5 DEF Page, of
  <2>2. WeakOrder(ByField(seriesIndex), S)
    BY <1>3, FieldOrder, WeakOrderOnPart, BooklistAssumption
  <2>3. InOrder(q.page, ByField(seriesIndex))
    BY <1>3, <2>1, <2>2, SortedOrders DEF OnceEach
  <2>4. OnceEach(q.page, S)
    BY <1>3, <2>1, SortedSameBooks
  <2> QED
    BY <1>2, <1>5, <2>3, <2>4 DEF Shows
<1>6. ASSUME NEW field \in [Books -> Nat], q.page = Firsts(s, field), About(kind, arg) = Books
      PROVE  /\ {field[b] : b \in ToSet(q.page)} =
                  {field[b] : b \in About(kind, arg) \cap scan} \ {0}
             /\ InOrder(q.page, {p \in Books \X Books : field[p[1]] <= field[p[2]]})
  <2>1. About(kind, arg) \cap scan = ToSet(s)
    BY <1>1, <1>6
  <2>2. PICK t : t = Firsts(s, field) /\ t = q.page
    BY <1>6
  <2>3. /\ FieldsOf(field, ToSet(Firsts(s, field))) = FieldsOf(field, ToSet(s)) \ {0}
        /\ InOrder(Firsts(s, field), {p \in Books \X Books : field[p[1]] <= field[p[2]]})
    BY FirstsOnce
  <2>4. /\ FieldsOf(field, ToSet(t)) = FieldsOf(field, ToSet(s)) \ {0}
        /\ InOrder(t, {p \in Books \X Books : field[p[1]] <= field[p[2]]})
    BY <2>2, <2>3
  <2>5. {field[b] : b \in ToSet(t)} = {field[b] : b \in ToSet(s)} \ {0}
    BY <2>4 DEF FieldsOf
  <2> QED
    BY <2>1, <2>2, <2>4, <2>5
<1>7. CASE kind = "authors"
  <2>1. q.page = Firsts(s, author) /\ About(kind, arg) = Books /\ author \in [Books -> Nat]
    BY <1>7, BooklistAssumption DEF Page, About
  <2> QED
    BY <1>6, <1>7, <2>1 DEF Shows
<1>8. CASE kind = "seriess"
  <2>1. q.page = Firsts(s, series) /\ About(kind, arg) = Books /\ series \in [Books -> Nat]
    BY <1>8, BooklistAssumption DEF Page, About
  <2> QED
    BY <1>6, <1>8, <2>1 DEF Shows
<1>9. CASE kind = "book"
  <2>1. q.page = Lookup(s, arg) /\ About(kind, arg) = {arg} /\ arg \in Books
    BY <1>9 DEF Page, About, Args
  <2>2. OnceEach(q.page, About(kind, arg) \cap scan)
    BY <1>1, <2>1, LookupShows
  <2> QED
    BY <1>9, <2>2 DEF Shows
<1> QED
  BY <1>4, <1>5, <1>7, <1>8, <1>9 DEF PrivateKinds

(* So does a page that has sorted the list itself. *)
LEMMA BooksShows ==
    ASSUME NEW l \in Seq(Books), NEW scan, OnceEach(l, scan), NEW q, SortsWell(q, l), q.todo = <<>>,
           NEW r, r.kind = q.kind, r.sort = q.sort, r.page = Page(q.kind, None, q.sort, l)
    PROVE  Shows(r, scan)
<1>1. scan \subseteq Books
  BY OnceEachNoneTwice
<1>2. CASE q.kind = "books"
  <2>1. r.page = l
    BY <1>2 DEF Page
  <2>2. About(r.kind, r.arg) \cap scan = scan
    BY <1>1, <1>2 DEF About
  <2>3. Key(q.sort) \in KeySorts =>
          InOrder(l, ThenBy(Before(Key(q.sort)), Before("modified-desc")))
    <3>1. q.todo # SortsInPlace("books", q.sort)
      BY BooksSorts
    <3>2. q.todo # <<q.sort>>
      OBVIOUS
    <3> QED
      BY <1>2, <3>1, <3>2 DEF SortsWell
  <2> QED
    BY <1>2, <2>1, <2>2, <2>3 DEF Shows, Key
<1>3. CASE q.kind = "downloads"
  BY <1>3 DEF Shows
<1> QED
  BY <1>2, <1>3 DEF SortsWell

(***************************************************************************)
(* The pages, step by step                                                 *)
(***************************************************************************)

(* A list that no swap is half done on has each book of its scan once. *)
LEMMA WholeList ==
    ASSUME Shape, ListInv, NEW g \in 1 .. Len(slice), ~HalfSwapped(g)
    PROVE  slice[g] \in Seq(Books) /\ OnceEach(slice[g], indexed[g])
<1>1. HeldOn(g) = {}
  BY DEF HeldOn, HalfSwapped
<1>2. slice[g] \in Seq(Books)
  BY DEF Shape
<1>3. Preserved(g)
  BY DEF ListInv
<1> QED
  BY <1>1, <1>2, <1>3 DEF Preserved, OnceEach

(* What there is to know of a request that has changed, and its list has not. *)
RequestFine(r) ==
    /\ r.stage = "done" /\ r.kind # "random" => r.gen > 0
    /\ RequestWell(r, slice[r.gen], indexed[r.gen])

(* One request that is fine after a step that leaves the lists alone. *)
LEMMA OneRequestKeeps ==
    ASSUME Shape, PagesInv, NEW w \in Web, NEW r, RequestFine(r),
           web' = [web EXCEPT ![w] = r], slice' = slice, indexed' = indexed
    PROVE  PagesInv'
<1>1. web'[w] = r /\ \A v \in Web \ {w} : web'[v] = web[v]
  BY DEF Shape
<1> QED
  BY <1>1 DEF PagesInv, RequestFine

(* The pages made of a copy of their own. *)
LEMMA PrivatePageKeeps ==
    ASSUME Shape, ListInv, PagesInv, NEW w \in Web, NEW kind \in PrivateKinds,
           NEW arg \in Args(kind), NEW sort, PrivatePage(w, kind, arg, sort)
    PROVE  PagesInv'
<1> DEFINE s == slice[BookList]
<1>1. PICK torn \in BOOLEAN : torn = HalfSwapped(BookList)
  BY DEF HalfSwapped
<1> DEFINE r == [web[w] EXCEPT !.stage = "done", !.kind = kind, !.arg = arg, !.sort = sort,
                               !.gen = BookList, !.torn = torn, !.page = Page(kind, arg, sort, s)]
<1>2. web' = [web EXCEPT ![w] = r] /\ slice' = slice /\ indexed' = indexed
  BY <1>1 DEF PrivatePage
<1>3. DOMAIN web[w] = Fields /\ BookList \in 1 .. Len(slice)
  BY CurrentList DEF Shape
<1>4. /\ r.stage = "done" /\ r.kind = kind /\ r.arg = arg /\ r.sort = sort /\ r.gen = BookList
      /\ r.torn = torn /\ r.page = Page(kind, arg, sort, s)
  BY <1>3 DEF Fields
<1> HIDE DEF r
<1>5. ASSUME ~torn PROVE Shows(r, indexed[BookList])
  <2>1. s \in Seq(Books) /\ OnceEach(s, indexed[BookList])
    BY <1>1, <1>3, <1>5, WholeList
  <2> QED
    BY <1>4, <2>1, PrivateShows
<1>6. RequestFine(r)
  BY <1>3, <1>4, <1>5 DEF RequestFine, RequestWell
<1> QED
  BY <1>2, <1>6, OneRequestKeeps

(* A page that sorts in place starts with its sorts to do. *)
LEMMA PageBeginKeeps ==
    ASSUME Shape, PagesInv, NEW w \in Web, NEW kind \in {"books", "downloads"}, NEW sort,
           PageBegin(w, kind, sort)
    PROVE  PagesInv'
<1> DEFINE r == [web[w] EXCEPT !.stage = "sort", !.kind = kind, !.sort = sort, !.gen = BookList,
                               !.todo = SortsInPlace(kind, sort), !.i = 2, !.j = 2]
<1>1. web' = [web EXCEPT ![w] = r] /\ slice' = slice /\ indexed' = indexed /\ web[w].stage = "idle"
  BY DEF PageBegin
<1>2. DOMAIN web[w] = Fields /\ BookList \in 1 .. Len(slice) /\ web[w].held = None
  BY <1>1, CurrentList DEF Shape
<1>3. /\ r.stage = "sort" /\ r.kind = kind /\ r.sort = sort /\ r.gen = BookList
      /\ r.todo = SortsInPlace(kind, sort) /\ r.i = 2 /\ r.j = 2 /\ r.held = None
  BY <1>2 DEF Fields
<1> HIDE DEF r
<1>4. slice[BookList] \in Seq(Books)
  BY <1>2 DEF Shape
<1>5. SortsWell(r, slice[BookList])
  BY <1>3, <1>4, SortsBegin
<1>6. RequestFine(r)
  BY <1>3, <1>5 DEF RequestFine, RequestWell
<1> QED
  BY <1>1, <1>6, OneRequestKeeps

(* A page that has sorted the list shows it, if nobody has it torn. *)
LEMMA PageEndKeeps ==
    ASSUME Shape, ListInv, PagesInv, NEW w \in Web, PageEnd(w)
    PROVE  PagesInv'
<1> DEFINE q == web[w]
           g == q.gen
<1>1. PICK torn \in BOOLEAN : torn = HalfSwapped(g)
  BY DEF HalfSwapped
<1> DEFINE r == [q EXCEPT !.stage = "done", !.torn = torn,
                          !.page = Page(q.kind, None, q.sort, slice[g])]
<1>2. /\ web' = [web EXCEPT ![w] = r] /\ slice' = slice /\ indexed' = indexed
      /\ q.stage = "sort" /\ q.todo = <<>>
  BY <1>1 DEF PageEnd
<1>3. DOMAIN q = Fields /\ g \in 1 .. Len(slice)
  BY <1>2 DEF Shape
<1>4. /\ r.stage = "done" /\ r.kind = q.kind /\ r.sort = q.sort /\ r.gen = g
      /\ r.torn = torn /\ r.page = Page(q.kind, None, q.sort, slice[g])
  BY <1>3 DEF Fields
<1>5. SortsWell(q, slice[g])
  BY <1>2 DEF PagesInv, RequestWell
<1> HIDE DEF r
<1>6. ASSUME ~torn PROVE Shows(r, indexed[g])
  <2>1. slice[g] \in Seq(Books) /\ OnceEach(slice[g], indexed[g])
    BY <1>1, <1>3, <1>6, WholeList
  <2> QED
    BY <1>2, <1>4, <1>5, <2>1, BooksShows
<1>7. RequestFine(r)
  BY <1>3, <1>4, <1>6 DEF RequestFine, RequestWell
<1> QED
  BY <1>2, <1>7, OneRequestKeeps

(* A book in its place, and a sort at its end. *)
LEMMA SortAdvanceKeeps ==
    ASSUME Shape, PagesInv, NEW w \in Web, SortAdvance(w)
    PROVE  PagesInv'
<1> DEFINE q == web[w]
           g == q.gen
           l == slice[g]
           next == [q EXCEPT !.todo = Tail(q.todo), !.i = 2, !.j = 2]
           on == [q EXCEPT !.i = q.i + 1, !.j = q.i + 1]
<1>1. /\ q.stage = "sort" /\ q.held = None /\ q.todo # <<>> /\ slice' = slice /\ indexed' = indexed
      /\ \/ q.i > Len(l) /\ web' = [web EXCEPT ![w] = next]
         \/ q.i <= Len(l) /\ ~Moves(w) /\ web' = [web EXCEPT ![w] = on]
  <2>1. /\ q.stage = "sort" /\ q.held = None /\ q.todo # <<>> /\ slice' = slice /\ indexed' = indexed
        /\ \/ q.i > Len(l) /\ web' = [web EXCEPT ![w] = next]
           \/ ~(q.i > Len(l)) /\ ~Moves(w) /\ web' = [web EXCEPT ![w] = on]
    BY DEF SortAdvance, Sorting, Shape
  <2>2. q.i \in Nat /\ Len(l) \in Nat
    BY <2>1 DEF Shape
  <2> QED
    BY <2>1, <2>2
<1>2. DOMAIN q = Fields /\ g \in 1 .. Len(slice) /\ l \in Seq(Books) /\ q.i \in Nat /\ q.j \in 1 .. q.i
  BY <1>1 DEF Shape
<1>3. SortsWell(q, l)
  BY <1>1 DEF PagesInv, RequestWell
<1>4. CASE q.i > Len(l) /\ web' = [web EXCEPT ![w] = next]
  <2>1. /\ next.stage = "sort" /\ next.kind = q.kind /\ next.sort = q.sort /\ next.gen = g
        /\ next.todo = Tail(q.todo) /\ next.i = 2 /\ next.j = 2 /\ next.held = None
    BY <1>1, <1>2 DEF Fields
  <2> HIDE DEF next, l
  <2>2. SortsWell(next, l)
    BY <1>1, <1>2, <1>3, <1>4, <2>1, SortsNext
  <2>3. RequestFine(next)
    BY <2>1, <2>2 DEF RequestFine, RequestWell, l
  <2> QED
    BY <1>1, <1>4, <2>3, OneRequestKeeps
<1>5. CASE q.i <= Len(l) /\ ~Moves(w) /\ web' = [web EXCEPT ![w] = on]
  <2>1. /\ on.stage = "sort" /\ on.kind = q.kind /\ on.sort = q.sort /\ on.gen = g
        /\ on.todo = q.todo /\ on.i = q.i + 1 /\ on.j = q.i + 1 /\ on.held = None
    BY <1>1, <1>2 DEF Fields
  <2>2. q.j > 1 => ~Less(Head(q.todo), l[q.j], l[q.j - 1])
    BY <1>5 DEF Moves
  <2> HIDE DEF on, l
  <2>3. SortsWell(on, l)
    BY <1>1, <1>2, <1>3, <1>5, <2>1, <2>2, SortsOn
  <2>4. RequestFine(on)
    BY <2>1, <2>3 DEF RequestFine, RequestWell, l
  <2> QED
    BY <1>1, <1>5, <2>4, OneRequestKeeps
<1> QED
  BY <1>1, <1>4, <1>5

(* Random books and finished requests. *)
LEMMA OtherRequestsKeep ==
    ASSUME Shape, PagesInv, NEW w \in Web, RandomBegin(w) \/ RandomEnd(w) \/ PageSent(w)
    PROVE  PagesInv'
<1>0. DOMAIN web[w] = Fields
  BY DEF Shape
<1>1. CASE RandomBegin(w)
  <2>1. PICK r : web' = [web EXCEPT ![w] = r] /\ r.stage \in {"done", "pick"} /\ r.kind = "random"
    <3>1. CASE slice[BookList] = <<>>
      <4> DEFINE r == [web[w] EXCEPT !.stage = "done", !.kind = "random"]
      <4>1. web' = [web EXCEPT ![w] = r] /\ r.stage = "done" /\ r.kind = "random"
        BY <1>0, <1>1, <3>1 DEF RandomBegin, Fields
      <4> QED
        BY <4>1
    <3>2. CASE slice[BookList] # <<>>
      <4>1. PICK n : web' = [web EXCEPT ![w] =
                               [web[w] EXCEPT !.stage = "pick", !.kind = "random", !.i = n]]
        BY <1>1, <3>2 DEF RandomBegin, Shape
      <4> DEFINE r == [web[w] EXCEPT !.stage = "pick", !.kind = "random", !.i = n]
      <4>2. web' = [web EXCEPT ![w] = r] /\ r.stage = "pick" /\ r.kind = "random"
        BY <1>0, <4>1 DEF Fields
      <4> QED
        BY <4>2
    <3> QED
      BY <3>1, <3>2
  <2>2. RequestFine(r) /\ slice' = slice /\ indexed' = indexed
    BY <1>1, <2>1 DEF RandomBegin, RequestFine, RequestWell
  <2> QED
    BY <2>1, <2>2, OneRequestKeeps
<1>2. CASE RandomEnd(w)
  <2>1. PICK p : web' = [web EXCEPT ![w] = [web[w] EXCEPT !.stage = "done", !.page = p]]
    BY <1>2 DEF RandomEnd, Shape
  <2> DEFINE r == [web[w] EXCEPT !.stage = "done", !.page = p]
  <2>2. r.stage = "done" /\ r.kind = "random" /\ slice' = slice /\ indexed' = indexed
    BY <1>0, <1>2 DEF RandomEnd, Fields, PagesInv, RequestWell
  <2>3. web' = [web EXCEPT ![w] = r]
    BY <2>1
  <2> HIDE DEF r
  <2>4. RequestFine(r)
    BY <2>2 DEF RequestFine, RequestWell
  <2> QED
    BY <2>2, <2>3, <2>4, OneRequestKeeps
<1>3. CASE PageSent(w)
  <2>1. /\ web' = [web EXCEPT ![w] = IdleRequest] /\ slice' = slice /\ indexed' = indexed
        /\ IdleRequest.stage = "idle"
    BY <1>3 DEF PageSent, IdleRequest
  <2>2. RequestFine(IdleRequest)
    BY <2>1 DEF RequestFine, RequestWell
  <2> QED
    BY <2>1, <2>2, OneRequestKeeps
<1> QED
  BY <1>1, <1>2, <1>3

(* When one request stores into its list, those it is not alone with on it  *)
(* have their pages already.                                                *)
LEMMA StoreKeepsOthers ==
    ASSUME Shape, OneAtATime, PagesInv, NEW w \in Web, web[w].stage = "sort",
           NEW g, g = web[w].gen, indexed' = indexed,
           \A n \in 1 .. Len(slice) : n # g => slice'[n] = slice[n],
           \A v \in Web \ {w} : web'[v] = web[v],
           web'[w].stage = "sort", web'[w].gen = g, SortsWell(web'[w], slice'[g])
    PROVE  PagesInv'
<1> SUFFICES ASSUME NEW v \in Web, NEW n, n = web'[v].gen
             PROVE  /\ web'[v].stage = "done" /\ web'[v].kind # "random" => n > 0
                    /\ RequestWell(web'[v], slice'[n], indexed'[n])
  BY DEF PagesInv
<1>1. CASE v = w
  BY <1>1 DEF RequestWell
<1>2. CASE v # w
  <2>1. web'[v] = web[v] /\ n = web[v].gen
    BY <1>2
  <2>2. CASE web[v].stage = "sort"
    <3>1. n # g /\ n \in 1 .. Len(slice)
      BY <1>2, <2>1, <2>2 DEF OneAtATime, Shape
    <3> QED
      BY <2>1, <3>1 DEF PagesInv
  <2>3. CASE web[v].stage # "sort"
    BY <2>1, <2>3 DEF PagesInv, RequestWell
  <2> QED
    BY <2>2, <2>3
<1> QED
  BY <1>1, <1>2

(* The first store of a swap. *)
LEMMA SwapFirstPages ==
    ASSUME Shape, OneAtATime, PagesInv, NEW w \in Web, SwapFirst(w)
    PROVE  PagesInv'
<1> SUFFICES ASSUME NEW q, q = web[w], NEW g, g = q.gen, NEW l, l = slice[g] PROVE PagesInv'
  OBVIOUS
<1>1. /\ g \in 1 .. Len(slice) /\ q.j \in 2 .. Len(l) /\ l \in Seq(Books)
      /\ q.stage = "sort" /\ q.held = None /\ indexed' = indexed
      /\ Store(g, q.j, l[q.j - 1])
      /\ \A v \in Web \ {w} : web'[v] = web[v]
  BY SwapFirstShape
<1>2. /\ DOMAIN q = Fields /\ q.i \in Nat /\ q.j \in 1 .. q.i /\ q.todo # <<>> /\ q.i <= Len(l)
      /\ Less(Head(q.todo), l[q.j], l[q.j - 1])
  BY <1>1 DEF Shape, SwapFirst, Sorting, Moves
<1>3. q.j \in DOMAIN l /\ q.j - 1 \in DOMAIN l /\ l[q.j - 1] \in Books
  BY <1>1
<1>4. \A n \in 1 .. Len(slice) : n # g => slice'[n] = slice[n]
  BY <1>1, <1>3, StoreChanges
<1>5. slice'[g] = [l EXCEPT ![q.j] = l[q.j - 1]] /\ slice'[g] \in Seq(Books)
  BY <1>1, <1>3, StoreChanges, StoredList, SMTT(30)
<1>6. PICK r : r = [q EXCEPT !.held = l[q.j]]
  OBVIOUS
<1>7. web'[w] = r
  BY <1>6 DEF SwapFirst, Shape
<1>8. /\ r.stage = "sort" /\ r.gen = g /\ r.kind = q.kind /\ r.sort = q.sort /\ r.todo = q.todo
      /\ r.i = q.i /\ r.j = q.j /\ r.held = l[q.j]
  BY <1>1, <1>2, <1>6 DEF Fields
<1>9. SortsWell(q, l)
  BY <1>1 DEF PagesInv, RequestWell
<1>10. PICK m : m = slice'[g]
  OBVIOUS
<1>11. SortsWell(r, m)
  <2>1. q.j \in 2 .. q.i
    BY <1>1, <1>2
  <2>2. m \in Seq(Books) /\ m = [l EXCEPT ![q.j] = l[q.j - 1]]
    BY <1>5, <1>10
  <2> QED
    BY <1>1, <1>2, <1>8, <1>9, <2>1, <2>2, SortsFirst
<1> QED
  BY <1>1, <1>4, <1>7, <1>8, <1>10, <1>11, StoreKeepsOthers

(* The second store of a swap. *)
LEMMA SwapSecondPages ==
    ASSUME Shape, OneAtATime, PagesInv, NEW w \in Web, SwapSecond(w)
    PROVE  PagesInv'
<1> SUFFICES ASSUME NEW q, q = web[w], NEW g, g = q.gen, NEW l, l = slice[g] PROVE PagesInv'
  OBVIOUS
<1>1. /\ g \in 1 .. Len(slice) /\ q.j \in 2 .. Len(l) /\ l \in Seq(Books)
      /\ q.stage = "sort" /\ q.held \in Books /\ indexed' = indexed
      /\ Store(g, q.j - 1, q.held)
      /\ \A v \in Web \ {w} : web'[v] = web[v]
  BY SwapSecondShape
<1>2. /\ DOMAIN q = Fields /\ q.i \in Nat /\ q.held # None /\ q.todo # <<>> /\ q.i <= Len(l)
  BY <1>1 DEF Shape, SwapSecond
<1>3. q.j - 1 \in DOMAIN l
  BY <1>1
<1>4. /\ \A n \in 1 .. Len(slice) : n # g => slice'[n] = slice[n]
      /\ Len(slice'[g]) = Len(l)
  BY <1>1, <1>3, StoreChanges
<1>5. slice'[g] = [l EXCEPT ![q.j - 1] = q.held]
  BY <1>1, StoredList
<1>6. PICK r : r = [q EXCEPT !.held = None, !.j = q.j - 1]
  OBVIOUS
<1>7. web'[w] = r
  BY <1>6 DEF SwapSecond, Shape
<1>8. /\ r.stage = "sort" /\ r.gen = g /\ r.kind = q.kind /\ r.sort = q.sort /\ r.todo = q.todo
      /\ r.i = q.i /\ r.j = q.j - 1 /\ r.held = None
  BY <1>1, <1>2, <1>6 DEF Fields
<1>9. SortsWell(q, l)
  BY <1>1 DEF PagesInv, RequestWell
<1>10. PICK m : m = slice'[g]
  OBVIOUS
<1>11. SortsWell(r, m)
  <2>1. Len(m) = Len(l) /\ m = [l EXCEPT ![q.j - 1] = q.held]
    BY <1>4, <1>5, <1>10
  <2> QED
    BY <1>1, <1>2, <1>8, <1>9, <2>1, SortsSecond
<1> QED
  BY <1>1, <1>4, <1>7, <1>8, <1>10, <1>11, StoreKeepsOthers

(* A refresh leaves the lists that requests were given as they are. *)
LEMMA RefreshPages ==
    ASSUME Shape, PagesInv, NEW S \in Scans, Refresh(S)
    PROVE  PagesInv'
<1>1. PICK s \in SetToSeqs(S) : slice' = Append(slice, s)
  BY DEF Refresh
<1>2. S \in SUBSET Books /\ s \in Seq(Books)
  BY CatalogueAssumption, ListOfSet
<1>3. /\ \A n \in 1 .. Len(slice) : slice'[n] = slice[n] /\ indexed'[n] = indexed[n]
      /\ web' = web
  BY <1>1, <1>2 DEF Refresh, Shape
<1> SUFFICES ASSUME NEW w \in Web, NEW n, n = web[w].gen
             PROVE  /\ web[w].stage = "done" /\ web[w].kind # "random" => n > 0
                    /\ RequestWell(web[w], slice'[n], indexed'[n])
  BY <1>3 DEF PagesInv
<1>4. n \in 0 .. Len(slice) /\ (web[w].stage = "sort" => n > 0) /\ Len(slice) \in Nat
  BY DEF Shape
<1>5. CASE n > 0
  <2>1. slice'[n] = slice[n] /\ indexed'[n] = indexed[n]
    BY <1>3, <1>4, <1>5
  <2> QED
    BY <1>5, <2>1 DEF PagesInv
<1>6. CASE n = 0
  <2>1. /\ web[w].stage = "done" /\ web[w].kind # "random" => n > 0
        /\ RequestWell(web[w], slice[n], indexed[n])
    BY DEF PagesInv
  <2>2. ~(n > 0)
    BY <1>6
  <2>3. web[w].stage = "pick" => web[w].kind = "random"
    BY <2>1 DEF RequestWell
  <2> QED
    BY <1>4, <2>1, <2>2, <2>3 DEF RequestWell
<1>7. n > 0 \/ n = 0
  BY <1>4
<1> QED
  BY <1>5, <1>6, <1>7

(* One step per action. *)
LEMMA PagesStep ==
    ASSUME Shape, OneAtATime, ListInv, PagesInv, [Next]_vars
    PROVE  PagesInv'
<1>1. CASE slice' = slice /\ indexed' = indexed /\ web' = web
  BY <1>1 DEF PagesInv
<1>2. ASSUME NEW S \in Scans, Refresh(S) PROVE PagesInv'
  BY <1>2, RefreshPages
<1>3. ASSUME NEW w \in Web, NEW kind \in PrivateKinds, NEW arg \in Args(kind), NEW sort,
             PrivatePage(w, kind, arg, sort)
      PROVE  PagesInv'
  BY <1>3, PrivatePageKeeps
<1>4. ASSUME NEW w \in Web, RandomBegin(w) \/ RandomEnd(w) \/ PageSent(w) PROVE PagesInv'
  BY <1>4, OtherRequestsKeep
<1>5. ASSUME NEW w \in Web, PageEnd(w) PROVE PagesInv'
  BY <1>5, PageEndKeeps
<1>6. ASSUME NEW w \in Web, SortAdvance(w) PROVE PagesInv'
  BY <1>6, SortAdvanceKeeps
<1>7. ASSUME NEW w \in Web, SwapFirst(w) PROVE PagesInv'
  BY <1>7, SwapFirstPages
<1>8. ASSUME NEW w \in Web, SwapSecond(w) PROVE PagesInv'
  BY <1>8, SwapSecondPages
<1>9. ASSUME NEW w \in Web, NEW kind \in {"books", "downloads"}, NEW sort, PageBegin(w, kind, sort)
      PROVE  PagesInv'
  BY <1>9, PageBeginKeeps
<1>10. ASSUME NEW c \in Runs,
             \/ \E sort, query, limit, offset : RunBegin(c, sort, query, limit, offset)
             \/ Fetch(c) \/ FetchFails(c)
      PROVE  slice' = slice /\ indexed' = indexed /\ web' = web
  BY <1>10 DEF RunBegin, Fetch, FetchFails
<1>11. Sorters \subseteq Web
  BY CatalogueAssumption
<1>12. CASE UNCHANGED vars
  BY <1>1, <1>12 DEF vars
<1> QED
  BY <1>1, <1>2, <1>3, <1>4, <1>5, <1>6, <1>7, <1>8, <1>9, <1>10, <1>11, <1>12 DEF Next, PageSteps

(* At first nobody has asked for a page. *)
LEMMA PagesInit == ASSUME Init PROVE PagesInv
<1>1. \A w \in Web : web[w].stage = "idle"
  BY DEF Init, IdleRequest
<1> QED
  BY <1>1 DEF PagesInv, RequestWell

(* A page of a whole copy of the list shows each book it is about once and  *)
(* in order, whatever becomes of the list before and after the copy and     *)
(* while handleBooks sorts it in place, as long as no other page sorts it.  *)
THEOREM PagesAlwaysFaithful == Spec /\ []OneAtATime => []PageFaithful
<1>1. Init => ListInv /\ PagesInv
  BY CatalogueInit, PagesInit
<1>2. Shape /\ OneAtATime /\ (ListInv /\ PagesInv) /\ [Next]_vars => (ListInv /\ PagesInv)'
  <2>1. ASSUME Shape, OneAtATime, ListInv, PagesInv, [Next]_vars PROVE ListInv' /\ PagesInv'
    BY <2>1, CatalogueStep, PagesStep
  <2> QED
    BY <2>1
<1>3. ListInv /\ PagesInv => PageFaithful
  BY DEF PagesInv, RequestWell, PageFaithful
<1> QED
  BY <1>1, <1>2, <1>3, ShapeInvariant, PTL DEF Spec

(* With one request at a time that sorts in place, every page is faithful. *)
THEOREM OneSorterShows ==
    ASSUME \A w, v \in Sorters : w = v PROVE Spec => []PageFaithful
<1>1. Spec => []OneAtATime
  BY OneSorter
<1> QED
  BY <1>1, PagesAlwaysFaithful, PTL

(***************************************************************************)
(* Runs of the command: what they collect                                  *)
(***************************************************************************)

RunFields == {"stage", "sort", "query", "limit", "from", "offset", "items", "gens", "torn", "steady"}

(* Books that an order does not tell apart. *)
Alike(R, a, b) == <<a, b>> \notin R /\ <<b, a>> \notin R

(* r is a list of the matching books S such as the endpoint may have cut    *)
(* its pages from: the run has what r has from its offset on, up to the     *)
(* order of books that the sort does not tell apart.                        *)
Collected(q, r, S) ==
    LET R == Before(q.sort) IN
    /\ OnceEach(r, S)
    /\ WeakOrder(R, S) => InOrder(r, R)
    /\ \A p \in DOMAIN q.items :
          /\ q.from + p <= Len(r) /\ q.items[p] \in S
          /\ WeakOrder(R, S) => Alike(R, q.items[p], r[q.from + p])
          /\ q.steady => q.items[p] = r[q.from + p]
    /\ q.stage = "done" => Len(q.items) = IF Len(r) > q.from THEN Len(r) - q.from ELSE 0

(* A run that goes through pages of the list l, of one scan, alone.  If     *)
(* nobody has sorted the list since its first page, the next page is cut    *)
(* from the same r.                                                         *)
RunWell(q, g, l, scan) ==
    q.stage \in {"fetch", "done"} /\ q.limit = None /\ q.gens = {g} /\ ~q.torn =>
        /\ q.sort \in KnownSorts
        /\ \E r \in Seq(Books) :
             /\ Collected(q, r, scan \cap q.query)
             /\ q.steady /\ q.stage = "fetch" => r = SortBy(Filtered(l, q.query), q.sort)

(* What a run knows of itself, of n lists. *)
RunShape(q, n) ==
    /\ DOMAIN q = RunFields
    /\ q.items \in Seq(Books) /\ q.from \in Nat /\ q.gens \subseteq 1 .. n
    /\ q.limit = None \/ q.limit \in Nat \ {0}
    /\ q.stage = "new" => q.gens = {}
    /\ q.stage = "fetch" => q.offset = q.from + Len(q.items)
    /\ q.gens = {} => q.items = <<>> /\ q.stage # "done"

RunsInv ==
    /\ DOMAIN run = Runs
    /\ \A c \in Runs :
         /\ RunShape(run[c], Len(slice))
         /\ \A g \in 1 .. Len(slice) : RunWell(run[c], g, slice[g], indexed[g])

(* A page of the endpoint is the list from the offset on, and empty only    *)
(* past its end.                                                            *)
LEMMA WindowIs ==
    ASSUME NEW s \in Seq(Books), NEW offset \in Nat, NEW limit \in Nat, limit > 0,
           NEW v, v = Window(s, offset, limit)
    PROVE  /\ v \in Seq(Books) /\ Len(v) \in Nat
           /\ \A p \in 1 .. Len(v) : offset + p <= Len(s) /\ v[p] = s[offset + p]
           /\ Len(v) = 0 => offset >= Len(s)
<1>0. Len(s) \in Nat /\ DOMAIN s = 1 .. Len(s) /\ \A i \in 1 .. Len(s) : s[i] \in Books
  OBVIOUS
<1>1. PICK len \in Nat : len = Len(s)
  BY <1>0
<1>2. PICK start : start = IF offset < len THEN offset ELSE len
  OBVIOUS
<1>3. PICK end : end = IF start + limit < len THEN start + limit ELSE len
  OBVIOUS
<1>4. v = SubSeq(s, start + 1, end)
  BY <1>1, <1>2, <1>3 DEF Window
<1>5. /\ start \in Nat /\ end \in Nat /\ start <= end /\ end <= len
      /\ start < end => start = offset
      /\ start = end => offset >= len
  <2>1. start \in Nat /\ start <= len /\ (start < len => start = offset)
    BY <1>2
  <2>2. end \in Nat /\ start <= end /\ end <= len /\ (start = end => start = len)
    BY <1>3, <2>1
  <2>3. start = len => offset >= len
    BY <1>2
  <2> QED
    BY <2>1, <2>2, <2>3
<1>6. \A i \in start + 1 .. end : s[i] \in Books
  BY <1>0, <1>1, <1>5
<1>7. /\ v \in Seq(Books)
      /\ Len(v) = IF start + 1 <= end THEN end - (start + 1) + 1 ELSE 0
      /\ \A i \in 1 .. end - (start + 1) + 1 : v[i] = s[(start + 1) + i - 1]
  BY <1>4, <1>5, <1>6, SubSeqProperties
<1>8. Len(v) = end - start /\ Len(v) \in Nat
  BY <1>5, <1>7
<1>9. ASSUME NEW p \in 1 .. Len(v) PROVE offset + p <= len /\ v[p] = s[offset + p]
  <2>1. p \in 1 .. end - start
    BY <1>8
  <2>2. start = offset /\ offset + p <= len
    BY <1>5, <2>1
  <2>3. p \in 1 .. end - (start + 1) + 1 /\ (start + 1) + p - 1 = start + p
    BY <1>5, <2>1
  <2> QED
    BY <1>7, <2>2, <2>3
<1> QED
  BY <1>1, <1>5, <1>7, <1>8, <1>9

(* The page v of a list s takes the run from q to u. *)
Adds(v, s, q, u) ==
    /\ s \in Seq(Books) /\ q.items \in Seq(Books) /\ q.from \in Nat
    /\ q.offset = q.from + Len(q.items)
    /\ v = Window(s, q.offset, MaxBookPage)
    /\ u.items = q.items \o v /\ u.from = q.from /\ u.sort = q.sort /\ u.steady = q.steady
    /\ u.stage = "done" => v = <<>> \/ q.offset + Len(v) >= Len(s)

(* One more page.  The list it is cut from may have been sorted since the   *)
(* last one: it has the same books in the same places, up to those that the *)
(* sort does not tell apart.                                                *)
LEMMA OnePageMore ==
    ASSUME NEW v, NEW s, NEW q, NEW u, Adds(v, s, q, u),
           NEW r \in Seq(Books), NEW S, OnceEach(s, S), Collected(q, r, S),
           WeakOrder(Before(q.sort), S) => InOrder(s, Before(q.sort)), q.steady => r = s
    PROVE  Collected(u, r, S)
<1> DEFINE R == Before(q.sort)
<1> SUFFICES ASSUME NEW limit \in Nat, limit > 0, limit = MaxBookPage PROVE Collected(u, r, S)
  BY CatalogueAssumption
<1>0. /\ s \in Seq(Books) /\ q.items \in Seq(Books) /\ q.from \in Nat
      /\ q.offset = q.from + Len(q.items)
      /\ v = Window(s, q.offset, limit)
      /\ u.items = q.items \o v /\ u.from = q.from /\ u.sort = q.sort /\ u.steady = q.steady
      /\ u.stage = "done" => v = <<>> \/ q.offset + Len(v) >= Len(s)
  BY DEF Adds
<1>1. PICK old \in Seq(Books) : old = q.items
  BY <1>0
<1>2. PICK from \in Nat : from = q.from
  BY <1>0
<1>3. PICK n \in Nat : n = Len(old)
  OBVIOUS
<1>4. PICK offset \in Nat : offset = q.offset /\ offset = from + n
  BY <1>0, <1>1, <1>2, <1>3
<1>5. /\ v \in Seq(Books) /\ Len(v) \in Nat
      /\ \A p \in 1 .. Len(v) : offset + p <= Len(s) /\ v[p] = s[offset + p]
      /\ Len(v) = 0 => offset >= Len(s)
  <2>1. v = Window(s, offset, limit)
    BY <1>0, <1>4
  <2> QED
    BY <1>0, <2>1, WindowIs
<1>6. PICK m \in Nat : m = Len(v)
  BY <1>5
<1>7. PICK new : new = u.items /\ new = old \o v
  BY <1>0, <1>1
<1>8. /\ new \in Seq(Books) /\ Len(new) = n + m
      /\ \A p \in 1 .. n + m : new[p] = IF p <= n THEN old[p] ELSE v[p - n]
  <2>1. /\ old \o v \in Seq(Books) /\ Len(old \o v) = Len(old) + Len(v)
        /\ \A p \in 1 .. Len(old) + Len(v) :
              (old \o v)[p] = IF p <= Len(old) THEN old[p] ELSE v[p - Len(old)]
    BY <1>5, ConcatProperties
  <2> QED
    BY <1>3, <1>6, <1>7, <2>1
<1>9. DOMAIN new = 1 .. n + m /\ DOMAIN old = 1 .. n
  BY <1>3, <1>8
<1>10. Len(r) = Len(s) /\ OnceEach(r, S) /\ (WeakOrder(R, S) => InOrder(r, R))
  BY DEF Collected, OnceEach
<1>11. PICK len \in Nat : len = Len(s) /\ len = Len(r)
  BY <1>0, <1>10
<1>12. DOMAIN s = 1 .. len
  <2>1. DOMAIN s = 1 .. Len(s)
    BY <1>0
  <2> QED
    BY <1>11, <2>1
<1>13. \A p \in 1 .. n : /\ from + p <= len /\ old[p] \in S
                         /\ WeakOrder(R, S) => Alike(R, old[p], r[from + p])
                         /\ q.steady => old[p] = r[from + p]
  BY <1>1, <1>2, <1>9, <1>11 DEF Collected
<1>14. ASSUME NEW p \in 1 .. n + m
       PROVE  /\ from + p <= len /\ new[p] \in S
              /\ WeakOrder(R, S) => Alike(R, new[p], r[from + p])
              /\ q.steady => new[p] = r[from + p]
  <2>1. CASE p <= n
    <3>1. p \in 1 .. n /\ new[p] = old[p]
      BY <1>8, <2>1
    <3> QED
      BY <1>13, <3>1
  <2>2. CASE ~(p <= n)
    <3>1. p - n \in 1 .. m
      BY <2>2
    <3>2. new[p] = v[p - n]
      BY <1>8, <2>2
    <3>3. PICK k : k = offset + (p - n)
      OBVIOUS
    <3>4. k = from + p /\ k \in Nat /\ k >= 1
      <4>1. offset = from + n
        BY <1>4
      <4>2. p \in Nat /\ p >= 1
        OBVIOUS
      <4> QED
        BY <3>3, <4>1, <4>2
    <3>5. k <= Len(s) /\ v[p - n] = s[k]
      BY <1>5, <1>6, <3>1, <3>3
    <3>6. k <= len /\ k \in 1 .. len
      BY <1>11, <3>4, <3>5
    <3>7. s[k] \in S
      BY <1>12, <3>6 DEF OnceEach, ToSet
    <3>8. WeakOrder(R, S) => <<r[k], s[k]>> \notin R /\ <<s[k], r[k]>> \notin R
      BY <1>0, <1>10, <1>11, <3>6, SamePlaces
    <3>9. new[p] = s[k]
      BY <3>2, <3>5
    <3>10. Alike(R, new[p], r[k]) <=> <<s[k], r[k]>> \notin R /\ <<r[k], s[k]>> \notin R
      BY <3>9 DEF Alike
    <3> QED
      BY <3>4, <3>6, <3>7, <3>8, <3>9, <3>10
  <2>3. p <= n \/ ~(p <= n)
    OBVIOUS
  <2> QED
    BY <2>1, <2>2, <2>3
<1>15. ASSUME u.stage = "done" PROVE n + m = IF len > from THEN len - from ELSE 0
  <2>1. v = <<>> => m = 0
    BY <1>6
  <2>2. m = 0 \/ offset + m >= len
    BY <1>0, <1>4, <1>6, <1>11, <1>15, <2>1
  <2>3. m = 0 => offset >= len
    BY <1>5, <1>6, <1>11
  <2>4. from + (n + m) >= len
    BY <1>4, <2>2, <2>3
  <2>5. n + m > 0 => from + (n + m) <= len
    <3>1. n + m > 0 => n + m \in 1 .. n + m
      OBVIOUS
    <3> QED
      BY <1>14, <3>1
  <2> QED
    BY <2>4, <2>5
<1>16. /\ \A p \in DOMAIN u.items :
            /\ u.from + p <= Len(r) /\ u.items[p] \in S
            /\ WeakOrder(R, S) => Alike(R, u.items[p], r[u.from + p])
            /\ u.steady => u.items[p] = r[u.from + p]
       /\ u.stage = "done" => Len(u.items) = IF Len(r) > u.from THEN Len(r) - u.from ELSE 0
  BY <1>0, <1>2, <1>7, <1>8, <1>9, <1>11, <1>14, <1>15
<1> QED
  BY <1>0, <1>10, <1>16 DEF Collected

(***************************************************************************)
(* The runs, step by step                                                  *)
(***************************************************************************)

(* What is known of a run outlives a change of the list, of which it then   *)
(* is not steady any more.                                                  *)
LEMMA RunKept ==
    ASSUME NEW q, NEW u, NEW g, NEW l, NEW m, NEW scan, RunWell(q, g, l, scan),
           u.stage = q.stage, u.limit = q.limit, u.gens = q.gens, u.torn = q.torn,
           u.sort = q.sort, u.query = q.query, u.from = q.from, u.items = q.items,
           u.steady => q.steady, u.steady /\ u.stage = "fetch" => m = l
    PROVE  RunWell(u, g, m, scan)
<1> SUFFICES ASSUME u.stage \in {"fetch", "done"}, u.limit = None, u.gens = {g}, ~u.torn
             PROVE  /\ u.sort \in KnownSorts
                    /\ \E r \in Seq(Books) :
                         /\ Collected(u, r, scan \cap u.query)
                         /\ u.steady /\ u.stage = "fetch" => r = SortBy(Filtered(m, u.query), u.sort)
  BY DEF RunWell
<1>1. q.sort \in KnownSorts
  BY DEF RunWell
<1>2. PICK r \in Seq(Books) :
         /\ Collected(q, r, scan \cap q.query)
         /\ q.steady /\ q.stage = "fetch" => r = SortBy(Filtered(l, q.query), q.sort)
  BY DEF RunWell
<1>3. Collected(u, r, scan \cap u.query)
  BY <1>2 DEF Collected
<1> QED
  BY <1>1, <1>2, <1>3

(* What there is to know of a run that has changed, and the lists have not. *)
RunFine(u) ==
    /\ RunShape(u, Len(slice))
    /\ \A g \in 1 .. Len(slice) : RunWell(u, g, slice[g], indexed[g])

(* One run that is fine after a step that leaves the lists alone. *)
LEMMA OneRunKeeps ==
    ASSUME RunsInv, NEW c \in Runs, NEW u, RunFine(u),
           run' = [run EXCEPT ![c] = u], slice' = slice, indexed' = indexed
    PROVE  RunsInv'
<1>1. run'[c] = u /\ DOMAIN run' = Runs /\ \A d \in Runs \ {c} : run'[d] = run[d]
  BY DEF RunsInv
<1> QED
  BY <1>1 DEF RunsInv, RunFine

(* A run that begins has asked for nothing yet. *)
LEMMA RunBeginKeeps ==
    ASSUME RunsInv, NEW c \in Runs, NEW sort, NEW query, NEW limit \in Limits \cup {None},
           NEW offset \in Offsets, RunBegin(c, sort, query, limit, offset)
    PROVE  RunsInv'
<1> DEFINE u == [run[c] EXCEPT !.stage = "fetch", !.sort = sort, !.query = query, !.limit = limit,
                               !.from = offset, !.offset = offset]
<1>1. run' = [run EXCEPT ![c] = u] /\ slice' = slice /\ indexed' = indexed /\ run[c].stage = "new"
  BY DEF RunBegin
<1>2. RunShape(run[c], Len(slice))
  BY DEF RunsInv
<1>3. /\ u.stage = "fetch" /\ u.limit = limit /\ u.from = offset /\ u.offset = offset
      /\ u.items = run[c].items /\ u.gens = run[c].gens /\ DOMAIN u = RunFields
  BY <1>2 DEF RunShape, RunFields
<1> HIDE DEF u
<1>4. u.gens = {} /\ u.items = <<>>
  BY <1>1, <1>2, <1>3 DEF RunShape
<1>5. offset \in Nat /\ (limit = None \/ limit \in Nat \ {0})
  BY CatalogueAssumption
<1>6. u.items \in Seq(Books) /\ Len(u.items) = 0 /\ offset = offset + 0
  BY <1>4, <1>5, EmptyList
<1>7. RunShape(u, Len(slice))
  BY <1>3, <1>4, <1>5, <1>6 DEF RunShape
<1>8. ASSUME NEW g PROVE RunWell(u, g, slice[g], indexed[g])
  BY <1>4 DEF RunWell
<1> QED
  BY <1>1, <1>7, <1>8, OneRunKeeps DEF RunFine

(* A run that fails prints nothing. *)
LEMMA FetchFailsKeeps ==
    ASSUME RunsInv, NEW c \in Runs, FetchFails(c)
    PROVE  RunsInv'
<1> DEFINE u == [NewRun EXCEPT !.stage = "failed"]
<1>1. run' = [run EXCEPT ![c] = u] /\ slice' = slice /\ indexed' = indexed
  BY DEF FetchFails
<1>2. /\ u.stage = "failed" /\ u.gens = {} /\ u.items = <<>> /\ u.from = 0 /\ u.limit = None
      /\ DOMAIN u = RunFields
  BY DEF NewRun, RunFields
<1> HIDE DEF u
<1>3. RunShape(u, Len(slice))
  BY <1>2, EmptyList DEF RunShape
<1>4. ASSUME NEW g PROVE RunWell(u, g, slice[g], indexed[g])
  BY <1>2 DEF RunWell
<1> QED
  BY <1>1, <1>3, <1>4, OneRunKeeps DEF RunFine

(* A refresh leaves the lists that runs were given as they are. *)
LEMMA RefreshRuns ==
    ASSUME Shape, RunsInv, NEW S \in Scans, Refresh(S)
    PROVE  RunsInv'
<1>1. PICK s \in SetToSeqs(S) : slice' = Append(slice, s)
  BY DEF Refresh
<1>2. S \in SUBSET Books /\ s \in Seq(Books)
  BY CatalogueAssumption, ListOfSet
<1>3. /\ \A n \in 1 .. Len(slice) : slice'[n] = slice[n] /\ indexed'[n] = indexed[n]
      /\ run' = run /\ Len(slice') = Len(slice) + 1 /\ Len(slice) \in Nat
  BY <1>1, <1>2 DEF Refresh, Shape
<1>4. ASSUME NEW c \in Runs PROVE RunShape(run[c], Len(slice'))
  <2>1. RunShape(run[c], Len(slice)) /\ 1 .. Len(slice) \subseteq 1 .. Len(slice')
    BY <1>3 DEF RunsInv
  <2> QED
    BY <2>1 DEF RunShape
<1>5. ASSUME NEW c \in Runs, NEW g \in 1 .. Len(slice')
      PROVE  RunWell(run[c], g, slice'[g], indexed'[g])
  <2>1. CASE g \in 1 .. Len(slice)
    BY <1>3, <2>1 DEF RunsInv
  <2>2. CASE g \notin 1 .. Len(slice)
    <3>1. run[c].gens # {g}
      BY <2>2 DEF RunsInv, RunShape
    <3> QED
      BY <3>1 DEF RunWell
  <2> QED
    BY <2>1, <2>2
<1> QED
  BY <1>3, <1>4, <1>5 DEF RunsInv

(* A store changes no run but that those between two pages of the list are  *)
(* not steady any more.                                                     *)
LEMMA StoreRuns ==
    ASSUME Shape, RunsInv, NEW g \in 1 .. Len(slice), NEW k \in DOMAIN slice[g], NEW b \in Books,
           Store(g, k, b), indexed' = indexed
    PROVE  RunsInv'
<1>1. Len(slice') = Len(slice) /\ \A n \in 1 .. Len(slice) : n # g => slice'[n] = slice[n]
  BY StoreChanges
<1>2. DOMAIN run' = Runs
  BY DEF Store
<1>3. ASSUME NEW c \in Runs
      PROVE  /\ RunShape(run'[c], Len(slice))
             /\ \A n \in 1 .. Len(slice) : RunWell(run'[c], n, slice'[n], indexed[n])
  <2> SUFFICES ASSUME NEW q, q = run[c], NEW u, u = run'[c]
               PROVE  /\ RunShape(u, Len(slice))
                      /\ \A n \in 1 .. Len(slice) : RunWell(u, n, slice'[n], indexed[n])
    OBVIOUS
  <2>1. RunShape(q, Len(slice)) /\ \A n \in 1 .. Len(slice) : RunWell(q, n, slice[n], indexed[n])
    BY DEF RunsInv
  <2>2. /\ g \in q.gens /\ q.stage = "fetch" => u = [q EXCEPT !.steady = FALSE]
        /\ ~(g \in q.gens /\ q.stage = "fetch") => u = q
    BY DEF Store
  <2>3. /\ u.stage = q.stage /\ u.limit = q.limit /\ u.gens = q.gens /\ u.torn = q.torn
        /\ u.sort = q.sort /\ u.query = q.query /\ u.from = q.from /\ u.items = q.items
        /\ u.offset = q.offset /\ DOMAIN u = DOMAIN q
        /\ u.steady => q.steady
        /\ g \in q.gens /\ q.stage = "fetch" => ~u.steady
    BY <2>1, <2>2 DEF RunShape, RunFields
  <2>4. RunShape(u, Len(slice))
    BY <2>1, <2>3 DEF RunShape
  <2>5. ASSUME NEW n \in 1 .. Len(slice) PROVE RunWell(u, n, slice'[n], indexed[n])
    <3>1. CASE u.gens = {n}
      <4>1. u.steady /\ u.stage = "fetch" => slice'[n] = slice[n]
        BY <1>1, <2>3, <3>1
      <4>2. PICK m : m = slice'[n]
        OBVIOUS
      <4>3. RunWell(u, n, m, indexed[n])
        BY <2>1, <2>3, <4>1, <4>2, RunKept
      <4> QED
        BY <4>2, <4>3
    <3>2. CASE u.gens # {n}
      BY <3>2 DEF RunWell
    <3> QED
      BY <3>1, <3>2
  <2> QED
    BY <2>4, <2>5
<1> QED
  BY <1>1, <1>2, <1>3 DEF RunsInv

(* The endpoint filters and sorts its copy.  A whole copy has each matching *)
(* book once, in order if the sort compares like a key.                     *)
LEMMA MatchedAndSorted ==
    ASSUME NEW l \in Seq(Books), NEW query, NEW sort \in KnownSorts,
           NEW s, s = SortBy(Filtered(l, query), sort)
    PROVE  /\ s \in Seq(Books) /\ Len(s) = Len(Filtered(l, query))
           /\ \A scan : OnceEach(l, scan) =>
                /\ OnceEach(s, scan \cap query)
                /\ WeakOrder(Before(sort), scan \cap query) => InOrder(s, Before(sort))
<1> DEFINE matched == Filtered(l, query)
<1>1. matched \in Seq(Books)
  BY FilteredTakes
<1>2. s \in Seq(Books) /\ Len(s) = Len(matched)
  BY <1>1, SortRounds DEF SortBy
<1>3. ASSUME NEW scan, OnceEach(l, scan)
      PROVE  /\ OnceEach(s, scan \cap query)
             /\ WeakOrder(Before(sort), scan \cap query) => InOrder(s, Before(sort))
  <2>1. OnceEach(matched, scan \cap query)
    BY <1>3, FilteredOnce
  <2> HIDE DEF matched
  <2>2. s = SortBy(matched, sort)
    BY DEF matched
  <2>3. OnceEach(s, scan \cap query)
    BY <1>1, <2>1, <2>2, SortByOnce
  <2>4. WeakOrder(Before(sort), scan \cap query) => InOrder(s, Before(sort))
    BY <1>1, <2>1, <2>2, SortByOrders
  <2> QED
    BY <2>3, <2>4
<1> QED
  BY <1>2, <1>3

(* Another page: the list it is cut from is one such as the pages before    *)
(* were cut from, or the same if nobody has sorted it.                      *)
LEMMA FetchKeeps ==
    ASSUME Shape, ListInv, RunsInv, NEW c \in Runs, Fetch(c)
    PROVE  RunsInv'
<1> SUFFICES ASSUME NEW q, q = run[c], NEW n, n = BookList, NEW l, l = slice[n],
                    NEW s, s = SortBy(Filtered(l, q.query), q.sort),
                    NEW limit, limit = IF q.limit = None THEN MaxBookPage ELSE q.limit,
                    NEW v, v = Window(s, q.offset, limit)
             PROVE  RunsInv'
  OBVIOUS
<1>1. n \in 1 .. Len(slice) /\ l \in Seq(Books)
  BY CurrentList DEF Shape
<1>2. /\ q.stage = "fetch" /\ q.sort \in KnownSorts /\ RunShape(q, Len(slice))
      /\ \A g \in 1 .. Len(slice) : RunWell(q, g, slice[g], indexed[g])
  BY DEF Fetch, RunsInv
<1>3. PICK torn \in BOOLEAN : torn = (q.torn \/ HalfSwapped(n))
  OBVIOUS
<1>4. PICK stage, offset :
        /\ run' = [run EXCEPT ![c] = [q EXCEPT !.stage = stage, !.offset = offset,
                                               !.items = q.items \o v, !.gens = q.gens \cup {n}, !.torn = torn]]
        /\ stage \in {"fetch", "done"}
        /\ stage = "fetch" => offset = q.offset + Len(v)
        /\ stage = "done" /\ q.limit = None =>
             v = <<>> \/ q.offset + Len(v) >= Len(Filtered(l, q.query))
  <2>1. PICK answer : answer = Answer(c)
    OBVIOUS
  <2>2. answer.items = v /\ answer.total = Len(Filtered(l, q.query))
    BY <2>1 DEF Answer
  <2>3. PICK stage : stage = IF Ends(c, answer) THEN "done" ELSE "fetch"
    OBVIOUS
  <2>4. PICK offset : offset = IF Ends(c, answer) THEN q.offset ELSE NextOffset(c, answer)
    OBVIOUS
  <2>5. run' = [run EXCEPT ![c] = [q EXCEPT !.stage = stage, !.offset = offset,
                                            !.items = q.items \o v, !.gens = q.gens \cup {n}, !.torn = torn]]
    <3>1. run' = [run EXCEPT ![c] =
                   [q EXCEPT !.stage = IF Ends(c, answer) THEN "done" ELSE "fetch",
                             !.offset = IF Ends(c, answer) THEN q.offset ELSE NextOffset(c, answer),
                             !.items = q.items \o answer.items, !.gens = q.gens \cup {n},
                             !.torn = q.torn \/ HalfSwapped(n)]]
      BY <2>1 DEF Fetch
    <3> QED
      BY <1>3, <2>2, <2>3, <2>4, <3>1
  <2>6. NextOffset(c, answer) = q.offset + Len(v)
    BY <2>2 DEF NextOffset
  <2>7. stage = "fetch" => offset = q.offset + Len(v)
    BY <2>3, <2>4, <2>6
  <2>8. stage = "done" /\ q.limit = None =>
          v = <<>> \/ q.offset + Len(v) >= Len(Filtered(l, q.query))
    BY <2>2, <2>3, <2>6 DEF Ends
  <2>9. stage \in {"fetch", "done"}
    BY <2>3
  <2> QED
    BY <2>5, <2>7, <2>8, <2>9
<1>5. slice' = slice /\ indexed' = indexed
  BY DEF Fetch
<1>6. PICK u : u = [q EXCEPT !.stage = stage, !.offset = offset, !.items = q.items \o v,
                             !.gens = q.gens \cup {n}, !.torn = torn]
  OBVIOUS
<1>7. /\ u.stage = stage /\ u.offset = offset /\ u.items = q.items \o v /\ u.gens = q.gens \cup {n}
      /\ u.torn = torn /\ u.limit = q.limit /\ u.sort = q.sort /\ u.query = q.query
      /\ u.from = q.from /\ u.steady = q.steady /\ DOMAIN u = RunFields
  BY <1>2, <1>6 DEF RunShape, RunFields
<1>8. s \in Seq(Books) /\ Len(s) = Len(Filtered(l, q.query))
  BY <1>1, <1>2, MatchedAndSorted
<1>9. v \in Seq(Books) /\ Len(v) \in Nat
  <2>1. limit \in Nat /\ limit > 0
    BY <1>2, CatalogueAssumption DEF RunShape
  <2>2. q.offset \in Nat
    BY <1>2 DEF RunShape
  <2> QED
    BY <1>8, <2>1, <2>2, WindowIs
<1>10. RunShape(u, Len(slice))
  <2>1. PICK old \in Seq(Books), from \in Nat :
          old = q.items /\ from = q.from /\ q.offset = from + Len(old)
    BY <1>2 DEF RunShape
  <2>2. old \o v \in Seq(Books) /\ Len(old \o v) = Len(old) + Len(v)
    BY <1>9, ConcatProperties
  <2>3. stage = "fetch" => offset = from + Len(old \o v)
    <3>1. from + Len(old \o v) = (from + Len(old)) + Len(v)
      <4>1. Len(old) \in Nat /\ from \in Nat
        OBVIOUS
      <4> QED
        BY <1>9, <2>2, <4>1
    <3> QED
      BY <1>4, <2>1, <3>1
  <2> QED
    BY <1>1, <1>2, <1>4, <1>7, <2>1, <2>2, <2>3 DEF RunShape
<1>11. RunWell(u, n, l, indexed[n])
  <2>1. RunWell(q, n, l, indexed[n])
    BY <1>1, <1>2
  <2>2. PICK S : S = indexed[n] \cap q.query
    OBVIOUS
  <2> SUFFICES ASSUME u.limit = None, u.gens = {n}, ~u.torn
               PROVE  \E r \in Seq(Books) :
                        /\ Collected(u, r, S)
                        /\ u.steady /\ u.stage = "fetch" => r = SortBy(Filtered(l, u.query), u.sort)
    BY <1>2, <1>7, <2>2 DEF RunWell
  <2>3. ~torn /\ ~q.torn /\ ~HalfSwapped(n) /\ q.limit = None
    BY <1>3, <1>7
  <2>4. OnceEach(l, indexed[n])
    BY <1>1, <2>3, WholeList
  <2>5. OnceEach(s, S) /\ (WeakOrder(Before(q.sort), S) => InOrder(s, Before(q.sort)))
    BY <1>1, <1>2, <2>2, <2>4, MatchedAndSorted
  <2>6. /\ v = Window(s, q.offset, MaxBookPage) /\ MaxBookPage \in Nat /\ MaxBookPage > 0
        /\ u.stage = "done" => v = <<>> \/ q.offset + Len(v) >= Len(s)
    <3>1. MaxBookPage \in Nat /\ MaxBookPage > 0
      BY CatalogueAssumption
    <3>2. v = Window(s, q.offset, MaxBookPage)
      BY <2>3
    <3>3. u.stage = "done" => v = <<>> \/ q.offset + Len(v) >= Len(s)
      BY <1>4, <1>7, <1>8, <2>3
    <3> QED
      BY <3>1, <3>2, <3>3
  <2>7. /\ q.items \in Seq(Books) /\ q.from \in Nat /\ q.offset = q.from + Len(q.items)
        /\ q.gens = {} => q.items = <<>>
    BY <1>2 DEF RunShape
  <2>8. PICK r \in Seq(Books) : Collected(q, r, S) /\ (q.steady => r = s)
    <3>1. CASE q.gens = {n}
      BY <1>2, <2>1, <2>2, <2>3, <3>1 DEF RunWell
    <3>2. CASE q.gens = {}
      <4>1. q.items = <<>> /\ DOMAIN q.items = {}
        BY <2>7, <3>2
      <4>2. Collected(q, s, S)
        BY <1>2, <2>5, <4>1 DEF Collected
      <4> QED
        BY <1>8, <4>2
    <3>3. q.gens = {n} \/ q.gens = {}
      <4>1. q.gens \cup {n} = {n}
        BY <1>7
      <4> QED
        BY <4>1
    <3> QED
      BY <3>1, <3>2, <3>3
  <2>9. Adds(v, s, q, u)
    BY <1>7, <1>8, <2>6, <2>7 DEF Adds
  <2>10. Collected(u, r, S)
    BY <2>5, <2>8, <2>9, OnePageMore
  <2> QED
    BY <1>7, <2>8, <2>10
<1>12. ASSUME NEW g \in 1 .. Len(slice) PROVE RunWell(u, g, slice[g], indexed[g])
  <2>1. CASE g = n
    BY <1>11, <2>1
  <2>2. CASE g # n
    <3>1. n \in u.gens
      BY <1>7
    <3>2. u.gens # {g}
      BY <2>2, <3>1
    <3> QED
      BY <3>2 DEF RunWell
  <2> QED
    BY <2>1, <2>2
<1> QED
  BY <1>4, <1>5, <1>6, <1>10, <1>12, OneRunKeeps DEF RunFine

(* One step per action. *)
LEMMA RunsStep ==
    ASSUME Shape, ListInv, RunsInv, [Next]_vars
    PROVE  RunsInv'
<1>1. CASE slice' = slice /\ indexed' = indexed /\ run' = run
  BY <1>1 DEF RunsInv
<1>2. ASSUME NEW S \in Scans, Refresh(S) PROVE RunsInv'
  BY <1>2, RefreshRuns
<1>3. ASSUME NEW w \in Web,
             \/ \E kind, arg, sort : PrivatePage(w, kind, arg, sort)
             \/ \E kind, sort : PageBegin(w, kind, sort)
             \/ RandomBegin(w) \/ RandomEnd(w) \/ PageEnd(w) \/ PageSent(w) \/ SortAdvance(w)
      PROVE  slice' = slice /\ indexed' = indexed /\ run' = run
  BY <1>3 DEF PrivatePage, PageBegin, RandomBegin, RandomEnd, PageEnd, PageSent, SortAdvance
<1>4. ASSUME NEW w \in Web, SwapFirst(w) PROVE RunsInv'
  <2> DEFINE g == web[w].gen
             j == web[w].j
  <2>1. /\ g \in 1 .. Len(slice) /\ j \in 2 .. Len(slice[g]) /\ slice[g] \in Seq(Books)
        /\ Store(g, j, slice[g][j - 1]) /\ indexed' = indexed
    BY <1>4, SwapFirstShape
  <2>2. j \in DOMAIN slice[g] /\ slice[g][j - 1] \in Books
    BY <2>1
  <2> QED
    BY <2>1, <2>2, StoreRuns
<1>5. ASSUME NEW w \in Web, SwapSecond(w) PROVE RunsInv'
  <2> DEFINE g == web[w].gen
             j == web[w].j
  <2>1. /\ g \in 1 .. Len(slice) /\ j \in 2 .. Len(slice[g]) /\ slice[g] \in Seq(Books)
        /\ web[w].held \in Books /\ Store(g, j - 1, web[w].held) /\ indexed' = indexed
    BY <1>5, SwapSecondShape
  <2>2. j - 1 \in DOMAIN slice[g]
    BY <2>1
  <2> QED
    BY <2>1, <2>2, StoreRuns
<1>6. ASSUME NEW c \in Runs, NEW sort, NEW query, NEW limit \in Limits \cup {None},
             NEW offset \in Offsets, RunBegin(c, sort, query, limit, offset)
      PROVE  RunsInv'
  BY <1>6, RunBeginKeeps
<1>7. ASSUME NEW c \in Runs, Fetch(c) PROVE RunsInv'
  BY <1>7, FetchKeeps
<1>8. ASSUME NEW c \in Runs, FetchFails(c) PROVE RunsInv'
  BY <1>8, FetchFailsKeeps
<1>9. Sorters \subseteq Web
  BY CatalogueAssumption
<1>10. CASE UNCHANGED vars
  BY <1>1, <1>10 DEF vars
<1> QED
  BY <1>1, <1>2, <1>3, <1>4, <1>5, <1>6, <1>7, <1>8, <1>9, <1>10 DEF Next, PageSteps

(* At first no run has asked for anything. *)
LEMMA RunsInit == ASSUME Init PROVE RunsInv
<1>1. DOMAIN run = Runs /\ \A c \in Runs : run[c] = NewRun
  BY DEF Init
<1>2. /\ DOMAIN NewRun = RunFields /\ NewRun.stage = "new" /\ NewRun.items = <<>> /\ NewRun.from = 0
      /\ NewRun.gens = {} /\ NewRun.limit = None
  BY DEF NewRun, RunFields
<1>3. RunShape(NewRun, Len(slice))
  BY <1>2, EmptyList DEF RunShape
<1>4. ASSUME NEW g PROVE RunWell(NewRun, g, slice[g], indexed[g])
  BY <1>2 DEF RunWell
<1> QED
  BY <1>1, <1>3, <1>4 DEF RunsInv

(* What a finished run has is what the command promises. *)
LEMMA CollectedLists ==
    ASSUME NEW q, q.items \in Seq(Books), q.from \in Nat, NEW r \in Seq(Books), NEW S,
           q.sort \in KnownSorts, q.stage = "done", Collected(q, r, S)
    PROVE  /\ q.sort \in KeySorts => InOrder(q.items, Before(q.sort))
           /\ Distinguishes(q.sort, S) \/ q.steady =>
                /\ ToSet(q.items) \subseteq S
                /\ Cardinality(ToSet(q.items)) = Len(q.items)
                /\ Len(q.items) = IF Cardinality(S) > q.from THEN Cardinality(S) - q.from ELSE 0
<1> SUFFICES ASSUME NEW R, R = Before(q.sort), NEW t \in Seq(Books), t = q.items,
                    NEW from \in Nat, from = q.from
             PROVE  /\ q.sort \in KeySorts => InOrder(t, R)
                    /\ Distinguishes(q.sort, S) \/ q.steady =>
                         /\ ToSet(t) \subseteq S
                         /\ Cardinality(ToSet(t)) = Len(t)
                         /\ Len(t) = IF Cardinality(S) > from THEN Cardinality(S) - from ELSE 0
  OBVIOUS
<1>1. /\ OnceEach(r, S) /\ NoneTwice(r) /\ S \subseteq Books
      /\ WeakOrder(R, S) => InOrder(r, R)
      /\ \A p \in DOMAIN t : /\ from + p <= Len(r) /\ t[p] \in S
                             /\ WeakOrder(R, S) => Alike(R, t[p], r[from + p])
                             /\ q.steady => t[p] = r[from + p]
      /\ Len(t) = IF Len(r) > from THEN Len(r) - from ELSE 0
  BY OnceEachNoneTwice DEF Collected
<1>2. \A p \in DOMAIN t : from + p \in DOMAIN r /\ r[from + p] \in S /\ p \in Nat
  <2>1. ASSUME NEW p \in DOMAIN t PROVE from + p \in DOMAIN r /\ p \in Nat
    BY <1>1
  <2> QED
    BY <1>1, <2>1 DEF OnceEach, ToSet
<1>3. ASSUME q.sort \in KeySorts PROVE InOrder(t, R)
  <2>1. WeakOrder(R, S)
    BY <1>1, <1>3, KeyOrder, WeakOrderOnPart
  <2> SUFFICES ASSUME NEW k \in DOMAIN t, NEW i \in 1 .. k - 1 PROVE <<t[k], t[i]>> \notin R
    BY DEF InOrder
  <2>2. i \in DOMAIN t
    OBVIOUS
  <2>3. /\ Alike(R, t[k], r[from + k]) /\ Alike(R, t[i], r[from + i])
        /\ t[k] \in S /\ t[i] \in S /\ r[from + k] \in S /\ r[from + i] \in S
    BY <1>1, <1>2, <2>1, <2>2
  <2>4. <<r[from + k], r[from + i]>> \notin R
    <3>1. from + k \in DOMAIN r /\ from + i \in 1 .. (from + k) - 1
      BY <1>2, SMTT(30)
    <3> QED
      BY <1>1, <2>1, <3>1 DEF InOrder
  <2> QED
    BY <2>1, <2>3, <2>4 DEF WeakOrder, Alike
<1>4. ASSUME Distinguishes(q.sort, S) \/ q.steady
      PROVE  \A p \in DOMAIN t : t[p] = r[from + p]
  <2>1. CASE q.steady
    BY <1>1, <2>1
  <2>2. CASE Distinguishes(q.sort, S)
    <3>1. WeakOrder(R, S)
      BY <1>1, <2>2, DistinguishedOrder
    <3> SUFFICES ASSUME NEW p \in DOMAIN t PROVE t[p] = r[from + p]
      OBVIOUS
    <3>2. t[p] \in S /\ r[from + p] \in S /\ Alike(R, t[p], r[from + p])
      BY <1>1, <1>2, <3>1
    <3>3. ~Less(q.sort, t[p], r[from + p]) /\ ~Less(q.sort, r[from + p], t[p])
      BY <1>1, <3>2, BeforeIsLess DEF Alike
    <3> QED
      BY <2>2, <3>2, <3>3 DEF Distinguishes
  <2> QED
    BY <1>4, <2>1, <2>2
<1>5. ASSUME Distinguishes(q.sort, S) \/ q.steady
      PROVE  ToSet(t) \subseteq S /\ Cardinality(ToSet(t)) = Len(t)
  <2>1. NoneTwice(t)
    <3> SUFFICES ASSUME NEW i \in DOMAIN t, NEW j \in DOMAIN t, i # j PROVE t[i] # t[j]
      BY DEF NoneTwice
    <3>1. from + i \in DOMAIN r /\ from + j \in DOMAIN r /\ from + i # from + j
      BY <1>2, SMTT(30)
    <3>2. r[from + i] # r[from + j]
      BY <1>1, <3>1 DEF NoneTwice
    <3> QED
      BY <1>4, <1>5, <3>2
  <2>2. ToSet(t) \subseteq S
    BY <1>1 DEF ToSet
  <2> QED
    BY <2>1, <2>2, NoneTwiceCounts
<1>6. Len(r) = Cardinality(S)
  BY <1>1 DEF OnceEach
<1> QED
  BY <1>1, <1>3, <1>5, <1>6

(* "books list" and "books search" without --limit (the loop of cmdBooks    *)
(* over handleAPIBooks) list in the order asked for; if the order tells the *)
(* books apart, or no page sorted the list between the first answer and the *)
(* last, every matching book from the offset on is listed, and none twice.  *)
THEOREM ListingsAlwaysFaithful == Spec /\ []OneAtATime => []ListingFaithful
<1>1. Init => ListInv /\ RunsInv
  BY CatalogueInit, RunsInit
<1>2. Shape /\ OneAtATime /\ (ListInv /\ RunsInv) /\ [Next]_vars => (ListInv /\ RunsInv)'
  <2>1. ASSUME Shape, OneAtATime, ListInv, RunsInv, [Next]_vars PROVE ListInv' /\ RunsInv'
    BY <2>1, CatalogueStep, RunsStep
  <2> QED
    BY <2>1
<1>3. Shape /\ RunsInv => ListingFaithful
  <2> SUFFICES ASSUME Shape, RunsInv, NEW c \in Runs, NEW g \in DOMAIN slice,
                      NEW q, q = run[c], NEW S, S = indexed[g] \cap q.query,
                      q.stage = "done", q.limit = None, q.gens = {g}, ~q.torn
               PROVE  /\ q.sort \in KeySorts => InOrder(q.items, Before(q.sort))
                      /\ Distinguishes(q.sort, S) \/ q.steady =>
                           /\ ToSet(q.items) \subseteq S
                           /\ Cardinality(ToSet(q.items)) = Len(q.items)
                           /\ Len(q.items) =
                                IF Cardinality(S) - q.from > 0 THEN Cardinality(S) - q.from ELSE 0
    BY DEF ListingFaithful
  <2>1. g \in 1 .. Len(slice)
    BY DEF Shape
  <2>2. q.items \in Seq(Books) /\ q.from \in Nat /\ RunWell(q, g, slice[g], indexed[g])
    BY <2>1 DEF RunsInv, RunShape
  <2>3. q.sort \in KnownSorts /\ \E r \in Seq(Books) : Collected(q, r, S)
    BY <2>2 DEF RunWell
  <2>4. PICK r \in Seq(Books) : Collected(q, r, S)
    BY <2>3
  <2>5. Cardinality(S) = Len(r) /\ Len(r) \in Nat
    BY <2>4 DEF Collected, OnceEach
  <2>6. Cardinality(S) - q.from > 0 <=> Cardinality(S) > q.from
    BY <2>2, <2>5
  <2> QED
    BY <2>2, <2>3, <2>4, <2>6, CollectedLists
<1> QED
  BY <1>1, <1>2, <1>3, ShapeInvariant, PTL DEF Spec

(* With one request at a time that sorts in place, so is every listing of   *)
(* the command.                                                             *)
THEOREM OneSorterLists ==
    ASSUME \A w, v \in Sorters : w = v PROVE Spec => []ListingFaithful
<1>1. Spec => []OneAtATime
  BY OneSorter
<1> QED
  BY <1>1, ListingsAlwaysFaithful, PTL

(* Nobody stores into a list if no page sorts one. *)
LEMMA NobodySorts ==
    ASSUME Sorters = {} PROVE Spec => [](\A c \in Runs : run[c].steady)
<1> DEFINE AllSteady == DOMAIN run = Runs /\ \A c \in Runs : DOMAIN run[c] = RunFields /\ run[c].steady
<1>1. ASSUME Init PROVE AllSteady
  <2>1. DOMAIN NewRun = RunFields /\ NewRun.steady
    BY DEF NewRun, RunFields
  <2> QED
    BY <1>1, <2>1 DEF Init
<1>2. ASSUME Shape, AllSteady, [Next]_vars PROVE AllSteady'
  <2>1. ASSUME NEW w \in Web PROVE ~SwapFirst(w) /\ ~SwapSecond(w)
    BY <1>2 DEF Shape, SwapFirst, SwapSecond, Sorting
  <2>2. CASE run' = run
    BY <1>2, <2>2
  <2>3. ASSUME NEW c \in Runs, NEW u, run' = [run EXCEPT ![c] = u], DOMAIN u = RunFields, u.steady
        PROVE  AllSteady'
    BY <1>2, <2>3
  <2>4. ASSUME NEW c \in Runs, NEW sort, NEW query, NEW limit, NEW offset,
               RunBegin(c, sort, query, limit, offset)
        PROVE  AllSteady'
    <3> DEFINE u == [run[c] EXCEPT !.stage = "fetch", !.sort = sort, !.query = query,
                                   !.limit = limit, !.from = offset, !.offset = offset]
    <3>1. DOMAIN u = RunFields /\ u.steady
      BY <1>2 DEF RunFields
    <3> QED
      BY <2>3, <2>4, <3>1 DEF RunBegin
  <2>5. ASSUME NEW c \in Runs, Fetch(c) PROVE AllSteady'
    <3>1. PICK stage, offset, items, gens, torn :
            run' = [run EXCEPT ![c] = [run[c] EXCEPT !.stage = stage, !.offset = offset,
                                         !.items = items, !.gens = gens, !.torn = torn]]
      <4>1. PICK answer : answer = Answer(c)
        OBVIOUS
      <4>2. PICK stage : stage = IF Ends(c, answer) THEN "done" ELSE "fetch"
        OBVIOUS
      <4>3. PICK offset :
              offset = IF Ends(c, answer) THEN run[c].offset ELSE NextOffset(c, answer)
        OBVIOUS
      <4>4. PICK torn : torn = (run[c].torn \/ HalfSwapped(BookList))
        OBVIOUS
      <4>5. run' = [run EXCEPT ![c] = [run[c] EXCEPT !.stage = stage, !.offset = offset,
                      !.items = run[c].items \o answer.items,
                      !.gens = run[c].gens \cup {BookList}, !.torn = torn]]
        BY <2>5, <4>1, <4>2, <4>3, <4>4 DEF Fetch
      <4> QED
        BY <4>5
    <3> DEFINE u == [run[c] EXCEPT !.stage = stage, !.offset = offset,
                                   !.items = items, !.gens = gens, !.torn = torn]
    <3>2. DOMAIN u = RunFields /\ u.steady
      BY <1>2 DEF RunFields
    <3> QED
      BY <2>3, <3>1, <3>2
  <2>6. ASSUME NEW c \in Runs, FetchFails(c) PROVE AllSteady'
    <3> DEFINE u == [NewRun EXCEPT !.stage = "failed"]
    <3>1. DOMAIN u = RunFields /\ u.steady
      BY DEF NewRun, RunFields
    <3> QED
      BY <2>3, <2>6, <3>1 DEF FetchFails
  <2>7. ASSUME NEW w \in Web,
               \/ \E kind, arg, sort : PrivatePage(w, kind, arg, sort)
               \/ RandomBegin(w) \/ RandomEnd(w) \/ PageEnd(w) \/ PageSent(w) \/ SortAdvance(w)
        PROVE  run' = run
    BY <2>7 DEF PrivatePage, RandomBegin, RandomEnd, PageEnd, PageSent, SortAdvance
  <2>8. ASSUME NEW S, Refresh(S) PROVE run' = run
    BY <2>8 DEF Refresh
  <2>9. CASE UNCHANGED vars
    BY <2>2, <2>9 DEF vars
  <2> HIDE DEF AllSteady
  <2> QED
    BY <1>2, <2>1, <2>2, <2>4, <2>5, <2>6, <2>7, <2>8, <2>9 DEF Next, PageSteps
<1>3. AllSteady => \A c \in Runs : run[c].steady
  OBVIOUS
<1> HIDE DEF AllSteady
<1>4. Init => AllSteady
  BY <1>1
<1>5. Shape /\ AllSteady /\ [Next]_vars => AllSteady'
  BY <1>2
<1> QED
  BY <1>3, <1>4, <1>5, ShapeInvariant, PTL DEF Spec

(* EveryBookListed, the comment on the loop of cmdBooks, is false of the    *)
(* code, but pages that sort the shared list are the only reason: without   *)
(* them every matching book is listed.                                      *)
THEOREM OnlySortsMissBooks ==
    ASSUME Sorters = {} PROVE Spec => []EveryBookListed
<1> DEFINE AllSteady == \A c \in Runs : run[c].steady
<1>1. ListingFaithful /\ Shape /\ AllSteady => EveryBookListed
  <2> SUFFICES ASSUME ListingFaithful, Shape, AllSteady, NEW c \in Runs, NEW g \in DOMAIN slice,
                      run[c].stage = "done", run[c].limit = None, run[c].from = 0,
                      run[c].gens = {g}, ~run[c].torn
               PROVE  indexed[g] \cap run[c].query \subseteq ToSet(run[c].items)
    BY DEF EveryBookListed
  <2> DEFINE S == indexed[g] \cap run[c].query
             listed == run[c].items
  <2>1. /\ ToSet(listed) \subseteq S /\ Cardinality(ToSet(listed)) = Len(listed)
        /\ Len(listed) = IF Cardinality(S) - 0 > 0 THEN Cardinality(S) - 0 ELSE 0
    BY DEF ListingFaithful
  <2>2. IsFiniteSet(S) /\ Cardinality(S) \in Nat
    <3>1. indexed[g] \subseteq Books
      BY DEF Shape
    <3> QED
      BY <3>1, FS_Subset, FS_CardinalityType, BooklistAssumption
  <2> HIDE DEF S
  <2>3. Cardinality(ToSet(listed)) = Cardinality(S)
    BY <2>1, <2>2
  <2>4. ToSet(listed) = S
    BY <2>1, <2>2, <2>3, FS_Subset
  <2> QED
    BY <2>4 DEF S
<1>2. Spec => []ListingFaithful
  BY OneSorterLists
<1>3. Spec => []AllSteady
  BY NobodySorts
<1> HIDE DEF AllSteady
<1> QED
  BY <1>1, <1>2, <1>3, ShapeInvariant, PTL

=============================================================================
