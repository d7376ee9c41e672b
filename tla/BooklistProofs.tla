--------------------------- MODULE BooklistProofs ---------------------------
(***************************************************************************)
(* What the filters and sorts of booklist return, for every list.  Their   *)
(* loops are recursive functions over the positions of a list; what holds  *)
(* of them is shown by induction over those positions, PrefixInduction:    *)
(* stated of a set of positions, it rests on NatLessThanWellFounded.       *)
(***************************************************************************)
EXTENDS Booklist, FiniteSetTheorems, SequenceTheorems, WellFoundedInduction, TLAPS

(***************************************************************************)
(* Induction, and the loops                                                *)
(***************************************************************************)

(* A set that has 0 and, with each position before the last, the next one,  *)
(* has all positions: a least missing one would follow one it has.          *)
LEMMA PrefixInduction ==
    ASSUME NEW N \in Nat, NEW G, 0 \in G, \A n \in 0 .. N - 1 : n \in G => n + 1 \in G
    PROVE  \A n \in 0 .. N : n \in G
<1> SUFFICES ASSUME {n \in 0 .. N : n \notin G} # {} PROVE FALSE
  OBVIOUS
<1> DEFINE M == {n \in 0 .. N : n \notin G}
<1>1. M \subseteq Nat /\ M # {}
  OBVIOUS
<1>2. PICK least \in M : \A m \in M : ~(<<m, least>> \in OpToRel(<, Nat))
  BY <1>1, NatLessThanWellFounded, WFMin
<1>3. \A m \in M : m >= least
  <2> SUFFICES ASSUME NEW m \in M, m < least PROVE FALSE
    OBVIOUS
  <2>1. <<m, least>> \in OpToRel(<, Nat)
    BY <1>1 DEF OpToRel
  <2> QED
    BY <1>2, <2>1
<1>4. least # 0 /\ least - 1 \in 0 .. N - 1
  OBVIOUS
<1>5. least - 1 \in G
  BY <1>3, <1>4
<1> QED
  BY <1>4, <1>5

(* The states of a loop over s before its first n rounds and after them. *)
States(f, s, step, n) ==
    f = [m \in 0 .. n |-> IF m = 0 THEN <<>> ELSE step[f[m - 1]][s[m]]]

(* That is, one follows from the other, ... *)
LEMMA EachRound ==
    ASSUME NEW s, NEW step, NEW n \in Nat, NEW f, States(f, s, step, n)
    PROVE  f[0] = <<>> /\ \A m \in 1 .. n : f[m] = step[f[m - 1]][s[m]]
BY DEF States

(* ... and that is all it says. *)
LEMMA StatesAre ==
    ASSUME NEW s, NEW step, NEW n \in Nat, NEW f, DOMAIN f = 0 .. n, f = [m \in 0 .. n |-> f[m]],
           f[0] = <<>>, \A m \in 1 .. n : f[m] = step[f[m - 1]][s[m]]
    PROVE  States(f, s, step, n)
<1> DEFINE h == [m \in 0 .. n |-> IF m = 0 THEN <<>> ELSE step[f[m - 1]][s[m]]]
<1>1. ASSUME NEW m \in 0 .. n PROVE f[m] = h[m]
  <2>1. CASE m = 0
    BY <2>1
  <2>2. CASE m # 0
    <3>1. m \in 1 .. n
      BY <2>2
    <3>2. h[m] = step[f[m - 1]][s[m]]
      BY <2>2
    <3> QED
      BY <3>1, <3>2
  <2> QED
    BY <2>1, <2>2
<1>2. h = [m \in 0 .. n |-> h[m]]
  OBVIOUS
<1> HIDE DEF h
<1>3. f = h
  BY <1>1, <1>2
<1> QED
  BY <1>3 DEF States, h

(* One more round. *)
LEMMA OneMoreRound ==
    ASSUME NEW s, NEW step, NEW n \in Nat, NEW f, States(f, s, step, n)
    PROVE  \E g : States(g, s, step, n + 1)
<1>1. f[0] = <<>> /\ \A m \in 1 .. n : f[m] = step[f[m - 1]][s[m]]
  BY DEF States
<1> DEFINE last == step[f[n]][s[n + 1]]
           g == [m \in 0 .. n + 1 |-> IF m = n + 1 THEN last ELSE f[m]]
<1>2. DOMAIN g = 0 .. n + 1 /\ g = [m \in 0 .. n + 1 |-> g[m]]
  OBVIOUS
<1>3. g[n + 1] = last /\ \A m \in 0 .. n : g[m] = f[m]
  OBVIOUS
<1> HIDE DEF g
<1>4. ASSUME NEW m \in 1 .. n + 1 PROVE g[m] = step[g[m - 1]][s[m]]
  BY <1>1, <1>3
<1>5. g[0] = <<>>
  BY <1>1, <1>3
<1>6. n + 1 \in Nat /\ \A m \in 1 .. n + 1 : g[m] = step[g[m - 1]][s[m]]
  BY <1>4
<1>7. States(g, s, step, n + 1)
  BY <1>2, <1>5, <1>6, StatesAre
<1> QED
  BY <1>7

(* So a loop over s has its states, ... *)
LEMMA LoopExists ==
    ASSUME NEW s, NEW step, NEW N \in Nat
    PROVE  \E f : States(f, s, step, N)
<1> DEFINE G == {m \in 0 .. N : \E f : States(f, s, step, m)}
<1>1. 0 \in G
  <2> DEFINE f == [n \in 0 .. 0 |-> <<>>]
  <2>1. States(f, s, step, 0)
    BY DEF States
  <2> HIDE DEF f
  <2> QED
    BY <2>1
<1>2. \A m \in 0 .. N - 1 : m \in G => m + 1 \in G
  BY OneMoreRound
<1>3. \A m \in 0 .. N : m \in G
  <2> HIDE DEF G
  <2> QED
    BY <1>1, <1>2, PrefixInduction
<1> QED
  BY <1>3

(* ... the last of which is what Built returns. *)
LEMMA Rounds ==
    ASSUME NEW s \in Seq(Books), NEW step
    PROVE  \E f : /\ f[0] = <<>> /\ Built(s, step) = f[Len(s)]
                  /\ \A n \in 1 .. Len(s) : f[n] = step[f[n - 1]][s[n]]
<1> DEFINE f == CHOOSE g : States(g, s, step, Len(s))
<1>0. Len(s) \in Nat /\ \E g : States(g, s, step, Len(s))
  BY LoopExists, SMTT(30)
<1>1. States(f, s, step, Len(s))
  BY <1>0
<1>2. Built(s, step) = f[Len(s)]
  BY DEF Built, States
<1> HIDE DEF f
<1>3. f[0] = <<>> /\ \A n \in 1 .. Len(s) : f[n] = step[f[n - 1]][s[n]]
  BY <1>0, <1>1, EachRound
<1> QED
  BY <1>2, <1>3

(***************************************************************************)
(* Lists without repetition                                                *)
(***************************************************************************)

NoneTwice(s) == \A i, j \in DOMAIN s : i # j => s[i] # s[j]

(* The first n books of a list. *)
Upto(s, n) == {s[k] : k \in 1 .. n}

(* One more book, which is a new one if the list has none twice. *)
LEMMA UptoNext ==
    ASSUME NEW s \in Seq(Books), NEW n \in 1 .. Len(s)
    PROVE  /\ Upto(s, n) = Upto(s, n - 1) \cup {s[n]}
           /\ NoneTwice(s) => s[n] \notin Upto(s, n - 1)
<1>1. 1 .. n = (1 .. n - 1) \cup {n}
  OBVIOUS
<1> QED
  BY <1>1 DEF Upto, NoneTwice

(* All of them are its books. *)
LEMMA UptoAll ==
    ASSUME NEW s \in Seq(Books)
    PROVE  Upto(s, 0) = {} /\ Upto(s, Len(s)) = ToSet(s) /\ ToSet(s) \subseteq Books
BY DEF Upto, ToSet

(* There are n positions. *)
LEMMA IntervalCounts ==
    ASSUME NEW n \in Nat PROVE IsFiniteSet(1 .. n) /\ Cardinality(1 .. n) = n
BY FS_Interval

(* The empty list has no books. *)
LEMMA EmptyList == <<>> \in Seq(Books) /\ Len(<<>>) = 0 /\ ToSet(<<>>) = {} /\ NoneTwice(<<>>)
BY DEF ToSet, NoneTwice

(* A list that has each book of a set once is as long as the set is big, ... *)
LEMMA NoneTwiceCounts ==
    ASSUME NEW s \in Seq(Books), NoneTwice(s)
    PROVE  IsFiniteSet(ToSet(s)) /\ Len(s) = Cardinality(ToSet(s))
<1> DEFINE T == ToSet(s)
<1>1. s \in [1 .. Len(s) -> T] /\ \A b \in T : \E i \in 1 .. Len(s) : s[i] = b
  BY DEF ToSet
<1>2. s \in Bijection(1 .. Len(s), T)
  BY <1>1 DEF NoneTwice, Bijection, Injection, Surjection, IsInjective
<1>3. IsFiniteSet(1 .. Len(s)) /\ Cardinality(1 .. Len(s)) = Len(s)
  BY LenProperties, IntervalCounts
<1> HIDE DEF T
<1>4. IsFiniteSet(T) /\ Cardinality(T) = Cardinality(1 .. Len(s))
  BY <1>2, <1>3, FS_Bijection DEF ExistsBijection
<1> QED
  BY <1>3, <1>4 DEF T

(* ... and the other way round. *)
LEMMA OnceEachNoneTwice ==
    ASSUME NEW s \in Seq(Books), NEW S, OnceEach(s, S)
    PROVE  NoneTwice(s) /\ S \subseteq Books
<1>1. s \in [1 .. Len(s) -> S] /\ \A b \in S : \E i \in 1 .. Len(s) : s[i] = b
  BY DEF ToSet, OnceEach
<1>2. s \in Surjection(1 .. Len(s), S)
  BY <1>1 DEF Surjection
<1>3. IsFiniteSet(1 .. Len(s)) /\ Cardinality(1 .. Len(s)) = Len(s)
  BY LenProperties, IntervalCounts
<1>4. S \subseteq Books
  BY UptoAll DEF OnceEach
<1>5. IsFiniteSet(S)
  BY <1>4, FS_Subset, BooklistAssumption
<1>6. s \in Injection(1 .. Len(s), S)
  BY <1>2, <1>3, <1>5, FS_Surjection DEF OnceEach
<1> QED
  BY <1>4, <1>6 DEF NoneTwice, Injection, IsInjective

(* A list with another one's books and length repeats none if that one      *)
(* repeats none.                                                            *)
LEMMA OnceEachKept ==
    ASSUME NEW s \in Seq(Books), NEW t \in Seq(Books), NEW S, OnceEach(s, S),
           Len(t) = Len(s), ToSet(t) = ToSet(s)
    PROVE  OnceEach(t, S)
BY DEF OnceEach

(* Append, by what it does to the books of a list. *)
LEMMA Appended ==
    ASSUME NEW t \in Seq(Books), NEW b \in Books
    PROVE  /\ Append(t, b) \in Seq(Books) /\ ToSet(Append(t, b)) = ToSet(t) \cup {b}
           /\ NoneTwice(t) /\ b \notin ToSet(t) => NoneTwice(Append(t, b))
<1> DEFINE u == Append(t, b)
<1>1. /\ u \in Seq(Books) /\ Len(u) = Len(t) + 1
      /\ \A k \in 1 .. Len(t) : u[k] = t[k]
      /\ u[Len(t) + 1] = b
  OBVIOUS
<1> HIDE DEF u
<1>2. DOMAIN u = DOMAIN t \cup {Len(t) + 1} /\ DOMAIN t = 1 .. Len(t)
  BY <1>1
<1>3. ToSet(u) = ToSet(t) \cup {b}
  BY <1>1, <1>2 DEF ToSet
<1>4. NoneTwice(t) /\ b \notin ToSet(t) => NoneTwice(u)
  BY <1>1, <1>2 DEF ToSet, NoneTwice
<1> QED
  BY <1>1, <1>3, <1>4 DEF u

(***************************************************************************)
(* BookList.Filtered                                                       *)
(***************************************************************************)

(* Filtered keeps the books of the filter, and repeats none that the list   *)
(* does not repeat.                                                         *)
LEMMA FilteredTakes ==
    ASSUME NEW s \in Seq(Books), NEW S
    PROVE  /\ Filtered(s, S) \in Seq(Books) /\ ToSet(Filtered(s, S)) = ToSet(s) \cap S
           /\ NoneTwice(s) => NoneTwice(Filtered(s, S))
<1>1. PICK f : /\ f[0] = <<>> /\ Filtered(s, S) = f[Len(s)]
               /\ \A n \in 1 .. Len(s) : f[n] = Taking(S)[f[n - 1]][s[n]]
  BY Rounds DEF Filtered
<1> DEFINE G == {n \in 0 .. Len(s) :
                   /\ f[n] \in Seq(Books) /\ ToSet(f[n]) = Upto(s, n) \cap S
                   /\ NoneTwice(s) => NoneTwice(f[n])}
<1>4. Len(s) \in Nat
  OBVIOUS
<1>2. 0 \in G
  <2>1. f[0] \in Seq(Books) /\ ToSet(f[0]) = {} /\ NoneTwice(f[0])
    BY <1>1, EmptyList
  <2>2. Upto(s, 0) = {}
    BY UptoAll
  <2> QED
    BY <1>4, <2>1, <2>2
<1>3. ASSUME NEW n \in 0 .. Len(s) - 1, n \in G PROVE n + 1 \in G
  <2> DEFINE t == f[n]
             b == s[n + 1]
  <2>1. /\ t \in Seq(Books) /\ ToSet(t) = Upto(s, n) \cap S
        /\ NoneTwice(s) => NoneTwice(t)
    BY <1>3
  <2>2. n + 1 \in 1 .. Len(s) /\ b \in Books /\ n + 1 - 1 = n
    OBVIOUS
  <2>3. Upto(s, n + 1) = Upto(s, n) \cup {b} /\ (NoneTwice(s) => b \notin Upto(s, n))
    BY <2>2, UptoNext
  <2>a. f[n + 1] = Taking(S)[t][b]
    BY <1>1, <2>2
  <2>4. f[n + 1] = IF b \in S THEN Append(t, b) ELSE t
    BY <2>1, <2>2, <2>a DEF Taking
  <2> HIDE DEF t, b
  <2>5. f[n + 1] \in Seq(Books) /\ ToSet(f[n + 1]) = Upto(s, n + 1) \cap S
    BY <2>1, <2>2, <2>3, <2>4, Appended
  <2>6. NoneTwice(s) => NoneTwice(f[n + 1])
    BY <2>1, <2>2, <2>3, <2>4, Appended
  <2> QED
    BY <2>2, <2>5, <2>6
<1>5. \A n \in 0 .. Len(s) : n \in G
  <2> HIDE DEF G
  <2> QED
    BY <1>2, <1>3, <1>4, PrefixInduction
<1>6. Len(s) \in G
  BY <1>4, <1>5
<1> QED
  BY <1>1, <1>6, UptoAll

(* So the filter of a whole list has each book of it that matches once. *)
THEOREM FilteredOnce ==
    ASSUME NEW s \in Seq(Books), NEW S, NEW T, OnceEach(s, S)
    PROVE  Filtered(s, T) \in Seq(Books) /\ OnceEach(Filtered(s, T), S \cap T)
<1> DEFINE t == Filtered(s, T)
<1>1. t \in Seq(Books) /\ ToSet(t) = S \cap T /\ NoneTwice(t)
  BY FilteredTakes, OnceEachNoneTwice DEF OnceEach
<1> HIDE DEF t
<1>2. OnceEach(t, S \cap T)
  BY <1>1, NoneTwiceCounts DEF OnceEach
<1> QED
  BY <1>1, <1>2 DEF t

(***************************************************************************)
(* The insertion sort                                                      *)
(***************************************************************************)

(* A set of positions has a last one. *)
LEMMA LastPosition ==
    ASSUME NEW N \in Nat, NEW T \in SUBSET (1 .. N), T # {}
    PROVE  Max(T) \in T /\ \A k \in T : Max(T) >= k
<1> DEFINE G == {n \in 0 .. N : \A U \in SUBSET (1 .. n) :
                                  U # {} => \E m \in U : \A k \in U : m >= k}
<1>1. 0 \in G
  <2>1. \A U \in SUBSET (1 .. 0) : U = {}
    OBVIOUS
  <2>2. 0 \in 0 .. N
    OBVIOUS
  <2> QED
    BY <2>1, <2>2
<1>2. ASSUME NEW n \in 0 .. N - 1, n \in G PROVE n + 1 \in G
  <2> SUFFICES ASSUME NEW U \in SUBSET (1 .. n + 1), U # {}
               PROVE  \E m \in U : \A k \in U : m >= k
    OBVIOUS
  <2>1. CASE n + 1 \in U
    BY <2>1
  <2>2. CASE n + 1 \notin U
    <3>1. U \in SUBSET (1 .. n)
      BY <2>2
    <3> QED
      BY <1>2, <3>1
  <2> QED
    BY <2>1, <2>2
<1>3. N \in G
  <2> HIDE DEF G
  <2> QED
    BY <1>1, <1>2, PrefixInduction
<1>4. \E m \in T : \A k \in T : m >= k
  BY <1>3
<1> QED
  BY <1>4 DEF Max

(* InsertAt, by what it does to the books of a list. *)
LEMMA Inserted ==
    ASSUME NEW t \in Seq(Books), NEW b \in Books, NEW p \in 1 .. Len(t) + 1
    PROVE  \A u : u = InsertAt(t, p, b) =>
           /\ u \in Seq(Books) /\ Len(u) = Len(t) + 1
           /\ \A k \in 1 .. p - 1 : u[k] = t[k]
           /\ u[p] = b
           /\ \A k \in p + 1 .. Len(t) + 1 : u[k] = t[k - 1]
<1> TAKE u
<1> HAVE u = InsertAt(t, p, b)
<1> DEFINE l == SubSeq(t, 1, p - 1)
           r == SubSeq(t, p, Len(t))
<1>1. l \in Seq(Books) /\ Len(l) = p - 1 /\ \A k \in 1 .. p - 1 : l[k] = t[k]
  BY SubSeqProperties
<1>2. /\ r \in Seq(Books) /\ Len(r) = Len(t) + 1 - p
      /\ \A k \in 1 .. Len(t) + 1 - p : r[k] = t[p + k - 1]
  BY SubSeqProperties
<1>3. u = (l \o <<b>>) \o r
  BY DEF InsertAt
<1> HIDE DEF l, r
<1>4. /\ l \o <<b>> \in Seq(Books) /\ Len(l \o <<b>>) = p
      /\ \A k \in 1 .. p - 1 : (l \o <<b>>)[k] = t[k]
      /\ (l \o <<b>>)[p] = b
  BY <1>1
<1> DEFINE lb == l \o <<b>>
<1>5. /\ lb \in Seq(Books) /\ Len(lb) = p /\ \A k \in 1 .. p - 1 : lb[k] = t[k]
      /\ lb[p] = b /\ u = lb \o r
  BY <1>3, <1>4
<1> HIDE DEF lb
<1>b. lb \in Seq(Books) /\ r \in Seq(Books) /\ u = lb \o r
  BY <1>2, <1>5
<1>a. /\ u \in Seq(Books) /\ Len(u) = Len(lb) + Len(r)
      /\ \A k \in 1 .. Len(lb) + Len(r) : u[k] = IF k <= Len(lb) THEN lb[k] ELSE r[k - Len(lb)]
  BY <1>b, ConcatProperties, SMTT(30)
<1>6. /\ u \in Seq(Books) /\ Len(u) = Len(t) + 1
      /\ \A k \in 1 .. Len(u) : u[k] = IF k <= p THEN lb[k] ELSE r[k - p]
  BY <1>2, <1>5, <1>a
<1>7. ASSUME NEW k \in p + 1 .. Len(t) + 1 PROVE u[k] = t[k - 1]
  <2>1. u[k] = r[k - p] /\ k - p \in 1 .. Len(t) + 1 - p /\ p + (k - p) - 1 = k - 1
    BY <1>6
  <2> QED
    BY <1>2, <2>1
<1> QED
  BY <1>5, <1>6, <1>7

(* Where a book stops on its way to the left. *)
LEMMA StopsAt ==
    ASSUME NEW R, NEW t \in Seq(Books), NEW b \in Books
    PROVE  \E p \in 1 .. Len(t) + 1 :
             /\ Inserting(R)[t][b] = InsertAt(t, p, b)
             /\ p > 1 => <<b, t[p - 1]>> \notin R
             /\ \A k \in p .. Len(t) : <<b, t[k]>> \in R
<1> DEFINE stops == {k \in DOMAIN t : <<b, t[k]>> \notin R}
           p == IF stops = {} THEN 1 ELSE Max(stops) + 1
<1>1. Inserting(R)[t][b] = InsertAt(t, p, b)
  BY DEF Inserting
<1>2. stops \in SUBSET (1 .. Len(t)) /\ Len(t) \in Nat
  OBVIOUS
<1>3. CASE stops = {}
  <2>1. p = 1 /\ \A k \in 1 .. Len(t) : <<b, t[k]>> \in R
    BY <1>3
  <2> HIDE DEF p
  <2> QED
    BY <1>1, <1>2, <2>1
<1>4. CASE stops # {}
  <2>1. Max(stops) \in stops /\ \A k \in stops : Max(stops) >= k
    BY <1>2, <1>4, LastPosition
  <2>2. PICK m \in stops : m = Max(stops) /\ \A k \in stops : m >= k
    BY <2>1
  <2>3. p = m + 1
    BY <1>4, <2>2
  <2>4. m \in 1 .. Len(t) /\ <<b, t[m]>> \notin R
    OBVIOUS
  <2>5. ASSUME NEW k \in m + 1 .. Len(t) PROVE <<b, t[k]>> \in R
    <3>1. k \in DOMAIN t /\ ~(m >= k)
      BY <2>4
    <3> QED
      BY <2>2, <3>1
  <2> HIDE DEF p, stops
  <2>6. p \in 1 .. Len(t) + 1 /\ p - 1 = m
    BY <1>2, <2>3, <2>4
  <2> QED
    BY <1>1, <2>3, <2>4, <2>5, <2>6
<1> QED
  BY <1>3, <1>4

(* R compares the books of S like keys: "not before" is transitive. *)
WeakOrder(R, S) ==
    \A a, b, c \in S : /\ <<a, b>> \in R => <<b, a>> \notin R
                       /\ <<a, c>> \in R => <<a, b>> \in R \/ <<b, c>> \in R

(* Inserting a book keeps the others where they are among themselves, and a *)
(* list in order in order.  Books that R does not tell apart stay in the    *)
(* order B that the list had before.                                        *)
LEMMA InsertingKeeps ==
    ASSUME NEW R, NEW t \in Seq(Books), NEW b \in Books
    PROVE  LET u == Inserting(R)[t][b] IN
           /\ u \in Seq(Books) /\ Len(u) = Len(t) + 1 /\ ToSet(u) = ToSet(t) \cup {b}
           /\ \A B : /\ WeakOrder(R, ToSet(t) \cup {b})
                     /\ InOrder(t, ThenBy(R, B))
                     /\ \A x \in ToSet(t) : <<b, x>> \notin B
                     => InOrder(u, ThenBy(R, B))
<1> SUFFICES ASSUME NEW u, u = Inserting(R)[t][b]
             PROVE  /\ u \in Seq(Books) /\ Len(u) = Len(t) + 1 /\ ToSet(u) = ToSet(t) \cup {b}
                    /\ \A B : /\ WeakOrder(R, ToSet(t) \cup {b})
                              /\ InOrder(t, ThenBy(R, B))
                              /\ \A x \in ToSet(t) : <<b, x>> \notin B
                              => InOrder(u, ThenBy(R, B))
  OBVIOUS
<1>0. Len(t) \in Nat /\ DOMAIN t = 1 .. Len(t) /\ \A k \in 1 .. Len(t) : t[k] \in ToSet(t) /\ t[k] \in Books
  BY DEF ToSet
<1>1. PICK p \in 1 .. Len(t) + 1 :
        /\ u = InsertAt(t, p, b)
        /\ p > 1 => <<b, t[p - 1]>> \notin R
        /\ \A k \in p .. Len(t) : <<b, t[k]>> \in R
  BY StopsAt
<1>a. u = InsertAt(t, p, b)
  BY <1>1
<1>2. /\ u \in Seq(Books) /\ Len(u) = Len(t) + 1
      /\ \A k \in 1 .. p - 1 : u[k] = t[k]
      /\ u[p] = b
      /\ \A k \in p + 1 .. Len(t) + 1 : u[k] = t[k - 1]
  <2>1. \A v : v = InsertAt(t, p, b) =>
           /\ v \in Seq(Books) /\ Len(v) = Len(t) + 1
           /\ \A k \in 1 .. p - 1 : v[k] = t[k]
           /\ v[p] = b
           /\ \A k \in p + 1 .. Len(t) + 1 : v[k] = t[k - 1]
    BY Inserted, ZenonT(30)
  <2> QED
    BY <1>a, <2>1
<1>3. ToSet(u) = ToSet(t) \cup {b}
  <2>1. \A x \in ToSet(u) : x \in ToSet(t) \cup {b}
    <3> SUFFICES ASSUME NEW k \in 1 .. Len(t) + 1 PROVE u[k] \in ToSet(t) \cup {b}
      BY <1>2, SMTT(30) DEF ToSet
    <3>1. CASE k < p
      BY <1>0, <1>2, <3>1
    <3>2. CASE k = p
      BY <1>2, <3>2
    <3>3. CASE k > p
      BY <1>0, <1>2, <3>3
    <3> QED
      BY <3>1, <3>2, <3>3
  <2>2. b \in ToSet(u)
    BY <1>2 DEF ToSet
  <2>3. ASSUME NEW k \in 1 .. Len(t) PROVE t[k] \in ToSet(u)
    <3>1. CASE k < p
      <4>1. k \in DOMAIN u /\ u[k] = t[k]
        BY <1>0, <1>2, <3>1
      <4> QED
        BY <4>1 DEF ToSet
    <3>2. CASE k >= p
      <4>1. k + 1 \in DOMAIN u /\ u[k + 1] = t[k]
        BY <1>0, <1>2, <3>2
      <4> QED
        BY <4>1 DEF ToSet
    <3> QED
      BY <1>0, <3>1, <3>2
  <2>4. \A x \in ToSet(t) : x \in ToSet(u)
    BY <1>0, <2>3 DEF ToSet
  <2> QED
    BY <2>1, <2>2, <2>4
<1>4. ASSUME NEW B, WeakOrder(R, ToSet(t) \cup {b}), InOrder(t, ThenBy(R, B)),
             \A x \in ToSet(t) : <<b, x>> \notin B,
             NEW k \in DOMAIN u, NEW i \in 1 .. k - 1
      PROVE  <<u[k], u[i]>> \notin ThenBy(R, B)
  <2>0. k \in 1 .. Len(t) + 1 /\ i \in 1 .. Len(t) /\ i < k
    BY <1>0, <1>2
  <2>1. \A m \in 1 .. Len(t) : \A n \in 1 .. m - 1 :
          /\ <<t[m], t[n]>> \notin R
          /\ <<t[n], t[m]>> \notin R => <<t[m], t[n]>> \notin B
    BY <1>0, <1>4 DEF InOrder, ThenBy
  <2>2. CASE k = p
    <3>1. u[k] = b /\ u[i] = t[i] /\ i \in 1 .. p - 1 /\ p - 1 \in 1 .. Len(t)
      BY <1>0, <1>2, <2>0, <2>2
    <3>2. <<b, t[i]>> \notin R
      <4>1. CASE i = p - 1
        BY <1>1, <3>1, <4>1
      <4>2. CASE i # p - 1
        <5>a. p > 1 /\ i \in 1 .. (p - 1) - 1
          BY <3>1, <4>2
        <5>1. <<t[p - 1], t[i]>> \notin R /\ <<b, t[p - 1]>> \notin R
          BY <1>1, <2>1, <3>1, <5>a
        <5>2. t[p - 1] \in ToSet(t) /\ t[i] \in ToSet(t)
          BY <1>0, <3>1
        <5> QED
          BY <1>4, <5>1, <5>2 DEF WeakOrder
      <4> QED
        BY <4>1, <4>2
    <3>3. <<b, t[i]>> \notin B
      BY <1>0, <1>4, <3>1
    <3> QED
      BY <3>1, <3>2, <3>3 DEF ThenBy
  <2>3. CASE i = p
    <3>1. u[i] = b /\ u[k] = t[k - 1] /\ k - 1 \in p .. Len(t) /\ k - 1 \in 1 .. Len(t)
      BY <1>0, <1>2, <2>0, <2>3
    <3>2. <<b, t[k - 1]>> \in R /\ t[k - 1] \in ToSet(t)
      BY <1>0, <1>1, <3>1
    <3>3. <<t[k - 1], b>> \notin R
      BY <1>4, <3>2 DEF WeakOrder
    <3> QED
      BY <3>1, <3>2, <3>3 DEF ThenBy
  <2>4. CASE k # p /\ i # p
    <3>1. PICK m \in 1 .. Len(t) : \E n \in 1 .. m - 1 : u[k] = t[m] /\ u[i] = t[n]
      <4>1. CASE k < p
        BY <1>0, <1>2, <2>0, <4>1
      <4>2. CASE k > p /\ i < p
        <5>1. u[k] = t[k - 1] /\ u[i] = t[i] /\ k - 1 \in 1 .. Len(t) /\ i \in 1 .. (k - 1) - 1
          BY <1>0, <1>2, <2>0, <4>2, SMTT(30)
        <5> QED
          BY <5>1
      <4>3. CASE k > p /\ i > p
        <5>1. /\ u[k] = t[k - 1] /\ u[i] = t[i - 1]
              /\ k - 1 \in 1 .. Len(t) /\ i - 1 \in 1 .. (k - 1) - 1
          BY <1>0, <1>2, <2>0, <4>3, SMTT(30)
        <5> QED
          BY <5>1
      <4> QED
        BY <2>0, <2>4, <4>1, <4>2, <4>3
    <3>2. PICK n \in 1 .. m - 1 : u[k] = t[m] /\ u[i] = t[n]
      BY <3>1
    <3> QED
      BY <2>1, <3>2 DEF ThenBy
  <2> QED
    BY <2>2, <2>3, <2>4
<1> QED
  BY <1>2, <1>3, <1>4 DEF InOrder

(* A part of a set compared like keys is. *)
LEMMA WeakOrderOnPart ==
    ASSUME NEW R, NEW S, NEW T, T \subseteq S, WeakOrder(R, S) PROVE WeakOrder(R, T)
BY DEF WeakOrder

(* After n rounds the sort has placed the first n books. *)
LEMMA SortRounds ==
    ASSUME NEW s \in Seq(Books), NEW R, NEW B
    PROVE  /\ SortedWith(s, R) \in Seq(Books)
           /\ Len(SortedWith(s, R)) = Len(s) /\ ToSet(SortedWith(s, R)) = ToSet(s)
           /\ WeakOrder(R, ToSet(s)) /\ InOrder(s, B) => InOrder(SortedWith(s, R), ThenBy(R, B))
<1>1. PICK f : /\ f[0] = <<>> /\ SortedWith(s, R) = f[Len(s)]
               /\ \A n \in 1 .. Len(s) : f[n] = Inserting(R)[f[n - 1]][s[n]]
  BY Rounds DEF SortedWith
<1> DEFINE Orderly == WeakOrder(R, ToSet(s)) /\ InOrder(s, B)
           G == {n \in 0 .. Len(s) :
                   /\ f[n] \in Seq(Books) /\ Len(f[n]) = n /\ ToSet(f[n]) = Upto(s, n)
                   /\ Orderly => InOrder(f[n], ThenBy(R, B))}
<1>2. Len(s) \in Nat
  OBVIOUS
<1>3. 0 \in G
  <2>1. f[0] \in Seq(Books) /\ Len(f[0]) = 0 /\ ToSet(f[0]) = {}
    BY <1>1, EmptyList
  <2>2. Upto(s, 0) = {}
    BY UptoAll
  <2>3. InOrder(f[0], ThenBy(R, B))
    BY <2>1 DEF InOrder
  <2>4. 0 \in 0 .. Len(s)
    BY <1>2
  <2> HIDE DEF Orderly
  <2> QED
    BY <2>1, <2>2, <2>3, <2>4
<1>4. ASSUME NEW n \in 0 .. Len(s) - 1, n \in G PROVE n + 1 \in G
  <2> DEFINE t == f[n]
             b == s[n + 1]
             u == f[n + 1]
  <2>1. /\ t \in Seq(Books) /\ Len(t) = n /\ ToSet(t) = Upto(s, n)
        /\ Orderly => InOrder(t, ThenBy(R, B))
    BY <1>4
  <2>2. n + 1 \in 1 .. Len(s) /\ n + 1 \in 0 .. Len(s) /\ b \in Books /\ n + 1 - 1 = n
    OBVIOUS
  <2>3. Upto(s, n + 1) = Upto(s, n) \cup {b}
    BY <2>2, UptoNext
  <2>4. u = Inserting(R)[t][b]
    BY <1>1, <2>2
  <2>5. /\ Upto(s, n) \cup {b} \subseteq ToSet(s)
        /\ InOrder(s, B) => \A x \in Upto(s, n) : <<b, x>> \notin B
    <3>1. \A k \in 1 .. n + 1 : k \in DOMAIN s
      OBVIOUS
    <3> QED
      BY <2>2, <3>1 DEF Upto, ToSet, InOrder
  <2> HIDE DEF t, b, u
  <2>6. /\ u \in Seq(Books) /\ Len(u) = Len(t) + 1 /\ ToSet(u) = ToSet(t) \cup {b}
        /\ /\ WeakOrder(R, ToSet(t) \cup {b})
           /\ InOrder(t, ThenBy(R, B))
           /\ \A x \in ToSet(t) : <<b, x>> \notin B
           => InOrder(u, ThenBy(R, B))
    BY <2>1, <2>2, <2>4, InsertingKeeps, SMTT(30)
  <2>7. ASSUME Orderly PROVE InOrder(u, ThenBy(R, B))
    <3>1. WeakOrder(R, ToSet(t) \cup {b})
      BY <2>1, <2>5, <2>7, WeakOrderOnPart
    <3> QED
      BY <2>1, <2>5, <2>6, <2>7, <3>1
  <2>8. u \in Seq(Books) /\ Len(u) = n + 1 /\ ToSet(u) = Upto(s, n + 1)
    BY <2>1, <2>3, <2>6
  <2> HIDE DEF Orderly
  <2> QED
    BY <2>2, <2>7, <2>8 DEF u
<1>5. \A n \in 0 .. Len(s) : n \in G
  <2> HIDE DEF G
  <2> QED
    BY <1>2, <1>3, <1>4, PrefixInduction
<1>6. Len(s) \in G
  BY <1>2, <1>5
<1> QED
  BY <1>1, <1>6, UptoAll

(* The sort of sort.SliceStable gives back the books of the list, ... *)
THEOREM SortedSameBooks ==
    ASSUME NEW s \in Seq(Books), NEW R, NEW S, OnceEach(s, S)
    PROVE  SortedWith(s, R) \in Seq(Books) /\ OnceEach(SortedWith(s, R), S)
<1>1. /\ SortedWith(s, R) \in Seq(Books)
      /\ Len(SortedWith(s, R)) = Len(s) /\ ToSet(SortedWith(s, R)) = ToSet(s)
  BY SortRounds
<1> QED
  BY <1>1, OnceEachKept

(* ... ordered by R, and stable: by the order they had before where R does  *)
(* not decide.                                                              *)
THEOREM SortedStable ==
    ASSUME NEW s \in Seq(Books), NEW R, NEW B, WeakOrder(R, ToSet(s)), InOrder(s, B)
    PROVE  InOrder(SortedWith(s, R), ThenBy(R, B))
BY SortRounds

(* To be ordered by R and then by something is to be ordered by R. *)
LEMMA OrderedFirst ==
    ASSUME NEW s \in Seq(Books), NEW R, NEW B, InOrder(s, ThenBy(R, B))
    PROVE  InOrder(s, R)
<1>1. \A k \in DOMAIN s : \A i \in 1 .. k - 1 : s[k] \in Books /\ s[i] \in Books
  OBVIOUS
<1> QED
  BY <1>1 DEF InOrder, ThenBy

(* In particular, a sorted list is in order. *)
LEMMA SortedOrders ==
    ASSUME NEW s \in Seq(Books), NEW R, WeakOrder(R, ToSet(s))
    PROVE  InOrder(SortedWith(s, R), R)
<1>1. InOrder(s, {})
  BY DEF InOrder
<1>2. InOrder(SortedWith(s, R), ThenBy(R, {})) /\ SortedWith(s, R) \in Seq(Books)
  BY <1>1, SortRounds
<1> QED
  BY <1>2, OrderedFirst

(***************************************************************************)
(* The orders of SortBy                                                    *)
(***************************************************************************)

(* Orders by the smaller or by the greater key compare like keys. *)
LEMMA KeysOrder ==
    ASSUME NEW R, NEW key \in [Books -> Nat],
           \/ \A a, b \in Books : <<a, b>> \in R <=> key[a] < key[b]
           \/ \A a, b \in Books : <<a, b>> \in R <=> key[a] > key[b]
    PROVE  WeakOrder(R, Books)
<1> SUFFICES ASSUME NEW a \in Books, NEW b \in Books, NEW c \in Books
             PROVE  /\ <<a, b>> \in R => <<b, a>> \notin R
                    /\ <<a, c>> \in R => <<a, b>> \in R \/ <<b, c>> \in R
  BY DEF WeakOrder
<1>1. PICK x \in Nat, y \in Nat, z \in Nat : x = key[a] /\ y = key[b] /\ z = key[c]
  OBVIOUS
<1>2. CASE \A d, e \in Books : <<d, e>> \in R <=> key[d] < key[e]
  <2>1. /\ <<a, b>> \in R <=> x < y
        /\ <<b, a>> \in R <=> y < x
        /\ <<a, c>> \in R <=> x < z
        /\ <<b, c>> \in R <=> y < z
    BY <1>1, <1>2, Zenon
  <2> QED
    BY <2>1
<1>3. CASE \A d, e \in Books : <<d, e>> \in R <=> key[d] > key[e]
  <2>1. /\ <<a, b>> \in R <=> x > y
        /\ <<b, a>> \in R <=> y > x
        /\ <<a, c>> \in R <=> x > z
        /\ <<b, c>> \in R <=> y > z
    BY <1>1, <1>3, Zenon
  <2> QED
    BY <2>1
<1> QED
  BY <1>2, <1>3

(* The orders of the series, author and series name loops. *)
LEMMA FieldOrder ==
    ASSUME NEW field \in [Books -> Nat] PROVE WeakOrder(ByField(field), Books)
<1>1. \A a, b \in Books : <<a, b>> \in ByField(field) <=> field[a] < field[b]
  BY DEF ByField
<1> QED
  BY <1>1, KeysOrder

(* The pairs of Before are those that Less accepts. *)
LEMMA BeforeIsLess ==
    ASSUME NEW sort, NEW a \in Books, NEW b \in Books
    PROVE  <<a, b>> \in Before(sort) <=> Less(sort, a, b)
BY DEF Before

(* So do the orders by a key every book has, ... *)
LEMMA KeyOrder == ASSUME NEW sort \in KeySorts PROVE WeakOrder(Before(sort), Books)
<1>1. title \in [Books -> Nat] /\ modTime \in [Books -> Nat]
  BY BooklistAssumption
<1>2. \A a, b \in Books : <<a, b>> \in Before(sort) <=> Less(sort, a, b)
  BY BeforeIsLess
<1>3. CASE sort = "title-asc"
  <2>1. \A a, b \in Books : <<a, b>> \in Before(sort) <=> title[a] < title[b]
    BY <1>2, <1>3 DEF Less
  <2> QED
    BY <1>1, <2>1, KeysOrder
<1>4. CASE sort = "title-desc"
  <2>1. \A a, b \in Books : <<a, b>> \in Before(sort) <=> title[a] > title[b]
    BY <1>2, <1>4 DEF Less
  <2> QED
    BY <1>1, <2>1, KeysOrder
<1>5. CASE sort = "modified-desc"
  <2>1. \A a, b \in Books : <<a, b>> \in Before(sort) <=> modTime[a] > modTime[b]
    BY <1>2, <1>5 DEF Less
  <2> QED
    BY <1>1, <2>1, KeysOrder
<1> QED
  BY <1>3, <1>4, <1>5 DEF KeySorts

(* ... while author and series orders do not, for the books without one.    *)
(* They are orders all the same, ...                                        *)
LEMMA KnownOrder ==
    ASSUME NEW sort \in KnownSorts, NEW a \in Books, NEW b \in Books, NEW c \in Books
    PROVE  /\ Less(sort, a, b) => ~Less(sort, b, a)
           /\ Less(sort, a, b) /\ Less(sort, b, c) => Less(sort, a, c)
<1>1. \A x \in Books : /\ title[x] \in Nat /\ author[x] \in Nat /\ series[x] \in Nat
                       /\ seriesIndex[x] \in Nat /\ modTime[x] \in Nat
  BY BooklistAssumption
<1>2. CASE sort = "author-asc"
  BY <1>1, <1>2 DEF Less
<1>3. CASE sort = "author-desc"
  BY <1>1, <1>3 DEF Less
<1>4. CASE sort = "title-asc"
  BY <1>1, <1>4 DEF Less
<1>5. CASE sort = "title-desc"
  BY <1>1, <1>5 DEF Less
<1>6. CASE sort = "series-asc"
  BY <1>1, <1>6 DEF Less
<1>7. CASE sort = "series-desc"
  BY <1>1, <1>7 DEF Less
<1>8. CASE sort = "seriesindex-asc"
  BY <1>1, <1>8 DEF Less
<1>9. CASE sort = "seriesindex-desc"
  BY <1>1, <1>9 DEF Less
<1>10. CASE sort = "modified-desc"
  BY <1>1, <1>10 DEF Less
<1> QED
  BY <1>2, <1>3, <1>4, <1>5, <1>6, <1>7, <1>8, <1>9, <1>10 DEF KnownSorts

(* ... and compare like keys the books they tell apart. *)
LEMMA DistinguishedOrder ==
    ASSUME NEW sort \in KnownSorts, NEW S \in SUBSET Books, Distinguishes(sort, S)
    PROVE  WeakOrder(Before(sort), S)
<1> SUFFICES ASSUME NEW a \in S, NEW b \in S, NEW c \in S
             PROVE  /\ Less(sort, a, b) => ~Less(sort, b, a)
                    /\ Less(sort, a, c) => Less(sort, a, b) \/ Less(sort, b, c)
  BY BeforeIsLess DEF WeakOrder
<1>1. Less(sort, a, b) => ~Less(sort, b, a)
  BY KnownOrder
<1>2. ASSUME Less(sort, a, c), ~Less(sort, a, b), ~Less(sort, b, c) PROVE FALSE
  <2>1. a # b /\ b # c
    BY <1>2
  <2>2. Less(sort, b, a)
    BY <1>2, <2>1 DEF Distinguishes
  <2>3. Less(sort, b, c)
    BY <1>2, <2>2, KnownOrder
  <2> QED
    BY <1>2, <2>3
<1> QED
  BY <1>1, <1>2

(* SortBy keeps the books, whatever the order, ... *)
LEMMA SortByOnce ==
    ASSUME NEW s \in Seq(Books), NEW S, OnceEach(s, S), NEW sort
    PROVE  SortBy(s, sort) \in Seq(Books) /\ OnceEach(SortBy(s, sort), S)
BY SortedSameBooks DEF SortBy

(* ... orders them if the order compares them like keys, ... *)
LEMMA SortByOrders ==
    ASSUME NEW s \in Seq(Books), NEW S, OnceEach(s, S), NEW sort \in KnownSorts,
           WeakOrder(Before(sort), S)
    PROVE  InOrder(SortBy(s, sort), Before(sort))
BY SortedOrders DEF SortBy, OnceEach

(* ... and a page that sorts by title first shows books of one key by       *)
(* title (handleAuthor, handleSearch).                                      *)
LEMMA SortedTwice ==
    ASSUME NEW s \in Seq(Books), NEW S, OnceEach(s, S), NEW sort, NEW first \in KeySorts,
           NEW key, key = IF sort \in KnownSorts THEN sort ELSE first
    PROVE  LET t == SortBy(SortBy(s, first), sort) IN
           /\ t \in Seq(Books) /\ OnceEach(t, S)
           /\ key \in KeySorts => InOrder(t, ThenBy(Before(key), Before(first)))
<1>1. first \in KnownSorts /\ S \subseteq Books
  BY OnceEachNoneTwice DEF KeySorts, KnownSorts
<1>2. PICK u : u = SortBy(s, first)
  OBVIOUS
<1>3. u \in Seq(Books) /\ OnceEach(u, S)
  BY <1>2, SortByOnce
<1>4. WeakOrder(Before(first), S)
  BY <1>1, KeyOrder, WeakOrderOnPart
<1>5. InOrder(u, Before(first))
  BY <1>1, <1>2, <1>4, SortByOrders
<1>6. PICK t : t = SortBy(u, sort)
  OBVIOUS
<1>7. t \in Seq(Books) /\ OnceEach(t, S)
  BY <1>3, <1>6, SortByOnce
<1>8. ASSUME key \in KeySorts PROVE InOrder(t, ThenBy(Before(key), Before(first)))
  <2>1. CASE sort \in KnownSorts
    <3>1. WeakOrder(Before(key), ToSet(u))
      BY <1>1, <1>3, <1>8, KeyOrder, WeakOrderOnPart DEF OnceEach
    <3>2. t = SortedWith(u, Before(key))
      BY <1>6, <2>1 DEF SortBy
    <3> QED
      BY <1>3, <1>5, <3>1, <3>2, SortedStable
  <2>2. CASE sort \notin KnownSorts
    <3>1. t = u /\ key = first
      BY <1>6, <2>2 DEF SortBy
    <3> QED
      BY <1>5, <3>1 DEF InOrder, ThenBy
  <2> QED
    BY <2>1, <2>2
<1> QED
  BY <1>2, <1>6, <1>7, <1>8

(***************************************************************************)
(* Authors and Series                                                      *)
(***************************************************************************)

SameField(field) == {p \in Books \X Books : field[p[1]] = field[p[2]]}
FieldsOf(field, S) == {field[b] : b \in S}

(* The loop of Authors and Series keeps one book of each name that is not   *)
(* empty.                                                                   *)
LEMMA MeetingEach ==
    ASSUME NEW s \in Seq(Books), NEW field \in [Books -> Nat]
    PROVE  LET m == Built(s, Meeting(field)) IN
           /\ m \in Seq(Books) /\ InOrder(m, SameField(field))
           /\ FieldsOf(field, ToSet(m)) = FieldsOf(field, ToSet(s)) \ {0}
<1>1. PICK f : /\ f[0] = <<>> /\ Built(s, Meeting(field)) = f[Len(s)]
               /\ \A n \in 1 .. Len(s) : f[n] = Meeting(field)[f[n - 1]][s[n]]
  BY Rounds
<1> DEFINE G == {n \in 0 .. Len(s) :
                   /\ f[n] \in Seq(Books) /\ InOrder(f[n], SameField(field))
                   /\ FieldsOf(field, ToSet(f[n])) = FieldsOf(field, Upto(s, n)) \ {0}}
<1>2. Len(s) \in Nat
  OBVIOUS
<1>3. 0 \in G
  <2>1. f[0] \in Seq(Books) /\ Len(f[0]) = 0 /\ ToSet(f[0]) = {}
    BY <1>1, EmptyList
  <2>2. Upto(s, 0) = {} /\ 0 \in 0 .. Len(s)
    BY <1>2, UptoAll
  <2>3. InOrder(f[0], SameField(field))
    BY <2>1 DEF InOrder
  <2>4. FieldsOf(field, ToSet(f[0])) = FieldsOf(field, Upto(s, 0)) \ {0}
    BY <2>1, <2>2 DEF FieldsOf
  <2> QED
    BY <2>1, <2>2, <2>3, <2>4
<1>4. ASSUME NEW n \in 0 .. Len(s) - 1, n \in G PROVE n + 1 \in G
  <2> DEFINE t == f[n]
             b == s[n + 1]
             u == f[n + 1]
             new == field[b] # 0 /\ \A k \in DOMAIN t : field[t[k]] # field[b]
  <2>1. /\ t \in Seq(Books) /\ InOrder(t, SameField(field))
        /\ FieldsOf(field, ToSet(t)) = FieldsOf(field, Upto(s, n)) \ {0}
    BY <1>4
  <2>2. n + 1 \in 1 .. Len(s) /\ n + 1 \in 0 .. Len(s) /\ b \in Books /\ n + 1 - 1 = n
    OBVIOUS
  <2>3. Upto(s, n + 1) = Upto(s, n) \cup {b}
    BY <2>2, UptoNext
  <2>4. u = Meeting(field)[t][b]
    BY <1>1, <2>2
  <2>5. u = IF new THEN Append(t, b) ELSE t
    BY <2>1, <2>2, <2>4 DEF Meeting
  <2>6. FieldsOf(field, Upto(s, n + 1)) = FieldsOf(field, Upto(s, n)) \cup {field[b]}
    BY <2>3 DEF FieldsOf
  <2> HIDE DEF b, t, u
  <2>7. CASE new
    <3>1. /\ u = Append(t, b) /\ u \in Seq(Books) /\ ToSet(u) = ToSet(t) \cup {b}
      BY <2>1, <2>2, <2>5, <2>7, Appended
    <3>2. /\ Len(u) = Len(t) + 1 /\ u[Len(t) + 1] = b
          /\ \A k \in 1 .. Len(t) : u[k] = t[k]
      BY <2>1, <2>2, <3>1
    <3>3. FieldsOf(field, ToSet(u)) = FieldsOf(field, ToSet(t)) \cup {field[b]}
      BY <3>1 DEF FieldsOf
    <3>4. ASSUME NEW k \in DOMAIN u, NEW i \in 1 .. k - 1
          PROVE  <<u[k], u[i]>> \notin SameField(field)
      <4>1. k \in 1 .. Len(t) + 1 /\ i \in 1 .. Len(t) /\ u[i] = t[i] /\ Len(t) \in Nat
        BY <2>1, <3>1, <3>2, SMTT(30)
      <4>2. CASE k = Len(t) + 1
        <5>1. u[k] = b /\ field[t[i]] # field[b]
          BY <2>1, <2>7, <3>2, <4>1, <4>2
        <5> QED
          BY <4>1, <5>1 DEF SameField
      <4>3. CASE k # Len(t) + 1
        <5>a. k \in 1 .. Len(t)
          BY <4>1, <4>3
        <5>1. k \in DOMAIN t /\ u[k] = t[k]
          BY <2>1, <3>2, <5>a, SMTT(30)
        <5> QED
          BY <2>1, <4>1, <5>1 DEF InOrder
      <4> QED
        BY <4>2, <4>3
    <3>5. InOrder(u, SameField(field))
      BY <3>4 DEF InOrder
    <3>6. FieldsOf(field, ToSet(u)) = FieldsOf(field, Upto(s, n + 1)) \ {0}
      BY <2>1, <2>6, <2>7, <3>3
    <3> QED
      BY <2>2, <3>1, <3>5, <3>6 DEF u
  <2>8. CASE ~new
    <3>1. u = t
      BY <2>5, <2>8
    <3>2. field[b] = 0 \/ field[b] \in FieldsOf(field, ToSet(t))
      BY <2>8 DEF FieldsOf, ToSet
    <3>3. FieldsOf(field, ToSet(u)) = FieldsOf(field, Upto(s, n + 1)) \ {0}
      BY <2>1, <2>6, <3>1, <3>2
    <3> QED
      BY <2>1, <2>2, <3>1, <3>3 DEF u
  <2> QED
    BY <2>7, <2>8
<1>5. \A n \in 0 .. Len(s) : n \in G
  <2> HIDE DEF G
  <2> QED
    BY <1>2, <1>3, <1>4, PrefixInduction
<1>6. Len(s) \in G
  BY <1>2, <1>5
<1> QED
  BY <1>1, <1>6, UptoAll

(* They list each name once, by name. *)
THEOREM FirstsOnce ==
    ASSUME NEW s \in Seq(Books), NEW field \in [Books -> Nat]
    PROVE  /\ FieldsOf(field, ToSet(Firsts(s, field))) = FieldsOf(field, ToSet(s)) \ {0}
           /\ InOrder(Firsts(s, field), {p \in Books \X Books : field[p[1]] <= field[p[2]]})
<1>1. PICK m : /\ m = Built(s, Meeting(field))
               /\ m \in Seq(Books) /\ InOrder(m, SameField(field))
               /\ FieldsOf(field, ToSet(m)) = FieldsOf(field, ToSet(s)) \ {0}
  BY MeetingEach
<1>2. PICK t : t = SortedWith(m, ByField(field)) /\ t = Firsts(s, field)
  BY <1>1 DEF Firsts
<1>3. WeakOrder(ByField(field), ToSet(m))
  BY <1>1, FieldOrder, UptoAll, WeakOrderOnPart
<1>4. t \in Seq(Books) /\ ToSet(t) = ToSet(m) /\ InOrder(t, ThenBy(ByField(field), SameField(field)))
  <2> DEFINE R == ByField(field)
             B == SameField(field)
  <2>1. m \in Seq(Books) /\ InOrder(m, B) /\ WeakOrder(R, ToSet(m)) /\ t = SortedWith(m, R)
    BY <1>1, <1>2, <1>3
  <2> HIDE DEF R, B
  <2>2. /\ SortedWith(m, R) \in Seq(Books) /\ ToSet(SortedWith(m, R)) = ToSet(m)
        /\ InOrder(SortedWith(m, R), ThenBy(R, B))
    BY <2>1, SortRounds
  <2> QED
    BY <2>1, <2>2 DEF R, B
<1>5. ASSUME NEW k \in DOMAIN t, NEW i \in 1 .. k - 1 PROVE ~(field[t[k]] <= field[t[i]])
  <2>1. t[k] \in Books /\ t[i] \in Books
    BY <1>4
  <2>2. <<t[k], t[i]>> \notin ThenBy(ByField(field), SameField(field))
    BY <1>4 DEF InOrder
  <2>3. PICK x \in Nat, y \in Nat : x = field[t[k]] /\ y = field[t[i]]
    BY <2>1
  <2>4. ~(x < y) /\ (y < x \/ x # y)
    BY <2>1, <2>2, <2>3 DEF ThenBy, ByField, SameField
  <2> QED
    BY <2>3, <2>4
<1>6. InOrder(t, {p \in Books \X Books : field[p[1]] <= field[p[2]]})
  BY <1>5 DEF InOrder
<1> QED
  BY <1>1, <1>2, <1>4, <1>6

(***************************************************************************)
(* Two sorted lists of the same books                                      *)
(***************************************************************************)

(* At every position they have books that the order does not tell apart:    *)
(* if r had a lesser book at k than t, its first k books would be among the *)
(* first k - 1 of t.                                                        *)
LEMMA SamePlaces ==
    ASSUME NEW r \in Seq(Books), NEW t \in Seq(Books), NEW S, OnceEach(r, S), OnceEach(t, S),
           NEW R, WeakOrder(R, S), InOrder(r, R), InOrder(t, R), NEW k \in 1 .. Len(r)
    PROVE  <<r[k], t[k]>> \notin R
<1> SUFFICES ASSUME <<r[k], t[k]>> \in R PROVE FALSE
  OBVIOUS
<1>1. /\ Len(r) = Len(t) /\ Len(r) \in Nat /\ DOMAIN r = 1 .. Len(r) /\ DOMAIN t = 1 .. Len(r)
      /\ \A i \in 1 .. Len(r) : r[i] \in S /\ t[i] \in S
  BY DEF OnceEach, ToSet
<1>2. ASSUME NEW i \in 1 .. k PROVE \E m \in 1 .. k - 1 : t[m] = r[i]
  <2>1. i \in 1 .. Len(r) /\ r[i] \in S /\ r[k] \in S /\ t[k] \in S
    BY <1>1
  <2>2. <<r[k], r[i]>> \notin R
    <3>1. CASE i = k
      BY <2>1, <3>1 DEF WeakOrder
    <3>2. CASE i # k
      BY <1>1, <3>2 DEF InOrder
    <3> QED
      BY <3>1, <3>2
  <2>3. <<r[i], t[k]>> \in R
    BY <2>1, <2>2 DEF WeakOrder
  <2>4. PICK m \in 1 .. Len(r) : t[m] = r[i]
    BY <1>1, <2>1 DEF OnceEach, ToSet
  <2>5. ~(m > k)
    <3> SUFFICES ASSUME m > k PROVE FALSE
      OBVIOUS
    <3>1. k \in 1 .. m - 1 /\ m \in DOMAIN t
      BY <1>1
    <3> QED
      BY <2>3, <2>4, <3>1 DEF InOrder
  <2>6. m # k
    BY <2>1, <2>3, <2>4 DEF WeakOrder
  <2> QED
    BY <2>4, <2>5, <2>6
<1> DEFINE f == [i \in 1 .. k |-> CHOOSE m \in 1 .. k - 1 : t[m] = r[i]]
<1>3. f \in [1 .. k -> 1 .. k - 1] /\ \A i \in 1 .. k : t[f[i]] = r[i]
  BY <1>2
<1> HIDE DEF f
<1>4. /\ IsFiniteSet(1 .. k) /\ Cardinality(1 .. k) = k
      /\ IsFiniteSet(1 .. k - 1) /\ Cardinality(1 .. k - 1) = k - 1
  <2>1. k \in Nat /\ k - 1 \in Nat
    BY <1>1
  <2> QED
    BY <2>1, IntervalCounts
<1>5. PICK i, j \in 1 .. k : i # j /\ f[i] = f[j]
  <2>1. Cardinality(1 .. k - 1) < Cardinality(1 .. k)
    BY <1>1, <1>4
  <2>2. f \in [1 .. k -> 1 .. k - 1]
    BY <1>3
  <2>3. \E i, j \in 1 .. k : i # j /\ f[i] = f[j]
    BY <1>4, <2>1, <2>2, FS_PigeonHole, Zenon
  <2> QED
    BY <2>3
<1>6. i \in DOMAIN r /\ j \in DOMAIN r /\ r[i] = r[j]
  <2>1. i \in 1 .. Len(r) /\ j \in 1 .. Len(r)
    BY <1>1
  <2>2. r[i] = t[f[i]] /\ r[j] = t[f[j]]
    BY <1>3
  <2> QED
    BY <1>1, <1>5, <2>1, <2>2
<1> QED
  BY <1>5, <1>6, OnceEachNoneTwice DEF NoneTwice

=============================================================================
