--------------------------- MODULE LibraryProofs ----------------------------
(***************************************************************************)
(* Proofs about Library, for any names, books, writers, administrators and *)
(* claims, and all bounds.                                                 *)
(***************************************************************************)
EXTENDS Library, TLAPS

(***************************************************************************)
(* What the writers hold                                                   *)
(***************************************************************************)

(* A writer has, at each stage, what it needs for the next one. *)
WriterReady(x) ==
    /\ x.pc = "idle" => x = IdleWriter
    /\ x.pc = "next" => x.libgen /\ x.content = None /\ x.tmp = None /\ x.out = None
    /\ x.pc \notin {"idle", "next"} =>
          x.name \in Names /\ x.content \in Contents /\ x.tmp \in Temps
    /\ x.pc = "writing" => x.out = None
    /\ x.pc = "converting" => x.out \in Temps
    /\ x.out # None => x.convert

WritersReady == \A w \in Writers : WriterReady(writer[w])

Staging(w) == {writer[w].tmp, writer[w].out} \ {None}

(* Staging names are handed out in order, each to one writer and one use. *)
StagingApart ==
    /\ \A t \in Temps : t[2] > temps => dir[t] = None
    /\ \A w \in Writers : \A t \in Staging(w) : t[2] <= temps
    /\ \A w \in Writers : writer[w].tmp # None => writer[w].tmp # writer[w].out
    /\ \A w, v \in Writers : w # v => Staging(w) \cap Staging(v) = {}

(* What Install would rename is no unfinished file. *)
SourcesWhole ==
    \A w \in Writers : LET x == writer[w] IN
        x.pc = "install" => dir[IF x.out = None THEN x.tmp ELSE x.out] # Partial

(* The types and what they rest on: names only ever hold whole books. *)
StoreInv == TypeOK /\ WritersReady /\ StagingApart /\ SourcesWhole /\ NamesWhole

(* A removal keeps a path of the directory, a resolution a claim. *)
AdminsReady ==
    \A a \in Admins : LET x == admin[a] IN
        /\ x.pc = "remove" => x.id \in IDs /\ x.path \in Paths
        /\ x.pc = "resolve" => x.claim \in Claims

(***************************************************************************)
(* What the next index will be                                             *)
(***************************************************************************)

(* A refresh is to come: one waits, or will when a batch that has added a   *)
(* book ends.                                                               *)
Batch(x) == x.pc # "idle" /\ x.libgen /\ x.added
RefreshDue == waiting > 0 \/ \E w \in Writers : Batch(writer[w])

(* The list that the index is, or will be when the scan ends. *)
Listed == IF scan.held THEN scan.list ELSE index

CompleteSoon ==
    \A n \in Names : dir[n] # None =>
        \/ RefreshDue
        \/ scan.held /\ n \in scan.todo
        \/ \E b \in Listed : b.id = dir[n]

AccurateSoon ==
    \A b \in Listed : b.path \in Names =>
        \/ RefreshDue
        \/ dir[b.path] = b.id
        \/ Claims # {} /\ dir[b.path] = None /\ \E x \in trash : x.path = b.path

ListUnique == \A b, x \in scan.list : b.id = x.id => b = x

IndexInv == IndexIdsUnique /\ ListUnique /\ CompleteSoon /\ AccurateSoon

ResolvesTrashed ==
    \A a \in Admins : admin[a].pc = "resolve" /\ admin[a].id # None =>
        \E x \in trash : x.id = admin[a].id

(***************************************************************************)
(* Paths                                                                   *)
(***************************************************************************)

(* A path is a library name or a staging name, not both, and not None. *)
LEMMA PathsSplit ==
    /\ Paths = Names \cup Temps
    /\ Names \cap Temps = {}
    /\ None \notin Paths
    /\ \A t \in Temps : t[2] \in Nat
BY LibraryAssumption DEF Paths, Names, Temps

(* os.CreateTemp finds a name that no file and no writer has had. *)
LEMMA NewTempFresh ==
    ASSUME StoreInv, CreateTemp
    PROVE  /\ NewTemp \in Temps /\ NewTemp[2] = temps'
           /\ temps' \in 0 .. MaxTemps /\ temps < temps' /\ \A t \in Temps : t[2] <= temps => t[2] <= temps'
           /\ dir[NewTemp] = None
           /\ \A w \in Writers : NewTemp \notin Staging(w)
           /\ \A t \in Temps : t[2] > temps' => t[2] > temps /\ t # NewTemp
<1>1. temps \in Nat /\ temps < MaxTemps /\ temps' = temps + 1 /\ MaxTemps \in Nat
  BY LibraryAssumption DEF StoreInv, TypeOK, CreateTemp
<1>2. NewTemp \in Temps /\ NewTemp[2] = temps + 1
  BY <1>1 DEF NewTemp, Temps
<1>3. \A t \in Temps : t[2] \in Nat
  BY PathsSplit
<1> QED
  BY <1>1, <1>2, <1>3 DEF StoreInv, StagingApart

(* Values of the right type with which requests and scans begin and end. *)
LEMMA IdleIsWriter ==
    /\ IdleWriter \in Writer
    /\ WriterReady(IdleWriter)
    /\ IdleWriter.pc = "idle" /\ IdleWriter.tmp = None /\ IdleWriter.out = None
BY DEF IdleWriter, MakeWriter, Writer, WriterReady

LEMMA IdleIsAdmin == IdleAdmin \in Admin /\ IdleAdmin.pc = "idle" /\ IdleAdmin.id = None
BY DEF IdleAdmin, MakeAdmin, Admin

LEMMA NoScanIsScan == NoScan \in Scan /\ ~NoScan.held /\ NoScan.list = {}
BY DEF NoScan, MakeScan, Scan

(***************************************************************************)
(* Types and staging                                                       *)
(***************************************************************************)

(* A writer that goes on with staging files it had, or that have gone. *)
WriterKeeps(w, x) ==
    /\ temps' = temps
    /\ {x.tmp, x.out} \ {None} \subseteq Staging(w)
    /\ \A t \in Temps : t \notin Staging(w) => dir'[t] = dir[t]
    /\ \A t \in Temps : dir[t] = None => dir'[t] = None

(* A writer that has created one more. *)
WriterCreates(w, x) ==
    /\ CreateTemp
    /\ {x.tmp, x.out} \ {None} \subseteq Staging(w) \cup {NewTemp}
    /\ \A t \in Temps \ {NewTemp} : dir'[t] = dir[t]

(* What StoreInv needs to know of a step of one writer. *)
LEMMA WriterMoves ==
    ASSUME StoreInv, NEW w \in Writers, NEW x \in Writer,
           writer' = [writer EXCEPT ![w] = x], WriterReady(x),
           WriterKeeps(w, x) \/ WriterCreates(w, x),
           x.tmp # None => x.tmp # x.out,
           x.pc = "install" => dir'[IF x.out = None THEN x.tmp ELSE x.out] # Partial,
           \A n \in Names : dir'[n] # Partial
    PROVE  WritersReady' /\ StagingApart' /\ SourcesWhole' /\ NamesWhole'
<1>1. /\ writer \in [Writers -> Writer] /\ temps \in Nat
      /\ writer'[w] = x /\ \A v \in Writers \ {w} : writer'[v] = writer[v]
  BY DEF StoreInv, TypeOK
<1>2. WritersReady'
  BY <1>1 DEF StoreInv, WritersReady
<1>3. \A v \in Writers : Staging(v) \subseteq Temps
  BY <1>1 DEF Staging, Writer
<1>4. \A v \in Writers \ {w} : Staging(v)' = Staging(v)
  BY <1>1 DEF Staging
<1>5. Staging(w)' = {x.tmp, x.out} \ {None}
  BY <1>1 DEF Staging
<1>6. StagingApart'
  <2>1. CASE WriterKeeps(w, x)
    BY <1>1, <1>3, <1>4, <1>5, <2>1 DEF WriterKeeps, StoreInv, StagingApart
  <2>2. CASE WriterCreates(w, x)
    <3>0. CreateTemp
      BY <2>2 DEF WriterCreates
    <3>1. /\ NewTemp \in Temps /\ NewTemp[2] = temps'
          /\ \A t \in Temps : t[2] <= temps => t[2] <= temps'
          /\ \A v \in Writers : NewTemp \notin Staging(v)
          /\ \A t \in Temps : t[2] > temps' => t[2] > temps /\ t # NewTemp
          /\ temps' \in 0 .. MaxTemps
      BY <3>0, NewTempFresh
    <3>2. temps' <= temps'
      BY <3>1
    <3>3. \A t \in Temps : t[2] > temps' => dir'[t] = None
      BY <2>2, <3>1 DEF WriterCreates, StoreInv, StagingApart
    <3>4. \A v \in Writers : \A t \in Staging(v)' : t[2] <= temps'
      BY <1>3, <1>4, <1>5, <2>2, <3>1, <3>2 DEF WriterCreates, StoreInv, StagingApart
    <3>5. \A v \in Writers : writer'[v].tmp # None => writer'[v].tmp # writer'[v].out
      BY <1>1 DEF StoreInv, StagingApart
    <3>6. \A v, u \in Writers : v # u => Staging(v)' \cap Staging(u)' = {}
      BY <1>3, <1>4, <1>5, <2>2, <3>1 DEF WriterCreates, StoreInv, StagingApart
    <3> QED
      BY <3>3, <3>4, <3>5, <3>6 DEF StagingApart
  <2> QED
    BY <2>1, <2>2
<1>7. SourcesWhole'
  <2> SUFFICES ASSUME NEW v \in Writers, writer'[v].pc = "install"
               PROVE  dir'[IF writer'[v].out = None THEN writer'[v].tmp ELSE writer'[v].out] # Partial
    BY DEF SourcesWhole
  <2>1. CASE v = w
    BY <1>1, <2>1
  <2>2. CASE v # w
    <3> DEFINE s == IF writer[v].out = None THEN writer[v].tmp ELSE writer[v].out
    <3>1. writer'[v] = writer[v] /\ dir[s] # Partial
      BY <1>1, <2>2 DEF StoreInv, SourcesWhole
    <3>2. writer[v].tmp \in Temps /\ None \notin Temps
      BY <1>1, <2>2, PathsSplit DEF StoreInv, WritersReady, WriterReady
    <3>3. s \in Staging(v)
      BY <3>2 DEF Staging
    <3>4. s \notin Staging(w)
      BY <2>2, <3>3 DEF StoreInv, StagingApart
    <3>5. WriterCreates(w, x) => s # NewTemp
      BY <3>3, NewTempFresh DEF WriterCreates
    <3>6. dir'[s] = dir[s]
      BY <1>3, <3>3, <3>4, <3>5 DEF WriterKeeps, WriterCreates
    <3> QED
      BY <3>1, <3>6
  <2> QED
    BY <2>1, <2>2
<1>8. NamesWhole'
  BY DEF NamesWhole
<1> QED
  BY <1>2, <1>6, <1>7, <1>8

(* A step that leaves directory, writers and staging names alone keeps the  *)
(* invariant with the types.                                                *)
LEMMA StoreUntouched ==
    ASSUME StoreInv, TypeOK', UNCHANGED <<dir, writer, temps>>
    PROVE  StoreInv'
BY DEF StoreInv, WritersReady, StagingApart, Staging, SourcesWhole, NamesWhole

(* Creating a staging file changes nothing else in the directory. *)
LEMMA StagingFileCreated ==
    ASSUME StoreInv, CreateTemp, dir' = [dir EXCEPT ![NewTemp] = Partial]
    PROVE  /\ dir' \in [Paths -> Files \cup {None}]
           /\ dir'[NewTemp] = Partial
           /\ \A p \in Paths : p # NewTemp => dir'[p] = dir[p]
           /\ \A n \in Names : dir'[n] = dir[n]
BY NewTempFresh, PathsSplit DEF StoreInv, TypeOK, Files

(* Types of the refreshes after a mutation. *)
LEMMA GoRefreshTyped ==
    ASSUME TypeOK, GoRefresh \/ UNCHANGED refreshVars
    PROVE  /\ waiting' \in Nat /\ index' \subseteq Book /\ scan' \in Scan
           /\ finished' \in [BOOLEAN -> Nat] /\ status' \in BOOLEAN /\ lastErrs' \in BOOLEAN
BY DEF TypeOK, GoRefresh, Spawn, refreshVars

(* Types of the bounds on requests and restarts. *)
LEMMA ArriveTyped ==
    ASSUME TypeOK, Arrive
    PROVE  ops' \in 0 .. MaxOps /\ restarts' \in 0 .. MaxRestarts
BY LibraryAssumption DEF TypeOK, Arrive

LEMMA UploadBeginStore ==
    ASSUME StoreInv, NEW w \in Writers, NEW n \in Names, NEW c \in Contents,
           NEW convert \in BOOLEAN, UploadBegin(w, n, c, convert)
    PROVE  StoreInv'
<1> DEFINE x == MakeWriter("writing", n, c, NewTemp, None, convert, FALSE, {}, FALSE)
<1>0. CreateTemp /\ dir' = [dir EXCEPT ![NewTemp] = Partial] /\ writer' = [writer EXCEPT ![w] = x]
  BY DEF UploadBegin
<1>1. NewTemp \in Temps /\ NewTemp # None /\ temps' \in 0 .. MaxTemps
  BY <1>0, NewTempFresh, PathsSplit
<1>2. x \in Writer /\ WriterReady(x) /\ x.tmp = NewTemp /\ x.out = None /\ x.pc = "writing"
  BY <1>1 DEF MakeWriter, Writer, WriterReady
<1>3. WriterCreates(w, x)
  BY <1>0, <1>2, StagingFileCreated, PathsSplit DEF WriterCreates
<1>4. \A m \in Names : dir'[m] # Partial
  BY <1>0, StagingFileCreated DEF StoreInv, NamesWhole
<1>5. WritersReady' /\ StagingApart' /\ SourcesWhole' /\ NamesWhole'
  <2> HIDE DEF x
  <2> QED
    BY <1>0, <1>1, <1>2, <1>3, <1>4, WriterMoves
<1>6. TypeOK'
  <2>1. writer' \in [Writers -> Writer] /\ dir' \in [Paths -> Files \cup {None}]
    BY <1>0, <1>2, StagingFileCreated DEF StoreInv, TypeOK
  <2> QED
    BY <1>1, <2>1, GoRefreshTyped, ArriveTyped DEF StoreInv, TypeOK, UploadBegin, refreshVars
<1> QED
  BY <1>5, <1>6 DEF StoreInv

LEMMA LibgenBeginStore ==
    ASSUME StoreInv, NEW w \in Writers, NEW picked \in SUBSET Contents, LibgenBegin(w, picked)
    PROVE  StoreInv'
<1> DEFINE x == MakeWriter("next", None, None, None, None, FALSE, TRUE, picked, FALSE)
<1>1. x \in Writer /\ WriterReady(x) /\ x.tmp = None /\ x.out = None /\ x.pc = "next"
  BY DEF MakeWriter, Writer, WriterReady
<1>2. writer' = [writer EXCEPT ![w] = x] /\ WriterKeeps(w, x)
  BY <1>1 DEF LibgenBegin, storeVars, WriterKeeps
<1>3. WritersReady' /\ StagingApart' /\ SourcesWhole' /\ NamesWhole'
  <2> HIDE DEF x
  <2>1. dir' = dir
    BY DEF LibgenBegin, storeVars
  <2> QED
    BY <1>1, <1>2, <2>1, WriterMoves DEF StoreInv, NamesWhole
<1>4. TypeOK'
  <2>1. writer' \in [Writers -> Writer] /\ jobs' \in [Contents -> JobStates]
    BY <1>1, <1>2 DEF StoreInv, TypeOK, LibgenBegin, JobStates
  <2> QED
    BY <2>1, GoRefreshTyped, ArriveTyped DEF StoreInv, TypeOK, LibgenBegin, storeVars, refreshVars
<1> QED
  BY <1>3, <1>4 DEF StoreInv

LEMMA LibgenFetchStore ==
    ASSUME StoreInv, NEW w \in Writers, NEW c \in Contents, NEW n \in Names,
           NEW convert \in BOOLEAN, LibgenFetch(w, c, n, convert)
    PROVE  StoreInv'
<1> DEFINE x == MakeWriter("writing", n, c, NewTemp, None, convert, TRUE,
                           writer[w].targets \ {c}, writer[w].added)
<1>0. CreateTemp /\ dir' = [dir EXCEPT ![NewTemp] = Partial] /\ writer' = [writer EXCEPT ![w] = x]
  BY DEF LibgenFetch
<1>1. NewTemp \in Temps /\ NewTemp # None /\ temps' \in 0 .. MaxTemps
  BY <1>0, NewTempFresh, PathsSplit
<1>2. x \in Writer /\ WriterReady(x) /\ x.tmp = NewTemp /\ x.out = None /\ x.pc = "writing"
  <2>1. writer[w] \in Writer
    BY DEF StoreInv, TypeOK
  <2> QED
    BY <1>1, <2>1 DEF MakeWriter, Writer, WriterReady
<1>3. WriterCreates(w, x)
  BY <1>0, <1>2, StagingFileCreated, PathsSplit DEF WriterCreates
<1>4. \A m \in Names : dir'[m] # Partial
  BY <1>0, StagingFileCreated DEF StoreInv, NamesWhole
<1>5. WritersReady' /\ StagingApart' /\ SourcesWhole' /\ NamesWhole'
  <2> HIDE DEF x
  <2> QED
    BY <1>0, <1>1, <1>2, <1>3, <1>4, WriterMoves
<1>6. TypeOK'
  <2>1. writer' \in [Writers -> Writer] /\ dir' \in [Paths -> Files \cup {None}]
    BY <1>0, <1>2, StagingFileCreated DEF StoreInv, TypeOK
  <2> QED
    BY <1>1, <2>1, GoRefreshTyped DEF StoreInv, TypeOK, LibgenFetch, refreshVars, boundVars
<1> QED
  BY <1>5, <1>6 DEF StoreInv

LEMMA ConvertBeginStore ==
    ASSUME StoreInv, NEW w \in Writers, ConvertBegin(w)
    PROVE  StoreInv'
<1> DEFINE y == writer[w]
           x == MakeWriter("converting", y.name, y.content, y.tmp, NewTemp, TRUE,
                           y.libgen, y.targets, y.added)
<1>0. CreateTemp /\ dir' = [dir EXCEPT ![NewTemp] = Partial] /\ writer' = [writer EXCEPT ![w] = x]
  BY DEF ConvertBegin
<1>1. NewTemp \in Temps /\ NewTemp # None /\ temps' \in 0 .. MaxTemps /\ NewTemp \notin Staging(w)
  BY <1>0, NewTempFresh, PathsSplit
<1>2. y \in Writer /\ WriterReady(y) /\ y.pc = "install" /\ y.tmp \in Staging(w)
  BY PathsSplit DEF ConvertBegin, StoreInv, TypeOK, WritersReady, WriterReady, Staging
<1>3. x \in Writer /\ WriterReady(x) /\ x.tmp = y.tmp /\ x.out = NewTemp /\ x.pc = "converting"
  BY <1>1, <1>2 DEF MakeWriter, Writer, WriterReady
<1>4. WriterCreates(w, x) /\ x.tmp # x.out
  BY <1>0, <1>1, <1>2, <1>3, StagingFileCreated, PathsSplit DEF WriterCreates
<1>5. \A m \in Names : dir'[m] # Partial
  BY <1>0, StagingFileCreated DEF StoreInv, NamesWhole
<1>6. WritersReady' /\ StagingApart' /\ SourcesWhole' /\ NamesWhole'
  <2> HIDE DEF x, y
  <2> QED
    BY <1>0, <1>3, <1>4, <1>5, WriterMoves
<1>7. TypeOK'
  <2>1. writer' \in [Writers -> Writer] /\ dir' \in [Paths -> Files \cup {None}]
    BY <1>0, <1>3, StagingFileCreated DEF StoreInv, TypeOK
  <2> QED
    BY <1>1, <2>1, GoRefreshTyped DEF StoreInv, TypeOK, ConvertBegin, refreshVars, boundVars
<1> QED
  BY <1>6, <1>7 DEF StoreInv

(* Writing a staging file out yields a whole book, if it is still there. *)
LEMMA StagingFileFilled ==
    ASSUME StoreInv, NEW t \in Temps, NEW c \in Contents, dir' = Filled(t, c)
    PROVE  /\ dir' \in [Paths -> Files \cup {None}]
           /\ dir'[t] # Partial
           /\ \A p \in Paths : p # t => dir'[p] = dir[p]
           /\ \A p \in Paths : dir[p] = None => dir'[p] = None
           /\ \A n \in Names : dir'[n] = dir[n]
BY PathsSplit, LibraryAssumption DEF StoreInv, TypeOK, Files, Filled

LEMMA WriteEndStore ==
    ASSUME StoreInv, NEW w \in Writers, WriteEnd(w)
    PROVE  StoreInv'
<1> DEFINE y == writer[w]
           x == MakeWriter("install", y.name, y.content, y.tmp, None, y.convert,
                           y.libgen, y.targets, y.added)
<1>0. dir' = Filled(y.tmp, y.content) /\ writer' = [writer EXCEPT ![w] = x] /\ temps' = temps
  BY DEF WriteEnd
<1>1. /\ y \in Writer /\ y.pc = "writing" /\ y.name \in Names /\ y.content \in Contents
      /\ y.tmp \in Temps /\ y.tmp # None /\ y.out = None /\ y.tmp \in Staging(w)
  BY PathsSplit DEF WriteEnd, StoreInv, TypeOK, WritersReady, WriterReady, Staging
<1>2. /\ x \in Writer /\ WriterReady(x)
      /\ x.tmp = y.tmp /\ x.out = None /\ x.pc = "install"
  BY <1>1 DEF MakeWriter, Writer, WriterReady
<1>3. WriterKeeps(w, x)
  BY <1>0, <1>1, <1>2, StagingFileFilled, PathsSplit DEF WriterKeeps
<1>4. dir'[x.tmp] # Partial /\ \A m \in Names : dir'[m] # Partial
  BY <1>0, <1>1, <1>2, StagingFileFilled DEF StoreInv, NamesWhole
<1>5. WritersReady' /\ StagingApart' /\ SourcesWhole' /\ NamesWhole'
  <2> HIDE DEF x, y
  <2> QED
    BY <1>0, <1>1, <1>2, <1>3, <1>4, WriterMoves
<1>6. TypeOK'
  <2>1. writer' \in [Writers -> Writer] /\ dir' \in [Paths -> Files \cup {None}]
    BY <1>0, <1>1, <1>2, StagingFileFilled DEF StoreInv, TypeOK
  <2> QED
    BY <2>1, GoRefreshTyped DEF StoreInv, TypeOK, WriteEnd, refreshVars, boundVars
<1> QED
  BY <1>5, <1>6 DEF StoreInv

LEMMA ConvertEndStore ==
    ASSUME StoreInv, NEW w \in Writers, NEW c \in Contents, ConvertEnd(w, c)
    PROVE  StoreInv'
<1> DEFINE y == writer[w]
           x == MakeWriter("install", y.name, y.content, y.tmp, y.out, TRUE,
                           y.libgen, y.targets, y.added)
<1>0. dir' = Filled(y.out, c) /\ writer' = [writer EXCEPT ![w] = x] /\ temps' = temps
  BY DEF ConvertEnd
<1>1. /\ y \in Writer /\ y.pc = "converting" /\ y.name \in Names /\ y.content \in Contents
      /\ y.tmp \in Temps /\ y.out \in Temps /\ y.tmp # y.out /\ y.out # None
      /\ y.tmp \in Staging(w) /\ y.out \in Staging(w)
  BY PathsSplit DEF ConvertEnd, StoreInv, TypeOK, WritersReady, WriterReady, Staging, StagingApart
<1>2. /\ x \in Writer /\ WriterReady(x)
      /\ x.tmp = y.tmp /\ x.out = y.out /\ x.pc = "install"
  BY <1>1 DEF MakeWriter, Writer, WriterReady
<1>3. WriterKeeps(w, x)
  <2>1. /\ \A p \in Temps : p # y.out => dir'[p] = dir[p]
        /\ \A p \in Temps : dir[p] = None => dir'[p] = None
    BY <1>0, <1>1, StagingFileFilled, PathsSplit
  <2> HIDE DEF x, y
  <2> QED
    BY <1>0, <1>1, <1>2, <2>1 DEF WriterKeeps
<1>4. dir'[x.out] # Partial /\ \A m \in Names : dir'[m] # Partial
  BY <1>0, <1>1, <1>2, StagingFileFilled DEF StoreInv, NamesWhole
<1>5. WritersReady' /\ StagingApart' /\ SourcesWhole' /\ NamesWhole'
  <2> HIDE DEF x, y
  <2> QED
    BY <1>0, <1>1, <1>2, <1>3, <1>4, WriterMoves
<1>6. TypeOK'
  <2>1. writer' \in [Writers -> Writer] /\ dir' \in [Paths -> Files \cup {None}]
    BY <1>0, <1>1, <1>2, StagingFileFilled DEF StoreInv, TypeOK
  <2> QED
    BY <2>1, GoRefreshTyped DEF StoreInv, TypeOK, ConvertEnd, refreshVars, boundVars
<1> QED
  BY <1>5, <1>6 DEF StoreInv

(* What a writer is after a book: idle, or at the next book of its batch. *)
LEMMA DoneIsReady ==
    ASSUME StoreInv, NEW w \in Writers, NEW rest \in SUBSET Contents, NEW ok \in BOOLEAN
    PROVE  LET x == Done(w, rest, ok) IN
           /\ x \in Writer /\ WriterReady(x) /\ x.pc \in {"idle", "next"}
           /\ x.tmp = None /\ x.out = None
           /\ writer[w].libgen => /\ x.pc = "next" /\ x.libgen /\ x.targets = rest
BY IdleIsWriter DEF StoreInv, TypeOK, Done, Writer, MakeWriter, WriterReady

LEMMA JobDoneTyped ==
    ASSUME StoreInv, NEW w \in Writers, NEW state \in JobStates
    PROVE  JobDone(w, state) \in [Contents -> JobStates]
BY DEF StoreInv, TypeOK, JobDone

(* The file Install renames is a whole book, and belongs to the writer. *)
LEMMA SourceOfInstall ==
    ASSUME StoreInv, NEW w \in Writers, Install(w)
    PROVE  LET x == writer[w]
               source == IF x.convert THEN x.out ELSE x.tmp
           IN  /\ x.pc = "install" /\ x.name \in Names /\ x.content \in Contents
               /\ dir[source] \in Contents
               /\ {x.tmp, x.out} \subseteq Staging(w) \cup {None}
               /\ Staging(w) \subseteq Temps
<1> DEFINE x == writer[w]
           source == IF x.convert THEN x.out ELSE x.tmp
<1>1. x \in Writer /\ WriterReady(x) /\ x.pc = "install"
  BY DEF Install, StoreInv, TypeOK, WritersReady
<1>2. x.name \in Names /\ x.content \in Contents /\ x.tmp \in Temps /\ x.out \in Temps \cup {None}
  BY <1>1 DEF WriterReady, Writer
<1>3. source = (IF x.out = None THEN x.tmp ELSE x.out) /\ source \in Temps
  BY <1>1, <1>2 DEF Install, WriterReady
<1>4. dir[source] \in Contents
  BY <1>1, <1>3, PathsSplit DEF Install, StoreInv, SourcesWhole, TypeOK, Files
<1>5. {x.tmp, x.out} \subseteq Staging(w) \cup {None} /\ Staging(w) \subseteq Temps
  BY <1>2 DEF Staging
<1> QED
  BY <1>1, <1>2, <1>4, <1>5

LEMMA InstallStore ==
    ASSUME StoreInv, NEW w \in Writers, Install(w)
    PROVE  StoreInv'
<1> DEFINE y == writer[w]
           source == IF y.convert THEN y.out ELSE y.tmp
           x == Done(w, y.targets, TRUE)
<1>0. /\ dir' = [p \in Paths |-> CASE p = y.name -> dir[source]
                                   [] p \in {y.tmp, y.out} -> None
                                   [] OTHER -> dir[p]]
      /\ writer' = [writer EXCEPT ![w] = x] /\ temps' = temps
  BY DEF Install
<1>1. /\ y \in Writer /\ y.name \in Names /\ dir[source] \in Contents
      /\ {y.tmp, y.out} \subseteq Staging(w) \cup {None} /\ Staging(w) \subseteq Temps
  BY SourceOfInstall DEF StoreInv, TypeOK
<1>2. x \in Writer /\ WriterReady(x) /\ x.tmp = None /\ x.out = None /\ x.pc \in {"idle", "next"}
  BY <1>1, DoneIsReady DEF Writer
<1> HIDE DEF x, source
<1>3. /\ dir' \in [Paths -> Files \cup {None}]
      /\ \A p \in Temps : dir'[p] = None \/ dir'[p] = dir[p]
      /\ \A p \in Temps : p \notin {y.tmp, y.out} => dir'[p] = dir[p]
      /\ \A m \in Names : dir'[m] \in {dir[m], dir[source]}
  BY <1>0, <1>1, PathsSplit DEF StoreInv, TypeOK, Files
<1>4. WriterKeeps(w, x)
  BY <1>0, <1>1, <1>2, <1>3, PathsSplit DEF WriterKeeps, Staging
<1>5. \A m \in Names : dir'[m] # Partial
  BY <1>1, <1>3, LibraryAssumption DEF StoreInv, NamesWhole
<1>6. WritersReady' /\ StagingApart' /\ SourcesWhole' /\ NamesWhole'
  BY <1>0, <1>2, <1>4, <1>5, WriterMoves
<1>7. TypeOK'
  <2>1. writer' \in [Writers -> Writer]
    BY <1>0, <1>2 DEF StoreInv, TypeOK
  <2>2. jobs' \in [Contents -> JobStates]
    BY JobDoneTyped DEF Install, JobStates
  <2>3. GoRefresh \/ UNCHANGED refreshVars
    BY DEF Install
  <2> QED
    BY <1>3, <2>1, <2>2, <2>3, GoRefreshTyped DEF StoreInv, TypeOK, Install, boundVars
<1> QED
  BY <1>6, <1>7 DEF StoreInv

LEMMA WriteFailStore ==
    ASSUME StoreInv, NEW w \in Writers, WriteFail(w)
    PROVE  StoreInv'
<1> DEFINE y == writer[w]
           x == Done(w, y.targets, FALSE)
<1>0. dir' = CleanUp(w) /\ writer' = [writer EXCEPT ![w] = x] /\ temps' = temps
  BY DEF WriteFail
<1>1. y \in Writer /\ {y.tmp, y.out} \subseteq Staging(w) \cup {None} /\ Staging(w) \subseteq Temps
  BY DEF StoreInv, TypeOK, Writer, Staging
<1>2. x \in Writer /\ WriterReady(x) /\ x.tmp = None /\ x.out = None /\ x.pc \in {"idle", "next"}
  BY <1>1, DoneIsReady DEF Writer
<1> HIDE DEF x
<1>3. /\ dir' \in [Paths -> Files \cup {None}]
      /\ \A p \in Temps : dir'[p] = None \/ dir'[p] = dir[p]
      /\ \A p \in Temps : p \notin {y.tmp, y.out} => dir'[p] = dir[p]
      /\ \A m \in Names : dir'[m] = dir[m]
  BY <1>0, <1>1, PathsSplit DEF StoreInv, TypeOK, CleanUp
<1>4. WriterKeeps(w, x)
  BY <1>0, <1>1, <1>2, <1>3, PathsSplit DEF WriterKeeps, Staging
<1>5. \A m \in Names : dir'[m] # Partial
  BY <1>3 DEF StoreInv, NamesWhole
<1>6. WritersReady' /\ StagingApart' /\ SourcesWhole' /\ NamesWhole'
  BY <1>0, <1>2, <1>4, <1>5, WriterMoves
<1>7. TypeOK'
  <2>1. writer' \in [Writers -> Writer]
    BY <1>0, <1>2 DEF StoreInv, TypeOK
  <2>2. jobs' \in [Contents -> JobStates]
    BY JobDoneTyped DEF WriteFail, JobStates
  <2> QED
    BY <1>3, <2>1, <2>2, GoRefreshTyped DEF StoreInv, TypeOK, WriteFail, boundVars
<1> QED
  BY <1>6, <1>7 DEF StoreInv


LEMMA LibgenSkipStore ==
    ASSUME StoreInv, NEW w \in Writers, NEW c \in Contents, LibgenSkip(w, c)
    PROVE  StoreInv'
<1> DEFINE x == Done(w, writer[w].targets \ {c}, FALSE)
<1>0. writer' = [writer EXCEPT ![w] = x] /\ temps' = temps /\ dir' = dir
  BY DEF LibgenSkip, storeVars
<1>1. x \in Writer /\ WriterReady(x) /\ x.tmp = None /\ x.out = None /\ x.pc \in {"idle", "next"}
  BY DoneIsReady DEF StoreInv, TypeOK, Writer
<1> HIDE DEF x
<1>2. WriterKeeps(w, x)
  BY <1>0, <1>1 DEF WriterKeeps
<1>3. WritersReady' /\ StagingApart' /\ SourcesWhole' /\ NamesWhole'
  BY <1>0, <1>1, <1>2, WriterMoves DEF StoreInv, NamesWhole
<1>4. TypeOK'
  <2>1. writer' \in [Writers -> Writer] /\ jobs' \in [Contents -> JobStates]
    BY <1>0, <1>1 DEF StoreInv, TypeOK, LibgenSkip, SkipJob, JobStates
  <2> QED
    BY <2>1, GoRefreshTyped DEF StoreInv, TypeOK, LibgenSkip, storeVars, boundVars
<1> QED
  BY <1>3, <1>4 DEF StoreInv

LEMMA LibgenEndStore ==
    ASSUME StoreInv, NEW w \in Writers, LibgenEnd(w)
    PROVE  StoreInv'
<1>1. writer' = [writer EXCEPT ![w] = IdleWriter] /\ temps' = temps /\ dir' = dir
  BY DEF LibgenEnd, storeVars
<1>2. WriterKeeps(w, IdleWriter)
  BY <1>1, IdleIsWriter DEF WriterKeeps
<1>3. WritersReady' /\ StagingApart' /\ SourcesWhole' /\ NamesWhole'
  BY <1>1, <1>2, IdleIsWriter, WriterMoves DEF StoreInv, NamesWhole
<1>4. TypeOK'
  <2>1. writer' \in [Writers -> Writer] /\ (GoRefresh \/ UNCHANGED refreshVars)
    BY <1>1, IdleIsWriter DEF StoreInv, TypeOK, LibgenEnd
  <2> QED
    BY <2>1, GoRefreshTyped DEF StoreInv, TypeOK, LibgenEnd, storeVars, boundVars
<1> QED
  BY <1>3, <1>4 DEF StoreInv

LEMMA RefreshBeginStore == ASSUME StoreInv, RefreshBegin PROVE StoreInv'
<1>1. MakeScan(TRUE, Glob, {}, FALSE) \in Scan
  BY DEF MakeScan, Scan, Glob
<1>2. waiting' \in Nat
  BY DEF StoreInv, TypeOK, RefreshBegin
<1>3. TypeOK'
  BY <1>1, <1>2 DEF StoreInv, TypeOK, RefreshBegin, storeVars, boundVars
<1> QED
  BY <1>3, StoreUntouched DEF RefreshBegin, storeVars

(* The names hold whole books, so an entry made of an unfinished file has a *)
(* staging path.                                                            *)
LEMMA ReadBookListed ==
    ASSUME StoreInv, NEW p \in Paths, ReadBook(p)
    PROVE  /\ scan' \in Scan /\ scan.held /\ scan'.held
           /\ scan'.todo = scan.todo \ {p}
           /\ \/ scan'.list = scan.list /\ dir[p] \notin Contents
              \/ \E b \in Book : /\ scan'.list = AddBook(scan.list, b)
                                 /\ b.path = p
                                 /\ b.id = IF dir[p] \in Contents THEN dir[p] ELSE p
                                 /\ p \in Names => dir[p] \in Contents
<1>1. scan \in Scan
  BY DEF StoreInv, TypeOK
<1>2. p \in Names => dir[p] \in Contents \cup {None}
  BY PathsSplit DEF StoreInv, TypeOK, NamesWhole, Files
<1> DEFINE entry(id) == [id |-> id, path |-> p]
<1>3. ASSUME NEW id \in IDs
      PROVE  /\ entry(id) \in Book /\ entry(id).path = p /\ entry(id).id = id
             /\ AddBook(scan.list, entry(id)) \subseteq Book
  BY <1>1, <1>3 DEF Book, AddBook, Scan
<1>4. CASE dir[p] \in Contents /\ scan' = MakeScan(TRUE, scan.todo \ {p}, AddBook(scan.list, entry(dir[p])), scan.errs)
  <2>1. dir[p] \in IDs
    BY <1>4 DEF IDs
  <2> QED
    BY <1>1, <1>3, <1>4, <2>1 DEF ReadBook, MakeScan, Scan
<1>5. CASE dir[p] = Partial /\ scan' = MakeScan(TRUE, scan.todo \ {p}, AddBook(scan.list, entry(p)), scan.errs)
  <2>1. p \in IDs /\ p \notin Names /\ dir[p] \notin Contents
    BY <1>2, <1>5, PathsSplit, LibraryAssumption DEF IDs
  <2> QED
    BY <1>1, <1>3, <1>5, <2>1 DEF ReadBook, MakeScan, Scan
<1>6. CASE dir[p] \notin Contents /\ scan' = MakeScan(TRUE, scan.todo \ {p}, scan.list, TRUE)
  BY <1>1, <1>6 DEF ReadBook, MakeScan, Scan
<1> QED
  BY <1>4, <1>5, <1>6 DEF ReadBook

LEMMA ReadBookStore == ASSUME StoreInv, NEW p \in Paths, ReadBook(p) PROVE StoreInv'
<1>1. TypeOK'
  BY ReadBookListed DEF StoreInv, TypeOK, ReadBook, storeVars, boundVars
<1> QED
  BY <1>1, StoreUntouched DEF ReadBook, storeVars

LEMMA RefreshEndStore == ASSUME StoreInv, RefreshEnd PROVE StoreInv'
<1>1. TypeOK'
  BY NoScanIsScan DEF StoreInv, TypeOK, RefreshEnd, NewIndex, Scan, storeVars, boundVars
<1> QED
  BY <1>1, StoreUntouched DEF RefreshEnd, storeVars

LEMMA RecordStatusStore == ASSUME StoreInv, NEW e \in BOOLEAN, RecordStatus(e) PROVE StoreInv'
<1>1. TypeOK'
  BY DEF StoreInv, TypeOK, RecordStatus, storeVars, boundVars
<1> QED
  BY <1>1, StoreUntouched DEF RecordStatus, storeVars

LEMMA RescanStore == ASSUME StoreInv, Rescan PROVE StoreInv'
<1>1. TypeOK'
  BY GoRefreshTyped, ArriveTyped DEF StoreInv, TypeOK, Rescan, storeVars
<1> QED
  BY <1>1, StoreUntouched DEF Rescan, storeVars

LEMMA AdminBeginStore == ASSUME StoreInv, NEW a \in Admins, AdminBegin(a) PROVE StoreInv'
<1>1. /\ admin' \in [Admins -> Admin] /\ Arrive
      /\ UNCHANGED <<storeVars, refreshVars, writer, jobs, temps>>
  BY DEF AdminBegin, RemoveBegin, ClaimRemoveBegin, ClaimResolveBegin, MakeAdmin, Admin,
         StoreInv, TypeOK, Book
<1>2. TypeOK'
  BY <1>1, ArriveTyped DEF StoreInv, TypeOK, storeVars, refreshVars
<1> QED
  BY <1>1, <1>2, StoreUntouched DEF storeVars

(* A removal moves one file of the directory to the trash. *)
LEMMA RenameToTrashMoves ==
    ASSUME StoreInv, AdminsReady, NEW a \in Admins, NEW s \in 0 .. LastSecond, RenameToTrash(a, s)
    PROVE  LET x == admin[a] IN
           /\ dir' \in [Paths -> Files \cup {None}]
           /\ dir'[x.path] = None /\ \A p \in Paths : p # x.path => dir'[p] = dir[p]
           /\ trash' \subseteq Trashed
           /\ \E y \in trash' : y.id = x.id /\ y.path = x.path /\ y.content = dir[x.path]
           /\ \A z \in trash : \E y \in trash' : y.id = z.id /\ y.path = z.path
<1> DEFINE x == admin[a]
<1>1. x \in Admin /\ x.pc = "remove" /\ x.id \in IDs /\ x.path \in Paths /\ dir[x.path] # None
  BY DEF RenameToTrash, Exists, StoreInv, TypeOK, AdminsReady
<1>2. dir' = [dir EXCEPT ![x.path] = None] /\ trash' = Trash(x.id, s, x.path)
  BY DEF RenameToTrash
<1> HIDE DEF x
<1>3. dir' \in [Paths -> Files \cup {None}] /\ dir'[x.path] = None
      /\ \A p \in Paths : p # x.path => dir'[p] = dir[p]
  BY <1>1, <1>2 DEF StoreInv, TypeOK
<1> DEFINE new == [id |-> x.id, second |-> s, path |-> x.path, content |-> dir[x.path]]
<1>4. new \in Trashed /\ new.id = x.id /\ new.path = x.path /\ new.second = s /\ new.content = dir[x.path]
  BY <1>1, LibraryAssumption DEF Trashed, StoreInv, TypeOK
<1>5. trash' = {z \in trash : ~ (z.id = x.id /\ z.second = s /\ z.path = x.path)} \cup {new}
  BY <1>2 DEF Trash
<1> HIDE DEF new
<1>6. trash' \subseteq Trashed /\ new \in trash'
  BY <1>4, <1>5 DEF StoreInv, TypeOK
<1>7. ASSUME NEW z \in trash PROVE \E y \in trash' : y.id = z.id /\ y.path = z.path
  BY <1>4, <1>5
<1> QED
  BY <1>3, <1>4, <1>6, <1>7 DEF x

LEMMA RenameToTrashStore ==
    ASSUME StoreInv, AdminsReady, NEW a \in Admins, NEW s \in 0 .. LastSecond, RenameToTrash(a, s)
    PROVE  StoreInv'
<1>1. /\ dir' \in [Paths -> Files \cup {None}] /\ trash' \subseteq Trashed
      /\ \A p \in Paths : dir'[p] = None \/ dir'[p] = dir[p]
  BY RenameToTrashMoves
<1>2. writer' = writer /\ temps' = temps
  BY DEF RenameToTrash
<1>3. TypeOK'
  <2>1. admin' \in [Admins -> Admin]
    BY IdleIsAdmin DEF RenameToTrash, MakeAdmin, Admin, StoreInv, TypeOK
  <2>2. GoRefresh \/ UNCHANGED refreshVars
    BY DEF RenameToTrash
  <2> QED
    BY <1>1, <2>1, <2>2, GoRefreshTyped DEF StoreInv, TypeOK, RenameToTrash, boundVars
<1>4. WritersReady' /\ StagingApart'
  BY <1>1, <1>2, PathsSplit DEF StoreInv, WritersReady, StagingApart, Staging
<1>5. SourcesWhole'
  <2> SUFFICES ASSUME NEW w \in Writers, writer[w].pc = "install"
               PROVE  dir'[IF writer[w].out = None THEN writer[w].tmp ELSE writer[w].out] # Partial
    BY <1>2 DEF SourcesWhole
  <2>1. (IF writer[w].out = None THEN writer[w].tmp ELSE writer[w].out) \in Paths
    BY PathsSplit DEF StoreInv, TypeOK, WritersReady, WriterReady, Writer
  <2> QED
    BY <1>1, <2>1, LibraryAssumption DEF StoreInv, SourcesWhole
<1>6. NamesWhole'
  BY <1>1, PathsSplit, LibraryAssumption DEF StoreInv, NamesWhole
<1> QED
  BY <1>3, <1>4, <1>5, <1>6 DEF StoreInv

LEMMA AdminEndStore ==
    ASSUME StoreInv, AdminsReady, NEW a \in Admins, RemoveFail(a) \/ ResolveClaim(a) \/ ResolveFail(a)
    PROVE  StoreInv'
<1>1. admin' \in [Admins -> Admin]
  BY IdleIsAdmin DEF RemoveFail, ResolveClaim, ResolveFail, AfterFailedRemoval, StoreInv, TypeOK
<1>2. claims' \in [Claims -> Claim]
  BY DEF RemoveFail, ResolveClaim, ResolveFail, StoreInv, TypeOK, AdminsReady, Claim, ClaimStatus,
         MakeClaim, Admin, storeVars
<1>3. GoRefresh \/ UNCHANGED refreshVars
  BY DEF RemoveFail, ResolveClaim, ResolveFail
<1>4. UNCHANGED <<dir, trash, writer, jobs, temps, boundVars>>
  BY DEF RemoveFail, ResolveClaim, ResolveFail, storeVars
<1>5. TypeOK'
  BY <1>1, <1>2, <1>3, <1>4, GoRefreshTyped DEF StoreInv, TypeOK, boundVars
<1> QED
  BY <1>4, <1>5, StoreUntouched

LEMMA RestartStore == ASSUME StoreInv, Restart PROVE StoreInv'
<1>1. TypeOK'
  <2>1. writer' \in [Writers -> Writer] /\ admin' \in [Admins -> Admin] /\ scan' \in Scan
    BY IdleIsWriter, IdleIsAdmin, NoScanIsScan DEF Restart
  <2>2. jobs' \in [Contents -> JobStates] /\ finished' \in [BOOLEAN -> Nat]
    BY DEF Restart, JobStates
  <2>3. restarts' \in 0 .. MaxRestarts
    BY LibraryAssumption DEF StoreInv, TypeOK, Restart
  <2> QED
    BY <2>1, <2>2, <2>3 DEF StoreInv, TypeOK, Restart, storeVars
<1>2. dir' = dir /\ temps' = temps /\ \A w \in Writers : writer'[w] = IdleWriter
  BY DEF Restart, storeVars
<1>3. WritersReady' /\ StagingApart' /\ SourcesWhole' /\ NamesWhole'
  BY <1>2, IdleIsWriter DEF StoreInv, WritersReady, StagingApart, Staging, SourcesWhole, NamesWhole
<1> QED
  BY <1>1, <1>3 DEF StoreInv

(* One step per action. *)
LEMMA StoreStep == ASSUME StoreInv, AdminsReady, [Next]_vars PROVE StoreInv'
<1>1. CASE Refresh
  BY <1>1, RefreshBeginStore, ReadBookStore, RefreshEndStore, RecordStatusStore DEF Refresh
<1>2. ASSUME NEW w \in Writers, WriterBegin(w) PROVE StoreInv'
  BY <1>2, UploadBeginStore, LibgenBeginStore DEF WriterBegin
<1>3. ASSUME NEW w \in Writers, WriterStep(w) PROVE StoreInv'
  BY <1>3, LibgenFetchStore, LibgenSkipStore, ConvertEndStore, WriteEndStore, ConvertBeginStore,
     InstallStore, WriteFailStore, LibgenEndStore DEF WriterStep
<1>4. ASSUME NEW a \in Admins, AdminBegin(a) PROVE StoreInv'
  BY <1>4, AdminBeginStore
<1>5. ASSUME NEW a \in Admins, AdminStep(a) PROVE StoreInv'
  BY <1>5, RenameToTrashStore, AdminEndStore DEF AdminStep
<1>6. CASE Rescan
  BY <1>6, RescanStore
<1>7. CASE Restart
  BY <1>7, RestartStore
<1>8. CASE UNCHANGED vars
  <2>1. TypeOK'
    BY <1>8 DEF StoreInv, TypeOK, vars, storeVars, refreshVars, boundVars
  <2> QED
    BY <1>8, <2>1, StoreUntouched DEF vars, storeVars
<1> QED
  BY <1>1, <1>2, <1>3, <1>4, <1>5, <1>6, <1>7, <1>8 DEF Next

LEMMA AdminsStep == ASSUME StoreInv, AdminsReady, [Next]_vars PROVE AdminsReady'
<1>1. CASE UNCHANGED admin
  BY <1>1 DEF AdminsReady
<1>2. ASSUME NEW a \in Admins, AdminBegin(a) PROVE AdminsReady'
  BY <1>2 DEF AdminBegin, RemoveBegin, ClaimRemoveBegin, ClaimResolveBegin, MakeAdmin,
              AdminsReady, StoreInv, TypeOK, Book
<1>3. ASSUME NEW a \in Admins, AdminStep(a) PROVE AdminsReady'
  BY <1>3, IdleIsAdmin
  DEF AdminStep, RenameToTrash, RemoveFail, ResolveClaim, ResolveFail, AfterFailedRemoval,
      MakeAdmin, AdminsReady, StoreInv, TypeOK, Admin
<1>4. CASE Restart
  BY <1>4, IdleIsAdmin DEF Restart, AdminsReady
<1>5. CASE Refresh \/ Rescan
  BY <1>1, <1>5 DEF Refresh, RefreshBegin, ReadBook, RefreshEnd, RecordStatus, Rescan
<1>6. ASSUME NEW w \in Writers, WriterBegin(w) \/ WriterStep(w) PROVE AdminsReady'
  BY <1>1, <1>6
  DEF WriterBegin, UploadBegin, LibgenBegin, WriterStep, LibgenFetch, LibgenSkip, ConvertEnd,
      WriteEnd, ConvertBegin, Install, WriteFail, LibgenEnd
<1> QED
  BY <1>1, <1>2, <1>3, <1>4, <1>5, <1>6 DEF Next, vars

(* The types, and what they rest on, hold in every reachable state. *)
THEOREM StoreInvariant == Spec => [](StoreInv /\ AdminsReady)
<1>1. Init => StoreInv /\ AdminsReady
  <2> SUFFICES ASSUME Init PROVE StoreInv /\ AdminsReady
    OBVIOUS
  <2>1. dir \in [Paths -> Contents \cup {None}] /\ (\A t \in Temps : dir[t] = None)
        /\ writer = [w \in Writers |-> IdleWriter] /\ admin = [a \in Admins |-> IdleAdmin]
    BY DEF Init
  <2>2. TypeOK
    <3>1. writer \in [Writers -> Writer] /\ admin \in [Admins -> Admin] /\ scan \in Scan
      BY <2>1, IdleIsWriter, IdleIsAdmin, NoScanIsScan DEF Init
    <3>2. jobs \in [Contents -> JobStates] /\ finished \in [BOOLEAN -> Nat]
      BY DEF Init, JobStates
    <3>3. claims \in [Claims -> Claim]
      BY DEF Init, Claim, ClaimStatus, MakeClaim
    <3>4. temps \in 0 .. MaxTemps /\ ops \in 0 .. MaxOps /\ restarts \in 0 .. MaxRestarts
      BY LibraryAssumption DEF Init
    <3> QED
      BY <2>1, <3>1, <3>2, <3>3, <3>4 DEF Init, TypeOK, Files
  <2>3. WritersReady /\ StagingApart /\ SourcesWhole
    BY <2>1, IdleIsWriter DEF WritersReady, StagingApart, Staging, SourcesWhole
  <2>4. NamesWhole /\ AdminsReady
    BY <2>1, IdleIsAdmin, PathsSplit, LibraryAssumption DEF NamesWhole, AdminsReady
  <2> QED
    BY <2>2, <2>3, <2>4 DEF StoreInv
<1>2. StoreInv /\ AdminsReady /\ [Next]_vars => (StoreInv /\ AdminsReady)'
  BY StoreStep, AdminsStep
<1> QED
  BY <1>1, <1>2, PTL DEF Spec

(* Every store, index, request and job record keeps its type, whatever     *)
(* uploads, batches, removals, refreshes and restarts interleave.           *)
THEOREM LibraryTypeCorrect == Spec => []TypeOK
<1>1. StoreInv => TypeOK
  BY DEF StoreInv
<1> QED
  BY <1>1, StoreInvariant, PTL

(* No upload, conversion or download leaves an unfinished file under a      *)
(* library name (storeUploadedBook, installLibgenDownload).                 *)
THEOREM NamesAlwaysWhole == Spec => []NamesWhole
<1>1. StoreInv => NamesWhole
  BY DEF StoreInv
<1> QED
  BY <1>1, StoreInvariant, PTL

(***************************************************************************)
(* Staging files and jobs                                                  *)
(***************************************************************************)

(* A step of one writer is no restart and leaves the other writers alone. *)
LEMMA OneWriterMoves ==
    ASSUME StoreInv, NEW w \in Writers, WriterBegin(w) \/ WriterStep(w)
    PROVE  /\ restarts' = restarts /\ admin' = admin /\ claims' = claims /\ trash' = trash
           /\ \A v \in Writers \ {w} : writer'[v] = writer[v]
<1>1. writer \in [Writers -> Writer]
  BY DEF StoreInv, TypeOK
<1>2. \E x : writer' = [writer EXCEPT ![w] = x]
  BY DEF WriterBegin, UploadBegin, LibgenBegin, WriterStep, LibgenFetch, LibgenSkip, ConvertEnd,
         WriteEnd, ConvertBegin, Install, WriteFail, LibgenEnd
<1>3. restarts' = restarts /\ admin' = admin /\ claims' = claims /\ trash' = trash
  BY DEF WriterBegin, UploadBegin, LibgenBegin, WriterStep, LibgenFetch, LibgenSkip, ConvertEnd,
         WriteEnd, ConvertBegin, Install, WriteFail, LibgenEnd, Arrive, storeVars, boundVars
<1> QED
  BY <1>1, <1>2, <1>3

(* After a step of w a staging file is still there only if w holds it, or   *)
(* if it was there and w did not hold it.                                   *)
LEMMA OwnersKept ==
    ASSUME TempsOwned, restarts' = restarts,
           NEW w \in Writers, \A v \in Writers \ {w} : writer'[v] = writer[v],
           \A t \in Temps : dir'[t] # None =>
              \/ t \in {writer'[w].tmp, writer'[w].out}
              \/ dir[t] # None /\ t \notin {writer[w].tmp, writer[w].out}
    PROVE  TempsOwned'
BY DEF TempsOwned

(* Removals and refreshes make no staging file. *)
LEMMA OwnersUntouched ==
    ASSUME TempsOwned, restarts' = restarts, writer' = writer,
           \A t \in Temps : dir'[t] = None \/ dir'[t] = dir[t]
    PROVE  TempsOwned'
BY DEF TempsOwned

(* One step per action of a writer: a staging file goes with its owner. *)
LEMMA OwnedWriterStep ==
    ASSUME StoreInv, TempsOwned, NEW w \in Writers, WriterBegin(w) \/ WriterStep(w)
    PROVE  TempsOwned'
<1> DEFINE y == writer[w]
           x == writer'[w]
<1>0. y \in Writer /\ WriterReady(y) /\ None \notin Temps /\ writer \in [Writers -> Writer]
  BY PathsSplit DEF StoreInv, TypeOK, WritersReady
<1> SUFFICES ASSUME NEW t \in Temps, dir'[t] # None
             PROVE  t \in {x.tmp, x.out} \/ (dir[t] # None /\ t \notin {y.tmp, y.out})
  BY OneWriterMoves, OwnersKept
<1>b. y.pc \in {"idle", "next"} => y.tmp = None /\ y.out = None
  BY <1>0, IdleIsWriter DEF WriterReady
<1> HIDE DEF y
<1>1. ASSUME NEW n \in Names, NEW c \in Contents, NEW convert \in BOOLEAN,
             UploadBegin(w, n, c, convert)
      PROVE  x.tmp = NewTemp /\ y.pc = "idle" /\ (t # NewTemp => dir'[t] = dir[t])
  BY <1>0, <1>1, StagingFileCreated, PathsSplit DEF UploadBegin, MakeWriter, y
<1>2. ASSUME NEW picked \in SUBSET Contents, LibgenBegin(w, picked)
      PROVE  y.pc = "idle" /\ dir' = dir
  BY <1>2 DEF LibgenBegin, storeVars, y
<1>3. ASSUME NEW c \in Contents, NEW n \in Names, NEW convert \in BOOLEAN,
             LibgenFetch(w, c, n, convert)
      PROVE  x.tmp = NewTemp /\ y.pc = "next" /\ (t # NewTemp => dir'[t] = dir[t])
  BY <1>0, <1>3, StagingFileCreated, PathsSplit DEF LibgenFetch, MakeWriter, y
<1>4. ASSUME NEW c \in Contents, LibgenSkip(w, c)
      PROVE  y.pc = "next" /\ dir' = dir
  BY <1>4 DEF LibgenSkip, storeVars, y
<1>5. ASSUME NEW c \in Contents, ConvertEnd(w, c)
      PROVE  x.tmp = y.tmp /\ x.out = y.out /\ dir[t] # None
  BY <1>0, <1>5 DEF ConvertEnd, MakeWriter, Filled, StoreInv, TypeOK, Paths, y
<1>6. CASE WriteEnd(w)
  <2>1. x.tmp = y.tmp /\ y.pc = "writing" /\ dir[t] # None
    BY <1>0, <1>6 DEF WriteEnd, MakeWriter, Filled, StoreInv, TypeOK, Paths, y
  <2> QED
    BY <1>0, <2>1 DEF WriterReady
<1>7. CASE ConvertBegin(w)
  <2>1. x.tmp = y.tmp /\ x.out = NewTemp /\ y.out = None /\ (t # NewTemp => dir'[t] = dir[t])
    BY <1>0, <1>7, StagingFileCreated, PathsSplit DEF ConvertBegin, MakeWriter, y
  <2> QED
    BY <1>0, <2>1
<1>8. CASE Install(w)
  BY <1>8, SourceOfInstall, PathsSplit DEF Install, y
<1>9. CASE WriteFail(w)
  BY <1>9, PathsSplit DEF WriteFail, CleanUp, y
<1>10. CASE LibgenEnd(w)
  BY <1>0, <1>b, <1>10 DEF LibgenEnd, storeVars, y
<1> HIDE DEF x
<1> QED
  BY <1>0, <1>b, <1>1, <1>2, <1>3, <1>4, <1>5, <1>6, <1>7, <1>8, <1>9, <1>10
  DEF WriterBegin, WriterStep

(* The whole next-state relation, with the restart that excuses leftovers. *)
LEMMA OwnedStep == ASSUME StoreInv, AdminsReady, TempsOwned, [Next]_vars PROVE TempsOwned'
<1>1. ASSUME restarts' = restarts, writer' = writer, dir' = dir PROVE TempsOwned'
  BY <1>1, OwnersUntouched
<1>2. CASE Refresh \/ Rescan
  BY <1>1, <1>2 DEF Refresh, RefreshBegin, ReadBook, RefreshEnd, RecordStatus, Rescan, Arrive, storeVars, boundVars
<1>3. ASSUME NEW a \in Admins, AdminBegin(a) PROVE TempsOwned'
  BY <1>1, <1>3 DEF AdminBegin, RemoveBegin, ClaimRemoveBegin, ClaimResolveBegin, Arrive, storeVars
<1>4. ASSUME NEW a \in Admins, NEW s \in 0 .. LastSecond, RenameToTrash(a, s) PROVE TempsOwned'
  <2>1. \A t \in Temps : dir'[t] = None \/ dir'[t] = dir[t]
    BY <1>4, RenameToTrashMoves, PathsSplit
  <2> QED
    BY <1>4, <2>1, OwnersUntouched DEF RenameToTrash, boundVars
<1>5. ASSUME NEW a \in Admins, RemoveFail(a) \/ ResolveClaim(a) \/ ResolveFail(a) PROVE TempsOwned'
  BY <1>1, <1>5 DEF RemoveFail, ResolveClaim, ResolveFail, storeVars, boundVars
<1>6. CASE Restart
  BY <1>6 DEF Restart, TempsOwned, StoreInv, TypeOK
<1>7. CASE UNCHANGED vars
  BY <1>1, <1>7 DEF vars, storeVars, boundVars
<1> QED
  BY <1>2, <1>3, <1>4, <1>5, <1>6, <1>7, OwnedWriterStep DEF Next, AdminStep

(* Until the process ends, every staging file in the directory belongs to a *)
(* running upload or download (the deferred removals of library_ops.go and  *)
(* libgen.go), however writers and removals interleave.                     *)
THEOREM TempsAlwaysOwned == Spec => []TempsOwned
<1>1. Init => TempsOwned
  BY DEF Init, TempsOwned
<1>2. StoreInv /\ AdminsReady /\ TempsOwned /\ [Next]_vars => TempsOwned'
  BY OwnedStep
<1> QED
  BY <1>1, <1>2, StoreInvariant, PTL DEF Spec

(* A batch still has a book to do. *)
HasJob(x, c) == x.libgen /\ c \in x.targets \cup {x.content}

(* A step of one writer keeps the other batches and their downloads. *)
LEMMA JobsKept ==
    ASSUME JobsSettle, NEW w \in Writers, \A v \in Writers \ {w} : writer'[v] = writer[v],
           \A c \in Contents : jobs'[c] = "downloading" =>
              HasJob(writer'[w], c) \/ (jobs[c] = "downloading" /\ ~HasJob(writer[w], c))
    PROVE  JobsSettle'
BY DEF JobsSettle, HasJob

(* A batch marks a download finished, or failed, when it leaves the book. *)
LEMMA JobsWriterStep ==
    ASSUME StoreInv, JobsSettle, NEW w \in Writers, WriterBegin(w) \/ WriterStep(w)
    PROVE  JobsSettle'
<1> DEFINE y == writer[w]
           x == writer'[w]
<1>0. /\ y \in Writer /\ WriterReady(y) /\ None \notin Contents
      /\ writer \in [Writers -> Writer] /\ jobs \in [Contents -> JobStates]
  BY LibraryAssumption DEF StoreInv, TypeOK, WritersReady
<1> SUFFICES ASSUME NEW c \in Contents, jobs'[c] = "downloading"
             PROVE  HasJob(x, c) \/ (jobs[c] = "downloading" /\ ~HasJob(y, c))
  BY OneWriterMoves, JobsKept
<1>a. /\ y.pc = "idle" => ~HasJob(y, c)
      /\ y.pc = "next" => (HasJob(y, c) <=> c \in y.targets) /\ y.libgen
  BY <1>0 DEF WriterReady, HasJob, IdleWriter, MakeWriter
<1> HIDE DEF y
<1>1. ASSUME NEW n \in Names, NEW d \in Contents, NEW convert \in BOOLEAN,
             UploadBegin(w, n, d, convert)
      PROVE  y.pc = "idle" /\ jobs' = jobs
  BY <1>1 DEF UploadBegin, y
<1>2. ASSUME NEW picked \in SUBSET Contents, LibgenBegin(w, picked)
      PROVE  y.pc = "idle" /\ (HasJob(x, c) \/ jobs[c] = "downloading")
  BY <1>0, <1>2 DEF LibgenBegin, MakeWriter, HasJob, y
<1>3. ASSUME NEW d \in Contents, NEW n \in Names, NEW convert \in BOOLEAN,
             LibgenFetch(w, d, n, convert)
      PROVE  y.pc = "next" /\ jobs' = jobs /\ (HasJob(x, c) <=> c \in y.targets)
  BY <1>0, <1>3 DEF LibgenFetch, MakeWriter, HasJob, y
<1>4. ASSUME NEW d \in Contents, LibgenSkip(w, d)
      PROVE  y.pc = "next" /\ jobs[c] = "downloading" /\ (HasJob(x, c) <=> c \in y.targets)
  <2>1. y.pc = "next" /\ y.libgen /\ jobs' = SkipJob(d) /\ x = Done(w, y.targets \ {d}, FALSE)
    BY <1>0, <1>a, <1>4 DEF LibgenSkip, y
  <2>2. c # d /\ jobs[c] = "downloading"
    BY <1>0, <2>1 DEF SkipJob
  <2>3. x.libgen /\ x.targets = y.targets \ {d} /\ x.content = None
    BY <2>1 DEF Done, MakeWriter, y
  <2> QED
    BY <1>0, <2>1, <2>2, <2>3 DEF HasJob
<1>5. ASSUME (\E d \in Contents : ConvertEnd(w, d)) \/ WriteEnd(w) \/ ConvertBegin(w)
      PROVE  jobs' = jobs /\ x.libgen = y.libgen /\ x.targets = y.targets /\ x.content = y.content
  BY <1>0, <1>5 DEF ConvertEnd, WriteEnd, ConvertBegin, MakeWriter, y
<1>6. ASSUME Install(w) \/ WriteFail(w)
      PROVE  jobs[c] = "downloading" /\ (HasJob(y, c) => HasJob(x, c))
  <2>1. PICK state \in {"added", "failed"}, ok \in BOOLEAN :
          jobs' = JobDone(w, state) /\ x = Done(w, y.targets, ok)
    BY <1>0, <1>6 DEF Install, WriteFail, y
  <2>2. y.content \in Contents
    BY <1>0, <1>6 DEF Install, WriteFail, WriterReady, y
  <2>3. CASE y.libgen
    <3>1. jobs[c] = "downloading" /\ c # y.content
      BY <1>0, <2>1, <2>2, <2>3 DEF JobDone, y
    <3>2. x.libgen /\ x.targets = y.targets
      BY <2>1, <2>3 DEF Done, MakeWriter, y
    <3> QED
      BY <3>1, <3>2 DEF HasJob
  <2>4. CASE ~y.libgen
    BY <2>1, <2>4 DEF JobDone, HasJob, y
  <2> QED
    BY <2>3, <2>4
<1>7. ASSUME LibgenEnd(w)
      PROVE  jobs' = jobs /\ y.pc = "next" /\ y.targets = {}
  BY <1>7 DEF LibgenEnd, y
<1> HIDE DEF x
<1> QED
  BY <1>a, <1>1, <1>2, <1>3, <1>4, <1>5, <1>6, <1>7 DEF WriterBegin, WriterStep, HasJob

(* A job the status page shows as downloading is one that some batch has    *)
(* still to do (updateLibgenJob), however batches over the same books       *)
(* interleave.                                                              *)
THEOREM JobsAlwaysSettle == Spec => []JobsSettle
<1>1. Init => JobsSettle
  BY DEF Init, JobsSettle
<1>2. StoreInv /\ JobsSettle /\ [Next]_vars => JobsSettle'
  <2> SUFFICES ASSUME StoreInv, JobsSettle, [Next]_vars PROVE JobsSettle'
    OBVIOUS
  <2>1. CASE writer' = writer /\ jobs' = jobs
    BY <2>1 DEF JobsSettle
  <2>2. CASE Restart
    BY <2>2 DEF Restart, JobsSettle
  <2>3. CASE Refresh \/ Rescan
    BY <2>1, <2>3 DEF Refresh, RefreshBegin, ReadBook, RefreshEnd, RecordStatus, Rescan
  <2>4. ASSUME NEW a \in Admins, AdminBegin(a) \/ AdminStep(a) PROVE JobsSettle'
    BY <2>1, <2>4 DEF AdminBegin, RemoveBegin, ClaimRemoveBegin, ClaimResolveBegin, AdminStep,
                      RenameToTrash, RemoveFail, ResolveClaim, ResolveFail
  <2>5. CASE UNCHANGED vars
    BY <2>1, <2>5 DEF vars
  <2> QED
    BY <2>2, <2>3, <2>4, <2>5, JobsWriterStep DEF Next
<1> QED
  BY <1>1, <1>2, StoreInvariant, PTL DEF Spec

(***************************************************************************)
(* Names                                                                   *)
(***************************************************************************)

(* Of a writer's steps only Install has an effect on a name, its own. *)
LEMMA WriterNames ==
    ASSUME StoreInv, NEW w \in Writers, WriterBegin(w) \/ WriterStep(w)
    PROVE  LET x == writer[w] IN
           /\ ~Install(w) => \A m \in Names : dir'[m] = dir[m]
           /\ Install(w) => /\ x.name \in Names /\ dir'[x.name] \in Contents
                            /\ \A m \in Names : m # x.name => dir'[m] = dir[m]
<1> DEFINE y == writer[w]
<1>0. TypeOK /\ y \in Writer /\ WriterReady(y)
  BY DEF StoreInv, TypeOK, WritersReady
<1>1. ASSUME Install(w)
      PROVE  /\ y.name \in Names /\ dir'[y.name] \in Contents
             /\ \A m \in Names : m # y.name => dir'[m] = dir[m]
  <2>1. y.name \in Names /\ Names \cap Temps = {} /\ Names \subseteq Paths /\ None \notin Paths
        /\ {y.tmp, y.out} \subseteq Temps \cup {None}
        /\ dir[IF y.convert THEN y.out ELSE y.tmp] \in Contents
    BY <1>1, SourceOfInstall, PathsSplit
  <2> QED
    BY <1>1, <2>1 DEF Install
<1>2. ASSUME ~Install(w) PROVE \A n \in Names : dir'[n] = dir[n]
  <2>1. ASSUME NEW n \in Names, NEW c \in Contents, NEW convert \in BOOLEAN,
               UploadBegin(w, n, c, convert) \/ LibgenFetch(w, c, n, convert)
        PROVE  \A m \in Names : dir'[m] = dir[m]
    BY <2>1, StagingFileCreated DEF UploadBegin, LibgenFetch
  <2>2. ASSUME ConvertBegin(w) PROVE \A m \in Names : dir'[m] = dir[m]
    BY <2>2, StagingFileCreated DEF ConvertBegin
  <2>3. ASSUME NEW c \in Contents, ConvertEnd(w, c) PROVE \A m \in Names : dir'[m] = dir[m]
    BY <1>0, <2>3, StagingFileFilled DEF ConvertEnd, WriterReady
  <2>4. ASSUME WriteEnd(w) PROVE \A m \in Names : dir'[m] = dir[m]
    BY <1>0, <2>4, StagingFileFilled DEF WriteEnd, WriterReady
  <2>5. ASSUME WriteFail(w) PROVE \A m \in Names : dir'[m] = dir[m]
    BY <1>0, <2>5, PathsSplit DEF WriteFail, CleanUp, Writer
  <2>6. ASSUME NEW c \in Contents, LibgenSkip(w, c) PROVE dir' = dir
    BY <2>6 DEF LibgenSkip, storeVars
  <2>7. ASSUME NEW picked \in SUBSET Contents, LibgenBegin(w, picked) PROVE dir' = dir
    BY <2>7 DEF LibgenBegin, storeVars
  <2>8. ASSUME LibgenEnd(w) PROVE dir' = dir
    BY <2>8 DEF LibgenEnd, storeVars
  <2> QED
    BY <1>2, <2>1, <2>2, <2>3, <2>4, <2>5, <2>6, <2>7, <2>8 DEF WriterBegin, WriterStep
<1> QED
  BY <1>1, <1>2

(***************************************************************************)
(* The index                                                               *)
(***************************************************************************)

(* What the steps that are neither a refresh nor a restart do to names,     *)
(* trash and refreshes: nothing to a name, ...                              *)
TrashPathsKept == \A z \in trash : \E y \in trash' : y.path = z.path
ListsUntouched == index' = index /\ scan' = scan /\ TrashPathsKept
NamesUntouched ==
    /\ ListsUntouched /\ (RefreshDue => RefreshDue')
    /\ \A n \in Names : dir'[n] = dir[n]

(* ... a book installed at one, with a refresh to follow, ... *)
NameInstalled(n) ==
    /\ ListsUntouched /\ RefreshDue'
    /\ dir'[n] \in Contents /\ \A m \in Names : m # n => dir'[m] = dir[m]

(* ... or a file moved to the trash, with a refresh unless there are claims. *)
PathRemoved(p) ==
    /\ ListsUntouched /\ (RefreshDue => RefreshDue') /\ (Claims = {} => RefreshDue')
    /\ dir'[p] = None /\ \A q \in Paths : q # p => dir'[q] = dir[q]
    /\ \E y \in trash' : y.path = p

(* A refresh that is due stays due while a writer goes on. *)
LEMMA DueKept ==
    ASSUME TypeOK, RefreshDue, NEW w \in Writers, \A v \in Writers \ {w} : writer'[v] = writer[v],
           GoRefresh \/ UNCHANGED refreshVars,
           Batch(writer[w]) => Batch(writer'[w]) \/ GoRefresh
    PROVE  RefreshDue'
BY DEF TypeOK, RefreshDue, GoRefresh, Spawn, refreshVars

(* A batch stays one after each of its books, and is one after an addition. *)
LEMMA BatchGoesOn ==
    ASSUME TypeOK, NEW w \in Writers, writer[w].libgen,
           NEW rest, NEW ok \in BOOLEAN, writer[w].added \/ ok,
           writer' = [writer EXCEPT ![w] = Done(w, rest, ok)]
    PROVE  Batch(writer'[w])
<1>1. writer'[w] = Done(w, rest, ok)
  BY DEF TypeOK
<1>2. Done(w, rest, ok).added = TRUE
  BY DEF Done, MakeWriter
<1>3. Done(w, rest, ok).pc = "next" /\ Done(w, rest, ok).libgen = TRUE
  BY DEF Done, MakeWriter
<1> QED
  BY <1>1, <1>2, <1>3 DEF Batch

(* The goroutine a mutation starts is a refresh that is due. *)
LEMMA GoRefreshDue == ASSUME TypeOK, GoRefresh PROVE RefreshDue'
BY DEF TypeOK, GoRefresh, Spawn, RefreshDue

(* A writer installs a book in one name, or touches no name. *)
LEMMA WriterEffect ==
    ASSUME StoreInv, NEW w \in Writers, WriterBegin(w) \/ WriterStep(w)
    PROVE  NamesUntouched \/ \E n \in Names : NameInstalled(n)
<1> DEFINE y == writer[w]
           x == writer'[w]
<1>0. TypeOK /\ y \in Writer /\ WriterReady(y) /\ writer \in [Writers -> Writer]
  BY DEF StoreInv, TypeOK, WritersReady
<1>1. trash' = trash /\ \A v \in Writers \ {w} : writer'[v] = writer[v]
  BY OneWriterMoves
<1>2. GoRefresh \/ UNCHANGED refreshVars
  BY DEF WriterBegin, UploadBegin, LibgenBegin, WriterStep, LibgenFetch, LibgenSkip, ConvertEnd,
         WriteEnd, ConvertBegin, Install, WriteFail, LibgenEnd
<1>3. ListsUntouched
  BY <1>1, <1>2 DEF ListsUntouched, TrashPathsKept, GoRefresh, refreshVars
<1>4. Batch(y) => Batch(x) \/ GoRefresh
  <2> SUFFICES ASSUME Batch(y) PROVE Batch(x) \/ GoRefresh
    OBVIOUS
  <2>1. y.pc # "idle" /\ y.libgen /\ y.added
    BY DEF Batch
  <2>2. ASSUME NEW c \in Contents, NEW n \in Names, NEW convert \in BOOLEAN,
               LibgenFetch(w, c, n, convert)
        PROVE  Batch(x)
    BY <1>0, <2>1, <2>2 DEF LibgenFetch, MakeWriter, Batch
  <2>3. ASSUME NEW c \in Contents, LibgenSkip(w, c) PROVE Batch(x)
    BY <1>0, <2>1, <2>3 DEF LibgenSkip, Done, MakeWriter, Batch
  <2>4. ASSUME NEW c \in Contents, ConvertEnd(w, c) PROVE Batch(x)
    BY <1>0, <2>1, <2>4 DEF ConvertEnd, MakeWriter, Batch
  <2>5. ASSUME WriteEnd(w) \/ ConvertBegin(w) PROVE Batch(x)
    BY <1>0, <2>1, <2>5 DEF WriteEnd, ConvertBegin, MakeWriter, Batch
  <2>6. ASSUME Install(w) \/ WriteFail(w) PROVE Batch(x)
    BY <1>0, <2>1, <2>6, BatchGoesOn DEF Install, WriteFail
  <2>7. ASSUME LibgenEnd(w) PROVE GoRefresh
    BY <2>1, <2>7 DEF LibgenEnd
  <2>8. ~WriterBegin(w)
    BY <2>1 DEF WriterBegin, UploadBegin, LibgenBegin
  <2> QED
    BY <2>2, <2>3, <2>4, <2>5, <2>6, <2>7, <2>8 DEF WriterStep
<1>5. RefreshDue => RefreshDue'
  <2> HIDE DEF x, y
  <2> QED
    BY <1>0, <1>1, <1>2, <1>4, DueKept DEF x, y
<1>6. CASE Install(w)
  <2>1. RefreshDue'
    <3>1. CASE y.libgen
      BY <1>0, <1>6, <3>1, BatchGoesOn DEF Install, RefreshDue
    <3>2. CASE ~y.libgen
      BY <1>0, <1>6, <3>2, GoRefreshDue DEF Install
    <3> QED
      BY <3>1, <3>2
  <2>2. /\ y.name \in Names /\ dir'[y.name] \in Contents
        /\ \A m \in Names : m # y.name => dir'[m] = dir[m]
    BY <1>6, WriterNames
  <2> HIDE DEF y
  <2> QED
    BY <1>3, <2>1, <2>2 DEF NameInstalled
<1>7. CASE ~Install(w)
  BY <1>3, <1>5, <1>7, WriterNames DEF NamesUntouched
<1> QED
  BY <1>6, <1>7

(* An administrator moves one file to the trash, or touches no file. *)
LEMMA AdminEffect ==
    ASSUME StoreInv, AdminsReady, NEW a \in Admins, AdminBegin(a) \/ AdminStep(a)
    PROVE  NamesUntouched \/ \E p \in Paths : PathRemoved(p)
<1>0. TypeOK
  BY DEF StoreInv
<1>1. writer' = writer /\ (GoRefresh \/ UNCHANGED refreshVars)
  BY DEF AdminBegin, RemoveBegin, ClaimRemoveBegin, ClaimResolveBegin, AdminStep,
         RenameToTrash, RemoveFail, ResolveClaim, ResolveFail
<1>2. index' = index /\ scan' = scan /\ (RefreshDue => RefreshDue')
  <2>1. CASE GoRefresh
    BY <1>0, <2>1, GoRefreshDue DEF GoRefresh
  <2>2. CASE UNCHANGED refreshVars
    BY <1>1, <2>2 DEF refreshVars, RefreshDue
  <2> QED
    BY <1>1, <2>1, <2>2
<1>3. ASSUME NEW s \in 0 .. LastSecond, RenameToTrash(a, s) PROVE \E p \in Paths : PathRemoved(p)
  <2>1. admin[a].pc = "remove" /\ admin[a].path \in Paths
    BY <1>3 DEF RenameToTrash, AdminsReady
  <2>2. Claims = {} => RefreshDue'
    <3>1. Claims = {} => admin[a].claim = None
      BY <1>0 DEF TypeOK, Admin
    <3> QED
      BY <1>0, <1>3, <3>1, GoRefreshDue DEF RenameToTrash
  <2>3. /\ dir'[admin[a].path] = None /\ \A q \in Paths : q # admin[a].path => dir'[q] = dir[q]
        /\ \E y \in trash' : y.path = admin[a].path
        /\ TrashPathsKept
    BY <1>3, RenameToTrashMoves DEF TrashPathsKept
  <2> QED
    BY <1>2, <2>1, <2>2, <2>3 DEF PathRemoved, ListsUntouched
<1>4. ASSUME AdminBegin(a) \/ RemoveFail(a) \/ ResolveClaim(a) \/ ResolveFail(a)
      PROVE  dir' = dir /\ trash' = trash
  BY <1>4 DEF AdminBegin, RemoveBegin, ClaimRemoveBegin, ClaimResolveBegin, RemoveFail,
              ResolveClaim, ResolveFail, storeVars
<1> QED
  BY <1>2, <1>3, <1>4 DEF AdminStep, NamesUntouched, ListsUntouched, TrashPathsKept

(* Every step is one of seven kinds. *)
LEMMA IndexEffect ==
    ASSUME StoreInv, AdminsReady, [Next]_vars
    PROVE  \/ NamesUntouched
           \/ \E n \in Names : NameInstalled(n)
           \/ \E p \in Paths : PathRemoved(p)
           \/ RefreshBegin
           \/ \E p \in Paths : ReadBook(p)
           \/ RefreshEnd
           \/ Restart
<1>0. TypeOK
  BY DEF StoreInv
<1>1. ASSUME NEW e \in BOOLEAN, RecordStatus(e) PROVE NamesUntouched
  BY <1>1 DEF RecordStatus, NamesUntouched, ListsUntouched, TrashPathsKept, RefreshDue, storeVars
<1>2. CASE Rescan
  BY <1>0, <1>2, GoRefreshDue
  DEF Rescan, GoRefresh, NamesUntouched, ListsUntouched, TrashPathsKept, storeVars
<1>3. CASE UNCHANGED vars
  BY <1>3 DEF vars, NamesUntouched, ListsUntouched, TrashPathsKept, RefreshDue, storeVars, refreshVars
<1> QED
  BY <1>1, <1>2, <1>3, WriterEffect, AdminEffect DEF Next, Refresh

(* A refresh holding indMu collects; otherwise the index is what is listed. *)
LEMMA ListedIsList ==
    /\ scan.held => Listed = scan.list
    /\ ~scan.held => Listed = index
BY DEF Listed

(* The index says the same when the lists are left alone. *)
LEMMA SameLists ==
    ASSUME IndexInv, ListsUntouched
    PROVE  /\ (IndexIdsUnique /\ ListUnique)' /\ Listed' = Listed
           /\ scan' = scan
BY DEF IndexInv, ListsUntouched, IndexIdsUnique, ListUnique, Listed

(* One lemma for each kind of step. *)
LEMMA IndexNamesUntouched ==
    ASSUME StoreInv, IndexInv, NamesUntouched
    PROVE  IndexInv'
<1>1. CompleteSoon'
  BY SameLists DEF IndexInv, CompleteSoon, NamesUntouched
<1>2. AccurateSoon'
  BY SameLists DEF IndexInv, AccurateSoon, NamesUntouched, ListsUntouched, TrashPathsKept
<1> QED
  BY <1>1, <1>2, SameLists DEF IndexInv, NamesUntouched

(* A book installed in a name is listed by the refresh it makes due. *)
LEMMA IndexNameInstalled ==
    ASSUME StoreInv, IndexInv, NEW n \in Names, NameInstalled(n)
    PROVE  IndexInv'
BY SameLists DEF IndexInv, CompleteSoon, AccurateSoon, NameInstalled

(* A file removed is dropped by the refresh its removal makes due. *)
LEMMA IndexPathRemoved ==
    ASSUME StoreInv, IndexInv, NEW p \in Paths, PathRemoved(p)
    PROVE  IndexInv'
<1>1. Names \subseteq Paths
  BY PathsSplit
<1>2. CompleteSoon'
  BY <1>1, SameLists DEF IndexInv, CompleteSoon, PathRemoved
<1>3. AccurateSoon'
  <2> SUFFICES ASSUME NEW b \in Listed', b.path \in Names, ~RefreshDue'
               PROVE  \/ dir'[b.path] = b.id
                      \/ Claims # {} /\ dir'[b.path] = None /\ \E x \in trash' : x.path = b.path
    BY DEF AccurateSoon
  <2>1. Claims # {} /\ ~RefreshDue /\ b \in Listed
    BY SameLists DEF PathRemoved
  <2>2. CASE b.path = p
    BY <2>1, <2>2 DEF PathRemoved
  <2>3. CASE b.path # p
    BY <1>1, <2>1, <2>3 DEF IndexInv, AccurateSoon, PathRemoved, ListsUntouched, TrashPathsKept
  <2> QED
    BY <2>2, <2>3
<1> QED
  BY <1>2, <1>3, SameLists DEF IndexInv, PathRemoved

(* A refresh that begins has every path to read. *)
LEMMA IndexRefreshBegin ==
    ASSUME StoreInv, IndexInv, RefreshBegin
    PROVE  IndexInv'
<1>1. /\ scan'.held /\ scan'.todo = Glob /\ scan'.list = {} /\ dir' = dir /\ index' = index
  BY DEF RefreshBegin, MakeScan, storeVars
<1>2. Listed' = {}
  BY <1>1 DEF Listed
<1>3. \A n \in Names : dir[n] # None => n \in Glob
  BY PathsSplit DEF Glob
<1> QED
  BY <1>1, <1>2, <1>3 DEF IndexInv, IndexIdsUnique, ListUnique, CompleteSoon, AccurateSoon

(* AddBook keeps one entry for each ID, and has one for the ID it is given. *)
LEMMA AddBookUnique ==
    ASSUME NEW list, \A c, x \in list : c.id = x.id => c = x, NEW b
    PROVE  /\ \A c, x \in AddBook(list, b) : c.id = x.id => c = x
           /\ \E x \in AddBook(list, b) : x.id = b.id
           /\ list \subseteq AddBook(list, b) /\ AddBook(list, b) \subseteq list \cup {b}
BY DEF AddBook

(* A path read is listed, unless its ID is. *)
LEMMA IndexReadBook ==
    ASSUME StoreInv, IndexInv, NEW p \in Paths, ReadBook(p)
    PROVE  IndexInv'
<1>0. /\ dir' = dir /\ trash' = trash /\ index' = index /\ waiting' = waiting /\ writer' = writer
      /\ scan.held /\ scan'.held /\ scan'.todo = scan.todo \ {p}
  BY ReadBookListed DEF ReadBook, storeVars
<1>1. Listed = scan.list /\ Listed' = scan'.list /\ (RefreshDue => RefreshDue')
  BY <1>0 DEF Listed, RefreshDue
<1>2. CASE scan'.list = scan.list /\ dir[p] \notin Contents
  <2>1. p \in Names => dir[p] = None
    BY <1>2, PathsSplit DEF StoreInv, TypeOK, NamesWhole, Files
  <2> QED
    BY <1>0, <1>1, <1>2, <2>1
    DEF IndexInv, IndexIdsUnique, ListUnique, CompleteSoon, AccurateSoon
<1>3. ASSUME NEW b \in Book, scan'.list = AddBook(scan.list, b), b.path = p,
             b.id = IF dir[p] \in Contents THEN dir[p] ELSE p,
             p \in Names => dir[p] \in Contents
      PROVE  IndexInv'
  <2>1. /\ ListUnique' /\ IndexIdsUnique'
        /\ \E x \in scan'.list : x.id = b.id
        /\ scan.list \subseteq scan'.list /\ scan'.list \subseteq scan.list \cup {b}
    BY <1>0, <1>3, AddBookUnique DEF IndexInv, ListUnique, IndexIdsUnique
  <2>2. CompleteSoon'
    BY <1>0, <1>1, <1>3, <2>1 DEF IndexInv, CompleteSoon
  <2>3. AccurateSoon'
    BY <1>0, <1>1, <1>3, <2>1 DEF IndexInv, AccurateSoon
  <2> QED
    BY <2>1, <2>2, <2>3 DEF IndexInv
<1> QED
  BY <1>2, <1>3, ReadBookListed

(* The list published is that of the scan. *)
LEMMA IndexRefreshEnd ==
    ASSUME StoreInv, IndexInv, RefreshEnd
    PROVE  IndexInv'
<1>1. /\ scan.held /\ scan.todo = {} /\ index' = scan.list /\ ~scan'.held /\ scan'.list = {}
      /\ dir' = dir /\ trash' = trash /\ waiting' = waiting /\ writer' = writer
  BY NoScanIsScan DEF RefreshEnd, NewIndex, storeVars
<1>2. Listed = scan.list /\ Listed' = scan.list /\ (RefreshDue => RefreshDue')
  BY <1>1 DEF Listed, RefreshDue
<1> QED
  BY <1>1, <1>2 DEF IndexInv, IndexIdsUnique, ListUnique, CompleteSoon, AccurateSoon

(* After a restart all is due. *)
LEMMA IndexRestart ==
    ASSUME Restart
    PROVE  IndexInv'
<1>1. waiting' = 1 /\ index' = {} /\ ~scan'.held /\ scan'.list = {}
  BY NoScanIsScan DEF Restart
<1>2. RefreshDue'
  BY <1>1 DEF RefreshDue
<1> QED
  BY <1>1, <1>2 DEF IndexInv, IndexIdsUnique, ListUnique, CompleteSoon, AccurateSoon

(* The invariant of the index: besides its unique IDs, a book that a name   *)
(* holds and an entry that has become false are on the way to being seen.   *)
THEOREM IndexInvariant == Spec => []IndexInv
<1>1. Init => IndexInv
  <2> SUFFICES ASSUME Init PROVE IndexInv
    OBVIOUS
  <2>1. waiting = 1 /\ index = {} /\ ~scan.held /\ scan.list = {}
    BY NoScanIsScan DEF Init
  <2>2. RefreshDue
    BY <2>1 DEF RefreshDue
  <2> QED
    BY <2>1, <2>2 DEF IndexInv, IndexIdsUnique, ListUnique, CompleteSoon, AccurateSoon
<1>2. StoreInv /\ AdminsReady /\ IndexInv /\ [Next]_vars => IndexInv'
  BY IndexEffect, IndexNamesUntouched, IndexNameInstalled, IndexPathRemoved, IndexRefreshBegin,
     IndexReadBook, IndexRefreshEnd, IndexRestart
<1> QED
  BY <1>1, <1>2, StoreInvariant, PTL DEF Spec

(* The index never lists one ID twice (the seen map of Indexer.Refresh).    *)
THEOREM IndexIdsAlwaysUnique == Spec => []IndexIdsUnique
<1>1. IndexInv => IndexIdsUnique
  BY DEF IndexInv
<1> QED
  BY <1>1, IndexInvariant, PTL

(* Once all is quiet the index is the list the invariant is about. *)
LEMMA SettledNotDue == ASSUME Settled PROVE ~RefreshDue /\ ~scan.held /\ Listed = index
BY DEF Settled, RefreshDue, Batch, Listed

(* Once all is quiet every book in the library is listed, in whatever order *)
(* installs, batches, removals, restarts and the refreshes they started ran. *)
THEOREM IndexAlwaysComplete == Spec => []IndexComplete
<1>1. IndexInv => IndexComplete
  BY SettledNotDue DEF IndexInv, IndexComplete, CompleteSoon
<1> QED
  BY <1>1, IndexInvariant, PTL

(* Once all is quiet an entry at a library name has the file it describes,  *)
(* or else was of a book that a removal, for a claim, has put in the trash. *)
THEOREM IndexStaleOnlyByClaims == Spec => []OnlyClaimsLeaveStale
<1>1. IndexInv => OnlyClaimsLeaveStale
  BY SettledNotDue DEF IndexInv, OnlyClaimsLeaveStale, AccurateSoon
<1> QED
  BY <1>1, IndexInvariant, PTL

(* Without claims an entry at a library name always has the file it         *)
(* describes once all is quiet: every removal is followed by a refresh.     *)
THEOREM IndexAlwaysAccurate == ASSUME Claims = {} PROVE Spec => []IndexAccurate
<1>1. IndexInv => IndexAccurate
  BY SettledNotDue DEF IndexInv, IndexAccurate, AccurateSoon
<1> QED
  BY <1>1, IndexInvariant, PTL

(***************************************************************************)
(* Claims                                                                  *)
(***************************************************************************)

(* The trash keeps an entry of every ID it ever had. *)
LEMMA TrashStep ==
    ASSUME StoreInv, AdminsReady, [Next]_vars
    PROVE  \A z \in trash : \E y \in trash' : y.id = z.id
<1>1. ASSUME NEW a \in Admins, NEW s \in 0 .. LastSecond, RenameToTrash(a, s)
      PROVE  \A z \in trash : \E y \in trash' : y.id = z.id
  BY <1>1, RenameToTrashMoves
<1>2. ASSUME NEW a \in Admins, RemoveFail(a) \/ ResolveClaim(a) \/ ResolveFail(a) \/ AdminBegin(a)
      PROVE  trash' = trash
  BY <1>2 DEF RemoveFail, ResolveClaim, ResolveFail, AdminBegin, RemoveBegin, ClaimRemoveBegin,
              ClaimResolveBegin, storeVars
<1>3. CASE Refresh \/ Rescan \/ Restart \/ UNCHANGED vars
  BY <1>3 DEF Refresh, RefreshBegin, ReadBook, RefreshEnd, RecordStatus, Rescan, Restart, vars, storeVars
<1> QED
  BY <1>1, <1>2, <1>3, OneWriterMoves DEF Next, AdminStep

ClaimsInv == ResolvesTrashed /\ ClaimRemovedTrashed

(* A claim is resolved with removal only after the move to the trash. *)
LEMMA ClaimsStep ==
    ASSUME StoreInv, AdminsReady, ClaimsInv, [Next]_vars
    PROVE  ClaimsInv'
<1>0. TypeOK
  BY DEF StoreInv
<1>1. ASSUME UNCHANGED <<admin, claims>> PROVE ClaimsInv'
  BY <1>1, TrashStep DEF ClaimsInv, ResolvesTrashed, ClaimRemovedTrashed
<1>2. ASSUME NEW a \in Admins, AdminBegin(a) PROVE ClaimsInv'
  <2>1. claims' = claims /\ trash' = trash
    BY <1>2 DEF AdminBegin, RemoveBegin, ClaimRemoveBegin, ClaimResolveBegin, storeVars
  <2>2. ResolvesTrashed'
    BY <1>0, <1>2, <2>1 DEF AdminBegin, RemoveBegin, ClaimRemoveBegin, ClaimResolveBegin, MakeAdmin,
                      TypeOK, ClaimsInv, ResolvesTrashed
  <2> QED
    BY <2>1, <2>2 DEF ClaimsInv, ClaimRemovedTrashed
<1>3. ASSUME NEW a \in Admins, NEW s \in 0 .. LastSecond, RenameToTrash(a, s) PROVE ClaimsInv'
  <2>1. claims' = claims /\ (\E y \in trash' : y.id = admin[a].id)
    BY <1>3, RenameToTrashMoves DEF RenameToTrash
  <2>2. ResolvesTrashed'
    <3>1. admin'[a] = IdleAdmin \/ admin'[a].id = admin[a].id
      BY <1>0, <1>3 DEF RenameToTrash, MakeAdmin, TypeOK
    <3>2. \A d \in Admins \ {a} : admin'[d] = admin[d]
      BY <1>0, <1>3 DEF RenameToTrash, TypeOK
    <3> QED
      BY <2>1, <3>1, <3>2, TrashStep, IdleIsAdmin DEF ClaimsInv, ResolvesTrashed
  <2>3. ClaimRemovedTrashed'
    BY <2>1, TrashStep DEF ClaimsInv, ClaimRemovedTrashed
  <2> QED
    BY <2>2, <2>3 DEF ClaimsInv
<1>4. ASSUME NEW a \in Admins, RemoveFail(a) \/ ResolveFail(a) PROVE ClaimsInv'
  BY <1>0, <1>4, IdleIsAdmin
  DEF RemoveFail, AfterFailedRemoval, ResolveFail, TypeOK, storeVars,
      ClaimsInv, ResolvesTrashed, ClaimRemovedTrashed
<1>5. ASSUME NEW a \in Admins, ResolveClaim(a) PROVE ClaimsInv'
  <2>1. /\ trash' = trash /\ admin' = [admin EXCEPT ![a] = IdleAdmin]
        /\ admin[a].pc = "resolve" /\ admin[a].claim \in Claims
    BY <1>5 DEF ResolveClaim, AdminsReady
  <2>2. ResolvesTrashed'
    BY <1>0, <2>1, IdleIsAdmin DEF TypeOK, ClaimsInv, ResolvesTrashed
  <2>3. ClaimRemovedTrashed'
    <3>1. CASE admin[a].id = None
      BY <1>0, <1>5, <2>1, <3>1
      DEF ResolveClaim, MakeClaim, TypeOK, ClaimsInv, ClaimRemovedTrashed
    <3>2. CASE admin[a].id # None
      <4>1. \E x \in trash : x.id = admin[a].id
        BY <2>1, <3>2 DEF ClaimsInv, ResolvesTrashed
      <4> QED
        BY <1>0, <1>5, <2>1, <3>2, <4>1
        DEF ResolveClaim, MakeClaim, TypeOK, ClaimsInv, ClaimRemovedTrashed
    <3> QED
      BY <3>1, <3>2
  <2> QED
    BY <2>2, <2>3 DEF ClaimsInv
<1>6. CASE Restart
  BY <1>6, IdleIsAdmin DEF Restart, storeVars, ClaimsInv, ResolvesTrashed, ClaimRemovedTrashed
<1>7. CASE Refresh \/ Rescan \/ UNCHANGED vars
  BY <1>1, <1>7
  DEF Refresh, RefreshBegin, ReadBook, RefreshEnd, RecordStatus, Rescan, vars, storeVars
<1> QED
  BY <1>1, <1>2, <1>3, <1>4, <1>5, <1>6, <1>7, OneWriterMoves DEF Next, AdminStep

(* A claim recorded as removed has its book in the trash, across failed     *)
(* removals, competing administrators and restarts.                         *)
THEOREM ClaimAlwaysTrashed == Spec => []ClaimRemovedTrashed
<1>1. Init => ClaimsInv
  BY IdleIsAdmin DEF Init, MakeClaim, ClaimsInv, ResolvesTrashed, ClaimRemovedTrashed
<1>2. StoreInv /\ AdminsReady /\ ClaimsInv /\ [Next]_vars => ClaimsInv'
  BY ClaimsStep
<1>3. ClaimsInv => ClaimRemovedTrashed
  BY DEF ClaimsInv
<1> QED
  BY <1>1, <1>2, <1>3, StoreInvariant, PTL DEF Spec

(* A claim has one outcome for good, though several administrators work on  *)
(* it: only the update of a pending claim has an effect.                    *)
THEOREM ClaimsResolvedOnce == Spec => ClaimResolvedOnce
<1> DEFINE Once == \A k \in Claims : claims[k].status # "pending" => claims'[k] = claims[k]
<1>1. StoreInv /\ AdminsReady /\ [Next]_vars => [Once]_vars
  <2> SUFFICES ASSUME StoreInv, AdminsReady, [Next]_vars PROVE Once
    OBVIOUS
  <2>1. CASE claims' = claims
    BY <2>1
  <2>2. ASSUME NEW a \in Admins, ResolveClaim(a) PROVE Once
    <3>1. /\ claims \in [Claims -> Claim] /\ admin[a].claim \in Claims
          /\ claims[admin[a].claim].status = "pending"
          /\ \E c : claims' = [claims EXCEPT ![admin[a].claim] = c]
      BY <2>2 DEF ResolveClaim, StillPending, AdminsReady, StoreInv, TypeOK
    <3> QED
      BY <3>1
  <2>3. ASSUME NEW a \in Admins, ~ResolveClaim(a), AdminBegin(a) \/ AdminStep(a) PROVE claims' = claims
    BY <2>3 DEF AdminBegin, RemoveBegin, ClaimRemoveBegin, ClaimResolveBegin, AdminStep,
                RenameToTrash, RemoveFail, ResolveFail, storeVars
  <2>4. CASE Refresh \/ Rescan \/ Restart \/ UNCHANGED vars
    BY <2>1, <2>4
    DEF Refresh, RefreshBegin, ReadBook, RefreshEnd, RecordStatus, Rescan, Restart, vars, storeVars
  <2> QED
    BY <2>1, <2>2, <2>3, <2>4, OneWriterMoves DEF Next
<1> QED
  BY <1>1, StoreInvariant, PTL DEF Spec, ClaimResolvedOnce

(***************************************************************************)
(* Files at library names                                                  *)
(***************************************************************************)

InProgress(w) == writer[w].pc \notin {"idle", "next"}

(* No two uploads or downloads are in progress for one name.  Nothing in    *)
(* the code sees to it: the run library_overwrite shows what happens then.  *)
NamesApart ==
    \A w, v \in Writers : w # v /\ InProgress(w) /\ InProgress(v) => writer[w].name # writer[v].name

(* The name a writer found free stays free until it installs. *)
NamesReserved == \A w \in Writers : InProgress(w) => dir[writer[w].name] = None

(* A writer in progress was so before, for the same name, or found it free. *)
LEMMA NameTaken ==
    ASSUME StoreInv, NEW w \in Writers, WriterBegin(w) \/ WriterStep(w), InProgress(w)'
    PROVE  /\ ~Install(w) /\ writer'[w].name \in Names
           /\ \/ dir[writer'[w].name] = None
              \/ InProgress(w) /\ writer'[w].name = writer[w].name
<1> DEFINE x == writer[w]
<1>0. x \in Writer /\ WriterReady(x) /\ writer \in [Writers -> Writer]
  BY DEF StoreInv, TypeOK, WritersReady
<1>1. ASSUME NEW n \in Names, NEW c \in Contents, NEW convert \in BOOLEAN,
             UploadBegin(w, n, c, convert) \/ LibgenFetch(w, c, n, convert)
      PROVE  writer'[w].name = n /\ dir[n] = None
  BY <1>0, <1>1 DEF UploadBegin, NameFree, LibgenFetch, UniqueName, MakeWriter
<1>2. ASSUME WriteEnd(w) \/ ConvertBegin(w) \/ \E c \in Contents : ConvertEnd(w, c)
      PROVE  InProgress(w) /\ x.name \in Names /\ writer'[w].name = x.name
  BY <1>0, <1>2 DEF WriteEnd, ConvertBegin, ConvertEnd, MakeWriter, InProgress, WriterReady
<1>3. ASSUME NEW rest \in SUBSET Contents, NEW ok \in BOOLEAN,
             writer' = [writer EXCEPT ![w] = Done(w, rest, ok)]
      PROVE  FALSE
  BY <1>0, <1>3, DoneIsReady DEF InProgress
<1>4. ~Install(w) /\ ~WriteFail(w)
  BY <1>0, <1>3 DEF Install, WriteFail, Writer
<1>5. ASSUME NEW c \in Contents PROVE ~LibgenSkip(w, c)
  BY <1>0, <1>3 DEF LibgenSkip, Writer
<1>6. ASSUME NEW picked \in SUBSET Contents PROVE ~LibgenBegin(w, picked)
  BY <1>0 DEF LibgenBegin, MakeWriter, InProgress
<1>7. ~LibgenEnd(w)
  BY <1>0, IdleIsWriter DEF LibgenEnd, InProgress
<1> QED
  BY <1>1, <1>2, <1>4, <1>5, <1>6, <1>7 DEF WriterBegin, WriterStep

(* The name a writer is busy with stays free, as no other installs in it. *)
LEMMA ReservedWriterStep ==
    ASSUME StoreInv, NamesApart, NamesReserved, NEW w \in Writers, WriterBegin(w) \/ WriterStep(w)
    PROVE  NamesReserved'
<1> SUFFICES ASSUME NEW v \in Writers, InProgress(v)'
             PROVE  dir'[writer'[v].name] = None
  BY DEF NamesReserved
<1>1. CASE v = w
  BY <1>1, NameTaken, WriterNames DEF NamesReserved
<1>2. CASE v # w
  <2>1. writer'[v] = writer[v] /\ InProgress(v) /\ dir[writer[v].name] = None /\ writer[v].name \in Names
    BY <1>2, OneWriterMoves DEF InProgress, NamesReserved, StoreInv, WritersReady, WriterReady
  <2>2. Install(w) => writer[v].name # writer[w].name
    BY <1>2, <2>1 DEF Install, InProgress, NamesApart
  <2> QED
    BY <2>1, <2>2, WriterNames
<1> QED
  BY <1>1, <1>2

(* The other steps start no write and put nothing under a name. *)
LEMMA OtherNames ==
    ASSUME StoreInv, AdminsReady, [Next]_vars, \A w \in Writers : ~WriterBegin(w) /\ ~WriterStep(w)
    PROVE  /\ \A w \in Writers : writer'[w] = writer[w] \/ writer'[w] = IdleWriter
           /\ \A n \in Names : \/ dir'[n] = dir[n]
                               \/ dir'[n] = None /\ \E x \in trash' : x.content = dir[n]
<1>1. ASSUME NEW a \in Admins, NEW s \in 0 .. LastSecond, RenameToTrash(a, s)
      PROVE  /\ writer' = writer
             /\ \A n \in Names : \/ dir'[n] = dir[n]
                                 \/ dir'[n] = None /\ \E x \in trash' : x.content = dir[n]
  BY <1>1, RenameToTrashMoves, PathsSplit, ZenonT(30) DEF RenameToTrash
<1>2. ASSUME NEW a \in Admins, AdminBegin(a) \/ RemoveFail(a) \/ ResolveClaim(a) \/ ResolveFail(a)
      PROVE  writer' = writer /\ dir' = dir
  BY <1>2 DEF AdminBegin, RemoveBegin, ClaimRemoveBegin, ClaimResolveBegin, RemoveFail,
              ResolveClaim, ResolveFail, storeVars
<1>3. CASE Refresh \/ Rescan \/ UNCHANGED vars
  BY <1>3 DEF Refresh, RefreshBegin, ReadBook, RefreshEnd, RecordStatus, Rescan, vars, storeVars
<1>4. CASE Restart
  BY <1>4 DEF Restart, storeVars
<1> QED
  BY <1>1, <1>2, <1>3, <1>4 DEF Next, AdminStep

(* As long as no two writers are in progress for one name, a file at a      *)
(* library name changes only by being moved, as it is, to the trash: the    *)
(* check of the name long before the rename and the removal of a path read  *)
(* from an old index do no other harm.                                      *)
THEOREM NothingElseDestroys == Spec /\ []NamesApart => NothingDestroyed
<1> DEFINE Kept == \A n \in Names : dir[n] # None /\ dir'[n] # dir[n] =>
                      dir'[n] = None /\ \E x \in trash' : x.content = dir[n]
<1>1. Init => NamesReserved
  BY IdleIsWriter DEF Init, NamesReserved, InProgress
<1>2. StoreInv /\ AdminsReady /\ NamesApart /\ NamesReserved /\ [Next]_vars => NamesReserved'
  <2> SUFFICES ASSUME StoreInv, AdminsReady, NamesApart, NamesReserved,
                      \A w \in Writers : ~WriterBegin(w) /\ ~WriterStep(w), [Next]_vars
               PROVE  NamesReserved'
    BY ReservedWriterStep
  <2> QED
    BY OtherNames, IdleIsWriter
    DEF NamesReserved, InProgress, StoreInv, WritersReady, WriterReady
<1>3. StoreInv /\ AdminsReady /\ NamesReserved /\ [Next]_vars => [Kept]_vars
  <2>1. ASSUME StoreInv, NamesReserved, NEW w \in Writers, WriterBegin(w) \/ WriterStep(w)
        PROVE  Kept
    <3>1. Install(w) => dir[writer[w].name] = None
      BY <2>1 DEF Install, InProgress, NamesReserved
    <3> QED
      BY <2>1, <3>1, WriterNames
  <2> QED
    BY <2>1, OtherNames
<1> QED
  BY <1>1, <1>2, <1>3, StoreInvariant, PTL DEF Spec, NothingDestroyed

(* So nothing is destroyed where there is one writer at a time. *)
THEOREM OneWriterDestroysNothing ==
    ASSUME \A w, v \in Writers : w = v PROVE Spec => NothingDestroyed
<1>1. NamesApart
  BY DEF NamesApart
<1>2. []NamesApart
  BY <1>1, PTL
<1> QED
  BY <1>2, NothingElseDestroys

(***************************************************************************)
(* The status of the last scan                                             *)
(***************************************************************************)

(* No two goroutines that have left Refresh are about to record different   *)
(* results.  The code does not see to it: indMu is released before the      *)
(* status is recorded.                                                      *)
ResultsAgree == \A e, f \in BOOLEAN : finished[e] > 0 /\ finished[f] > 0 => e = f

(* A result still to be recorded is that of the last scan. *)
LastToRecord == \A e \in BOOLEAN : finished[e] > 0 => lastErrs = e

StatusInv == LastScanReported /\ LastToRecord

(* The steps of requests, and those of a scan up to its end, leave alone    *)
(* what the status depends on.                                              *)
LEMMA StatusUntouched ==
    ASSUME [Next]_vars, ~RefreshEnd, \A e \in BOOLEAN : ~RecordStatus(e), ~Restart
    PROVE  UNCHANGED <<finished, status, lastErrs>>
<1>1. ASSUME NEW w \in Writers, WriterBegin(w) \/ WriterStep(w)
      PROVE  UNCHANGED <<finished, status, lastErrs>>
  BY <1>1 DEF WriterBegin, UploadBegin, LibgenBegin, WriterStep, LibgenFetch, LibgenSkip, ConvertEnd,
              WriteEnd, ConvertBegin, Install, WriteFail, LibgenEnd, GoRefresh, refreshVars
<1>2. ASSUME NEW a \in Admins, AdminBegin(a) \/ AdminStep(a)
      PROVE  UNCHANGED <<finished, status, lastErrs>>
  BY <1>2 DEF AdminBegin, RemoveBegin, ClaimRemoveBegin, ClaimResolveBegin, AdminStep, RenameToTrash,
              RemoveFail, ResolveClaim, ResolveFail, GoRefresh, refreshVars
<1>3. CASE Refresh \/ Rescan \/ UNCHANGED vars
  BY <1>3 DEF Refresh, RefreshBegin, ReadBook, Rescan, GoRefresh, vars, refreshVars
<1> QED
  BY <1>1, <1>2, <1>3 DEF Next

(* LastScanReported is false: two scans may record in the other order.      *)
(* That is the only way, across all restarts and requests: as long as no    *)
(* two results that differ wait to be recorded, the status page shows that  *)
(* of the last scan.                                                        *)
THEOREM OnlyLateResultsMisreport == Spec /\ []ResultsAgree => []LastScanReported
<1>0. \A e \in BOOLEAN : ~([f \in BOOLEAN |-> 0][e] > 0)
  OBVIOUS
<1>1. Init => StatusInv
  <2>1. Init => finished = [e \in BOOLEAN |-> 0] /\ status = FALSE /\ lastErrs = FALSE
    BY DEF Init
  <2> QED
    BY <1>0, <2>1, Zenon DEF StatusInv, LastScanReported, LastToRecord
<1>2. TypeOK /\ StatusInv /\ ResultsAgree' /\ [Next]_vars => StatusInv'
  <2> SUFFICES ASSUME TypeOK, StatusInv, ResultsAgree', [Next]_vars PROVE StatusInv'
    OBVIOUS
  <2>0. finished \in [BOOLEAN -> Nat]
    BY DEF TypeOK
  <2>1. CASE RefreshEnd
    <3> PICK errs \in BOOLEAN : scan.errs = errs
      BY DEF TypeOK, Scan
    <3>1. lastErrs' = errs /\ finished' = [finished EXCEPT ![errs] = @ + 1]
      BY <2>1 DEF RefreshEnd
    <3>2. finished'[errs] > 0
      BY <2>0, <3>1
    <3> QED
      BY <3>1, <3>2 DEF ResultsAgree, StatusInv, LastScanReported, LastToRecord
  <2>2. ASSUME NEW e \in BOOLEAN, RecordStatus(e) PROVE StatusInv'
    <3>1. /\ finished[e] > 0 /\ finished' = [finished EXCEPT ![e] = @ - 1]
          /\ status' = e /\ lastErrs' = lastErrs
      BY <2>2 DEF RecordStatus
    <3>2. \A f \in BOOLEAN : finished'[f] > 0 => finished[f] > 0
      BY <2>0, <3>1
    <3> QED
      BY <3>1, <3>2 DEF StatusInv, LastScanReported, LastToRecord
  <2>3. CASE Restart
    <3>1. finished' = [e \in BOOLEAN |-> 0] /\ status' = FALSE /\ lastErrs' = FALSE
      BY <2>3 DEF Restart
    <3> QED
      BY <1>0, <3>1, Zenon DEF StatusInv, LastScanReported, LastToRecord
  <2>4. CASE UNCHANGED <<finished, status, lastErrs>>
    BY <2>4 DEF StatusInv, LastScanReported, LastToRecord
  <2> QED
    BY <2>1, <2>2, <2>3, <2>4, StatusUntouched
<1>3. StatusInv => LastScanReported
  BY DEF StatusInv
<1> QED
  BY <1>1, <1>2, <1>3, LibraryTypeCorrect, PTL DEF Spec

=============================================================================
