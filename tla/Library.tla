------------------------------ MODULE Library -------------------------------
(***************************************************************************)
(* The managed library directory and its index: uploads and LibGen         *)
(* downloads that stage, convert and install files (library_ops.go,        *)
(* libgen.go, admin_libgen.go), removals into the trash, copyright claims  *)
(* that remove a book (copyright_claims.go), and the refreshes that        *)
(* rebuild the in-memory index (indexer.go, server.go).                    *)
(*                                                                         *)
(* Nothing but indMu orders these goroutines: a name is checked long       *)
(* before the rename that uses it, a removal acts on a path read from an   *)
(* index that may be stale, and each mutation starts one more refresh.     *)
(*                                                                         *)
(* The book directory maps paths to contents.  A book's ID is a hash of    *)
(* the file, so a content stands for its ID.  A library name is a stem and *)
(* a variant: <<s, 1>> is "s.epub", <<s, k>> is "s (k).epub".  Staging     *)
(* files have names of their own, never reused (os.CreateTemp).            *)
(***************************************************************************)
EXTENDS Naturals, FiniteSets

CONSTANTS
    Stems,        \* base names books are stored under
    MaxVariants,  \* bound on the variants uniqueLibraryFilename tries
    Contents,     \* complete, readable book files (and their md5 and ID)
    Partial,      \* a file still being written
    None,         \* no file, no path, no claim
    Writers,      \* upload requests and LibGen batches in progress
    Admins,       \* removal and claim requests in progress
    Claims,       \* copyright claims filed as pending
    MaxTemps,     \* bound on the staging files ever created
    MaxOps,       \* bound on the requests ever begun
    MaxRestarts,  \* bound on the times the process ends and is started again
    LastSecond    \* bound on time.Now().Unix(), counted from the start

ASSUME LibraryAssumption ==
    /\ MaxVariants \in Nat \ {0}
    /\ MaxTemps \in Nat /\ MaxOps \in Nat /\ MaxRestarts \in Nat /\ LastSecond \in Nat
    /\ None \notin Stems \cup Contents \cup Claims
    /\ None \notin (Stems \cup {None}) \X Nat
    /\ Partial \notin Contents /\ Partial # None

VARIABLES
    dir,       \* the book directory: content of each path
    trash,     \* .bookbrowser/trash
    index,     \* Indexer.booklist
    waiting,   \* refresh goroutines waiting for indMu
    scan,      \* the refresh holding indMu
    finished,  \* goroutines past Refresh yet to record that it had errors, or none
    status,    \* lastIndexError # ""
    lastErrs,  \* whether the last scan to complete had errors (history)
    writer,    \* state of each writer
    admin,     \* state of each removal or claim request
    claims,    \* copyright_claims.status and book_id
    jobs,      \* Server.libgenJobs
    temps,     \* staging files created so far
    ops,       \* requests begun so far
    restarts   \* times the process was restarted

storeVars == <<dir, trash, claims>>
refreshVars == <<index, waiting, scan, finished, status, lastErrs>>
boundVars == <<ops, restarts>>
vars == <<storeVars, refreshVars, writer, admin, jobs, temps, boundVars>>

(***************************************************************************)
(* Types                                                                   *)
(***************************************************************************)
Names == Stems \X (1 .. MaxVariants)
Temps == {None} \X (1 .. MaxTemps)
Paths == Names \cup Temps
Files == Contents \cup {Partial}

(* An unfinished file hashes to an ID of its own, here its path. *)
IDs == Contents \cup Temps
Book == [id : IDs, path : Paths]
Trashed == [id : IDs, second : Nat, path : Paths, content : Files]

Scan == [held : BOOLEAN, todo : SUBSET Paths, list : SUBSET Book, errs : BOOLEAN]
MakeScan(held, todo, list, errs) ==
    [held |-> held, todo |-> todo, list |-> list, errs |-> errs]
NoScan == MakeScan(FALSE, {}, {}, FALSE)

Writer == [pc : {"idle", "next", "writing", "converting", "install"},
           name : Names \cup {None}, content : Contents \cup {None},
           tmp : Temps \cup {None}, out : Temps \cup {None}, convert : BOOLEAN,
           libgen : BOOLEAN, targets : SUBSET Contents, added : BOOLEAN]
MakeWriter(pc, n, c, t, o, convert, libgen, targets, added) ==
    [pc |-> pc, name |-> n, content |-> c, tmp |-> t, out |-> o, convert |-> convert,
     libgen |-> libgen, targets |-> targets, added |-> added]
IdleWriter == MakeWriter("idle", None, None, None, None, FALSE, FALSE, {}, FALSE)

Admin == [pc : {"idle", "remove", "resolve"}, id : IDs \cup {None},
          path : Paths \cup {None}, claim : Claims \cup {None}]
MakeAdmin(pc, id, p, k) == [pc |-> pc, id |-> id, path |-> p, claim |-> k]
IdleAdmin == MakeAdmin("idle", None, None, None)

ClaimStatus == {"pending", "removed", "resolved"}
Claim == [status : ClaimStatus, book : IDs \cup {None}]
MakeClaim(s, id) == [status |-> s, book |-> id]
JobStates == {"none", "downloading", "failed", "added"}

(* Every store, index, request and job record keeps its type. *)
TypeOK ==
    /\ dir \in [Paths -> Files \cup {None}]
    /\ trash \subseteq Trashed
    /\ index \subseteq Book
    /\ waiting \in Nat
    /\ scan \in Scan
    /\ finished \in [BOOLEAN -> Nat]
    /\ status \in BOOLEAN
    /\ lastErrs \in BOOLEAN
    /\ writer \in [Writers -> Writer]
    /\ admin \in [Admins -> Admin]
    /\ claims \in [Claims -> Claim]
    /\ jobs \in [Contents -> JobStates]
    /\ temps \in 0 .. MaxTemps
    /\ ops \in 0 .. MaxOps
    /\ restarts \in 0 .. MaxRestarts

(* The server starts on any library without staging files, and indexes it. *)
Init ==
    /\ dir \in {d \in [Paths -> Contents \cup {None}] : \A t \in Temps : d[t] = None}
    /\ trash = {}
    /\ index = {}
    /\ waiting = 1
    /\ scan = NoScan
    /\ finished = [e \in BOOLEAN |-> 0]
    /\ status = FALSE
    /\ lastErrs = FALSE
    /\ writer = [w \in Writers |-> IdleWriter]
    /\ admin = [a \in Admins |-> IdleAdmin]
    /\ claims = [k \in Claims |-> MakeClaim("pending", None)]
    /\ jobs = [c \in Contents |-> "none"]
    /\ temps = 0
    /\ ops = 0
    /\ restarts = 0

(***************************************************************************)
(* Operators named X_Something, just before X, are X with a plausible bug: *)
(* substituted for X they must break a property.                           *)
(***************************************************************************)

(* A request arrives. *)
Arrive ==
    /\ ops < MaxOps
    /\ ops' = ops + 1
    /\ UNCHANGED restarts

(* go s.RefreshBookIndex(): one goroutine for every change. *)
Spawn_Coalesced(n) == IF scan.held THEN n ELSE 1
Spawn(n) == n + 1

GoRefresh ==
    /\ waiting' = Spawn(waiting)
    /\ UNCHANGED <<index, scan, finished, status, lastErrs>>

(***************************************************************************)
(* RefreshBookIndex and Indexer.Refresh                                    *)
(***************************************************************************)

(* zglob: every file with a book extension, staging files included. *)
Glob == {p \in Paths : dir[p] # None}

(* A goroutine gets indMu and lists the files. *)
RefreshBegin ==
    /\ waiting > 0
    /\ ~scan.held
    /\ waiting' = waiting - 1
    /\ scan' = MakeScan(TRUE, Glob, {}, FALSE)
    /\ UNCHANGED <<storeVars, index, finished, status, lastErrs, writer, admin, jobs, temps, boundVars>>

(* The seen map: the first file with an ID is listed. *)
AddBook_Unseen(list, b) == list \cup {b}
AddBook(list, b) ==
    IF \E x \in list : x.id = b.id THEN list ELSE list \cup {b}

(* getBook on one listed file.  It is an error if the file is gone or does  *)
(* not parse; an unfinished file may do either (a PDF's prefix parses).     *)
ReadBook(p) ==
    LET rest == scan.todo \ {p}
        listed(id) == scan' = MakeScan(TRUE, rest,
                          AddBook(scan.list, [id |-> id, path |-> p]), scan.errs)
    IN  /\ scan.held
        /\ p \in scan.todo
        /\ \/ dir[p] \in Contents /\ listed(dir[p])
           \/ dir[p] = Partial /\ listed(p)
           \/ dir[p] \notin Contents /\ scan' = MakeScan(TRUE, rest, scan.list, TRUE)
        /\ UNCHANGED <<storeVars, index, waiting, finished, status, lastErrs, writer,
                       admin, jobs, temps, boundVars>>

(* i.booklist = booklist *)
NewIndex_Merged == index \cup scan.list
NewIndex == scan.list

(* Refresh returns: indMu is released, the status is not yet recorded. *)
RefreshEnd ==
    /\ scan.held
    /\ scan.todo = {}
    /\ index' = NewIndex
    /\ scan' = NoScan
    /\ lastErrs' = scan.errs
    /\ finished' = [finished EXCEPT ![scan.errs] = @ + 1]
    /\ UNCHANGED <<storeVars, waiting, status, writer, admin, jobs, temps, boundVars>>

(* The goroutine takes indexStatusMu and stores the result of its scan. *)
RecordStatus(e) ==
    /\ finished[e] > 0
    /\ finished' = [finished EXCEPT ![e] = @ - 1]
    /\ status' = e
    /\ UNCHANGED <<storeVars, index, waiting, scan, lastErrs, writer, admin, jobs, temps,
                   boundVars>>

(* handleAdminLibraryRescan, handleAPILibraryRescan, SIGUSR1. *)
Rescan ==
    /\ Arrive
    /\ GoRefresh
    /\ UNCHANGED <<storeVars, writer, admin, jobs, temps>>

(***************************************************************************)
(* Uploads and downloads                                                   *)
(***************************************************************************)

(* os.CreateTemp in the book directory. *)
NewTemp == <<None, temps + 1>>
CreateTemp ==
    /\ temps < MaxTemps
    /\ temps' = temps + 1

(* os.Stat(destination) fails with "not exist". *)
NameFree_Unchecked(n) == TRUE
NameFree(n) == dir[n] = None

(* storeUploadedBook up to io.Copy.  A taken name is refused. *)
UploadBegin(w, n, c, convert) ==
    /\ writer[w].pc = "idle"
    /\ Arrive
    /\ NameFree(n)
    /\ CreateTemp
    /\ dir' = [dir EXCEPT ![NewTemp] = Partial]
    /\ writer' = [writer EXCEPT ![w] =
                    MakeWriter("writing", n, c, NewTemp, None, convert, FALSE, {}, FALSE)]
    /\ UNCHANGED <<trash, claims, refreshVars, admin, jobs>>

(* handleAdminLibraryAddBooks: the picked results are queued as one batch. *)
LibgenBegin(w, picked) ==
    /\ writer[w].pc = "idle"
    /\ Arrive
    /\ picked # {}
    /\ jobs' = [c \in Contents |-> IF c \in picked THEN "downloading" ELSE jobs[c]]
    /\ writer' = [writer EXCEPT ![w] =
                    MakeWriter("next", None, None, None, None, FALSE, TRUE, picked, FALSE)]
    /\ UNCHANGED <<storeVars, refreshVars, admin, temps>>

(* uniqueLibraryFilename: the first variant of the name that does not exist. *)
UniqueName(n) ==
    /\ dir[n] = None
    /\ \A k \in 1 .. n[2] - 1 : dir[<<n[1], k>>] # None

(* runLibgenDownloads takes the next result, names it and starts to write. *)
LibgenFetch(w, c, n, convert) ==
    /\ writer[w].pc = "next"
    /\ c \in writer[w].targets
    /\ UniqueName(n)
    /\ CreateTemp
    /\ dir' = [dir EXCEPT ![NewTemp] = Partial]
    /\ writer' = [writer EXCEPT ![w] =
                    MakeWriter("writing", n, c, NewTemp, None, convert, TRUE,
                               writer[w].targets \ {c}, writer[w].added)]
    /\ UNCHANGED <<trash, claims, refreshVars, admin, jobs, boundVars>>

(* The staging file is written out, unless a removal has taken it away. *)
Filled_Truncated(t, c) == dir
Filled(t, c) == [dir EXCEPT ![t] = IF dir[t] = None THEN None ELSE c]

(* io.Copy, or copyWithStallDetection, ends. *)
WriteEnd(w) ==
    LET x == writer[w] IN
    /\ x.pc = "writing"
    /\ dir' = Filled(x.tmp, x.content)
    /\ writer' = [writer EXCEPT ![w] =
                    MakeWriter("install", x.name, x.content, x.tmp, None, x.convert,
                               x.libgen, x.targets, x.added)]
    /\ UNCHANGED <<trash, claims, refreshVars, admin, jobs, temps, boundVars>>

(* convertUploadedBook: ebook-convert reads the input and writes the output. *)
ConvertBegin(w) ==
    LET x == writer[w] IN
    /\ x.pc = "install"
    /\ x.convert /\ x.out = None
    /\ dir[x.tmp] # None
    /\ CreateTemp
    /\ dir' = [dir EXCEPT ![NewTemp] = Partial]
    /\ writer' = [writer EXCEPT ![w] =
                    MakeWriter("converting", x.name, x.content, x.tmp, NewTemp, TRUE,
                               x.libgen, x.targets, x.added)]
    /\ UNCHANGED <<trash, claims, refreshVars, admin, jobs, boundVars>>

(* The EPUB it produces is a file like any other. *)
ConvertEnd(w, c) ==
    LET x == writer[w] IN
    /\ x.pc = "converting"
    /\ dir' = Filled(x.out, c)
    /\ writer' = [writer EXCEPT ![w] =
                    MakeWriter("install", x.name, x.content, x.tmp, x.out, TRUE,
                               x.libgen, x.targets, x.added)]
    /\ UNCHANGED <<trash, claims, refreshVars, admin, jobs, temps, boundVars>>

(* A batch goes on to the rest of its books; an upload request is answered. *)
Done_LastBook(w, rest, ok) ==
    IF writer[w].libgen
    THEN MakeWriter("next", None, None, None, None, FALSE, TRUE, rest, ok)
    ELSE IdleWriter
Done(w, rest, ok) ==
    IF writer[w].libgen
    THEN MakeWriter("next", None, None, None, None, FALSE, TRUE, rest, writer[w].added \/ ok)
    ELSE IdleWriter

(* updateLibgenJob *)
JobDone(w, state) ==
    IF writer[w].libgen THEN [jobs EXCEPT ![writer[w].content] = state] ELSE jobs

(* os.Rename replaces whatever the destination has become since the check.  *)
(* An upload then starts a refresh; a batch waits for its last book.        *)
Install(w) ==
    LET x == writer[w]
        source == IF x.convert THEN x.out ELSE x.tmp
    IN  /\ x.pc = "install"
        /\ source # None
        /\ dir[source] # None
        /\ dir' = [p \in Paths |-> CASE p = x.name -> dir[source]
                                     [] p \in {x.tmp, x.out} -> None
                                     [] OTHER -> dir[p]]
        /\ jobs' = JobDone(w, "added")
        /\ writer' = [writer EXCEPT ![w] = Done(w, x.targets, TRUE)]
        /\ IF x.libgen THEN UNCHANGED refreshVars ELSE GoRefresh
        /\ UNCHANGED <<trash, claims, admin, temps, boundVars>>

(* Deferred removals of the staging files of a write that failed. *)
CleanUp_InputOnly(w) == [dir EXCEPT ![writer[w].tmp] = None]
CleanUp(w) == [p \in Paths |-> IF p \in {writer[w].tmp, writer[w].out} THEN None ELSE dir[p]]

(* The copy, the conversion or the rename fails: too large, stalled, timed  *)
(* out, no converter, staging file gone.                                    *)
WriteFail(w) ==
    /\ writer[w].pc \in {"writing", "converting", "install"}
    /\ dir' = CleanUp(w)
    /\ jobs' = JobDone(w, "failed")
    /\ writer' = [writer EXCEPT ![w] = Done(w, writer[w].targets, FALSE)]
    /\ UNCHANGED <<trash, claims, refreshVars, admin, temps, boundVars>>

(* No download address, an unusable filename, or no answer to the request. *)
SkipJob_Forgotten(c) == jobs
SkipJob(c) == [jobs EXCEPT ![c] = "failed"]
LibgenSkip(w, c) ==
    /\ writer[w].pc = "next"
    /\ c \in writer[w].targets
    /\ jobs' = SkipJob(c)
    /\ writer' = [writer EXCEPT ![w] = Done(w, writer[w].targets \ {c}, FALSE)]
    /\ UNCHANGED <<storeVars, refreshVars, admin, temps, boundVars>>

(* The end of the batch: refresh if any book was added. *)
LibgenEnd(w) ==
    /\ writer[w].pc = "next"
    /\ writer[w].targets = {}
    /\ writer' = [writer EXCEPT ![w] = IdleWriter]
    /\ IF writer[w].added THEN GoRefresh ELSE UNCHANGED refreshVars
    /\ UNCHANGED <<storeVars, admin, jobs, temps, boundVars>>

(***************************************************************************)
(* Removals and copyright claims                                           *)
(***************************************************************************)

(* findBook: the handler keeps the path the index has now. *)
RemoveBegin(a, b) ==
    /\ admin[a].pc = "idle"
    /\ Arrive
    /\ admin' = [admin EXCEPT ![a] = MakeAdmin("remove", b.id, b.path, None)]
    /\ UNCHANGED <<storeVars, refreshVars, writer, jobs, temps>>

(* handleAdminCopyrightClaimResolve, action "remove", for a pending claim. *)
ClaimRemoveBegin(a, k, b) ==
    /\ admin[a].pc = "idle"
    /\ Arrive
    /\ claims[k].status = "pending"
    /\ admin' = [admin EXCEPT ![a] = MakeAdmin("remove", b.id, b.path, k)]
    /\ UNCHANGED <<storeVars, refreshVars, writer, jobs, temps>>

(* Action "resolve" removes nothing. *)
ClaimResolveBegin(a, k) ==
    /\ admin[a].pc = "idle"
    /\ Arrive
    /\ claims[k].status = "pending"
    /\ admin' = [admin EXCEPT ![a] = MakeAdmin("resolve", None, None, k)]
    /\ UNCHANGED <<storeVars, refreshVars, writer, jobs, temps>>

(* The trash name is the ID, the second and the file name: a file already   *)
(* there under that name is replaced.                                       *)
Trash(id, s, p) ==
    {x \in trash : ~ (x.id = id /\ x.second = s /\ x.path = p)}
        \cup {[id |-> id, second |-> s, path |-> p, content |-> dir[p]]}

(* os.Rename finds the file. *)
Exists(p) == dir[p] # None

(* removeLibraryBook's rename of whatever file the path holds now.  Only     *)
(* here does the time matter: any second from that of the last removal on.  *)
RenameToTrash(a, s) ==
    LET x == admin[a] IN
    /\ x.pc = "remove"
    /\ \A y \in trash : y.second <= s
    /\ Exists(x.path)
    /\ trash' = Trash(x.id, s, x.path)
    /\ dir' = [dir EXCEPT ![x.path] = None]
    /\ IF x.claim = None
       THEN /\ admin' = [admin EXCEPT ![a] = IdleAdmin]
            /\ GoRefresh
       ELSE /\ admin' = [admin EXCEPT ![a] = MakeAdmin("resolve", x.id, x.path, x.claim)]
            /\ UNCHANGED refreshVars
    /\ UNCHANGED <<claims, writer, jobs, temps, boundVars>>

(* The rename fails, as it does when the file is gone; the claim is left.   *)
AfterFailedRemoval_Ignored(x) ==
    IF x.claim = None THEN IdleAdmin ELSE MakeAdmin("resolve", x.id, x.path, x.claim)
AfterFailedRemoval(x) == IdleAdmin

RemoveFail(a) ==
    /\ admin[a].pc = "remove"
    /\ ~ Exists(admin[a].path)
    /\ admin' = [admin EXCEPT ![a] = AfterFailedRemoval(admin[a])]
    /\ UNCHANGED <<storeVars, refreshVars, writer, jobs, temps, boundVars>>

(* ResolveCopyrightClaim: UPDATE ... WHERE id = ? AND status = 'pending'. *)
StillPending_Unchecked(k) == TRUE
StillPending(k) == claims[k].status = "pending"

ResolveClaim(a) ==
    LET x == admin[a] IN
    /\ x.pc = "resolve"
    /\ StillPending(x.claim)
    /\ admin' = [admin EXCEPT ![a] = IdleAdmin]
    /\ IF x.id = None
       THEN /\ claims' = [claims EXCEPT ![x.claim] = MakeClaim("resolved", None)]
            /\ UNCHANGED refreshVars
       ELSE /\ claims' = [claims EXCEPT ![x.claim] = MakeClaim("removed", x.id)]
            /\ GoRefresh
    /\ UNCHANGED <<dir, trash, writer, jobs, temps, boundVars>>

(* Another request resolved it first, or the resolution text is refused:    *)
(* the handler returns, and a book it has removed is not followed by a      *)
(* refresh.                                                                 *)
ResolveFail(a) ==
    /\ admin[a].pc = "resolve"
    /\ admin' = [admin EXCEPT ![a] = IdleAdmin]
    /\ UNCHANGED <<storeVars, refreshVars, writer, jobs, temps, boundVars>>

(***************************************************************************)
(* The process                                                             *)
(***************************************************************************)

(* SIGTERM (os.Exit while handlers run), a crash, or the exit on finding no *)
(* book; then a new process, which indexes.  Only storeVars persist, and    *)
(* staging files stay behind.                                               *)
Restart ==
    /\ restarts < MaxRestarts
    /\ restarts' = restarts + 1
    /\ index' = {}
    /\ waiting' = 1
    /\ scan' = NoScan
    /\ finished' = [e \in BOOLEAN |-> 0]
    /\ status' = FALSE
    /\ lastErrs' = FALSE
    /\ writer' = [w \in Writers |-> IdleWriter]
    /\ admin' = [a \in Admins |-> IdleAdmin]
    /\ jobs' = [c \in Contents |-> "none"]
    /\ UNCHANGED <<storeVars, temps, ops>>

Refresh ==
    \/ RefreshBegin
    \/ \E p \in Paths : ReadBook(p)
    \/ RefreshEnd
    \/ \E e \in BOOLEAN : RecordStatus(e)

WriterBegin(w) ==
    \/ \E n \in Names, c \in Contents, convert \in BOOLEAN : UploadBegin(w, n, c, convert)
    \/ \E picked \in SUBSET Contents : LibgenBegin(w, picked)

WriterStep(w) ==
    \/ \E c \in Contents :
         \/ \E n \in Names, convert \in BOOLEAN : LibgenFetch(w, c, n, convert)
         \/ LibgenSkip(w, c)
         \/ ConvertEnd(w, c)
    \/ WriteEnd(w)
    \/ ConvertBegin(w)
    \/ Install(w)
    \/ WriteFail(w)
    \/ LibgenEnd(w)

AdminBegin(a) ==
    \/ \E b \in index : RemoveBegin(a, b)
    \/ \E k \in Claims : (\E b \in index : ClaimRemoveBegin(a, k, b)) \/ ClaimResolveBegin(a, k)

AdminStep(a) ==
    \/ \E s \in 0 .. LastSecond : RenameToTrash(a, s)
    \/ RemoveFail(a)
    \/ ResolveClaim(a)
    \/ ResolveFail(a)

Next ==
    \/ Refresh
    \/ \E w \in Writers : WriterBegin(w) \/ WriterStep(w)
    \/ \E a \in Admins : AdminBegin(a) \/ AdminStep(a)
    \/ Rescan
    \/ Restart

Spec == Init /\ [][Next]_vars

(* Every goroutine keeps running: copies end (a request body ends, a        *)
(* download stalls out), conversions time out, and indMu is handed on.      *)
Fairness ==
    /\ WF_vars(Refresh)
    /\ \A w \in Writers : WF_vars(WriterStep(w))
    /\ \A a \in Admins : WF_vars(AdminStep(a))

FairSpec == Spec /\ Fairness

(***************************************************************************)
(* Properties                                                              *)
(***************************************************************************)

(* No request or refresh is under way. *)
Settled ==
    /\ waiting = 0 /\ ~scan.held
    /\ \A w \in Writers : writer[w].pc = "idle"
    /\ \A a \in Admins : admin[a].pc = "idle"

(* findBook, downloads and lists take the first entry with an ID: there is  *)
(* one at most, although several files may have the same content.           *)
IndexIdsUnique == \A b, x \in index : b.id = x.id => b = x

(* Once all requests and refreshes are through, every book in the library   *)
(* is listed, whatever was installed while a scan was running.              *)
IndexComplete ==
    Settled => \A n \in Names : dir[n] # None => \E b \in index : b.id = dir[n]

(* And an entry at a library name has the file it describes: a removal or   *)
(* an overwrite is followed by a refresh.  Does not hold with claims, see   *)
(* ResolveFail, nor at staging names, which failed writes leave listed.     *)
IndexAccurate ==
    Settled => \A b \in index : b.path \in Names => dir[b.path] = b.id

(* With claims there is one more kind of entry, that of a book a removal    *)
(* put in the trash and no refresh followed: the handler returned with the  *)
(* error of ResolveCopyrightClaim.                                          *)
OnlyClaimsLeaveStale ==
    Settled => \A b \in index : b.path \in Names =>
        \/ dir[b.path] = b.id
        \/ Claims # {} /\ dir[b.path] = None /\ \E x \in trash : x.path = b.path

(* A staging file belongs to a running writer; only a process that ended    *)
(* leaves one behind.                                                       *)
TempsOwned ==
    restarts = 0 =>
        \A t \in Temps : dir[t] # None =>
            \E w \in Writers : t \in {writer[w].tmp, writer[w].out}

(* A file under a library name is a whole book, never one still being       *)
(* written: that is what staging files and renames are for.                 *)
NamesWhole == \A n \in Names : dir[n] # Partial

(* The status page shows a job as downloading only while a batch still has  *)
(* it to do.                                                                *)
JobsSettle ==
    \A c \in Contents : jobs[c] = "downloading" =>
        \E w \in Writers : /\ writer[w].libgen
                           /\ c \in writer[w].targets \cup {writer[w].content}

(* A book in the library is eventually listed, or no longer there. *)
EventuallyIndexed ==
    \A c \in Contents :
        (\E n \in Names : dir[n] = c)
            ~> (\A n \in Names : dir[n] # c) \/ (\E b \in index : b.id = c)

(* A library file changes only by being moved, as it is, to the trash.      *)
(* Holds for one writer at a time.                                          *)
NothingDestroyed ==
    [][\A n \in Names : dir[n] # None /\ dir'[n] # dir[n] =>
         dir'[n] = None /\ \E x \in trash' : x.content = dir[n]]_vars

(* A claim is resolved once, with one outcome, though several administrators *)
(* may be working on it.                                                    *)
ClaimResolvedOnce ==
    [][\A k \in Claims : claims[k].status # "pending" => claims'[k] = claims[k]]_vars

(* A claim recorded as removed has its book in the trash. *)
ClaimRemovedTrashed ==
    \A k \in Claims : claims[k].status = "removed" =>
        \E x \in trash : x.id = claims[k].book

(* With no status left to record, the status page shows the result of the   *)
(* last scan that completed.                                                *)
LastScanReported ==
    (\A e \in BOOLEAN : finished[e] = 0) => status = lastErrs

=============================================================================
