-------------------------- MODULE GoogleLoginProofs -------------------------
(***************************************************************************)
(* Proofs about GoogleLogin, for any number of logins, accounts, names,    *)
(* addresses and requests, any bound on the clock and on the failures.     *)
(***************************************************************************)
EXTENDS GoogleLogin, TLAPS

Busy(h) == handler[h].stage # "idle"

(* A request past the challenge store acts for the approver of a challenge  *)
(* that has yielded nothing yet; no other request does, and if the          *)
(* challenge is still there it is claimed.                                  *)
HandlersOK ==
    /\ \A h \in Handlers : Busy(h) =>
         LET l == handler[h].login IN
         /\ l \in Logins /\ cli[l] # "new" /\ released[l] = 0
         /\ handler[h].user \in Users /\ handler[h].user = approved[l]
         /\ l \in open => l \in issuing
    /\ \A h \in Handlers : ~Busy(h) => handler[h] = IdleHandler
    /\ \A g, h \in Handlers : (Busy(g) /\ Busy(h) /\ handler[g].login = handler[h].login) => g = h

(* A token carries the approver and the name of its challenge. *)
TokensOK ==
    \A t \in tokens : t.user = approved[t.login] /\ t.name = name[t.login] /\ cli[t.login] # "new"

(* Challenges that have not started, are open, or have yielded their token. *)
ChallengesOK ==
    \A l \in Logins :
      /\ cli[l] = "new" => l \notin open /\ approved[l] = None /\ released[l] = 0
      /\ l \in open => name[l] \in Names
      /\ approved[l] # None => name[l] \in Names
      /\ released[l] > 0 => l \notin open

(* A token not handed out is taken back after the failure that kept it.     *)
StraysOK ==
    \A h \in Handlers :
      /\ handler[h].stage = "revoke" => failures >= 1
      /\ (handler[h].stage = "mint" /\ failures <= 1)
           => \A t \in tokens : t.login # handler[h].login

LoginInv ==
    TypeOK /\ HandlersOK /\ TokensOK /\ ChallengesOK /\ ClaimHeld /\ StraysOK /\ NoStrayToken

USE GoogleLoginAssumption
USE DEF Busy, MakeHandler, IdleHandler, MakeToken, challengeVars

(* One lemma for each action: it keeps the invariant. *)
LEMMA StartKeeps ==
  ASSUME LoginInv, NEW l \in Logins, NEW n \in Names, NEW a \in Addresses, Start(l, n, a)
  PROVE  LoginInv'
<1>a. CASE BelowCap(a)
  <2>1. /\ open' = Unexpired \cup {l} /\ issuing' = issuing \cap (Unexpired \cup {l})
        /\ name' = [name EXCEPT ![l] = n] /\ ip' = [ip EXCEPT ![l] = a]
        /\ expires' = [expires EXCEPT ![l] = now + Lifetime]
        /\ cli' = [cli EXCEPT ![l] = "polling"]
    BY <1>a DEF Start, CleanUp
  <2>2. TypeOK'
    BY <2>1 DEF LoginInv, TypeOK, HandlersOK, TokensOK, ChallengesOK, ClaimHeld,
               StraysOK, NoStrayToken, Handler, Token, Start, Unexpired
  <2>3. HandlersOK'
    BY <2>1 DEF LoginInv, TypeOK, HandlersOK, TokensOK, ChallengesOK, ClaimHeld,
               StraysOK, NoStrayToken, Handler, Token, Start, Unexpired
  <2>4. TokensOK'
    BY <2>1 DEF LoginInv, TypeOK, HandlersOK, TokensOK, ChallengesOK, ClaimHeld,
               StraysOK, NoStrayToken, Handler, Token, Start, Unexpired
  <2>5. ChallengesOK'
    BY <2>1 DEF LoginInv, TypeOK, HandlersOK, TokensOK, ChallengesOK, ClaimHeld,
               StraysOK, NoStrayToken, Handler, Token, Start, Unexpired
  <2>6. ClaimHeld'
    BY <2>1 DEF LoginInv, TypeOK, HandlersOK, TokensOK, ChallengesOK, ClaimHeld,
               StraysOK, NoStrayToken, Handler, Token, Start, Unexpired
  <2>7. StraysOK'
    BY <2>1 DEF LoginInv, TypeOK, HandlersOK, TokensOK, ChallengesOK, ClaimHeld,
               StraysOK, NoStrayToken, Handler, Token, Start, Unexpired
  <2>8. NoStrayToken'
    BY <2>1 DEF LoginInv, TypeOK, HandlersOK, TokensOK, ChallengesOK, ClaimHeld,
               StraysOK, NoStrayToken, Handler, Token, Start, Unexpired
  <2> QED
    BY <2>2, <2>3, <2>4, <2>5, <2>6, <2>7, <2>8 DEF LoginInv
<1>b. CASE ~BelowCap(a)
  <2>1. /\ open' = Unexpired /\ issuing' = issuing \cap Unexpired
        /\ cli' = [cli EXCEPT ![l] = "failed"] /\ UNCHANGED <<name, ip, expires>>
    BY <1>b DEF Start, CleanUp
  <2>2. TypeOK'
    BY <2>1 DEF LoginInv, TypeOK, HandlersOK, TokensOK, ChallengesOK, ClaimHeld,
               StraysOK, NoStrayToken, Handler, Token, Start, Unexpired
  <2>3. HandlersOK'
    BY <2>1 DEF LoginInv, TypeOK, HandlersOK, TokensOK, ChallengesOK, ClaimHeld,
               StraysOK, NoStrayToken, Handler, Token, Start, Unexpired
  <2>4. TokensOK'
    BY <2>1 DEF LoginInv, TypeOK, HandlersOK, TokensOK, ChallengesOK, ClaimHeld,
               StraysOK, NoStrayToken, Handler, Token, Start, Unexpired
  <2>5. ChallengesOK'
    BY <2>1 DEF LoginInv, TypeOK, HandlersOK, TokensOK, ChallengesOK, ClaimHeld,
               StraysOK, NoStrayToken, Handler, Token, Start, Unexpired
  <2>6. ClaimHeld'
    BY <2>1 DEF LoginInv, TypeOK, HandlersOK, TokensOK, ChallengesOK, ClaimHeld,
               StraysOK, NoStrayToken, Handler, Token, Start, Unexpired
  <2>7. StraysOK'
    BY <2>1 DEF LoginInv, TypeOK, HandlersOK, TokensOK, ChallengesOK, ClaimHeld,
               StraysOK, NoStrayToken, Handler, Token, Start, Unexpired
  <2>8. NoStrayToken'
    BY <2>1 DEF LoginInv, TypeOK, HandlersOK, TokensOK, ChallengesOK, ClaimHeld,
               StraysOK, NoStrayToken, Handler, Token, Start, Unexpired
  <2> QED
    BY <2>2, <2>3, <2>4, <2>5, <2>6, <2>7, <2>8 DEF LoginInv
<1> QED
  BY <1>a, <1>b

LEMMA ApproveKeeps ==
  ASSUME LoginInv, NEW l \in Logins, NEW u \in Users, Approve(l, u)
  PROVE  LoginInv'
  BY DEF LoginInv, TypeOK, HandlersOK, TokensOK, ChallengesOK, ClaimHeld, StraysOK,
         NoStrayToken, Handler, Token, Approve, Approvable, CleanUp, Unexpired

LEMMA VisitKeeps ==
  ASSUME LoginInv, Visit
  PROVE  LoginInv'
  BY DEF LoginInv, TypeOK, HandlersOK, TokensOK, ChallengesOK, ClaimHeld, StraysOK,
         NoStrayToken, Handler, Token, Visit, CleanUp, Unexpired

LEMMA PollGoneKeeps ==
  ASSUME LoginInv, NEW l \in Logins, PollGone(l)
  PROVE  LoginInv'
  BY DEF LoginInv, TypeOK, HandlersOK, TokensOK, ChallengesOK, ClaimHeld, StraysOK,
         NoStrayToken, Handler, Token, PollGone, Drop, GiveUp

LEMMA PollWaitKeeps ==
  ASSUME LoginInv, NEW l \in Logins, PollWait(l)
  PROVE  LoginInv'
  BY DEF LoginInv, TypeOK, HandlersOK, TokensOK, ChallengesOK, ClaimHeld, StraysOK,
         NoStrayToken, Handler, Token, PollWait

LEMMA PollApprovedKeeps ==
  ASSUME LoginInv, NEW h \in Handlers, NEW l \in Logins, PollApproved(h, l)
  PROVE  LoginInv'
<1>1. TypeOK'
  BY DEF LoginInv, TypeOK, HandlersOK, TokensOK, ChallengesOK, ClaimHeld, StraysOK,
         NoStrayToken, Handler, Token, PollApproved, Claimable, Found
<1>2. HandlersOK'
  BY DEF LoginInv, TypeOK, HandlersOK, TokensOK, ChallengesOK, ClaimHeld, StraysOK,
         NoStrayToken, Handler, Token, PollApproved, Claimable, Found
<1>3. TokensOK'
  BY DEF LoginInv, TypeOK, HandlersOK, TokensOK, ChallengesOK, ClaimHeld, StraysOK,
         NoStrayToken, Handler, Token, PollApproved, Claimable, Found
<1>4. ChallengesOK'
  BY DEF LoginInv, TypeOK, HandlersOK, TokensOK, ChallengesOK, ClaimHeld, StraysOK,
         NoStrayToken, Handler, Token, PollApproved, Claimable, Found
<1>5. ClaimHeld'
  BY DEF LoginInv, TypeOK, HandlersOK, TokensOK, ChallengesOK, ClaimHeld, StraysOK,
         NoStrayToken, Handler, Token, PollApproved, Claimable, Found
<1>6. StraysOK'
  BY DEF LoginInv, TypeOK, HandlersOK, TokensOK, ChallengesOK, ClaimHeld, StraysOK,
         NoStrayToken, Handler, Token, PollApproved, Claimable, Found
<1>7. NoStrayToken'
  BY DEF LoginInv, TypeOK, HandlersOK, TokensOK, ChallengesOK, ClaimHeld, StraysOK,
         NoStrayToken, Handler, Token, PollApproved, Claimable, Found
<1> QED
  BY <1>1, <1>2, <1>3, <1>4, <1>5, <1>6, <1>7 DEF LoginInv

LEMMA MintKeeps ==
  ASSUME LoginInv, NEW h \in Handlers, Mint(h)
  PROVE  LoginInv'
<1>1. TypeOK'
  BY DEF LoginInv, TypeOK, HandlersOK, TokensOK, ChallengesOK, ClaimHeld, StraysOK,
         NoStrayToken, Handler, Token, Mint, Serves, NameFree
<1>2. HandlersOK'
  BY DEF LoginInv, TypeOK, HandlersOK, TokensOK, ChallengesOK, ClaimHeld, StraysOK,
         NoStrayToken, Handler, Token, Mint, Serves, NameFree
<1>3. TokensOK'
  BY DEF LoginInv, TypeOK, HandlersOK, TokensOK, ChallengesOK, ClaimHeld, StraysOK,
         NoStrayToken, Handler, Token, Mint, Serves, NameFree
<1>4. ChallengesOK'
  BY DEF LoginInv, TypeOK, HandlersOK, TokensOK, ChallengesOK, ClaimHeld, StraysOK,
         NoStrayToken, Handler, Token, Mint, Serves, NameFree
<1>5. ClaimHeld'
  BY DEF LoginInv, TypeOK, HandlersOK, TokensOK, ChallengesOK, ClaimHeld, StraysOK,
         NoStrayToken, Handler, Token, Mint, Serves, NameFree
<1>6. StraysOK'
  BY DEF LoginInv, TypeOK, HandlersOK, TokensOK, ChallengesOK, ClaimHeld, StraysOK,
         NoStrayToken, Handler, Token, Mint, Serves, NameFree
<1>7. NoStrayToken'
  BY DEF LoginInv, TypeOK, HandlersOK, TokensOK, ChallengesOK, ClaimHeld, StraysOK,
         NoStrayToken, Handler, Token, Mint, Serves, NameFree
<1> QED
  BY <1>1, <1>2, <1>3, <1>4, <1>5, <1>6, <1>7 DEF LoginInv

LEMMA MintRefusedKeeps ==
  ASSUME LoginInv, NEW h \in Handlers, MintRefused(h)
  PROVE  LoginInv'
<1>1. TypeOK'
  BY DEF LoginInv, TypeOK, HandlersOK, TokensOK, ChallengesOK, ClaimHeld, StraysOK,
         NoStrayToken, Handler, Token, MintRefused, Serves, StoreFails, FinishFailed,
         Unclaimed, Answer
<1>2. HandlersOK'
  BY DEF LoginInv, TypeOK, HandlersOK, TokensOK, ChallengesOK, ClaimHeld, StraysOK,
         NoStrayToken, Handler, Token, MintRefused, Serves, StoreFails, FinishFailed,
         Unclaimed, Answer
<1>3. TokensOK'
  BY DEF LoginInv, TypeOK, HandlersOK, TokensOK, ChallengesOK, ClaimHeld, StraysOK,
         NoStrayToken, Handler, Token, MintRefused, Serves, StoreFails, FinishFailed,
         Unclaimed, Answer
<1>4. ChallengesOK'
  BY DEF LoginInv, TypeOK, HandlersOK, TokensOK, ChallengesOK, ClaimHeld, StraysOK,
         NoStrayToken, Handler, Token, MintRefused, Serves, StoreFails, FinishFailed,
         Unclaimed, Answer
<1>5. ClaimHeld'
  BY DEF LoginInv, TypeOK, HandlersOK, TokensOK, ChallengesOK, ClaimHeld, StraysOK,
         NoStrayToken, Handler, Token, MintRefused, Serves, StoreFails, FinishFailed,
         Unclaimed, Answer
<1>6. StraysOK'
  BY DEF LoginInv, TypeOK, HandlersOK, TokensOK, ChallengesOK, ClaimHeld, StraysOK,
         NoStrayToken, Handler, Token, MintRefused, Serves, StoreFails, FinishFailed,
         Unclaimed, Answer
<1>7. NoStrayToken'
  BY DEF LoginInv, TypeOK, HandlersOK, TokensOK, ChallengesOK, ClaimHeld, StraysOK,
         NoStrayToken, Handler, Token, MintRefused, Serves, StoreFails, FinishFailed,
         Unclaimed, Answer
<1> QED
  BY <1>1, <1>2, <1>3, <1>4, <1>5, <1>6, <1>7 DEF LoginInv

LEMMA RecordKeeps ==
  ASSUME LoginInv, NEW h \in Handlers, Record(h)
  PROVE  LoginInv'
<1>1. TypeOK'
  BY DEF LoginInv, TypeOK, HandlersOK, Handler, Token, Record, Serves, Drop,
         Answer
<1>2. HandlersOK'
  BY DEF LoginInv, TypeOK, HandlersOK, ClaimHeld, Handler, Token, Record,
         Serves, Drop, Answer
<1>3. TokensOK'
  BY DEF LoginInv, TypeOK, HandlersOK, TokensOK, ChallengesOK, Handler, Token,
         Record, Serves, Drop, Answer
<1>4. ChallengesOK'
  BY DEF LoginInv, TypeOK, HandlersOK, ChallengesOK, Handler, Token, Record,
         Serves, Drop, Answer
<1>5. ClaimHeld'
  BY DEF LoginInv, TypeOK, HandlersOK, ClaimHeld, Handler, Token, Record,
         Serves, Drop, Answer
<1>6. StraysOK'
  BY DEF LoginInv, TypeOK, HandlersOK, TokensOK, ClaimHeld, StraysOK,
         NoStrayToken, Handler, Token, Record, Serves, Drop, Answer
<1>7. NoStrayToken'
  BY DEF LoginInv, TypeOK, HandlersOK, TokensOK, ChallengesOK, ClaimHeld,
         StraysOK, NoStrayToken, Handler, Token, Record, Serves, Drop, Answer
<1> QED
  BY <1>1, <1>2, <1>3, <1>4, <1>5, <1>6, <1>7 DEF LoginInv

LEMMA RecordFailsKeeps ==
  ASSUME LoginInv, NEW h \in Handlers, RecordFails(h)
  PROVE  LoginInv'
  BY DEF LoginInv, TypeOK, HandlersOK, TokensOK, ChallengesOK, ClaimHeld, StraysOK,
         NoStrayToken, Handler, Token, RecordFails, Serves, StoreFails

LEMMA TakeBackKeeps ==
  ASSUME LoginInv, NEW h \in Handlers, TakeBack(h)
  PROVE  LoginInv'
<1>1. TypeOK'
  BY DEF LoginInv, TypeOK, HandlersOK, Handler, Token, TakeBack, TakenBack,
         Serves, StoreFails, FinishFailed, Unclaimed, Answer
<1>2. HandlersOK'
  BY DEF LoginInv, TypeOK, HandlersOK, ClaimHeld, Handler, Token, TakeBack,
         TakenBack, Serves, StoreFails, FinishFailed, Unclaimed, Answer
<1>3. TokensOK'
  BY DEF LoginInv, TypeOK, HandlersOK, TokensOK, ChallengesOK, Handler, Token,
         TakeBack, TakenBack, Serves, StoreFails, FinishFailed, Unclaimed,
         Answer
<1>4. ChallengesOK'
  BY DEF LoginInv, TypeOK, HandlersOK, ChallengesOK, Handler, Token, TakeBack,
         TakenBack, Serves, StoreFails, FinishFailed, Unclaimed, Answer
<1>5. ClaimHeld'
  BY DEF LoginInv, TypeOK, HandlersOK, ClaimHeld, Handler, Token, TakeBack,
         TakenBack, Serves, StoreFails, FinishFailed, Unclaimed, Answer
<1>6. StraysOK'
  BY DEF LoginInv, TypeOK, HandlersOK, TokensOK, ClaimHeld, StraysOK,
         NoStrayToken, Handler, Token, TakeBack, TakenBack, Serves, StoreFails,
         FinishFailed, Unclaimed, Answer
<1>7. NoStrayToken'
  BY DEF LoginInv, TypeOK, HandlersOK, TokensOK, ChallengesOK, ClaimHeld,
         StraysOK, NoStrayToken, Handler, Token, TakeBack, TakenBack, Serves,
         StoreFails, FinishFailed, Unclaimed, Answer
<1> QED
  BY <1>1, <1>2, <1>3, <1>4, <1>5, <1>6, <1>7 DEF LoginInv

LEMMA InterruptKeeps ==
  ASSUME LoginInv, NEW l \in Logins, Interrupt(l)
  PROVE  LoginInv'
  BY DEF LoginInv, TypeOK, HandlersOK, TokensOK, ChallengesOK, ClaimHeld, StraysOK,
         NoStrayToken, Handler, Token, Interrupt, GiveUp

LEMMA CancelKeeps ==
  ASSUME LoginInv, NEW l \in Logins, Cancel(l)
  PROVE  LoginInv'
  BY DEF LoginInv, TypeOK, HandlersOK, TokensOK, ChallengesOK, ClaimHeld, StraysOK,
         NoStrayToken, Handler, Token, Cancel, Drop

LEMMA RevokeKeeps ==
  ASSUME LoginInv, NEW t \in tokens, Revoke(t)
  PROVE  LoginInv'
  BY DEF LoginInv, TypeOK, HandlersOK, TokensOK, ChallengesOK, ClaimHeld, StraysOK,
         NoStrayToken, Handler, Token, Revoke

LEMMA TickKeeps ==
  ASSUME LoginInv, Tick
  PROVE  LoginInv'
  BY DEF LoginInv, TypeOK, HandlersOK, TokensOK, ChallengesOK, ClaimHeld, StraysOK,
         NoStrayToken, Handler, Token, Tick

LEMMA StutterKeeps ==
  ASSUME LoginInv, UNCHANGED vars
  PROVE  LoginInv'
  BY DEF LoginInv, TypeOK, HandlersOK, TokensOK, ChallengesOK, ClaimHeld, StraysOK,
         NoStrayToken, Handler, Token, vars

(* In particular every challenge, request and token keeps its type. *)
THEOREM LoginInvariant == Spec => []LoginInv
<1>1. Init => LoginInv
  BY DEF LoginInv, TypeOK, HandlersOK, TokensOK, ChallengesOK, ClaimHeld, StraysOK,
         NoStrayToken, Handler, Token, Init
<1>2. LoginInv /\ [Next]_vars => LoginInv'
  BY StartKeeps, ApproveKeeps, VisitKeeps, PollGoneKeeps, PollWaitKeeps, PollApprovedKeeps,
     MintKeeps, MintRefusedKeeps, RecordKeeps, RecordFailsKeeps, TakeBackKeeps, InterruptKeeps,
     CancelKeeps, RevokeKeeps, TickKeeps, StutterKeeps
  DEF Next, Poll, Serve
<1> QED
  BY <1>1, <1>2, PTL DEF Spec

(* Types hold in every state of the challenge store, its requests and the   *)
(* token table.                                                             *)
THEOREM TypeCorrect == Spec => []TypeOK
<1>1. LoginInv => TypeOK
  BY DEF LoginInv
<1> QED
  BY <1>1, LoginInvariant, PTL

(* handleAPIGooglePoll takes back a token it cannot hand out, unless two    *)
(* store calls failed.                                                      *)
THEOREM NeverStray == Spec => []NoStrayToken
<1>1. LoginInv => NoStrayToken
  BY DEF LoginInv
<1> QED
  BY <1>1, LoginInvariant, PTL

(* The Issuing flag is set only while a request is at work on the challenge *)
(* (poll, finish).                                                          *)
THEOREM ClaimAlwaysHeld == Spec => []ClaimHeld
<1>1. LoginInv => ClaimHeld
  BY DEF LoginInv
<1> QED
  BY <1>1, LoginInvariant, PTL

(***************************************************************************)
(* The refinement                                                          *)
(***************************************************************************)
Held == {<<t.login, t.user>> : t \in tokens}

(* What a challenge's token is follows from the challenge. *)
LEMMA TokenDetermined ==
  ASSUME LoginInv, NEW s \in tokens, NEW t \in tokens, s.login = t.login
  PROVE  s = t
  BY DEF LoginInv, TypeOK, TokensOK, Token

(* Removing a token is a withdrawal, or nothing if it was gone. *)
LEMMA RemovalRefines ==
  ASSUME LoginInv, NEW t \in Token, tokens' = tokens \ {t},
         UNCHANGED <<approved, released>>
  PROVE  [Promise!Next]_(Promise!vars)
<1>1. CASE t \in tokens
  <2>1. Held' = Held \ {<<t.login, t.user>>}
    <3>1. ASSUME NEW s \in tokens, <<s.login, s.user>> = <<t.login, t.user>>
          PROVE  s = t
      BY <1>1, <3>1, TokenDetermined
    <3> QED
      BY <3>1 DEF Held
  <2>2. <<t.login, t.user>> \in Held
    BY <1>1 DEF Held
  <2> QED
    BY <2>1, <2>2 DEF Held, Promise!Next, Promise!Withdraw
<1>2. CASE t \notin tokens
  BY <1>2 DEF Promise!vars
<1> QED
  BY <1>1, <1>2

(* Every step of the detailed specification is a step of the promise or     *)
(* leaves what it speaks of unchanged.                                      *)
LEMMA StepRefines ==
  ASSUME LoginInv, [Next]_vars
  PROVE  [Promise!Next]_(Promise!vars)
<1>1. ASSUME NEW l \in Logins, NEW u \in Users, Approve(l, u)
      PROVE  Promise!Next
  BY <1>1 DEF Approve, Approvable, Promise!Next, Promise!Approve
<1>2. ASSUME NEW h \in Handlers, Mint(h)
      PROVE  Promise!Next
  <2> DEFINE l == handler[h].login
             u == handler[h].user
  <2>1. /\ l \in Logins /\ u \in Users /\ u = approved[l] /\ released[l] = 0
        /\ tokens' = tokens \cup {MakeToken(l, u)}
        /\ NameFree(l, u)
    BY <1>2 DEF LoginInv, HandlersOK, Mint, Serves
  <2>2. \A t \in tokens : t.login # l
    BY <2>1 DEF LoginInv, TokensOK, NameFree
  <2>3. Held' = Held \cup {<<l, approved[l]>>} /\ \A t \in Held : t[1] # l
    <3> DEFINE new == MakeToken(l, u)
    <3>1. new.login = l /\ new.user = u
      OBVIOUS
    <3> HIDE DEF new, l, u
    <3>2. tokens' = tokens \cup {new}
      BY <2>1 DEF new
    <3>3. Held' = Held \cup {<<new.login, new.user>>}
      BY <3>2 DEF Held
    <3> QED
      BY <2>1, <2>2, <3>1, <3>3 DEF Held
  <2>4. UNCHANGED <<approved, released>> /\ approved[l] # None
    BY <1>2, <2>1 DEF Mint
  <2> QED
    BY <2>1, <2>3, <2>4 DEF Held, Promise!Next, Promise!Issue
<1>3. ASSUME NEW h \in Handlers, Record(h)
      PROVE  Promise!Next
  <2>1. /\ handler[h].login \in Logins /\ released[handler[h].login] = 0
        /\ approved[handler[h].login] # None
        /\ released' = [released EXCEPT ![handler[h].login] = 1]
        /\ UNCHANGED <<approved, tokens>>
    <3>1. handler[h].stage # "idle"
      BY <1>3 DEF Record, Serves
    <3>2. /\ handler[h].login \in Logins /\ released[handler[h].login] = 0
          /\ approved[handler[h].login] # None
      BY <3>1 DEF LoginInv, HandlersOK
    <3>3. /\ released' = [released EXCEPT ![handler[h].login] = released[handler[h].login] + 1]
          /\ UNCHANGED <<approved, tokens>>
      BY <1>3 DEF Record
    <3> QED
      BY <3>2, <3>3
  <2> QED
    BY <2>1 DEF Promise!Next, Promise!HandOver
<1>4. ASSUME NEW h \in Handlers, TakeBack(h)
      PROVE  [Promise!Next]_(Promise!vars)
  <2>1. UNCHANGED <<approved, released>>
    BY <1>4 DEF TakeBack, FinishFailed
  <2>2. CASE UNCHANGED tokens
    BY <2>1, <2>2 DEF Promise!vars
  <2>3. CASE tokens' = TakenBack(h)
    <3>1. MakeToken(handler[h].login, handler[h].user) \in Token
      BY <1>4 DEF LoginInv, TypeOK, HandlersOK, ChallengesOK, Token, TakeBack, Serves
    <3> QED
      BY <2>1, <2>3, <3>1, RemovalRefines DEF TakenBack
  <2> QED
    BY <1>4, <2>2, <2>3 DEF TakeBack
<1>5. ASSUME NEW t \in tokens, Revoke(t)
      PROVE  [Promise!Next]_(Promise!vars)
  <2>1. t \in Token
    BY DEF LoginInv, TypeOK
  <2> QED
    BY <1>5, <2>1, RemovalRefines DEF Revoke
<1>6. ASSUME UNCHANGED <<approved, tokens, released>>
      PROVE  UNCHANGED Promise!vars
  BY <1>6 DEF Promise!vars
<1>7. ASSUME NEW l \in Logins, Poll(l) \/ Interrupt(l) \/ Cancel(l)
      PROVE  UNCHANGED <<approved, tokens, released>>
  BY <1>7 DEF Poll, PollGone, PollWait, PollApproved, Interrupt, Cancel
<1>8. ASSUME NEW l \in Logins, NEW n \in Names, NEW a \in Addresses, Start(l, n, a)
      PROVE  UNCHANGED <<approved, tokens, released>>
  BY <1>8 DEF Start
<1>9. ASSUME NEW h \in Handlers, MintRefused(h) \/ RecordFails(h)
      PROVE  UNCHANGED <<approved, tokens, released>>
  BY <1>9 DEF MintRefused, RecordFails, FinishFailed
<1>10. ASSUME Visit \/ Tick \/ UNCHANGED vars
       PROVE  UNCHANGED <<approved, tokens, released>>
  BY <1>10 DEF Visit, Tick, vars
<1> QED
  BY <1>1, <1>2, <1>3, <1>4, <1>5, <1>6, <1>7, <1>8, <1>9, <1>10 DEF Next, Serve

(* The challenge store, its handlers and the polling command implement the  *)
(* promise of module Credential: one token per login, of its approver,      *)
(* handed out at most once.                                                 *)
THEOREM LoginRefinesCredential == Spec => ImplementsCredential
<1>1. Init => Promise!Init
  BY DEF Init, Promise!Init
<1>2. LoginInv /\ [Next]_vars => [Promise!Next]_(Promise!vars)
  BY StepRefines
<1> QED
  BY <1>1, <1>2, LoginInvariant, PTL DEF Spec, ImplementsCredential, Promise!Spec

=============================================================================
