---------------------------- MODULE GoogleLogin -----------------------------
(***************************************************************************)
(* Signing the command line in through a browser: the challenge store and  *)
(* its handlers (server/api_auth.go), the polling loop of the command      *)
(* (cli/run.go), and the API tokens it is about (auth/sqlite.go).          *)
(*                                                                         *)
(* The challenge store is one mutex, each of its methods a step.  The poll *)
(* handler claims an approved challenge, mints a token, records the login  *)
(* and retires the challenge in separate steps, while the command may give *)
(* up, the challenge expire, the request be delivered twice (a proxy that  *)
(* retries) or the answer be lost.                                         *)
(*                                                                         *)
(* A login run starts one challenge and owns its random ID and secret, so  *)
(* the run stands for both.                                                *)
(***************************************************************************)
EXTENDS Naturals, FiniteSets

CONSTANTS
    Logins,        \* runs of "login --method google-*", and their challenges
    Users,         \* accounts that can approve
    Names,         \* API token names
    Addresses,     \* client addresses (clientIP)
    Handlers,      \* poll requests being served
    ChallengeCap,  \* challenges per client address (5 in the code)
    Lifetime,      \* googleCLIChallengeLifetime, in clock ticks
    Interval,      \* googleCLIPollInterval, in clock ticks
    MaxTime,       \* bound on the clock
    MaxFailures,   \* bound on the store calls that fail
    None           \* no user, no time, no login, no name

ASSUME GoogleLoginAssumption ==
    /\ None \notin Users \cup Logins \cup Names \cup Addresses \cup Nat
    /\ {ChallengeCap, Lifetime, Interval} \subseteq Nat \ {0}
    /\ MaxTime \in Nat /\ MaxFailures \in Nat

VARIABLES
    open,      \* IDs in googleCLIChallengeStore.challenges
    name,      \* challenge.TokenName
    ip,        \* challenge.ClientIP
    expires,   \* challenge.ExpiresAt
    lastPoll,  \* challenge.LastPollAt
    approved,  \* challenge.ApprovedUser
    issuing,   \* challenges with Issuing set
    handler,   \* the poll requests past the challenge store
    tokens,    \* the api_tokens table
    cli,       \* what each login run is doing
    released,  \* answers with a token sent for each challenge (history)
    failures,  \* store calls that failed so far
    now        \* the clock

challengeVars == <<open, name, ip, expires, lastPoll, approved, issuing>>
vars == <<challengeVars, handler, tokens, cli, released, failures, now>>

(***************************************************************************)
(* Types                                                                   *)
(***************************************************************************)
Handler == [stage : {"idle", "mint", "record", "revoke"},
            login : Logins \cup {None}, user : Users \cup {None}]
MakeHandler(stage, l, u) == [stage |-> stage, login |-> l, user |-> u]
IdleHandler == MakeHandler("idle", None, None)
Token == [login : Logins, user : Users, name : Names]
MakeToken(l, u) == [login |-> l, user |-> u, name |-> name[l]]

(* Every challenge field, request and token keeps its type, and only a live *)
(* challenge is being issued.                                               *)
TypeOK ==
    /\ open \subseteq Logins
    /\ name \in [Logins -> Names \cup {None}]
    /\ ip \in [Logins -> Addresses \cup {None}]
    /\ expires \in [Logins -> Nat]
    /\ lastPoll \in [Logins -> Nat \cup {None}]
    /\ approved \in [Logins -> Users \cup {None}]
    /\ issuing \subseteq open
    /\ handler \in [Handlers -> Handler]
    /\ tokens \subseteq Token
    /\ cli \in [Logins -> {"new", "polling", "cancelling", "failed", "done"}]
    /\ released \in [Logins -> Nat]
    /\ failures \in Nat
    /\ now \in Nat

Init ==
    /\ open = {}
    /\ name = [l \in Logins |-> None]
    /\ ip = [l \in Logins |-> None]
    /\ expires = [l \in Logins |-> 0]
    /\ lastPoll = [l \in Logins |-> None]
    /\ approved = [l \in Logins |-> None]
    /\ issuing = {}
    /\ handler = [h \in Handlers |-> IdleHandler]
    /\ tokens = {}
    /\ cli = [l \in Logins |-> "new"]
    /\ released = [l \in Logins |-> 0]
    /\ failures = 0
    /\ now = 0

(***************************************************************************)
(* Operators named X_Something, just before X, are X with a plausible bug: *)
(* substituted for X they must break a property.                           *)
(***************************************************************************)

(***************************************************************************)
(* The challenge store                                                     *)
(***************************************************************************)

(* poll and cleanupLocked: the challenge ends at its expiry time. *)
Expired_Never(l) == FALSE
Expired(l) == now >= expires[l]

(* What cleanupLocked keeps, and the Issuing flags that go with it. *)
Unexpired == {l \in open : now < expires[l]}
CleanUp(kept) ==
    /\ open' = kept
    /\ issuing' = issuing \cap kept

(* A challenge leaves the map: poll on an expired one, finish, cancel. *)
Drop(l) ==
    /\ open' = open \ {l}
    /\ issuing' = issuing \ {l}

(* add refuses a client that has as many challenges as it may have. *)
From(a) == {l \in Unexpired : ip[l] = a}
BelowCap(a) == Cardinality(From(a)) < ChallengeCap

(* handleAPIGoogleStart.  A refused run ends before there is anything to    *)
(* cancel.                                                                  *)
Start(l, n, a) ==
    /\ cli[l] = "new"
    /\ now + Lifetime <= MaxTime
    /\ IF BelowCap(a)
       THEN /\ CleanUp(Unexpired \cup {l})
            /\ name' = [name EXCEPT ![l] = n]
            /\ ip' = [ip EXCEPT ![l] = a]
            /\ expires' = [expires EXCEPT ![l] = now + Lifetime]
            /\ cli' = [cli EXCEPT ![l] = "polling"]
       ELSE /\ CleanUp(Unexpired)
            /\ cli' = [cli EXCEPT ![l] = "failed"]
            /\ UNCHANGED <<name, ip, expires>>
    /\ UNCHANGED <<lastPoll, approved, handler, tokens, released, failures, now>>

(* handleCLIGooglePage, and each failing path of handleAPIGoogleComplete    *)
(* past get: expired challenges go.                                         *)
Visit ==
    /\ CleanUp(Unexpired)
    /\ UNCHANGED <<name, ip, expires, lastPoll, approved, handler, tokens, cli, released,
                   failures, now>>

(* A challenge is approved once. *)
Approvable(l) == approved[l] = None

(* handleAPIGoogleComplete for a verified Google account. *)
Approve(l, u) ==
    /\ l \in Unexpired
    /\ Approvable(l)
    /\ CleanUp(Unexpired)
    /\ approved' = [approved EXCEPT ![l] = u]
    /\ UNCHANGED <<name, ip, expires, lastPoll, handler, tokens, cli, released, failures, now>>

(* The command sends the next poll no sooner than it was told to, but a     *)
(* request delivered twice may come early.                                  *)
TooSoon(l) == lastPoll[l] # None /\ now < lastPoll[l] + Interval

(* The command returns with the error; a deferred call cancels. *)
GiveUp(l) == cli' = [cli EXCEPT ![l] = "cancelling"]

(* The map has the challenge. *)
Found(l) == l \in open

(* poll on a challenge that is gone or expired: 401 or 410. *)
PollGone(l) ==
    /\ cli[l] = "polling"
    /\ Found(l) => Expired(l)
    /\ Drop(l)
    /\ GiveUp(l)
    /\ UNCHANGED <<name, ip, expires, lastPoll, approved, handler, tokens, released, failures, now>>

(* poll answered "pending" or, while another poll is issuing, "slow". *)
PollWait(l) ==
    /\ cli[l] = "polling"
    /\ Found(l) /\ ~Expired(l)
    /\ ~TooSoon(l)
    /\ approved[l] = None \/ l \in issuing
    /\ lastPoll' = [lastPoll EXCEPT ![l] = now]
    /\ UNCHANGED <<open, name, ip, expires, approved, issuing, handler, tokens, cli, released,
                   failures, now>>

(* One poll at a time goes on to mint the token. *)
Claimable_Twice(l) == approved[l] # None
Claimable(l) == approved[l] # None /\ l \notin issuing

PollApproved(h, l) ==
    /\ handler[h].stage = "idle"
    /\ cli[l] = "polling"
    /\ Found(l) /\ ~Expired(l)
    /\ ~TooSoon(l)
    /\ Claimable(l)
    /\ lastPoll' = [lastPoll EXCEPT ![l] = now]
    /\ issuing' = issuing \cup {l}
    /\ handler' = [handler EXCEPT ![h] = MakeHandler("mint", l, approved[l])]
    /\ UNCHANGED <<open, name, ip, expires, approved, tokens, cli, released, failures, now>>

(***************************************************************************)
(* The poll handler past the challenge store                               *)
(***************************************************************************)
Serves(h, stage) == handler[h].stage = stage

(* An answer reaches the command if it still waits, or is lost.  A lost one *)
(* is a failed call for the command: it gives up in a step of its own.      *)
Answer(l, result) ==
    \/ cli[l] = "polling" /\ cli' = [cli EXCEPT ![l] = result]
    \/ UNCHANGED cli

(* A store call fails. *)
StoreFails ==
    /\ failures < MaxFailures
    /\ failures' = failures + 1

(* finish(id, false): the challenge may be polled again. *)
Unclaimed_Stuck(l) == issuing
Unclaimed(l) == issuing \ {l}
FinishFailed(h) ==
    /\ issuing' = Unclaimed(handler[h].login)
    /\ handler' = [handler EXCEPT ![h] = IdleHandler]
    /\ Answer(handler[h].login, "cancelling")
    /\ UNCHANGED <<open, name, ip, expires, lastPoll, approved, released, now>>

(* CreateAPIToken refuses a name its user has. *)
NameFree(l, u) == \A t \in tokens : ~ (t.user = u /\ t.name = name[l])

Mint(h) ==
    LET l == handler[h].login
        u == handler[h].user
    IN  /\ Serves(h, "mint")
        /\ NameFree(l, u)
        /\ tokens' = tokens \cup {MakeToken(l, u)}
        /\ handler' = [handler EXCEPT ![h] = MakeHandler("record", l, u)]
        /\ UNCHANGED <<challengeVars, cli, released, failures, now>>

(* The name is taken, the account was disabled, or the store fails. *)
MintRefused(h) ==
    /\ Serves(h, "mint")
    /\ \/ ~ NameFree(handler[h].login, handler[h].user) /\ UNCHANGED failures
       \/ StoreFails
    /\ FinishFailed(h)
    /\ UNCHANGED tokens

(* UserByID and RecordLastIP succeed: finish(id, true) and the answer. *)
Record(h) ==
    LET l == handler[h].login IN
    /\ Serves(h, "record")
    /\ Drop(l)
    /\ released' = [released EXCEPT ![l] = @ + 1]
    /\ handler' = [handler EXCEPT ![h] = IdleHandler]
    /\ Answer(l, "done")
    /\ UNCHANGED <<name, ip, expires, lastPoll, approved, tokens, failures, now>>

(* One of them fails: the token is taken back. *)
RecordFails(h) ==
    /\ Serves(h, "record")
    /\ StoreFails
    /\ handler' = [handler EXCEPT ![h] =
                     MakeHandler("revoke", handler[h].login, handler[h].user)]
    /\ UNCHANGED <<challengeVars, tokens, cli, released, now>>

(* RevokeCurrentAPIToken, whose error is ignored. *)
TakenBack_Kept(h) == tokens
TakenBack(h) == tokens \ {MakeToken(handler[h].login, handler[h].user)}
TakeBack(h) ==
    /\ Serves(h, "revoke")
    /\ \/ /\ tokens' = TakenBack(h)
          /\ UNCHANGED failures
       \/ StoreFails /\ UNCHANGED tokens
    /\ FinishFailed(h)

(***************************************************************************)
(* The command and the rest of the environment                             *)
(***************************************************************************)

(* Ctrl+C, a timeout, or a lost answer. *)
Interrupt(l) ==
    /\ cli[l] = "polling"
    /\ GiveUp(l)
    /\ UNCHANGED <<challengeVars, handler, tokens, released, failures, now>>

(* The deferred cancel, which may not get through. *)
Cancel(l) ==
    /\ cli[l] = "cancelling"
    /\ cli' = [cli EXCEPT ![l] = "failed"]
    /\ Drop(l) \/ UNCHANGED <<open, issuing>>
    /\ UNCHANGED <<name, ip, expires, lastPoll, approved, handler, tokens, released, failures, now>>

(* The user revokes a token elsewhere. *)
Revoke(t) ==
    /\ tokens' = tokens \ {t}
    /\ UNCHANGED <<challengeVars, handler, cli, released, failures, now>>

Tick ==
    /\ now < MaxTime
    /\ now' = now + 1
    /\ UNCHANGED <<challengeVars, handler, tokens, cli, released, failures>>

Poll(l) == PollGone(l) \/ PollWait(l) \/ \E h \in Handlers : PollApproved(h, l)

Serve(h) == Mint(h) \/ MintRefused(h) \/ Record(h) \/ RecordFails(h) \/ TakeBack(h)

Next ==
    \/ \E l \in Logins :
         \/ \E n \in Names, a \in Addresses : Start(l, n, a)
         \/ \E u \in Users : Approve(l, u)
         \/ Poll(l)
         \/ Interrupt(l)
         \/ Cancel(l)
    \/ Visit
    \/ \E h \in Handlers : Serve(h)
    \/ \E t \in tokens : Revoke(t)
    \/ Tick

Spec == Init /\ [][Next]_vars

(* Time passes, handlers run on, and a command that is not interrupted      *)
(* keeps polling.  Nobody has to approve.                                   *)
Fairness ==
    /\ WF_vars(Tick)
    /\ \A h \in Handlers : WF_vars(Serve(h))
    /\ \A l \in Logins : WF_vars(Poll(l)) /\ WF_vars(Cancel(l))

FairSpec == Spec /\ Fairness

(***************************************************************************)
(* Properties                                                              *)
(***************************************************************************)

(* The detailed specification implements the promise of module Credential:  *)
(* whatever polls are repeated, overlap or outlive their challenge, a login *)
(* yields one token, of its approver, once.                                 *)
Promise == INSTANCE Credential WITH
    approver <- approved,
    tokens <- {<<t.login, t.user>> : t \in tokens},
    handed <- released
ImplementsCredential == Promise!Spec

(* A token that exists was sent to the command or is about to be, unless    *)
(* two store calls in a row failed: the handler takes back what it cannot   *)
(* hand out.                                                                *)
NoStrayToken ==
    failures <= 1 =>
        \A t \in tokens : \/ released[t.login] > 0
                          \/ \E h \in Handlers : handler[h].login = t.login

(* A challenge stays claimed for a handler still at work on it, and only    *)
(* then: no poll is turned away as "slow" for ever.                         *)
ClaimHeld == \A l \in issuing : \E h \in Handlers : handler[h].login = l

(* A login run ends, at the latest when its challenge has expired. *)
LoginEnds == \A l \in Logins : cli[l] = "polling" ~> cli[l] \in {"done", "failed"}

=============================================================================
