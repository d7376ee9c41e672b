-------------------------- MODULE CLIProfilesProofs -------------------------
(***************************************************************************)
(* Proofs about CLIProfiles, for any names, servers and tokens.            *)
(***************************************************************************)
EXTENDS CLIProfiles, WellFoundedInduction, TLAPS

(* Where tokens come from: a profile holds a token of its own server. *)
Coherent ==
    /\ \A n \in Names : Exists(n) => issuer[saved[n].token] = saved[n].url
    /\ \A t \in live : issuer[t] # None

(* What a command at each of its steps still knows of the files and of its  *)
(* tokens.                                                                  *)
CommandOK ==
    /\ cmd.step \in {"issue", "write", "revokeNew"} => cmd.name \in Names /\ cmd.url \in Servers
    /\ cmd.step \in {"issue", "write"} => cmd.old = saved[cmd.name]
    /\ cmd.step \in {"write", "revokeNew", "revokeOld", "revoke"}
         => cmd.token \in Tokens /\ issuer[cmd.token] = cmd.url /\ cmd.url \in Servers
    /\ At("select") => /\ cmd.name \in Names /\ Exists(cmd.name)
                       /\ cmd.old # None => issuer[cmd.old.token] = cmd.old.url
    /\ cmd.step \in {"revoke", "unlink"}
         => cmd.name \in Names /\ Exists(cmd.name) /\ cmd.token = saved[cmd.name].token
    /\ (At("unlink") /\ cmd.logout) => cmd.token \notin live
    /\ At("follow") => cmd.to \in Names /\ Exists(cmd.to)

ProfilesInv ==
    TypeOK /\ Coherent /\ CommandOK /\ CurrentValid /\ NoSilentStray /\ TokensGoHome

USE ProfilesAssumption
USE DEF At, Go, End, Exists, Some, Idle

(* The files have a first name if there is any: names are ordered like the  *)
(* naturals, where every non-empty set has a least member.                  *)
LEMMA FirstNameExists ==
  ASSUME \E n \in Names : Exists(n)
  PROVE  FirstName \in Names /\ Exists(FirstName)
<1> DEFINE R == OpToRel(<, Nat)
           S == {n \in Names : Exists(n)}
<1>1. IsWellFoundedOn(R, Nat)
  BY NatLessThanWellFounded
<1>2. S \subseteq Nat /\ S # {}
  OBVIOUS
<1> HIDE DEF R
<1>3. PICK x \in S : \A y \in S : ~ (<<y, x>> \in R)
  BY <1>1, <1>2, WFMin
<1>4. ASSUME NEW y \in S, ~ (x <= y)
      PROVE  FALSE
  <2>1. <<y, x>> \in Nat \X Nat /\ y < x
    BY <1>2, <1>4
  <2>2. <<y, x>> \in R
    BY <2>1 DEF R, OpToRel
  <2> QED
    BY <1>3, <2>2
<1> QED
  BY <1>4 DEF FirstName

(* One lemma for each action: it keeps the invariant. *)
LEMMA LoginKeeps ==
  ASSUME ProfilesInv, NEW n \in Some(Names), NEW u \in Some(Servers),
         NEW force \in BOOLEAN, NEW switch \in BOOLEAN, Login(n, u, force, switch)
  PROVE  ProfilesInv'
<1>a. cmd' \in Command
  <2>1. LoginURL(n, u) \in Servers
    BY DEF ProfilesInv, TypeOK, Profile, Login, LoginURL, Chosen
  <2>2. PICK name \in Names :
           /\ saved[name] \in Some(Profile)
           /\ cmd' = [Idle EXCEPT !.step = "issue", !.name = name, !.url = LoginURL(n, u),
                                  !.old = saved[name], !.switch = switch]
    BY <2>1 DEF ProfilesInv, TypeOK, Login
  <2> QED
    BY <2>1, <2>2 DEF Command, Steps
<1>1. TypeOK'
  BY <1>a DEF ProfilesInv, TypeOK, Login
<1>2. Coherent'
  BY DEF ProfilesInv, TypeOK, Coherent, CommandOK, CurrentValid, NoSilentStray,
         TokensGoHome, Command, Profile, Steps, Login, LoginURL, Chosen
<1>3. CommandOK'
  BY DEF ProfilesInv, TypeOK, Coherent, CommandOK, CurrentValid, NoSilentStray,
         TokensGoHome, Command, Profile, Steps, Login, LoginURL, Chosen
<1>4. CurrentValid'
  BY DEF ProfilesInv, TypeOK, Coherent, CommandOK, CurrentValid, NoSilentStray,
         TokensGoHome, Command, Profile, Steps, Login, LoginURL, Chosen
<1>5. NoSilentStray'
  BY DEF ProfilesInv, TypeOK, Coherent, CommandOK, CurrentValid, NoSilentStray,
         TokensGoHome, Command, Profile, Steps, Login, LoginURL, Chosen
<1>6. TokensGoHome'
  BY DEF ProfilesInv, TypeOK, Coherent, CommandOK, CurrentValid, NoSilentStray,
         TokensGoHome, Command, Profile, Steps, Login, LoginURL, Chosen
<1> QED
  BY <1>1, <1>2, <1>3, <1>4, <1>5, <1>6 DEF ProfilesInv

LEMMA IssueKeeps ==
  ASSUME ProfilesInv, NEW t \in Tokens, Issue(t)
  PROVE  ProfilesInv'
<1>1. TypeOK'
  BY DEF ProfilesInv, TypeOK, Coherent, CommandOK, CurrentValid, NoSilentStray,
         TokensGoHome, Command, Profile, Steps, Issue, NewToken
<1>2. Coherent'
  BY DEF ProfilesInv, TypeOK, Coherent, CommandOK, CurrentValid, NoSilentStray,
         TokensGoHome, Command, Profile, Steps, Issue, NewToken
<1>3. CommandOK'
  BY DEF ProfilesInv, TypeOK, Coherent, CommandOK, CurrentValid, NoSilentStray,
         TokensGoHome, Command, Profile, Steps, Issue, NewToken
<1>4. CurrentValid'
  BY DEF ProfilesInv, TypeOK, Coherent, CommandOK, CurrentValid, NoSilentStray,
         TokensGoHome, Command, Profile, Steps, Issue, NewToken
<1>5. NoSilentStray'
  BY DEF ProfilesInv, TypeOK, Coherent, CommandOK, CurrentValid, NoSilentStray,
         TokensGoHome, Command, Profile, Steps, Issue, NewToken
<1>6. TokensGoHome'
  BY DEF ProfilesInv, TypeOK, Coherent, CommandOK, CurrentValid, NoSilentStray,
         TokensGoHome, Command, Profile, Steps, Issue, NewToken
<1> QED
  BY <1>1, <1>2, <1>3, <1>4, <1>5, <1>6 DEF ProfilesInv

LEMMA IssueLostKeeps ==
  ASSUME ProfilesInv, NEW t \in Tokens, IssueLost(t)
  PROVE  ProfilesInv'
<1>1. TypeOK'
  BY DEF ProfilesInv, TypeOK, Coherent, CommandOK, CurrentValid, NoSilentStray,
         TokensGoHome, Command, Profile, Steps, IssueLost, NewToken
<1>2. Coherent'
  BY DEF ProfilesInv, TypeOK, Coherent, CommandOK, CurrentValid, NoSilentStray,
         TokensGoHome, Command, Profile, Steps, IssueLost, NewToken
<1>3. CommandOK'
  BY DEF ProfilesInv, TypeOK, Coherent, CommandOK, CurrentValid, NoSilentStray,
         TokensGoHome, Command, Profile, Steps, IssueLost, NewToken
<1>4. CurrentValid'
  BY DEF ProfilesInv, TypeOK, Coherent, CommandOK, CurrentValid, NoSilentStray,
         TokensGoHome, Command, Profile, Steps, IssueLost, NewToken
<1>5. NoSilentStray'
  BY DEF ProfilesInv, TypeOK, Coherent, CommandOK, CurrentValid, NoSilentStray,
         TokensGoHome, Command, Profile, Steps, IssueLost, NewToken
<1>6. TokensGoHome'
  BY DEF ProfilesInv, TypeOK, Coherent, CommandOK, CurrentValid, NoSilentStray,
         TokensGoHome, Command, Profile, Steps, IssueLost, NewToken
<1> QED
  BY <1>1, <1>2, <1>3, <1>4, <1>5, <1>6 DEF ProfilesInv

LEMMA IssueFailsKeeps ==
  ASSUME ProfilesInv, IssueFails
  PROVE  ProfilesInv'
  BY DEF ProfilesInv, TypeOK, Coherent, CommandOK, CurrentValid, NoSilentStray,
         TokensGoHome, Command, Profile, Steps, IssueFails

LEMMA WriteKeeps ==
  ASSUME ProfilesInv, Write
  PROVE  ProfilesInv'
<1>a. CASE cmd.switch
  <2>1. cmd' = [cmd EXCEPT !.step = "select"]
    BY <1>a DEF Write
  <2> QED
    BY <1>a, <2>1 DEF ProfilesInv, TypeOK, Coherent, CommandOK, CurrentValid,
                      NoSilentStray, TokensGoHome, Command, Profile, Steps, Write
<1>b. CASE ~cmd.switch /\ cmd.old = None
  <2>1. cmd' = Idle
    BY <1>b DEF Write, ThenReplaced, Replaced
  <2> QED
    BY <1>b, <2>1 DEF ProfilesInv, TypeOK, Coherent, CommandOK, CurrentValid,
                      NoSilentStray, TokensGoHome, Command, Profile, Steps, Write
<1>c. CASE ~cmd.switch /\ cmd.old # None
  <2>a. cmd' = [cmd EXCEPT !.step = "revokeOld", !.url = cmd.old.url, !.token = cmd.old.token]
    BY <1>c DEF Write, ThenReplaced, Replaced, OldServer
  <2>b. cmd.old \in Profile /\ cmd.old = saved[cmd.name] /\ cmd.name \in Names
    BY <1>c DEF ProfilesInv, TypeOK, Command, CommandOK, Write
  <2>1. TypeOK'
    BY <1>c, <2>a, <2>b DEF ProfilesInv, TypeOK, Coherent, CommandOK, CurrentValid, NoSilentStray,
           TokensGoHome, Command, Profile, Steps, Write
  <2>2. Coherent'
    BY <1>c, <2>a, <2>b DEF ProfilesInv, TypeOK, Coherent, CommandOK, CurrentValid, NoSilentStray,
           TokensGoHome, Command, Profile, Steps, Write
  <2>3. CommandOK'
    BY <1>c, <2>a, <2>b DEF ProfilesInv, TypeOK, Coherent, CommandOK, CurrentValid, NoSilentStray,
           TokensGoHome, Command, Profile, Steps, Write
  <2>4. CurrentValid'
    BY <1>c, <2>a, <2>b DEF ProfilesInv, TypeOK, Coherent, CommandOK, CurrentValid, NoSilentStray,
           TokensGoHome, Command, Profile, Steps, Write
  <2>5. NoSilentStray'
    BY <1>c, <2>a, <2>b DEF ProfilesInv, TypeOK, Coherent, CommandOK, CurrentValid, NoSilentStray,
           TokensGoHome, Command, Profile, Steps, Write
  <2>6. TokensGoHome'
    BY <1>c, <2>a, <2>b DEF ProfilesInv, TypeOK, Coherent, CommandOK, CurrentValid, NoSilentStray,
           TokensGoHome, Command, Profile, Steps, Write
  <2> QED
    BY <2>1, <2>2, <2>3, <2>4, <2>5, <2>6 DEF ProfilesInv
<1> QED
  BY <1>a, <1>b, <1>c DEF ProfilesInv, TypeOK, Command

LEMMA WriteFailsKeeps ==
  ASSUME ProfilesInv, WriteFails
  PROVE  ProfilesInv'
  BY DEF ProfilesInv, TypeOK, Coherent, CommandOK, CurrentValid, NoSilentStray,
         TokensGoHome, Command, Profile, Steps, WriteFails

LEMMA RevokeNewKeeps ==
  ASSUME ProfilesInv, RevokeNew
  PROVE  ProfilesInv'
  BY DEF ProfilesInv, TypeOK, Coherent, CommandOK, CurrentValid, NoSilentStray,
         TokensGoHome, Command, Profile, Steps, RevokeNew, RevokeOK, RevokeFails,
         Accepted

LEMMA SelectKeeps ==
  ASSUME ProfilesInv, Select
  PROVE  ProfilesInv'
<1>a. CASE cmd.old = None
  <2>1. cmd' = Idle
    BY <1>a DEF Select, ThenReplaced, Replaced
  <2> QED
    BY <1>a, <2>1 DEF ProfilesInv, TypeOK, Coherent, CommandOK, CurrentValid,
                      NoSilentStray, TokensGoHome, Command, Profile, Steps, Select
<1>b. CASE cmd.old # None
  <2>1. cmd' = [cmd EXCEPT !.step = "revokeOld", !.url = cmd.old.url, !.token = cmd.old.token]
    BY <1>b DEF Select, ThenReplaced, Replaced, OldServer
  <2> QED
    BY <1>b, <2>1 DEF ProfilesInv, TypeOK, Coherent, CommandOK, CurrentValid,
                      NoSilentStray, TokensGoHome, Command, Profile, Steps, Select
<1> QED
  BY <1>a, <1>b

LEMMA SelectFailsKeeps ==
  ASSUME ProfilesInv, SelectFails
  PROVE  ProfilesInv'
  BY DEF ProfilesInv, TypeOK, Coherent, CommandOK, CurrentValid, NoSilentStray,
         TokensGoHome, Command, Profile, Steps, SelectFails

LEMMA RevokeOldKeeps ==
  ASSUME ProfilesInv, RevokeOld
  PROVE  ProfilesInv'
  BY DEF ProfilesInv, TypeOK, Coherent, CommandOK, CurrentValid, NoSilentStray,
         TokensGoHome, Command, Profile, Steps, RevokeOld, RevokeOK, RevokeFails,
         Accepted

LEMMA LogoutKeeps ==
  ASSUME ProfilesInv, NEW n \in Some(Names), NEW localOnly \in BOOLEAN, Logout(n, localOnly)
  PROVE  ProfilesInv'
<1>a. cmd' \in Command
  <2>1. PICK name \in Names :
           /\ saved[name] \in Profile
           /\ cmd' = [Idle EXCEPT !.step = IF localOnly THEN "unlink" ELSE "revoke",
                                  !.name = name, !.url = saved[name].url,
                                  !.token = saved[name].token, !.logout = ~localOnly]
    BY DEF ProfilesInv, TypeOK, Logout, Chosen
  <2> QED
    BY <2>1 DEF Command, Steps, Profile
<1>1. TypeOK'
  BY <1>a DEF ProfilesInv, TypeOK, Logout
<1>2. Coherent'
  BY DEF ProfilesInv, TypeOK, Coherent, CommandOK, CurrentValid, NoSilentStray,
         TokensGoHome, Command, Profile, Steps, Logout, Chosen
<1>3. CommandOK'
  <2>1. CASE localOnly
    BY <2>1 DEF ProfilesInv, TypeOK, CommandOK, Coherent, Profile, Logout, Chosen
  <2>2. CASE ~localOnly
    BY <2>2 DEF ProfilesInv, TypeOK, CommandOK, Coherent, Profile, Logout, Chosen
  <2> QED
    BY <2>1, <2>2
<1>4. CurrentValid'
  BY DEF ProfilesInv, TypeOK, Coherent, CommandOK, CurrentValid, NoSilentStray,
         TokensGoHome, Command, Profile, Steps, Logout, Chosen
<1>5. NoSilentStray'
  BY DEF ProfilesInv, TypeOK, Coherent, CommandOK, CurrentValid, NoSilentStray,
         TokensGoHome, Command, Profile, Steps, Logout, Chosen
<1>6. TokensGoHome'
  BY DEF ProfilesInv, TypeOK, Coherent, CommandOK, CurrentValid, NoSilentStray,
         TokensGoHome, Command, Profile, Steps, Logout, Chosen
<1> QED
  BY <1>1, <1>2, <1>3, <1>4, <1>5, <1>6 DEF ProfilesInv

LEMMA RevokeKeeps ==
  ASSUME ProfilesInv, Revoke
  PROVE  ProfilesInv'
<1>a. cmd' = Idle \/ cmd' = [cmd EXCEPT !.step = "unlink"]
  BY DEF Revoke, AfterFailedRevoke
<1>b. cmd \in Command /\ Idle \in Command /\ [cmd EXCEPT !.step = "unlink"] \in Command
  BY DEF ProfilesInv, TypeOK, Command, Steps
<1>1. TypeOK'
  BY <1>a, <1>b DEF ProfilesInv, TypeOK, Revoke, RevokeOK, RevokeFails
<1>2. Coherent'
  BY DEF ProfilesInv, TypeOK, Coherent, CommandOK, CurrentValid, NoSilentStray,
         TokensGoHome, Command, Profile, Steps, Revoke, AfterFailedRevoke,
         RevokeOK, RevokeFails, Accepted
<1>3. CommandOK'
  BY DEF ProfilesInv, TypeOK, Coherent, CommandOK, CurrentValid, NoSilentStray,
         TokensGoHome, Command, Profile, Steps, Revoke, AfterFailedRevoke,
         RevokeOK, RevokeFails, Accepted
<1>4. CurrentValid'
  BY DEF ProfilesInv, TypeOK, Coherent, CommandOK, CurrentValid, NoSilentStray,
         TokensGoHome, Command, Profile, Steps, Revoke, AfterFailedRevoke,
         RevokeOK, RevokeFails, Accepted
<1>5. NoSilentStray'
  BY DEF ProfilesInv, TypeOK, Coherent, CommandOK, CurrentValid, NoSilentStray,
         TokensGoHome, Command, Profile, Steps, Revoke, AfterFailedRevoke,
         RevokeOK, RevokeFails, Accepted
<1>6. TokensGoHome'
  BY DEF ProfilesInv, TypeOK, Coherent, CommandOK, CurrentValid, NoSilentStray,
         TokensGoHome, Command, Profile, Steps, Revoke, AfterFailedRevoke,
         RevokeOK, RevokeFails, Accepted
<1> QED
  BY <1>1, <1>2, <1>3, <1>4, <1>5, <1>6 DEF ProfilesInv

LEMMA ProfilesRemoveKeeps ==
  ASSUME ProfilesInv, NEW n \in Names, ProfilesRemove(n)
  PROVE  ProfilesInv'
  BY DEF ProfilesInv, TypeOK, Coherent, CommandOK, CurrentValid, NoSilentStray,
         TokensGoHome, Command, Profile, Steps, ProfilesRemove

LEMMA UnlinkKeeps ==
  ASSUME ProfilesInv, Unlink
  PROVE  ProfilesInv'
<1>a. cmd' = Idle \/ cmd' = [cmd EXCEPT !.step = "repoint"]
  BY DEF Unlink
<1>b. cmd \in Command /\ Idle \in Command /\ [cmd EXCEPT !.step = "repoint"] \in Command
  BY DEF ProfilesInv, TypeOK, Command, Steps
<1>c. cmd.token \in Tokens
  BY DEF ProfilesInv, TypeOK, CommandOK, Profile, Unlink
<1>1. TypeOK'
  BY <1>a, <1>b, <1>c DEF ProfilesInv, TypeOK, Unlink
<1>2. Coherent'
  BY DEF ProfilesInv, TypeOK, Coherent, CommandOK, CurrentValid, NoSilentStray,
         TokensGoHome, Command, Profile, Steps, Unlink, PointsAt
<1>3. CommandOK'
  BY DEF ProfilesInv, TypeOK, Coherent, CommandOK, CurrentValid, NoSilentStray,
         TokensGoHome, Command, Profile, Steps, Unlink, PointsAt
<1>4. CurrentValid'
  BY DEF ProfilesInv, TypeOK, Coherent, CommandOK, CurrentValid, NoSilentStray,
         TokensGoHome, Command, Profile, Steps, Unlink, PointsAt
<1>5. NoSilentStray'
  BY DEF ProfilesInv, TypeOK, Coherent, CommandOK, CurrentValid, NoSilentStray,
         TokensGoHome, Command, Profile, Steps, Unlink, PointsAt
<1>6. TokensGoHome'
  BY DEF ProfilesInv, TypeOK, Coherent, CommandOK, CurrentValid, NoSilentStray,
         TokensGoHome, Command, Profile, Steps, Unlink, PointsAt
<1> QED
  BY <1>1, <1>2, <1>3, <1>4, <1>5, <1>6 DEF ProfilesInv

LEMMA RepointKeeps ==
  ASSUME ProfilesInv, Repoint
  PROVE  ProfilesInv'
<1>1. current' = None \/ (current' \in Names /\ saved[current'] # None)
  BY FirstNameExists DEF Repoint
<1> QED
  BY <1>1 DEF ProfilesInv, TypeOK, Coherent, CommandOK, CurrentValid,
              NoSilentStray, TokensGoHome, Command, Profile, Steps, Repoint

LEMMA RenameKeeps ==
  ASSUME ProfilesInv, NEW n \in Names, NEW m \in Names, Rename(n, m)
  PROVE  ProfilesInv'
<1>1. TypeOK'
  BY DEF ProfilesInv, TypeOK, Coherent, CommandOK, CurrentValid, NoSilentStray,
         TokensGoHome, Command, Profile, Steps, Rename, PointsAt
<1>2. Coherent'
  BY DEF ProfilesInv, TypeOK, Coherent, CommandOK, CurrentValid, NoSilentStray,
         TokensGoHome, Command, Profile, Steps, Rename, PointsAt
<1>3. CommandOK'
  BY DEF ProfilesInv, TypeOK, Coherent, CommandOK, CurrentValid, NoSilentStray,
         TokensGoHome, Command, Profile, Steps, Rename, PointsAt
<1>4. CurrentValid'
  BY DEF ProfilesInv, TypeOK, Coherent, CommandOK, CurrentValid, NoSilentStray,
         TokensGoHome, Command, Profile, Steps, Rename, PointsAt
<1>5. NoSilentStray'
  BY DEF ProfilesInv, TypeOK, Coherent, CommandOK, CurrentValid, NoSilentStray,
         TokensGoHome, Command, Profile, Steps, Rename, PointsAt
<1>6. TokensGoHome'
  BY DEF ProfilesInv, TypeOK, Coherent, CommandOK, CurrentValid, NoSilentStray,
         TokensGoHome, Command, Profile, Steps, Rename, PointsAt
<1> QED
  BY <1>1, <1>2, <1>3, <1>4, <1>5, <1>6 DEF ProfilesInv

LEMMA FollowKeeps ==
  ASSUME ProfilesInv, Follow
  PROVE  ProfilesInv'
  BY DEF ProfilesInv, TypeOK, Coherent, CommandOK, CurrentValid, NoSilentStray,
         TokensGoHome, Command, Profile, Steps, Follow

LEMMA UseKeeps ==
  ASSUME ProfilesInv, NEW n \in Names, Use(n)
  PROVE  ProfilesInv'
  BY DEF ProfilesInv, TypeOK, Coherent, CommandOK, CurrentValid, NoSilentStray,
         TokensGoHome, Command, Profile, Steps, Use

LEMMA ResolveKeeps ==
  ASSUME ProfilesInv, NEW n \in Some(Names), NEW u \in Some(Servers), NEW t \in Some(Tokens), Resolve(n, u, t)
  PROVE  ProfilesInv'
<1>a. cmd' \in Command
  <2>1. PICK url \in Servers, token \in Tokens :
           cmd' = [Idle EXCEPT !.step = "call", !.url = url, !.token = token,
                               !.mixed = u # None \/ t # None]
    BY DEF ProfilesInv, TypeOK, Profile, Resolve, Chosen
  <2> QED
    BY <2>1 DEF Command, Steps
<1>1. TypeOK'
  BY <1>a DEF ProfilesInv, TypeOK, Resolve
<1>2. Coherent'
  BY DEF ProfilesInv, TypeOK, Coherent, CommandOK, CurrentValid, NoSilentStray,
         TokensGoHome, Command, Profile, Steps, Resolve, Chosen
<1>3. CommandOK'
  BY DEF ProfilesInv, TypeOK, Coherent, CommandOK, CurrentValid, NoSilentStray,
         TokensGoHome, Command, Profile, Steps, Resolve, Chosen
<1>4. CurrentValid'
  BY DEF ProfilesInv, TypeOK, Coherent, CommandOK, CurrentValid, NoSilentStray,
         TokensGoHome, Command, Profile, Steps, Resolve, Chosen
<1>5. NoSilentStray'
  BY DEF ProfilesInv, TypeOK, Coherent, CommandOK, CurrentValid, NoSilentStray,
         TokensGoHome, Command, Profile, Steps, Resolve, Chosen
<1>6. TokensGoHome'
  BY DEF ProfilesInv, TypeOK, Coherent, CommandOK, CurrentValid, NoSilentStray,
         TokensGoHome, Command, Profile, Steps, Resolve, Chosen
<1> QED
  BY <1>1, <1>2, <1>3, <1>4, <1>5, <1>6 DEF ProfilesInv

LEMMA CallKeeps ==
  ASSUME ProfilesInv, Call
  PROVE  ProfilesInv'
  BY DEF ProfilesInv, TypeOK, Coherent, CommandOK, CurrentValid, NoSilentStray,
         TokensGoHome, Command, Profile, Steps, Call

LEMMA TokensRevokeKeeps ==
  ASSUME ProfilesInv, NEW t \in Tokens, TokensRevoke(t)
  PROVE  ProfilesInv'
<1>1. TypeOK'
  BY DEF ProfilesInv, TypeOK, Coherent, CommandOK, CurrentValid, NoSilentStray,
         TokensGoHome, Command, Profile, Steps, TokensRevoke, RevokeOK, Accepted
<1>2. Coherent'
  BY DEF ProfilesInv, TypeOK, Coherent, CommandOK, CurrentValid, NoSilentStray,
         TokensGoHome, Command, Profile, Steps, TokensRevoke, RevokeOK, Accepted
<1>3. CommandOK'
  BY DEF ProfilesInv, TypeOK, Coherent, CommandOK, CurrentValid, NoSilentStray,
         TokensGoHome, Command, Profile, Steps, TokensRevoke, RevokeOK, Accepted
<1>4. CurrentValid'
  BY DEF ProfilesInv, TypeOK, Coherent, CommandOK, CurrentValid, NoSilentStray,
         TokensGoHome, Command, Profile, Steps, TokensRevoke, RevokeOK, Accepted
<1>5. NoSilentStray'
  BY DEF ProfilesInv, TypeOK, Coherent, CommandOK, CurrentValid, NoSilentStray,
         TokensGoHome, Command, Profile, Steps, TokensRevoke, RevokeOK, Accepted
<1>6. TokensGoHome'
  BY DEF ProfilesInv, TypeOK, Coherent, CommandOK, CurrentValid, NoSilentStray,
         TokensGoHome, Command, Profile, Steps, TokensRevoke, RevokeOK, Accepted
<1> QED
  BY <1>1, <1>2, <1>3, <1>4, <1>5, <1>6 DEF ProfilesInv

LEMMA ExpireKeeps ==
  ASSUME ProfilesInv, NEW t \in Tokens, Expire(t)
  PROVE  ProfilesInv'
  BY DEF ProfilesInv, TypeOK, Coherent, CommandOK, CurrentValid, NoSilentStray,
         TokensGoHome, Command, Profile, Steps, Expire

LEMMA StopKeeps ==
  ASSUME ProfilesInv, Stop
  PROVE  ProfilesInv'
  BY DEF ProfilesInv, TypeOK, Coherent, CommandOK, CurrentValid, NoSilentStray,
         TokensGoHome, Command, Profile, Steps, Stop, Unsaved, Superseded

(* Nothing else changes the state. *)
LEMMA StutterKeeps ==
  ASSUME ProfilesInv, UNCHANGED vars
  PROVE  ProfilesInv'
  BY DEF ProfilesInv, TypeOK, Coherent, CommandOK, CurrentValid, NoSilentStray,
         TokensGoHome, Command, Profile, Steps, vars, Unsaved

(* The invariant holds of every state: what each command relies on between  *)
(* two of its steps is still so, whatever failed before.                    *)
THEOREM ProfilesInvariant == Spec => []ProfilesInv
<1>1. Init => ProfilesInv
  <2>1. Idle \in Command
    BY DEF Command, Steps
  <2>2. Init => TypeOK
    BY <2>1 DEF Init, TypeOK
  <2>3. Init => Coherent /\ CommandOK /\ CurrentValid /\ NoSilentStray /\ TokensGoHome
    BY DEF Init, Coherent, CommandOK, CurrentValid, NoSilentStray, TokensGoHome
  <2> QED
    BY <2>2, <2>3 DEF ProfilesInv
<1>2. ProfilesInv /\ [Next]_vars => ProfilesInv'
  BY LoginKeeps, IssueKeeps, IssueLostKeeps, IssueFailsKeeps, WriteKeeps, WriteFailsKeeps,
     RevokeNewKeeps, SelectKeeps, SelectFailsKeeps, RevokeOldKeeps, LogoutKeeps, RevokeKeeps,
     ProfilesRemoveKeeps, UnlinkKeeps, RepointKeeps, RenameKeeps, FollowKeeps, UseKeeps,
     ResolveKeeps, CallKeeps, TokensRevokeKeeps, ExpireKeeps, StopKeeps, StutterKeeps
  DEF Next
<1> QED
  BY <1>1, <1>2, PTL DEF Spec

(* "current" names a profile there is, unless a command was stopped while   *)
(* it was about to update it (ProfileStore.Remove and Rename).              *)
THEOREM CurrentAlwaysValid == Spec => []CurrentValid
<1>1. ProfilesInv => CurrentValid
  BY DEF ProfilesInv
<1> QED
  BY <1>1, ProfilesInvariant, PTL

(* cmdLogin and cmdLogout leave no usable token behind without saying so. *)
THEOREM NeverSilentlyStray == Spec => []NoSilentStray
<1>1. ProfilesInv => NoSilentStray
  BY DEF ProfilesInv
<1> QED
  BY <1>1, ProfilesInvariant, PTL

(* What resolveRemote, cmdLogin and cmdLogout send goes to the server that  *)
(* issued the token.                                                        *)
THEOREM TokensAlwaysGoHome == Spec => []TokensGoHome
<1>1. ProfilesInv => TokensGoHome
  BY DEF ProfilesInv
<1> QED
  BY <1>1, ProfilesInvariant, PTL

(* cmdLogout deletes a profile only when its token is dead. *)
THEOREM LogoutAlwaysRevokes == Spec => LogoutRevokes
<1>1. ProfilesInv => ((At("unlink") /\ cmd.logout) => saved[cmd.name].token \notin live)
  BY DEF ProfilesInv, CommandOK
<1>2. ProfilesInv => [(At("unlink") /\ cmd.logout /\ saved' # saved)
                        => saved[cmd.name].token \notin live]_vars
  BY <1>1
<1> QED
  BY <1>2, ProfilesInvariant, PTL DEF LogoutRevokes

=============================================================================
