--------------------------- MODULE AccountsProofs ---------------------------
(***************************************************************************)
(* Proofs about Accounts for any sets of users, subjects, names, handlers  *)
(* and any session cap.  Each safety property has its own inductive        *)
(* invariant, on top of the types; with them the store implements          *)
(* Authority.                                                              *)
(***************************************************************************)
EXTENDS Accounts, FiniteSetTheorems, TLAPS

(* Type correctness: every row of the tables and every request in flight   *)
(* of the handlers keeps the shape its columns and fields have.            *)
THEOREM TypeCorrect == Spec => []TypeOK
<1>1. Init => TypeOK
  BY DEF Init, TypeOK, Roles, Request, Idle, Calling, MakeRequest, Calls
<1>2. TypeOK /\ [Next]_vars => TypeOK'
  <2> SUFFICES ASSUME TypeOK, [Next]_vars PROVE TypeOK'
    OBVIOUS
  <2> USE DEF TypeOK
  <2>make. ASSUME NEW c \in Calls, NEW u \in Users \cup {None}, NEW k \in Nat,
                  NEW r \in Roles, NEW a \in BOOLEAN, NEW open \in BOOLEAN
           PROVE  MakeRequest(c, u, k, r, a, open) \in Request
    BY DEF MakeRequest, Request
  <2>calling. ASSUME NEW c \in Calls, NEW u \in Users \cup {None}
              PROVE  Calling(c, u) \in Request
    BY <2>make DEF Calling, Roles
  <2>idle. Idle \in Request
    BY <2>calling DEF Idle, Calls
  <2>finish. ASSUME NEW h \in Handlers, Finish(h)
             PROVE  req' \in [Handlers -> Request]
    BY <2>finish, <2>idle DEF Finish
  <2>begin. ASSUME NEW h \in Handlers, NEW r \in Request, Begin(h, r)
            PROVE  req' \in [Handlers -> Request]
    BY <2>begin DEF Begin
  <2>signIn. SignInCalls \subseteq Calls
    BY DEF SignInCalls, Calls
  <2>1. ASSUME NEW h \in Handlers, NEW u \in Users, NEW p \in Passwords, RegisterEmail(h, u, p)
        PROVE  TypeOK'
    <3>1. Calling("NewSession", u) \in Request
      BY <2>calling DEF Calls
    <3>2. req' \in [Handlers -> Request]
      BY <3>1, <2>1, <2>begin DEF RegisterEmail
    <3> QED
      BY <3>2, <2>1 DEF RegisterEmail, InsertUser, NewUserRole, secretVars, Roles
  <2>2. ASSUME NEW h \in Handlers, NEW u \in Users, NEW p \in Passwords, NEW c \in SignInCalls,
               AuthenticateEmail(h, u, p, c)
        PROVE  TypeOK'
    <3>1. Calling(c, u) \in Request
      BY <2>calling, <2>signIn
    <3>2. req' \in [Handlers -> Request]
      BY <3>1, <2>2, <2>begin DEF AuthenticateEmail
    <3> QED
      BY <3>2, <2>2 DEF AuthenticateEmail, accountVars, secretVars
  <2>3. ASSUME NEW h \in Handlers, NEW s \in Subjects, NEW c \in SignInCalls,
               GoogleKnownSubject(h, s, c)
        PROVE  TypeOK'
    <3>1. PICK v \in active : Begin(h, Calling(c, v))
      BY <2>3 DEF GoogleKnownSubject
    <3>2. Calling(c, v) \in Request
      BY <2>calling, <2>signIn
    <3>3. req' \in [Handlers -> Request]
      BY <3>1, <3>2, <2>begin
    <3> QED
      BY <3>3, <2>3 DEF GoogleKnownSubject, accountVars, secretVars
  <2>4. ASSUME NEW h \in Handlers, NEW u \in Users, NEW s \in Subjects, NEW c \in SignInCalls,
               GoogleLink(h, u, s, c) \/ GoogleRegister(h, u, s, c)
        PROVE  TypeOK'
    <3>1. Calling(c, u) \in Request
      BY <2>calling, <2>signIn
    <3>2. req' \in [Handlers -> Request]
      BY <3>1, <2>4, <2>begin DEF GoogleLink, GoogleRegister
    <3> QED
      BY <3>2, <2>4 DEF GoogleLink, GoogleRegister, InsertUser, NewUserRole, secretVars, Roles
  <2>5. ASSUME NEW h \in Handlers, NewSession(h)
        PROVE  TypeOK'
    <3>1. SessionOf(req[h].user) \in Session
      BY <2>5, AccountsAssumption DEF SessionOf, Session, NewSession, MayHoldSecret
    <3>2. sessions' \subseteq Session
      BY <3>1, <2>5 DEF NewSession, Newest, Unexpired
    <3> QED
      BY <3>2, <2>5, <2>finish DEF NewSession, accountVars
  <2>6. ASSUME NEW h \in Handlers, NEW n \in Names, CreateAPIToken(h, n)
        PROVE  TypeOK'
    <3>1. [secret |-> issued + 1, user |-> req[h].user, name |-> n] \in APIToken
      BY <2>6 DEF APIToken, CreateAPIToken, MayHoldSecret
    <3> QED
      BY <3>1, <2>6, <2>finish DEF CreateAPIToken, accountVars
  <2>7. ASSUME NEW h \in Handlers, NEW n \in Names, RevokeAPIToken(h, n)
        PROVE  TypeOK'
    BY <2>7, <2>finish DEF RevokeAPIToken, accountVars
  <2>8. ASSUME NEW h \in Handlers, NEW t \in tokens, TokenBegin(h, t)
        PROVE  TypeOK'
    <3>1. t \in APIToken
      OBVIOUS
    <3>3. MakeRequest("TokenAPI", t.user, t.secret, "reader", FALSE, FALSE) \in Request
      BY <3>1, <2>make DEF Calls, Roles, APIToken
    <3>4. req' \in [Handlers -> Request]
      BY <3>3, <2>8, <2>begin DEF TokenBegin
    <3> QED
      BY <3>4, <2>8 DEF TokenBegin, accountVars, secretVars
  <2>9. ASSUME NEW h \in Handlers, RevokeCurrentAPIToken(h)
        PROVE  TypeOK'
    BY <2>9, <2>finish DEF RevokeCurrentAPIToken, accountVars
  <2>10. ASSUME NEW h \in Handlers, AdminBegin(h)
         PROVE  TypeOK'
    <3>1. Calling("AdminPages", None) \in Request /\ Calling("AdminAPI", None) \in Request
      BY <2>calling DEF Calls
    <3>2. req' \in [Handlers -> Request]
      BY <3>1, <2>10, <2>begin DEF AdminBegin
    <3> QED
      BY <3>2, <2>10 DEF AdminBegin, accountVars, secretVars
  <2>11. ASSUME NEW u \in Users, NEW r \in Roles, NEW a \in BOOLEAN, NEW h \in Handlers,
                UpdateUser(u, r, a), Finish(h)
         PROVE  TypeOK'
    BY <2>11, <2>finish DEF UpdateUser, UserExists, SessionsWithout, TokensWithout
  <2>12. ASSUME NEW h \in Handlers, NEW u \in Users, NEW named \in SUBSET {"role", "active"},
                NEW r \in Roles, NEW a \in BOOLEAN, APIUserUpdate(h, u, named, r, a)
         PROVE  TypeOK'
    <3> DEFINE rr == IF "role" \in named THEN r ELSE role[u]
               aa == IF "active" \in named THEN a ELSE u \in active
    <3>1. rr \in Roles
      OBVIOUS
    <3>2. aa \in BOOLEAN
      <4>1. CASE "active" \in named
        BY <4>1
      <4>2. CASE "active" \notin named
        <5>1. (u \in active) \in BOOLEAN
          OBVIOUS
        <5> QED
          BY <4>2, <5>1
      <4> QED
        BY <4>1, <4>2
    <3> HIDE DEF rr, aa
    <3>3. MakeRequest("UpdateUser", u, 0, rr, aa, FALSE) \in Request
      BY <3>1, <3>2, <2>make DEF Calls
    <3>4. req' = [req EXCEPT ![h] = MakeRequest("UpdateUser", u, 0, rr, aa, FALSE)]
      BY <2>12 DEF APIUserUpdate, rr, aa
    <3>5. req' \in [Handlers -> Request]
      BY <3>3, <3>4
    <3> QED
      BY <3>5, <2>12 DEF APIUserUpdate, accountVars, secretVars
  <2>13. ASSUME NEW h \in Handlers, APIUserUpdateWrite(h)
         PROVE  TypeOK'
    <3>1. /\ req[h].user \in Users
          /\ req[h].role \in Roles
          /\ req[h].active \in BOOLEAN
      BY <2>13 DEF Request, APIUserUpdateWrite, UpdateUser, UserExists
    <3> QED
      BY <3>1, <2>13, <2>11 DEF APIUserUpdateWrite
  <2>14. ASSUME NEW h \in Handlers, NEW u \in Users, NEW p \in Passwords, SetPassword(h, u, p)
         PROVE  TypeOK'
    BY <2>14, <2>finish DEF SetPassword, SessionsWithout, TokensWithout
  <2>15. ASSUME NEW h \in Handlers, NEW open \in BOOLEAN, AdminSettings(h, open)
         PROVE  TypeOK'
    BY <2>15, <2>finish DEF AdminSettings, accountVars, secretVars
  <2>16. ASSUME NEW h \in Handlers, NEW named \in BOOLEAN, NEW open \in BOOLEAN,
                APISettingsUpdate(h, named, open)
         PROVE  TypeOK'
    <3> DEFINE oo == IF named THEN open ELSE registrationOpen
    <3>1. oo \in BOOLEAN
      OBVIOUS
    <3> HIDE DEF oo
    <3>3. MakeRequest("UpdateSettings", None, 0, "reader", FALSE, oo) \in Request
      BY <3>1, <2>make DEF Calls, Roles
    <3>4. req' = [req EXCEPT ![h] = MakeRequest("UpdateSettings", None, 0, "reader", FALSE, oo)]
      BY <2>16 DEF APISettingsUpdate, oo
    <3>5. req' \in [Handlers -> Request]
      BY <3>3, <3>4
    <3> QED
      BY <3>5, <2>16 DEF APISettingsUpdate, accountVars, secretVars
  <2>17. ASSUME NEW h \in Handlers, APISettingsUpdateWrite(h)
         PROVE  TypeOK'
    <3>1. req[h].open \in BOOLEAN
      BY DEF Request
    <3> QED
      BY <3>1, <2>17, <2>finish DEF APISettingsUpdateWrite, accountVars, secretVars
  <2>18. ASSUME NEW h \in Handlers, Fail(h)
         PROVE  TypeOK'
    BY <2>18, <2>finish DEF Fail, accountVars, secretVars
  <2>19. ASSUME NEW s \in sessions, DeleteSession(s)
         PROVE  TypeOK'
    BY <2>19 DEF DeleteSession, accountVars
  <2>20. CASE Tick
    BY <2>20 DEF Tick, accountVars, secretVars
  <2>21. CASE UNCHANGED vars
    BY <2>21 DEF vars, accountVars, secretVars
  <2> HIDE DEF TypeOK
  <2> QED
    BY <2>1, <2>2, <2>3, <2>4, <2>5, <2>6, <2>7, <2>8, <2>9, <2>10, <2>11, <2>12, <2>13,
       <2>14, <2>15, <2>16, <2>17, <2>18, <2>19, <2>20, <2>21
       DEF Next, SignIn, Credentials, Administer, AdminUserUpdate
<1> QED
  BY <1>1, <1>2, PTL DEF Spec

(***************************************************************************)
(* What a step does to the tables.  Most steps only move a request on, or  *)
(* drop sessions and tokens; the others are listed one by one.             *)
(***************************************************************************)
QuietStep ==
    /\ UNCHANGED <<registered, active, role, password, google, issued>>
    /\ sessions' \subseteq sessions
    /\ tokens' \subseteq tokens

InsertStep(u, p, s) ==
    /\ u \notin registered
    /\ s = None \/ NewSubject(s)
    /\ InsertUser(u, p, s)
    /\ UNCHANGED secretVars

LinkStep(u, s) ==
    /\ NewSubject(s)
    /\ u \in active
    /\ Unlinked(u)
    /\ google' = [google EXCEPT ![u] = s]
    /\ UNCHANGED <<registered, active, role, password, secretVars>>

(* Every step of Next has one of these seven effects on the tables.        *)
LEMMA StepEffect ==
    ASSUME TypeOK, [Next]_vars
    PROVE  \/ QuietStep
           \/ \E u \in Users, p \in Passwords \cup {None}, s \in Subjects \cup {None} :
                 InsertStep(u, p, s)
           \/ \E u \in Users, s \in Subjects : LinkStep(u, s)
           \/ \E h \in Handlers : NewSession(h)
           \/ \E h \in Handlers, n \in Names : CreateAPIToken(h, n)
           \/ \E u \in Users, r \in Roles, a \in BOOLEAN : UpdateUser(u, r, a)
           \/ \E h \in Handlers, u \in Users, p \in Passwords : SetPassword(h, u, p)
<1> DEFINE Effect ==
           \/ QuietStep
           \/ \E u \in Users, p \in Passwords \cup {None}, s \in Subjects \cup {None} :
                 InsertStep(u, p, s)
           \/ \E u \in Users, s \in Subjects : LinkStep(u, s)
           \/ \E h \in Handlers : NewSession(h)
           \/ \E h \in Handlers, n \in Names : CreateAPIToken(h, n)
           \/ \E u \in Users, r \in Roles, a \in BOOLEAN : UpdateUser(u, r, a)
           \/ \E h \in Handlers, u \in Users, p \in Passwords : SetPassword(h, u, p)
<1>1. ASSUME NEW h \in Handlers, SignIn(h)
      PROVE  Effect
  <2>1. ASSUME NEW u \in Users, NEW p \in Passwords, RegisterEmail(h, u, p)
        PROVE  InsertStep(u, p, None)
    BY <2>1 DEF RegisterEmail, InsertStep
  <2>2. ASSUME NEW u \in Users, NEW p \in Passwords, NEW c, AuthenticateEmail(h, u, p, c)
        PROVE  QuietStep
    BY <2>2 DEF AuthenticateEmail, QuietStep, accountVars, secretVars
  <2>3. ASSUME NEW s \in Subjects, NEW c, GoogleKnownSubject(h, s, c)
        PROVE  QuietStep
    BY <2>3 DEF GoogleKnownSubject, QuietStep, accountVars, secretVars
  <2>4. ASSUME NEW u \in Users, NEW s \in Subjects, NEW c, GoogleLink(h, u, s, c)
        PROVE  LinkStep(u, s)
    BY <2>4 DEF GoogleLink, LinkStep
  <2>5. ASSUME NEW u \in Users, NEW s \in Subjects, NEW c, GoogleRegister(h, u, s, c)
        PROVE  InsertStep(u, None, s)
    BY <2>5 DEF GoogleRegister, InsertStep
  <2> QED
    BY <1>1, <2>1, <2>2, <2>3, <2>4, <2>5 DEF SignIn
<1>2. ASSUME NEW h \in Handlers, Credentials(h)
      PROVE  Effect
  <2>1. ASSUME NEW n \in Names, RevokeAPIToken(h, n)
        PROVE  QuietStep
    BY <2>1 DEF RevokeAPIToken, QuietStep, accountVars
  <2>2. ASSUME NEW t \in tokens, TokenBegin(h, t)
        PROVE  QuietStep
    BY <2>2 DEF TokenBegin, QuietStep, accountVars, secretVars
  <2>3. ASSUME RevokeCurrentAPIToken(h)
        PROVE  QuietStep
    BY <2>3 DEF RevokeCurrentAPIToken, QuietStep, accountVars
  <2> QED
    BY <1>2, <2>1, <2>2, <2>3 DEF Credentials
<1>3. ASSUME NEW h \in Handlers, Administer(h)
      PROVE  Effect
  <2>1. ASSUME AdminBegin(h)
        PROVE  QuietStep
    BY <2>1 DEF AdminBegin, QuietStep, accountVars, secretVars
  <2>2. ASSUME NEW u, NEW r, NEW a, NEW named, APIUserUpdate(h, u, named, r, a)
        PROVE  QuietStep
    BY <2>2 DEF APIUserUpdate, QuietStep, accountVars, secretVars
  <2>3. ASSUME APIUserUpdateWrite(h)
        PROVE  \E u \in Users, r \in Roles, a \in BOOLEAN : UpdateUser(u, r, a)
    <3>1. req[h].user \in Users /\ req[h].role \in Roles /\ req[h].active \in BOOLEAN
      BY <2>3 DEF TypeOK, Request, APIUserUpdateWrite, UpdateUser, UserExists
    <3> QED
      BY <3>1, <2>3 DEF APIUserUpdateWrite
  <2>4. ASSUME NEW open, AdminSettings(h, open)
        PROVE  QuietStep
    BY <2>4 DEF AdminSettings, QuietStep, accountVars, secretVars
  <2>5. ASSUME NEW open, NEW named, APISettingsUpdate(h, named, open)
        PROVE  QuietStep
    BY <2>5 DEF APISettingsUpdate, QuietStep, accountVars, secretVars
  <2>6. ASSUME APISettingsUpdateWrite(h)
        PROVE  QuietStep
    BY <2>6 DEF APISettingsUpdateWrite, QuietStep, accountVars, secretVars
  <2> QED
    BY <1>3, <2>1, <2>2, <2>3, <2>4, <2>5, <2>6 DEF Administer, AdminUserUpdate
<1>4. ASSUME NEW h \in Handlers, Fail(h)
      PROVE  QuietStep
  BY <1>4 DEF Fail, QuietStep, accountVars, secretVars
<1>5. ASSUME NEW s \in sessions, DeleteSession(s)
      PROVE  QuietStep
  BY <1>5 DEF DeleteSession, QuietStep, accountVars
<1>6. ASSUME Tick \/ UNCHANGED vars
      PROVE  QuietStep
  BY <1>6 DEF Tick, QuietStep, vars, accountVars, secretVars
<1> QED
  BY <1>1, <1>2, <1>3, <1>4, <1>5, <1>6 DEF Next

(***************************************************************************)
(* The administrator who is always there                                   *)
(***************************************************************************)

(* Taking away one of several active administrators leaves another: the    *)
(* count UpdateUser makes in its transaction is what it takes.             *)
LEMMA AnotherAdmin ==
    ASSUME NEW u \in ActiveAdmins, Cardinality(ActiveAdmins) > 1
    PROVE  \E v \in ActiveAdmins : v # u
<1> SUFFICES ASSUME \A v \in ActiveAdmins : v = u PROVE FALSE
  OBVIOUS
<1>1. ActiveAdmins = {u}
  OBVIOUS
<1>2. Cardinality({u}) = 1
  BY FS_Singleton
<1> QED
  BY <1>1, <1>2

(* From the first registration on, an active administrator exists.         *)
THEOREM AdminAlwaysExists == Spec => []AdminExists
<1>1. Init => AdminExists
  BY DEF Init, AdminExists
<1>2. TypeOK /\ AdminExists /\ [Next]_vars => AdminExists'
  <2> SUFFICES ASSUME TypeOK, AdminExists, [Next]_vars PROVE AdminExists'
    OBVIOUS
  <2>1. CASE UNCHANGED <<registered, active, role>>
    BY <2>1 DEF AdminExists, ActiveAdmins
  <2>2. ASSUME NEW u \in Users, NEW p, NEW s, InsertStep(u, p, s)
        PROVE  AdminExists'
    <3>1. CASE registered = {}
      <4>1. u \in active' /\ role'[u] = "admin"
        BY <2>2, <3>1 DEF InsertStep, InsertUser, NewUserRole, TypeOK
      <4> QED
        BY <4>1 DEF AdminExists, ActiveAdmins
    <3>2. CASE registered # {}
      <4>1. PICK v \in ActiveAdmins : TRUE
        BY <3>2 DEF AdminExists
      <4>2. v # u /\ v \in active' /\ role'[v] = "admin"
        BY <2>2, <4>1 DEF InsertStep, InsertUser, ActiveAdmins, TypeOK
      <4> QED
        BY <4>2 DEF AdminExists, ActiveAdmins
    <3> QED
      BY <3>1, <3>2
  <2>3. ASSUME NEW u \in Users, NEW r \in Roles, NEW a \in BOOLEAN, UpdateUser(u, r, a)
        PROVE  AdminExists'
    <3>1. PICK v \in ActiveAdmins : TRUE
      BY <2>3 DEF UpdateUser, UserExists, AdminExists
    <3>2. ASSUME NEW w \in ActiveAdmins, w # u
          PROVE  w \in ActiveAdmins'
      BY <2>3, <3>2 DEF UpdateUser, ActiveAdmins, TypeOK
    <3>3. CASE v # u
      BY <3>2, <3>3 DEF AdminExists
    <3>4. CASE v = u /\ a /\ r = "admin"
      <4>1. u \in ActiveAdmins'
        BY <2>3, <3>4 DEF UpdateUser, ActiveAdmins, TypeOK
      <4> QED
        BY <4>1 DEF AdminExists
    <3>5. CASE v = u /\ ~(a /\ r = "admin")
      <4>1. Cardinality(ActiveAdmins) > 1
        BY <2>3, <3>5 DEF UpdateUser, NotLastAdmin
      <4>2. PICK w \in ActiveAdmins : w # u
        BY <4>1, <3>5, AnotherAdmin
      <4> QED
        BY <4>2, <3>2 DEF AdminExists
    <3> QED
      BY <3>3, <3>4, <3>5
  <2> QED
    BY StepEffect, <2>1, <2>2, <2>3
       DEF QuietStep, LinkStep, NewSession, CreateAPIToken, SetPassword, accountVars
<1> QED
  BY <1>1, <1>2, TypeCorrect, PTL DEF Spec

(***************************************************************************)
(* Sessions and tokens of disabled accounts                                *)
(***************************************************************************)

(* No session or token outlives the activity of its account.               *)
THEOREM InactiveNeverHolds == Spec => []InactiveHoldsNothing
<1>1. Init => InactiveHoldsNothing
  BY DEF Init, InactiveHoldsNothing
<1>2. TypeOK /\ InactiveHoldsNothing /\ [Next]_vars => InactiveHoldsNothing'
  <2> SUFFICES ASSUME TypeOK, InactiveHoldsNothing, [Next]_vars PROVE InactiveHoldsNothing'
    OBVIOUS
  <2>1. CASE QuietStep
    BY <2>1 DEF QuietStep, InactiveHoldsNothing
  <2>2. ASSUME NEW u \in Users, NEW p, NEW s, InsertStep(u, p, s)
        PROVE  InactiveHoldsNothing'
    BY <2>2 DEF InsertStep, InsertUser, InactiveHoldsNothing, secretVars
  <2>3. ASSUME NEW u \in Users, NEW s, LinkStep(u, s)
        PROVE  InactiveHoldsNothing'
    BY <2>3 DEF LinkStep, InactiveHoldsNothing, secretVars
  <2>4. ASSUME NEW h \in Handlers, NewSession(h)
        PROVE  InactiveHoldsNothing'
    <3>1. \A s \in sessions' : s \in sessions \/ s = SessionOf(req[h].user)
      BY <2>4 DEF NewSession, Newest, Unexpired
    <3>2. SessionOf(req[h].user).user \in active
      BY <2>4 DEF SessionOf, NewSession, MayHoldSecret
    <3> QED
      BY <2>4, <3>1, <3>2 DEF NewSession, InactiveHoldsNothing, accountVars
  <2>5. ASSUME NEW h \in Handlers, NEW n \in Names, CreateAPIToken(h, n)
        PROVE  InactiveHoldsNothing'
    BY <2>5 DEF CreateAPIToken, MayHoldSecret, InactiveHoldsNothing, accountVars
  <2>6. ASSUME NEW u \in Users, NEW r \in Roles, NEW a \in BOOLEAN, UpdateUser(u, r, a)
        PROVE  InactiveHoldsNothing'
    BY <2>6 DEF UpdateUser, SessionsWithout, TokensWithout, InactiveHoldsNothing
  <2>7. ASSUME NEW h \in Handlers, NEW u \in Users, NEW p, SetPassword(h, u, p)
        PROVE  InactiveHoldsNothing'
    BY <2>7 DEF SetPassword, SessionsWithout, TokensWithout, InactiveHoldsNothing
  <2> QED
    BY StepEffect, <2>1, <2>2, <2>3, <2>4, <2>5, <2>6, <2>7
<1> QED
  BY <1>1, <1>2, TypeCorrect, PTL DEF Spec

(***************************************************************************)
(* API tokens                                                              *)
(***************************************************************************)

(* Names alone are unique because CreateAPIToken looks first; that raw     *)
(* values are needs the secrets already in use to be old ones.             *)
SecretsIssued == \A t \in tokens : t.secret <= issued

TokenInv == SecretsIssued /\ TokenNamesUnique

(* A user never has two tokens of one name, nor a secret two rows.         *)
THEOREM TokensAlwaysUnique == Spec => []TokenNamesUnique
<1>1. Init => TokenInv
  BY DEF Init, TokenInv, SecretsIssued, TokenNamesUnique
<1>2. TypeOK /\ TokenInv /\ [Next]_vars => TokenInv'
  <2> SUFFICES ASSUME TypeOK, TokenInv, [Next]_vars PROVE TokenInv'
    OBVIOUS
  <2> USE DEF TokenInv, SecretsIssued, TokenNamesUnique
  <2>1. CASE tokens' \subseteq tokens /\ issued' = issued
    BY <2>1
  <2>2. ASSUME NEW h \in Handlers, NewSession(h)
        PROVE  TokenInv'
    <3>1. tokens' = tokens /\ issued' = issued + 1
      BY <2>2 DEF NewSession
    <3>2. \A t \in tokens : t.secret \in Nat
      BY DEF TypeOK, APIToken
    <3> QED
      BY <3>1, <3>2 DEF TypeOK
  <2>3. ASSUME NEW h \in Handlers, NEW n \in Names, CreateAPIToken(h, n)
        PROVE  TokenInv'
    <3> DEFINE new == [secret |-> issued + 1, user |-> req[h].user, name |-> n]
    <3>1. tokens' = tokens \cup {new} /\ issued' = issued + 1
      BY <2>3 DEF CreateAPIToken
    <3>2. \A t \in tokens : /\ t.secret \in Nat
                             /\ t.secret <= issued
                             /\ ~(t.user = new.user /\ t.name = new.name)
      BY <2>3 DEF CreateAPIToken, NameFree, TypeOK, APIToken
    <3>3. new.secret = issued + 1
      OBVIOUS
    <3> HIDE DEF new
    <3>4. SecretsIssued'
      BY <3>1, <3>2, <3>3 DEF TypeOK
    <3>5. \A t \in tokens : t.secret # new.secret
      BY <3>2, <3>3 DEF TypeOK
    <3>6. TokenNamesUnique'
      BY <3>1, <3>2, <3>5
    <3> QED
      BY <3>4, <3>6
  <2> QED
    BY StepEffect, <2>1, <2>2, <2>3
       DEF QuietStep, InsertStep, LinkStep, UpdateUser, SetPassword, TokensWithout, secretVars
<1> QED
  BY <1>1, <1>2, TypeCorrect, PTL DEF Spec, TokenInv

(***************************************************************************)
(* Google subjects                                                         *)
(***************************************************************************)

(* A row not yet inserted has no subject. *)
UnregisteredUnlinked == \A u \in Users \ registered : google[u] = None

SubjectInv == UnregisteredUnlinked /\ SubjectsUnique

(* Only a subject that no account has is linked, and only to an account *)
(* that has none.                                                       *)
LEMMA SubjectInductive ==
    TypeOK /\ SubjectInv /\ [Next]_vars =>
        /\ SubjectInv'
        /\ \A u \in Users : google[u] # None => google'[u] = google[u]
<1> SUFFICES ASSUME TypeOK, SubjectInv, [Next]_vars
             PROVE  /\ SubjectInv'
                    /\ \A u \in Users : google[u] # None => google'[u] = google[u]
  OBVIOUS
<1> USE DEF SubjectInv, UnregisteredUnlinked, SubjectsUnique
<1>1. CASE UNCHANGED <<registered, google>>
  BY <1>1
<1>2. ASSUME NEW u \in Users, NEW p, NEW s \in Subjects \cup {None}, InsertStep(u, p, s)
      PROVE  /\ SubjectInv'
             /\ \A x \in Users : google[x] # None => google'[x] = google[x]
  BY <1>2 DEF InsertStep, InsertUser, NewSubject, TypeOK
<1>3. ASSUME NEW u \in Users, NEW s \in Subjects, LinkStep(u, s)
      PROVE  /\ SubjectInv'
             /\ \A x \in Users : google[x] # None => google'[x] = google[x]
  BY <1>3 DEF LinkStep, Unlinked, NewSubject, TypeOK
<1> QED
  BY StepEffect, <1>1, <1>2, <1>3
     DEF QuietStep, NewSession, CreateAPIToken, UpdateUser, SetPassword, accountVars

(* A Google subject identifies at most one account.                        *)
THEOREM SubjectsAlwaysUnique == Spec => []SubjectsUnique
<1>1. Init => SubjectInv
  BY DEF Init, SubjectInv, UnregisteredUnlinked, SubjectsUnique
<1> QED
  BY <1>1, SubjectInductive, TypeCorrect, PTL DEF Spec, SubjectInv

(* The link between an account and its subject is permanent.               *)
THEOREM SubjectLinkPermanent == Spec => SubjectNeverRelinked
<1>1. Init => SubjectInv
  BY DEF Init, SubjectInv, UnregisteredUnlinked, SubjectsUnique
<1>2. TypeOK /\ SubjectInv /\ [Next]_vars =>
        [\A u \in Users : google[u] # None => google'[u] = google[u]]_vars
  BY SubjectInductive
<1>3. TypeOK /\ SubjectInv /\ [Next]_vars => SubjectInv'
  BY SubjectInductive
<1> QED
  BY <1>1, <1>2, <1>3, TypeCorrect, PTL DEF Spec, SubjectNeverRelinked

(***************************************************************************)
(* The cap on sessions                                                     *)
(***************************************************************************)

CapInv == IsFiniteSet(sessions) /\ SessionsCapped

(* Dropping rows keeps the tables within the cap. *)
LEMMA FewerSessions ==
    ASSUME CapInv, sessions' \subseteq sessions
    PROVE  CapInv'
<1>1. IsFiniteSet(sessions')
  BY FS_Subset DEF CapInv
<1>2. ASSUME NEW u \in Users
      PROVE  Cardinality({s \in sessions' : s.user = u}) <= SessionCap
  <2> DEFINE old == {s \in sessions : s.user = u}
             new == {s \in sessions' : s.user = u}
  <2>1. IsFiniteSet(old) /\ new \subseteq old
    BY FS_Subset DEF CapInv
  <2>2. Cardinality(old) <= SessionCap
    BY DEF CapInv, SessionsCapped
  <2>3. Cardinality(new) <= Cardinality(old) /\ IsFiniteSet(new)
    BY <2>1, FS_Subset
  <2>4. Cardinality(new) \in Nat /\ Cardinality(old) \in Nat
    BY <2>1, <2>3, FS_CardinalityType
  <2> HIDE DEF old, new
  <2>5. Cardinality(new) <= SessionCap
    BY <2>2, <2>3, <2>4, AccountsAssumption
  <2> QED
    BY <2>5 DEF new
<1> QED
  BY <1>1, <1>2 DEF CapInv, SessionsCapped

(* The table is finite and within the cap, whatever sign-ins overlap.      *)
THEOREM CapInvariant == Spec => []CapInv
<1>1. Init => CapInv
  <2> SUFFICES ASSUME Init PROVE CapInv
    OBVIOUS
  <2>1. \A u \in Users : {s \in sessions : s.user = u} = {}
    BY DEF Init
  <2> QED
    BY <2>1, FS_EmptySet, AccountsAssumption DEF Init, CapInv, SessionsCapped
<1>2. TypeOK /\ CapInv /\ [Next]_vars => CapInv'
  <2> SUFFICES ASSUME TypeOK, CapInv, [Next]_vars PROVE CapInv'
    OBVIOUS
  <2>1. ASSUME NEW h \in Handlers, NewSession(h)
        PROVE  CapInv'
    <3> DEFINE u == req[h].user
               new == SessionOf(u)
               mine == {s \in Unexpired : s.user = u} \cup {new}
               others == {s \in Unexpired : s.user # u}
    <3>0. new.user = u
      BY DEF SessionOf
    <3>1. PICK kept \in Newest(mine) : sessions' = others \cup kept
      BY <2>1 DEF NewSession
    <3>2. IsFiniteSet({s \in Unexpired : s.user = u}) /\ IsFiniteSet(others)
      BY FS_Subset DEF CapInv, Unexpired
    <3>3. IsFiniteSet(mine)
      BY <3>2, FS_AddElement
    <3>4. kept \subseteq mine /\ IsFiniteSet(kept)
      BY <3>1, <3>3, FS_Subset DEF Newest
    <3>5. IsFiniteSet(sessions')
      BY <3>1, <3>2, <3>4, FS_Union
    <3>6. Cardinality(mine) \in Nat
      BY <3>3, FS_CardinalityType
    <3>7. Cardinality(kept) <= SessionCap
      BY <3>1, <3>6, AccountsAssumption DEF Newest
    <3>8. \A s \in kept : s.user = u
      BY <3>4, <3>0
    <3>9. {s \in sessions' : s.user = u} = kept
      BY <3>1, <3>8
    <3>10. ASSUME NEW v \in Users, v # u
           PROVE  Cardinality({s \in sessions' : s.user = v}) <= SessionCap
      <4> DEFINE old == {s \in sessions : s.user = v}
                 nxt == {s \in sessions' : s.user = v}
      <4>1. nxt \subseteq old
        BY <3>1, <3>8, <3>10 DEF Unexpired
      <4>2. IsFiniteSet(old)
        BY FS_Subset DEF CapInv
      <4>3. IsFiniteSet(nxt) /\ Cardinality(nxt) <= Cardinality(old)
        BY <4>1, <4>2, FS_Subset
      <4>4. Cardinality(nxt) \in Nat /\ Cardinality(old) \in Nat
        BY <4>2, <4>3, FS_CardinalityType
      <4>5. Cardinality(old) <= SessionCap
        BY DEF CapInv, SessionsCapped
      <4> HIDE DEF old, nxt
      <4>6. Cardinality(nxt) <= SessionCap
        BY <4>3, <4>4, <4>5, AccountsAssumption
      <4> QED
        BY <4>6 DEF nxt
    <3>11. \A v \in Users : Cardinality({s \in sessions' : s.user = v}) <= SessionCap
      BY <3>7, <3>9, <3>10
    <3> QED
      BY <3>5, <3>11 DEF CapInv, SessionsCapped
  <2>2. CASE sessions' \subseteq sessions
    BY <2>2, FewerSessions
  <2> QED
    BY StepEffect, <2>1, <2>2
       DEF QuietStep, InsertStep, LinkStep, CreateAPIToken, UpdateUser, SetPassword,
           SessionsWithout, secretVars
<1> QED
  BY <1>1, <1>2, TypeCorrect, PTL DEF Spec

(* No user ever has more than SessionCap sessions.                         *)
THEOREM SessionsAlwaysCapped == Spec => []SessionsCapped
BY CapInvariant, PTL DEF CapInv

(***************************************************************************)
(* What the trim may drop                                                  *)
(***************************************************************************)

(* No session is from the future: created_at is the clock of its insertion, *)
(* and the clock does not go back.                                          *)
NoneFromTheFuture == \A s \in sessions : s.created <= now

(* Requests leave the clock alone, and Tick moves it on. *)
LEMMA ClockRuns == ASSUME TypeOK, [Next]_vars PROVE now' \in Nat /\ now <= now'
<1>1. CASE Tick
  BY <1>1 DEF Tick, TypeOK
<1>2. CASE now' = now
  BY <1>2 DEF TypeOK
<1>3. ASSUME NEW h \in Handlers, SignIn(h)
      PROVE  now' = now
  BY <1>3 DEF SignIn, RegisterEmail, AuthenticateEmail, GoogleKnownSubject, GoogleLink,
              GoogleRegister
<1>4. ASSUME NEW h \in Handlers, Credentials(h)
      PROVE  now' = now
  BY <1>4 DEF Credentials, NewSession, CreateAPIToken, RevokeAPIToken, TokenBegin,
              RevokeCurrentAPIToken
<1>5. ASSUME NEW h \in Handlers, Administer(h) \/ Fail(h)
      PROVE  now' = now
  BY <1>5 DEF Administer, AdminBegin, AdminUserUpdate, APIUserUpdate, APIUserUpdateWrite,
              UpdateUser, SetPassword, AdminSettings, APISettingsUpdate,
              APISettingsUpdateWrite, Fail
<1>6. ASSUME NEW s \in sessions, DeleteSession(s)
      PROVE  now' = now
  BY <1>6 DEF DeleteSession
<1> QED
  BY <1>1, <1>2, <1>3, <1>4, <1>5, <1>6 DEF Next, vars

(* A session is inserted with the time of the clock. *)
LEMMA FutureInductive == TypeOK /\ NoneFromTheFuture /\ [Next]_vars => NoneFromTheFuture'
<1> SUFFICES ASSUME TypeOK, NoneFromTheFuture, [Next]_vars PROVE NoneFromTheFuture'
  OBVIOUS
<1>1. now \in Nat /\ now' \in Nat /\ now <= now'
  BY ClockRuns DEF TypeOK
<1>2. \A s \in sessions : s.created \in Nat
  BY DEF TypeOK, Session
<1>3. CASE sessions' \subseteq sessions
  BY <1>1, <1>2, <1>3 DEF NoneFromTheFuture
<1>4. ASSUME NEW h \in Handlers, NewSession(h)
      PROVE  NoneFromTheFuture'
  <2>1. sessions' \subseteq sessions \cup {SessionOf(req[h].user)}
    BY <1>4 DEF NewSession, Newest, Unexpired
  <2>2. SessionOf(req[h].user).created = now
    BY DEF SessionOf
  <2> QED
    BY <1>1, <1>2, <2>1, <2>2 DEF NoneFromTheFuture
<1> QED
  BY StepEffect, <1>3, <1>4
     DEF QuietStep, InsertStep, LinkStep, CreateAPIToken, UpdateUser, SetPassword,
         SessionsWithout, secretVars

(* The trim orders by a time in whole seconds and so may cut among equals,  *)
(* but the session just made is dropped only for SessionCap others of its   *)
(* user made in the same second: none is newer, and fewer are all kept.     *)
LEMMA TrimKeepsTheLogin ==
    ASSUME CapInv, TypeOK, NoneFromTheFuture, NEW h \in Handlers, NewSession(h),
           SessionOf(req[h].user) \notin sessions'
    PROVE  Cardinality({s \in sessions : s.user = req[h].user /\ s.created = now})
               >= SessionCap
<1> DEFINE u == req[h].user
           new == SessionOf(u)
           mine == {s \in Unexpired : s.user = u} \cup {new}
           peers == {s \in sessions : s.user = u /\ s.created = now}
<1>1. PICK kept \in Newest(mine) :
        sessions' = {s \in Unexpired : s.user # u} \cup kept
  BY DEF NewSession
<1>2. new.created = now /\ new \in mine /\ new \notin kept
  BY <1>1 DEF SessionOf
<1>3. \A s \in kept : s \in sessions /\ s.user = u
  BY <1>1, <1>2 DEF Newest, Unexpired
<1>4. \A s \in kept : s.created >= now
  BY <1>1, <1>2 DEF Newest
<1>5. \A s \in kept : s.created \in Nat /\ s.created <= now /\ now \in Nat
  BY <1>3 DEF NoneFromTheFuture, TypeOK, Session
<1>6. kept \subseteq peers
  BY <1>3, <1>4, <1>5
<1>7. IsFiniteSet({s \in Unexpired : s.user = u}) /\ IsFiniteSet(peers)
  BY FS_Subset DEF CapInv, Unexpired
<1>8. IsFiniteSet(mine)
  BY <1>7, FS_AddElement
<1>9. Cardinality(kept) <= Cardinality(peers) /\ IsFiniteSet(kept)
  BY <1>6, <1>7, FS_Subset
<1>10. Cardinality(kept) # Cardinality(mine)
  BY <1>1, <1>2, <1>8, FS_Subset DEF Newest
<1>11. Cardinality(kept) = SessionCap
  BY <1>1, <1>10 DEF Newest
<1>12. Cardinality(kept) \in Nat /\ Cardinality(peers) \in Nat
  BY <1>7, <1>9, FS_CardinalityType
<1> HIDE DEF peers
<1>13. Cardinality(peers) >= SessionCap
  BY <1>9, <1>11, <1>12, AccountsAssumption
<1> QED
  BY <1>13 DEF peers

(* A session just handed out works.                                        *)
THEOREM LoginAlwaysSurvives == Spec => LoginSurvivesTrim
<1> DEFINE Survives ==
        \A h \in Handlers :
          NewSession(h) =>
            \/ SessionOf(req[h].user) \in sessions'
            \/ Cardinality({s \in sessions : s.user = req[h].user /\ s.created = now})
                  >= SessionCap
<1>1. Init => NoneFromTheFuture
  BY DEF Init, NoneFromTheFuture
<1>2. TypeOK /\ CapInv /\ NoneFromTheFuture /\ [Next]_vars => [Survives]_vars
  BY TrimKeepsTheLogin
<1> QED
  BY <1>1, <1>2, FutureInductive, TypeCorrect, CapInvariant, PTL
     DEF Spec, LoginSurvivesTrim

(***************************************************************************)
(* The promise of module Authority                                         *)
(***************************************************************************)

(* The rows of the two tables, as grants. *)
Granted == {<<s.secret, s.user>> : s \in sessions} \cup {<<t.secret, t.user>> : t \in tokens}

(* Deleting rows withdraws grants. *)
LEMMA FewerGrants ==
    ASSUME sessions' \subseteq sessions, tokens' \subseteq tokens
    PROVE  Granted' \subseteq Granted
BY DEF Granted

(* An insertion makes one grant at most (the trim may cut it), with the     *)
(* number drawn for it.                                                     *)
LEMMA NewSessionGrants ==
    ASSUME TypeOK, NEW h \in Handlers, NEW u \in Users, u = req[h].user, NewSession(h)
    PROVE  Promise!Grant(u)
<1> DEFINE new == SessionOf(u)
<1>1. sessions' \subseteq sessions \cup {new}
  BY DEF NewSession, Newest, Unexpired
<1>2. <<new.secret, new.user>> = <<issued', u>>
  BY DEF SessionOf, NewSession
<1>3. tokens' = tokens
  BY DEF NewSession
<1> HIDE DEF new
<1>4. Granted' \subseteq Granted \cup {<<issued', u>>}
  BY <1>1, <1>2, <1>3 DEF Granted
<1>5. u \in active /\ issued' = issued + 1 /\ active' = active /\ ActiveAdmins' = ActiveAdmins
  BY DEF NewSession, MayHoldSecret, accountVars, ActiveAdmins
<1> QED
  BY <1>4, <1>5 DEF Promise!Grant, Granted

(* So does a new API token. *)
LEMMA CreateAPITokenGrants ==
    ASSUME TypeOK, NEW h \in Handlers, NEW u \in Users, u = req[h].user,
           NEW n \in Names, CreateAPIToken(h, n)
    PROVE  Promise!Grant(u)
<1> DEFINE new == [secret |-> issued + 1, user |-> u, name |-> n]
<1>1. tokens' = tokens \cup {new} /\ sessions' = sessions
  BY DEF CreateAPIToken
<1>2. <<new.secret, new.user>> = <<issued', u>>
  BY DEF CreateAPIToken
<1> HIDE DEF new
<1>3. Granted' \subseteq Granted \cup {<<issued', u>>}
  BY <1>1, <1>2 DEF Granted
<1>4. u \in active /\ issued' = issued + 1 /\ active' = active /\ ActiveAdmins' = ActiveAdmins
  BY DEF CreateAPIToken, MayHoldSecret, accountVars, ActiveAdmins
<1> QED
  BY <1>3, <1>4 DEF Promise!Grant, Granted

(* Registering is a change of an account, whose first makes an administrator. *)
LEMMA InsertSetsAccount ==
    ASSUME TypeOK, AdminExists', NEW u \in Users, NEW p, NEW s, InsertStep(u, p, s),
           NEW adm \in BOOLEAN, adm = (role'[u] = "admin")
    PROVE  Promise!SetAccount(u, TRUE, adm)
<1>1. /\ active' = active \cup {u} /\ u \in registered' /\ u \notin active
      /\ \A v \in Users : v # u => role'[v] = role[v]
      /\ role'[u] = NewUserRole
  BY DEF InsertStep, InsertUser, TypeOK
<1>2. ActiveAdmins' = IF role'[u] = "admin" THEN ActiveAdmins \cup {u} ELSE ActiveAdmins \ {u}
  BY <1>1 DEF ActiveAdmins, TypeOK
<1>3. ActiveAdmins' # {}
  BY <1>1 DEF AdminExists
<1>4. Granted' = Granted /\ issued' = issued
  BY DEF InsertStep, secretVars, Granted
<1> QED
  BY <1>1, <1>2, <1>3, <1>4 DEF Promise!SetAccount, Granted

(* UpdateUser deletes the rows of a disabled account in its transaction. *)
LEMMA UpdateSetsAccount ==
    ASSUME TypeOK, AdminExists', NEW u \in Users, NEW r \in Roles, NEW a \in BOOLEAN,
           UpdateUser(u, r, a), NEW adm \in BOOLEAN, adm = (r = "admin")
    PROVE  Promise!SetAccount(u, a, adm)
<1>1. /\ active' = IF a THEN active \cup {u} ELSE active \ {u}
      /\ \A v \in Users : role'[v] = IF v = u THEN r ELSE role[v]
      /\ u \in registered' /\ issued' = issued
  BY DEF UpdateUser, UserExists, TypeOK
<1>2. ActiveAdmins' = IF a /\ r = "admin" THEN ActiveAdmins \cup {u} ELSE ActiveAdmins \ {u}
  BY <1>1 DEF ActiveAdmins, TypeOK
<1>3. ActiveAdmins' # {}
  BY <1>1 DEF AdminExists
<1>4. Granted' = IF a THEN Granted ELSE {g \in Granted : g[2] # u}
  <2>1. CASE a
    BY <2>1 DEF UpdateUser, Granted
  <2>2. CASE ~a
    <3>1. sessions' = SessionsWithout(u) /\ tokens' = TokensWithout(u)
      BY <2>2 DEF UpdateUser
    <3> QED
      BY <2>2, <3>1 DEF Granted, SessionsWithout, TokensWithout
  <2> QED
    BY <2>1, <2>2
<1> QED
  BY <1>1, <1>2, <1>3, <1>4 DEF Promise!SetAccount, Granted

(* Every effect of StepEffect is a step of Authority, or of none of its     *)
(* variables.                                                               *)
LEMMA StepImplementsAuthority ==
    TypeOK /\ AdminExists' /\ [Next]_vars => [Promise!Next]_(Promise!vars)
<1> SUFFICES ASSUME TypeOK, AdminExists', [Next]_vars
             PROVE  [Promise!Next]_(Promise!vars)
  OBVIOUS
<1>1. CASE QuietStep
  <2>1. Granted' \subseteq Granted
    BY <1>1, FewerGrants DEF QuietStep
  <2>2. Promise!Withdraw
    BY <1>1, <2>1 DEF QuietStep, Promise!Withdraw, Granted, ActiveAdmins
  <2> QED
    BY <2>2 DEF Promise!Next
<1>2. ASSUME NEW u \in Users, NEW p, NEW s, InsertStep(u, p, s)
      PROVE  Promise!Next
  <2>1. PICK adm \in BOOLEAN : adm = (role'[u] = "admin")
    OBVIOUS
  <2>2. Promise!SetAccount(u, TRUE, adm)
    BY <1>2, <2>1, InsertSetsAccount
  <2> QED
    BY <2>2 DEF Promise!Next
<1>3. ASSUME NEW u \in Users, NEW s, LinkStep(u, s)
      PROVE  UNCHANGED Promise!vars
  BY <1>3 DEF LinkStep, secretVars, ActiveAdmins, Promise!vars
<1>4. ASSUME NEW h \in Handlers, NewSession(h) \/ \E n \in Names : CreateAPIToken(h, n)
      PROVE  Promise!Next
  <2>1. PICK u \in Users : u = req[h].user
    BY <1>4 DEF NewSession, CreateAPIToken, MayHoldSecret, TypeOK
  <2>2. Promise!Grant(u)
    BY <1>4, <2>1, NewSessionGrants, CreateAPITokenGrants
  <2> QED
    BY <2>1, <2>2 DEF Promise!Next
<1>5. ASSUME NEW u \in Users, NEW r \in Roles, NEW a \in BOOLEAN, UpdateUser(u, r, a)
      PROVE  Promise!Next
  <2>1. PICK adm \in BOOLEAN : adm = (r = "admin")
    OBVIOUS
  <2>2. Promise!SetAccount(u, a, adm)
    BY <1>5, <2>1, UpdateSetsAccount
  <2> QED
    BY <2>2 DEF Promise!Next
<1>6. ASSUME NEW h \in Handlers, NEW u \in Users, NEW p, SetPassword(h, u, p)
      PROVE  Promise!Next
  <2>1. Granted' \subseteq Granted
    BY <1>6, FewerGrants DEF SetPassword, SessionsWithout, TokensWithout
  <2>2. Promise!Withdraw
    BY <1>6, <2>1 DEF SetPassword, Promise!Withdraw, Granted, ActiveAdmins
  <2> QED
    BY <2>2 DEF Promise!Next
<1> QED
  BY StepEffect, <1>1, <1>2, <1>3, <1>4, <1>5, <1>6

(* The account store and its handlers implement Authority.                  *)
THEOREM AccountsImplementAuthority == Spec => ImplementsAuthority
<1>1. Init => Promise!Init
  BY DEF Init, Promise!Init, ActiveAdmins
<1> QED
  BY <1>1, StepImplementsAuthority, TypeCorrect, AdminAlwaysExists, PTL
     DEF Spec, ImplementsAuthority, Promise!Spec

(* A secret drawn and withdrawn opens nothing again: no sign-in, request    *)
(* begun before, or administrator brings back a session or a token that was *)
(* signed out, revoked, trimmed or ended with its account's access.         *)
WithdrawnForGood ==
    [][\A u \in Users, k \in 1 .. issued : <<k, u>> \notin Granted => <<k, u>> \notin Granted']_vars

(* What is withdrawn stays withdrawn, as Authority grants new secrets only. *)
THEOREM SecretsWithdrawnForGood == Spec => WithdrawnForGood
<1> DEFINE Stays ==
        \A u \in Users, k \in 1 .. issued : <<k, u>> \notin Granted => <<k, u>> \notin Granted'
<1>1. TypeOK /\ AdminExists' /\ [Next]_vars => [Stays]_vars
  <2> SUFFICES ASSUME TypeOK, [Promise!Next]_(Promise!vars) PROVE Stays
    BY StepImplementsAuthority
  <2>1. CASE Granted' \subseteq Granted
    BY <2>1
  <2>2. ASSUME NEW u \in Users, Promise!Grant(u)
        PROVE  Stays
    <3>1. Granted' \subseteq Granted \cup {<<issued + 1, u>>} /\ issued \in Nat
      BY <2>2 DEF Promise!Grant, Granted, TypeOK
    <3>2. ASSUME NEW v \in Users, NEW k \in 1 .. issued
          PROVE  <<k, v>> # <<issued + 1, u>>
      BY <3>1
    <3> QED
      BY <3>1, <3>2
  <2>3. CASE \/ \E u \in Users, on \in BOOLEAN, adm \in BOOLEAN : Promise!SetAccount(u, on, adm)
             \/ Promise!Withdraw \/ UNCHANGED Promise!vars
    BY <2>1, <2>3 DEF Promise!SetAccount, Promise!Withdraw, Promise!vars, Granted
  <2> QED
    BY <2>2, <2>3 DEF Promise!Next
<1> QED
  BY <1>1, TypeCorrect, AdminAlwaysExists, PTL DEF Spec, WithdrawnForGood
=============================================================================
