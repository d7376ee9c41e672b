------------------------------ MODULE Accounts ------------------------------
(***************************************************************************)
(* The account store (auth/sqlite.go) and the HTTP handlers that drive it  *)
(* (server/auth.go, google.go, api_auth.go, admin.go, api_admin.go).       *)
(*                                                                         *)
(* The store opens one connection (MaxOpenConns(1)), so each transaction,  *)
(* and each statement outside one, is a single step.  A handler makes      *)
(* several store calls: it is a process of Handlers that keeps, in         *)
(* req[h], the call it makes next and what it has read so far.  Between    *)
(* two calls of one handler any step of the others may happen.             *)
(*                                                                         *)
(* An account is identified by its e-mail address up to case: the address  *)
(* never changes, and the random user id is in bijection with it.  Names,  *)
(* profile fields, last_login_at, last_ip and the settings other than      *)
(* registration_open are left out: no account decision depends on them.    *)
(* Both callers of CreateAPIToken pass no expiry, so API tokens have none. *)
(***************************************************************************)
EXTENDS Naturals, FiniteSets

CONSTANTS
    Users,            \* e-mail addresses (auth.User)
    Passwords,        \* passwords of at least 10 characters
    Subjects,         \* Google account subjects
    Names,            \* API token names
    MaxSecrets,       \* bound on the sessions and tokens ever issued
    Handlers,         \* concurrent HTTP requests
    SessionCap,       \* newest sessions kept per user (20 in the code)
    SessionDuration,  \* sessionDuration, in clock ticks
    MaxTime,          \* bound on the clock
    None              \* an absent password, subject, user or name

ASSUME AccountsAssumption ==
    /\ None \notin Users \cup Passwords \cup Subjects \cup Names
    /\ SessionCap \in Nat \ {0}
    /\ SessionDuration \in Nat \ {0}
    /\ MaxTime \in Nat
    /\ MaxSecrets \in Nat

VARIABLES
    registered,  \* users with a row in the users table
    active,      \* users.active = 1
    role,        \* users.role
    password,    \* users.password_hash ('' is None)
    google,      \* users.google_subject (NULL is None)
    registrationOpen,  \* settings.registration_open
    sessions,    \* the sessions table
    tokens,      \* the api_tokens table
    issued,      \* number of secrets drawn with randomToken
    now,         \* the clock, in seconds as stored
    req          \* the request each handler is serving

accountVars == <<registered, active, role, password, google>>
secretVars == <<sessions, tokens, issued>>
vars == <<accountVars, registrationOpen, secretVars, now, req>>

(***************************************************************************)
(* Types                                                                   *)
(***************************************************************************)
Roles == {"reader", "manager", "admin"}

(* randomToken does not repeat itself: secrets are numbered as issued. *)
Session == [secret : Nat, user : Users, created : Nat, expires : Nat]
APIToken == [secret : Nat, user : Users, name : Names]

(* The store call a handler makes next, or the route group it has been      *)
(* admitted to: /api/v1/token(s), /admin/..., /api/v1/users and settings.   *)
Calls == {"idle", "NewSession", "CreateAPIToken", "UpdateUser", "UpdateSettings",
          "TokenAPI", "AdminPages", "AdminAPI"}

(* The fields a request carries from one of its store calls to the next.    *)
(* Routes, forms and JSON input are chosen at the step that first uses them. *)
Request == [call : Calls, user : Users \cup {None}, secret : Nat,
            role : Roles, active : BOOLEAN, open : BOOLEAN]

MakeRequest(c, u, k, r, a, open) ==
    [call |-> c, user |-> u, secret |-> k, role |-> r, active |-> a, open |-> open]

Calling(c, u) == MakeRequest(c, u, 0, "reader", FALSE, FALSE)

Idle == Calling("idle", None)

(* Every table and request record keeps its type; only registered users are *)
(* active.                                                                  *)
TypeOK ==
    /\ registered \subseteq Users
    /\ active \subseteq registered
    /\ role \in [Users -> Roles]
    /\ password \in [Users -> Passwords \cup {None}]
    /\ google \in [Users -> Subjects \cup {None}]
    /\ registrationOpen \in BOOLEAN
    /\ sessions \subseteq Session
    /\ tokens \subseteq APIToken
    /\ issued \in Nat
    /\ now \in Nat
    /\ req \in [Handlers -> Request]

(* A new database: migrateV1 opens registration. *)
Init ==
    /\ registered = {}
    /\ active = {}
    /\ role = [u \in Users |-> "reader"]
    /\ password = [u \in Users |-> None]
    /\ google = [u \in Users |-> None]
    /\ registrationOpen = TRUE
    /\ sessions = {}
    /\ tokens = {}
    /\ issued = 0
    /\ now = 0
    /\ req = [h \in Handlers |-> Idle]

(***************************************************************************)
(* Operators named X_Something, just before X, are X with a plausible bug: *)
(* substituted for X they must break a property, which shows that the      *)
(* property depends on what X models.                                      *)
(***************************************************************************)

(***************************************************************************)
(* Roles and authentication of requests                                    *)
(***************************************************************************)
roleRank(r) == CASE r = "admin" -> 3 [] r = "manager" -> 2 [] r = "reader" -> 1

Allows(r, required) == roleRank(r) >= roleRank(required)

ActiveAdmins == {u \in active : role[u] = "admin"}

(* UserForSession behind requireRole: a session cookie admits its user. *)
SessionAdmits(s, required) ==
    /\ s.expires > now
    /\ s.user \in active
    /\ Allows(role[s.user], required)

(* UserForAPIToken behind requireAPIRole. *)
TokenAdmits(t, required) ==
    /\ t.user \in active
    /\ Allows(role[t.user], required)

AdminSession == \E s \in sessions : SessionAdmits(s, "admin")

AdminToken == \E t \in tokens : TokenAdmits(t, "admin")

Begin(h, r) ==
    /\ req[h].call = "idle"
    /\ req' = [req EXCEPT ![h] = r]

Finish(h) == req' = [req EXCEPT ![h] = Idle]

(***************************************************************************)
(* Signing in and registering                                              *)
(***************************************************************************)

(* The web login goes on to a session, the API login to a token. *)
SignInCalls == {"NewSession", "CreateAPIToken"}

(* handleLogin and handleAPILogin up to AuthenticateEmail: the failures     *)
(* change no account state (the attempt limiter is a component of its own). *)
AuthenticateEmail(h, u, p, c) ==
    /\ u \in registered
    /\ password[u] = p
    /\ u \in active
    /\ Begin(h, Calling(c, u))
    /\ UNCHANGED <<accountVars, registrationOpen, secretVars, now>>

(* CanRegister, checked again inside both registering transactions. *)
MayRegister == registered = {} \/ registrationOpen

(* Both transactions count the users they find. *)
NewUserRole == IF registered = {} THEN "admin" ELSE "reader"

(* The rows RegisterEmail and UpsertGoogle insert. *)
InsertUser(u, p, s) ==
    /\ registered' = registered \cup {u}
    /\ active' = active \cup {u}
    /\ role' = [role EXCEPT ![u] = NewUserRole]
    /\ password' = [password EXCEPT ![u] = p]
    /\ google' = [google EXCEPT ![u] = s]

RegisterEmail(h, u, p) ==
    /\ u \notin registered
    /\ MayRegister
    /\ InsertUser(u, p, None)
    /\ Begin(h, Calling("NewSession", u))
    /\ UNCHANGED <<registrationOpen, secretVars, now>>

(* UpsertGoogle, one action per way it succeeds: the subject is known, ...  *)
GoogleKnownSubject(h, s, c) ==
    /\ \E v \in active : google[v] = s /\ Begin(h, Calling(c, v))
    /\ UNCHANGED <<accountVars, registrationOpen, secretVars, now>>

NewSubject_ActiveOnly(s) == \A v \in active : google[v] # s

(* No row of users has the subject. *)
NewSubject(s) == \A v \in registered : google[v] # s

Unlinked_Unchecked(u) == TRUE

(* An account linked to another subject is an identity conflict. *)
Unlinked(u) == google[u] = None

(* ... the address is registered and authoritative: link the subject, ...   *)
GoogleLink(h, u, s, c) ==
    /\ NewSubject(s)
    /\ u \in active
    /\ Unlinked(u)
    /\ google' = [google EXCEPT ![u] = s]
    /\ Begin(h, Calling(c, u))
    /\ UNCHANGED <<registered, active, role, password, registrationOpen, secretVars, now>>

(* ... or neither is known: register without a password.                    *)
GoogleRegister(h, u, s, c) ==
    /\ NewSubject(s)
    /\ u \notin registered
    /\ MayRegister
    /\ InsertUser(u, None, s)
    /\ Begin(h, Calling(c, u))
    /\ UNCHANGED <<registrationOpen, secretVars, now>>

(***************************************************************************)
(* Sessions and API tokens                                                 *)
(***************************************************************************)

Newest_Untrimmed(S) == {S}

Newest_Ascending(S) ==
    {K \in SUBSET S :
        /\ Cardinality(K) = IF Cardinality(S) > SessionCap THEN SessionCap ELSE Cardinality(S)
        /\ \A x \in K, y \in S \ K : x.created <= y.created}

(* The sessions left by ORDER BY created_at DESC LIMIT -1 OFFSET 20: as     *)
(* many as the cap allows, none older than one dropped.  Rows of the same   *)
(* second come in no defined order, so any such choice may be the result.   *)
Newest(S) ==
    {K \in SUBSET S :
        /\ Cardinality(K) = IF Cardinality(S) > SessionCap THEN SessionCap ELSE Cardinality(S)
        /\ \A x \in K, y \in S \ K : x.created >= y.created}

MayHoldSecret_Unchecked(u) == u \in registered

(* NewSession and CreateAPIToken read users.active in their transaction. *)
MayHoldSecret(u) == u \in active

(* DELETE FROM sessions WHERE expires_at <= now *)
Unexpired == {s \in sessions : s.expires > now}

SessionOf(u) == [secret |-> issued + 1, user |-> u, created |-> now,
                 expires |-> now + SessionDuration]

NewSession(h) ==
    LET u == req[h].user IN
    /\ req[h].call = "NewSession"
    /\ MayHoldSecret(u)
    /\ issued < MaxSecrets
    /\ issued' = issued + 1
    /\ \E kept \in Newest({s \in Unexpired : s.user = u} \cup {SessionOf(u)}) :
         sessions' = {s \in Unexpired : s.user # u} \cup kept
    /\ Finish(h)
    /\ UNCHANGED <<accountVars, registrationOpen, tokens, now>>

(* handleLogout: DeleteSession of the cookie, whoever presents it. *)
DeleteSession(s) ==
    /\ s \in sessions
    /\ sessions' = sessions \ {s}
    /\ UNCHANGED <<accountVars, registrationOpen, tokens, issued, now, req>>

NameFree_Unchecked(u, n) == TRUE

(* EXISTS(SELECT 1 FROM api_tokens WHERE user_id = ? AND name = ?) = 0 *)
NameFree(u, n) == \A t \in tokens : ~(t.user = u /\ t.name = n)

CreateAPIToken(h, n) ==
    LET u == req[h].user IN
    /\ req[h].call = "CreateAPIToken"
    /\ MayHoldSecret(u)
    /\ NameFree(u, n)
    /\ issued < MaxSecrets
    /\ issued' = issued + 1
    /\ tokens' = tokens \cup {[secret |-> issued + 1, user |-> u, name |-> n]}
    /\ Finish(h)
    /\ UNCHANGED <<accountVars, registrationOpen, sessions, now>>

(* handleAPIRevokeToken and handleAPIRevokeCurrentToken: requireAPIRole     *)
(* first, the DELETE in a statement of its own.                             *)
TokenBegin(h, t) ==
    /\ t \in tokens
    /\ TokenAdmits(t, "reader")
    /\ Begin(h, MakeRequest("TokenAPI", t.user, t.secret, "reader", FALSE, FALSE))
    /\ UNCHANGED <<accountVars, registrationOpen, secretVars, now>>

RevokeAPIToken(h, n) ==
    /\ req[h].call = "TokenAPI"
    /\ tokens' = {t \in tokens : ~(t.user = req[h].user /\ t.name = n)}
    /\ Finish(h)
    /\ UNCHANGED <<accountVars, registrationOpen, sessions, issued, now>>

RevokeCurrentAPIToken(h) ==
    /\ req[h].call = "TokenAPI"
    /\ tokens' = {t \in tokens : t.secret # req[h].secret}
    /\ Finish(h)
    /\ UNCHANGED <<accountVars, registrationOpen, sessions, issued, now>>

(***************************************************************************)
(* Administration of users and settings                                    *)
(***************************************************************************)

(* requireRole(admin) on a page of the site, requireAPIRole(admin) on the   *)
(* API: whoever is admitted here acts later, even if demoted in between.    *)
AdminBegin(h) ==
    /\ \/ AdminSession /\ Begin(h, Calling("AdminPages", None))
       \/ AdminToken /\ Begin(h, Calling("AdminAPI", None))
    /\ UNCHANGED <<accountVars, registrationOpen, secretVars, now>>

SessionsWithout(u) == {s \in sessions : s.user # u}

TokensWithout_Kept(u) == tokens

TokensWithout(u) == {t \in tokens : t.user # u}

NotLastAdmin_OffByOne(u, r, a) ==
    u \in ActiveAdmins /\ (~a \/ r # "admin") => Cardinality(ActiveAdmins) >= 1

(* The guard of UpdateUser: one of several active administrators may go.    *)
NotLastAdmin(u, r, a) ==
    u \in ActiveAdmins /\ (~a \/ r # "admin") => Cardinality(ActiveAdmins) > 1

(* sql.ErrNoRows, or no row affected: "user not found". *)
UserExists(u) == u \in registered

(* The transaction of UpdateUser. *)
UpdateUser(u, r, a) ==
    /\ UserExists(u)
    /\ NotLastAdmin(u, r, a)
    /\ role' = [role EXCEPT ![u] = r]
    /\ active' = IF a THEN active \cup {u} ELSE active \ {u}
    /\ sessions' = IF a THEN sessions ELSE SessionsWithout(u)
    /\ tokens' = IF a THEN tokens ELSE TokensWithout(u)
    /\ UNCHANGED <<registered, password, google, registrationOpen, issued, now>>

(* The form sends both fields. *)
AdminUserUpdate(h, u, r, a) ==
    /\ req[h].call = "AdminPages"
    /\ UpdateUser(u, r, a)
    /\ Finish(h)

(* PATCH /api/v1/users/:id reads the user outside the transaction and       *)
(* fills in whichever of role and active the request does not name.         *)
APIUserUpdate(h, u, named, r, a) ==
    /\ req[h].call = "AdminAPI"
    /\ UserExists(u)
    /\ named # {}
    /\ req' = [req EXCEPT ![h] = MakeRequest("UpdateUser", u, 0,
                                    IF "role" \in named THEN r ELSE role[u],
                                    IF "active" \in named THEN a ELSE u \in active,
                                    FALSE)]
    /\ UNCHANGED <<accountVars, registrationOpen, secretVars, now>>

APIUserUpdateWrite(h) ==
    /\ req[h].call = "UpdateUser"
    /\ UpdateUser(req[h].user, req[h].role, req[h].active)
    /\ Finish(h)

(* SetPassword: a disabled account may be given a password too. *)
SetPassword(h, u, p) ==
    /\ req[h].call \in {"AdminPages", "AdminAPI"}
    /\ UserExists(u)
    /\ password' = [password EXCEPT ![u] = p]
    /\ sessions' = SessionsWithout(u)
    /\ tokens' = TokensWithout(u)
    /\ Finish(h)
    /\ UNCHANGED <<registered, active, role, google, registrationOpen, issued, now>>

(* UpdateSettings writes the whole row; the form sends every setting. *)
AdminSettings(h, open) ==
    /\ req[h].call = "AdminPages"
    /\ registrationOpen' = open
    /\ Finish(h)
    /\ UNCHANGED <<accountVars, secretVars, now>>

(* PATCH /api/v1/settings reads the row, replaces the settings it names     *)
(* (registration_open among them or not) and writes the row back later.     *)
APISettingsUpdate(h, named, open) ==
    /\ req[h].call = "AdminAPI"
    /\ req' = [req EXCEPT ![h] = MakeRequest("UpdateSettings", None, 0, "reader", FALSE,
                                    IF named THEN open ELSE registrationOpen)]
    /\ UNCHANGED <<accountVars, registrationOpen, secretVars, now>>

APISettingsUpdateWrite(h) ==
    /\ req[h].call = "UpdateSettings"
    /\ registrationOpen' = req[h].open
    /\ Finish(h)
    /\ UNCHANGED <<accountVars, secretVars, now>>

(***************************************************************************)
(* The rest of the environment                                             *)
(***************************************************************************)

(* Every store call can return an error: the checks inside it fail, the     *)
(* database or the random source does.  Its transaction rolls back and the  *)
(* handler answers with the error.  A server restart drops requests alike.  *)
Fail(h) ==
    /\ req[h].call # "idle"
    /\ Finish(h)
    /\ UNCHANGED <<accountVars, registrationOpen, secretVars, now>>

Tick ==
    /\ now < MaxTime
    /\ now' = now + 1
    /\ UNCHANGED <<accountVars, registrationOpen, secretVars, req>>

SignIn(h) ==
    \/ \E u \in Users, p \in Passwords :
         \/ RegisterEmail(h, u, p)
         \/ \E c \in SignInCalls : AuthenticateEmail(h, u, p, c)
    \/ \E s \in Subjects, c \in SignInCalls :
         \/ GoogleKnownSubject(h, s, c)
         \/ \E u \in Users : GoogleLink(h, u, s, c) \/ GoogleRegister(h, u, s, c)

Credentials(h) ==
    \/ NewSession(h)
    \/ \E n \in Names : CreateAPIToken(h, n) \/ RevokeAPIToken(h, n)
    \/ \E t \in tokens : TokenBegin(h, t)
    \/ RevokeCurrentAPIToken(h)

Administer(h) ==
    \/ AdminBegin(h)
    \/ \E u \in Users, r \in Roles, a \in BOOLEAN :
         \/ AdminUserUpdate(h, u, r, a)
         \/ \E named \in SUBSET {"role", "active"} : APIUserUpdate(h, u, named, r, a)
    \/ APIUserUpdateWrite(h)
    \/ \E u \in Users, p \in Passwords : SetPassword(h, u, p)
    \/ \E open \in BOOLEAN :
         \/ AdminSettings(h, open)
         \/ \E named \in BOOLEAN : APISettingsUpdate(h, named, open)
    \/ APISettingsUpdateWrite(h)

Next ==
    \/ \E h \in Handlers : SignIn(h) \/ Credentials(h) \/ Administer(h) \/ Fail(h)
    \/ \E s \in sessions : DeleteSession(s)
    \/ Tick

Spec == Init /\ [][Next]_vars

(***************************************************************************)
(* Properties                                                              *)
(***************************************************************************)

(* The store and its handlers implement the promise of module Authority:    *)
(* whatever sign-ins, revocations and changes by administrators overlap, a  *)
(* secret is granted once, to an enabled account, and withdrawn for good.   *)
Promise == INSTANCE Authority WITH
    enabled <- active,
    admins <- ActiveAdmins,
    granted <- {<<s.secret, s.user>> : s \in sessions} \cup {<<t.secret, t.user>> : t \in tokens},
    drawn <- issued
ImplementsAuthority == Promise!Spec

(* From the first registration on some active account is an administrator, *)
(* whatever demotions, disablings and stale PATCH requests interleave       *)
(* (UpdateUser's last-administrator guard).                                 *)
AdminExists == registered # {} => ActiveAdmins # {}

(* A disabled account holds no session and no API token: UpdateUser deletes *)
(* them, and a sign-in already past its password check cannot add one.      *)
InactiveHoldsNothing ==
    /\ \A s \in sessions : s.user \in active
    /\ \A t \in tokens : t.user \in active

(* Token names are unique per user, so RevokeAPIToken by name revokes the   *)
(* one token the user means; and a raw token belongs to one row.            *)
TokenNamesUnique ==
    \A t, x \in tokens :
        (t.user = x.user /\ t.name = x.name) \/ t.secret = x.secret => t = x

(* A Google subject identifies at most one account. *)
SubjectsUnique ==
    \A u, v \in registered : google[u] = google[v] /\ google[u] # None => u = v

(* No user keeps more than SessionCap sessions, whichever way they signed   *)
(* in and however many sign-ins overlap.                                    *)
SessionsCapped ==
    \A u \in Users : Cardinality({s \in sessions : s.user = u}) <= SessionCap

(* An account linked to a Google subject stays linked to that subject.      *)
SubjectNeverRelinked ==
    [][\A u \in Users : google[u] # None => google'[u] = google[u]]_vars

(* A session just handed out works: the trim of NewSession never drops it,  *)
(* unless SessionCap others of its user were created in the same second.    *)
LoginSurvivesTrim ==
    [][\A h \in Handlers :
         NewSession(h) =>
            \/ SessionOf(req[h].user) \in sessions'
            \/ Cardinality({s \in sessions : s.user = req[h].user /\ s.created = now})
                  >= SessionCap]_vars

=============================================================================
