---------------------------- MODULE CLIProfiles ----------------------------
(***************************************************************************)
(* The command line's saved profiles (cli/profile.go) and the commands     *)
(* that read and change them (cli/run.go, cli/config.go), with the API     *)
(* tokens they hold on the servers.                                        *)
(*                                                                         *)
(* Commands run one after the other, as the profile directory has no lock. *)
(* Each is a sequence of file operations and requests, any of which may    *)
(* fail, and may be killed between two of them.  A request can be lost, or *)
(* be carried out and its answer lost.                                     *)
(***************************************************************************)
EXTENDS Naturals, FiniteSets

CONSTANTS
    Names,    \* profile names, as numbers in their sorted order
    Servers,  \* base URLs, normalized
    Tokens,   \* API tokens
    derived,  \* deriveProfileName: the name for a server when none is given
    None      \* nothing

ASSUME ProfilesAssumption ==
    /\ Names \subseteq Nat
    /\ derived \in [Servers -> Names]
    /\ None \notin Names \cup Servers \cup Tokens
    /\ None \notin [url : Servers, token : Tokens]

VARIABLES
    saved,    \* profiles/NAME.json
    current,  \* the file "current"
    issuer,   \* the server that issued each token
    live,     \* tokens their servers accept
    cmd,      \* the command being run
    told,     \* tokens left behind by a command that failed, warned, was killed or was asked to
    broken    \* a command stopped between a profile's file and "current"

vars == <<saved, current, issuer, live, cmd, told, broken>>

Profile == [url : Servers, token : Tokens]

(***************************************************************************)
(* Operators named X_Something, just before X, are X with a plausible bug. *)
(***************************************************************************)

(* The state of a command: its next step, the profile it works on and, for  *)
(* a rename, the new name; the server and token of its next request; the    *)
(* token a login got, the profile it replaces, and its flags.               *)
Steps == {"idle", "issue", "write", "revokeNew", "select", "revokeOld",
          "revoke", "unlink", "repoint", "follow", "call"}
Command == [step : Steps, name : Names \cup {None}, to : Names \cup {None},
            url : Servers \cup {None}, token : Tokens \cup {None},
            old : Profile \cup {None}, switch : BOOLEAN, logout : BOOLEAN, mixed : BOOLEAN]
Idle == [step |-> "idle", name |-> None, to |-> None, url |-> None, token |-> None,
         old |-> None, switch |-> FALSE, logout |-> FALSE, mixed |-> FALSE]

At(s) == cmd.step = s
Go(s) == cmd' = [cmd EXCEPT !.step = s]
End == cmd' = Idle

Exists(n) == saved[n] # None

Init ==
    /\ saved = [n \in Names |-> None]
    /\ current = None
    /\ issuer = [t \in Tokens |-> None]
    /\ live = {}
    /\ cmd = Idle
    /\ told = {}
    /\ broken = FALSE

(***************************************************************************)
(* Requests                                                                *)
(***************************************************************************)

(* DELETE /api/v1/token with token t at server s: what it leaves alive, and *)
(* whether the server says yes.                                             *)
Accepted(s, t) == t \in live /\ issuer[t] = s

RevokeOK(s, t) == Accepted(s, t) /\ live' = live \ {t}

(* Refused, lost, or carried out and the answer lost. *)
RevokeFails(s, t) ==
    \/ UNCHANGED live
    \/ RevokeOK(s, t)

(***************************************************************************)
(* login                                                                   *)
(***************************************************************************)

(* The profile meant by --profile n, or the current one. *)
Chosen(n) == IF n # None THEN n ELSE current

(* loginURL: u stands for --url, BOOKBROWSER_URL or the environment file.   *)
LoginURL(n, u) ==
    IF u # None THEN u
    ELSE IF Chosen(n) # None /\ Exists(Chosen(n)) THEN saved[Chosen(n)].url
    ELSE None

(* cmdLogin up to its request: an existing profile needs --force. *)
Login(n, u, force, switch) ==
    LET url == LoginURL(n, u) IN
    /\ At("idle")
    /\ url # None
    /\ LET name == IF n # None THEN n ELSE derived[url] IN
         /\ Exists(name) => force
         /\ cmd' = [Idle EXCEPT !.step = "issue", !.name = name, !.url = url,
                                !.old = saved[name], !.switch = switch]
    /\ UNCHANGED <<saved, current, issuer, live, told, broken>>

(* The login request, by password or through Google. *)
NewToken(t) ==
    /\ issuer[t] = None
    /\ issuer' = [issuer EXCEPT ![t] = cmd.url]
    /\ live' = live \cup {t}

Issue(t) ==
    /\ At("issue")
    /\ NewToken(t)
    /\ cmd' = [cmd EXCEPT !.step = "write", !.token = t]
    /\ UNCHANGED <<saved, current, told, broken>>

(* The answer that carries the token is lost. *)
IssueLost(t) ==
    /\ At("issue")
    /\ NewToken(t)
    /\ told' = told \cup {t}
    /\ End
    /\ UNCHANGED <<saved, current, broken>>

IssueFails ==
    /\ At("issue")
    /\ End
    /\ UNCHANGED <<saved, current, issuer, live, told, broken>>

(* After the new profile is in place, the token it replaced is revoked. *)
Replaced_Forgotten(c) == "idle"
Replaced(c) == IF c.old # None THEN "revokeOld" ELSE "idle"

(* The server a replaced token is revoked at: the one it was issued by. *)
OldServer_New(c) == c.url
OldServer(c) == c.old.url

ThenReplaced ==
    IF Replaced(cmd) = "idle" THEN End
    ELSE cmd' = [cmd EXCEPT !.step = "revokeOld", !.url = OldServer(cmd), !.token = cmd.old.token]

(* ProfileStore.Write: a temporary file, renamed. *)
Write ==
    /\ At("write")
    /\ saved' = [saved EXCEPT ![cmd.name] = [url |-> cmd.url, token |-> cmd.token]]
    /\ IF cmd.switch THEN Go("select") ELSE ThenReplaced
    /\ UNCHANGED <<current, issuer, live, told, broken>>

WriteFails ==
    /\ At("write")
    /\ Go("revokeNew")
    /\ UNCHANGED <<saved, current, issuer, live, told, broken>>

(* The new token is taken back; if that fails too the error says so. *)
RevokeNew ==
    /\ At("revokeNew")
    /\ \/ RevokeOK(cmd.url, cmd.token) /\ UNCHANGED told
       \/ RevokeFails(cmd.url, cmd.token) /\ told' = told \cup {cmd.token}
    /\ End
    /\ UNCHANGED <<saved, current, issuer, broken>>

(* SetCurrent; when it fails the command returns its error and leaves the   *)
(* replaced token alone.                                                    *)
Select ==
    /\ At("select")
    /\ current' = cmd.name
    /\ broken' = FALSE
    /\ ThenReplaced
    /\ UNCHANGED <<saved, issuer, live, told>>

SelectFails ==
    /\ At("select")
    /\ told' = IF cmd.old # None THEN told \cup {cmd.old.token} ELSE told
    /\ End
    /\ UNCHANGED <<saved, current, issuer, live, broken>>

(* The replaced token; a failure is a warning. *)
RevokeOld ==
    /\ At("revokeOld")
    /\ \/ RevokeOK(cmd.url, cmd.token) /\ UNCHANGED told
       \/ RevokeFails(cmd.url, cmd.token) /\ told' = told \cup {cmd.token}
    /\ End
    /\ UNCHANGED <<saved, current, issuer, broken>>

(***************************************************************************)
(* logout and profiles remove                                              *)
(***************************************************************************)

(* cmdLogout: --local-only skips the request. *)
Logout(n, localOnly) ==
    LET name == Chosen(n) IN
    /\ At("idle")
    /\ name # None
    /\ Exists(name)
    /\ cmd' = [Idle EXCEPT !.step = IF localOnly THEN "unlink" ELSE "revoke",
                           !.name = name, !.url = saved[name].url,
                           !.token = saved[name].token, !.logout = ~localOnly]
    /\ UNCHANGED <<saved, current, issuer, live, told, broken>>

(* "server token was not revoked; profile kept" *)
AfterFailedRevoke_Unlink == "unlink"
AfterFailedRevoke == "idle"
Revoke ==
    /\ At("revoke")
    /\ \/ RevokeOK(cmd.url, cmd.token) /\ Go("unlink")
       \/ /\ RevokeFails(cmd.url, cmd.token)
          /\ IF AfterFailedRevoke = "idle" THEN End ELSE Go(AfterFailedRevoke)
    /\ UNCHANGED <<saved, current, issuer, told, broken>>

(* cmdProfiles, "remove": the token is left to the server. *)
ProfilesRemove(n) ==
    /\ At("idle")
    /\ Exists(n)
    /\ cmd' = [Idle EXCEPT !.step = "unlink", !.name = n, !.token = saved[n].token]
    /\ UNCHANGED <<saved, current, issuer, live, told, broken>>

(* ProfileStore.Remove: the file, then "current" if it named it. *)
PointsAt_Never(n) == FALSE
PointsAt(n) == current = n
Unlink ==
    /\ At("unlink")
    /\ saved' = [saved EXCEPT ![cmd.name] = None]
    /\ told' = IF cmd.logout THEN told ELSE told \cup {cmd.token}
    /\ IF PointsAt(cmd.name) THEN Go("repoint") ELSE End
    /\ UNCHANGED <<current, issuer, live, broken>>

FirstName == CHOOSE n \in Names : Exists(n) /\ \A m \in Names : Exists(m) => n <= m

Repoint ==
    /\ At("repoint")
    /\ current' = IF \E n \in Names : Exists(n) THEN FirstName ELSE None
    /\ broken' = FALSE
    /\ End
    /\ UNCHANGED <<saved, issuer, live, told>>

(***************************************************************************)
(* profiles rename and use                                                 *)
(***************************************************************************)

(* ProfileStore.Rename: the file, then "current" if it named it. *)
Rename(n, m) ==
    /\ At("idle")
    /\ Exists(n) /\ ~Exists(m)
    /\ saved' = [saved EXCEPT ![m] = saved[n], ![n] = None]
    /\ cmd' = IF PointsAt(n) THEN [Idle EXCEPT !.step = "follow", !.to = m] ELSE Idle
    /\ UNCHANGED <<current, issuer, live, told, broken>>

Follow ==
    /\ At("follow")
    /\ current' = cmd.to
    /\ broken' = FALSE
    /\ End
    /\ UNCHANGED <<saved, issuer, live, told>>

(* cmdUse: SetCurrent. *)
Use(n) ==
    /\ At("idle")
    /\ Exists(n)
    /\ current' = n
    /\ broken' = FALSE
    /\ UNCHANGED <<saved, issuer, live, cmd, told>>

(***************************************************************************)
(* Commands that call a server                                             *)
(***************************************************************************)

(* resolveRemote: URL and token each from a flag, the environment or the    *)
(* environment file (u and t), and otherwise from the profile meant by      *)
(* --profile or BOOKBROWSER_PROFILE (n) or the current one.                 *)
Resolve(n, u, t) ==
    LET name == Chosen(n)
        url == IF u # None THEN u ELSE IF name # None THEN saved[name].url ELSE None
        token == IF t # None THEN t ELSE IF name # None THEN saved[name].token ELSE None
    IN  /\ At("idle")
        /\ name # None => Exists(name)
        /\ url # None /\ token # None
        /\ cmd' = [Idle EXCEPT !.step = "call", !.url = url, !.token = token,
                               !.mixed = u # None \/ t # None]
        /\ UNCHANGED <<saved, current, issuer, live, told, broken>>

(* whoami, books, library, users, settings and "tokens list". *)
Call ==
    /\ At("call")
    /\ End
    /\ UNCHANGED <<saved, current, issuer, live, told, broken>>

(* "tokens revoke NAME": a token of the same account. *)
TokensRevoke(t) ==
    /\ At("call")
    /\ Accepted(cmd.url, cmd.token)
    /\ RevokeOK(cmd.url, t)
    /\ End
    /\ UNCHANGED <<saved, current, issuer, told, broken>>

(***************************************************************************)
(* The rest of the environment                                             *)
(***************************************************************************)

(* A token expires, or is revoked from another machine. *)
Expire(t) ==
    /\ t \in live
    /\ live' = live \ {t}
    /\ UNCHANGED <<saved, current, issuer, cmd, told, broken>>

(* The command is killed, or its next file operation fails. *)
Unsaved == IF At("write") \/ At("revokeNew") \/ At("revokeOld") THEN {cmd.token} ELSE {}
Superseded == IF At("select") /\ cmd.old # None THEN {cmd.old.token} ELSE {}
Stop ==
    /\ ~At("idle")
    /\ told' = told \cup Unsaved \cup Superseded
    /\ broken' = (broken \/ At("repoint") \/ At("follow"))
    /\ End
    /\ UNCHANGED <<saved, current, issuer, live>>

Some(S) == S \cup {None}

Next ==
    \/ \E n \in Some(Names), u \in Some(Servers), force, switch \in BOOLEAN :
         Login(n, u, force, switch)
    \/ \E t \in Tokens : Issue(t) \/ IssueLost(t) \/ TokensRevoke(t) \/ Expire(t)
    \/ IssueFails \/ Write \/ WriteFails \/ RevokeNew \/ Select \/ SelectFails \/ RevokeOld
    \/ \E n \in Some(Names), localOnly \in BOOLEAN : Logout(n, localOnly)
    \/ Revoke \/ Unlink \/ Repoint \/ Follow \/ Call \/ Stop
    \/ \E n \in Names : ProfilesRemove(n) \/ Use(n) \/ \E m \in Names : Rename(n, m)
    \/ \E n \in Some(Names), u \in Some(Servers), t \in Some(Tokens) : Resolve(n, u, t)

Spec == Init /\ [][Next]_vars

(***************************************************************************)
(* Properties                                                              *)
(***************************************************************************)

(* The shapes of the variables.                                             *)
TypeOK ==
    /\ saved \in [Names -> Some(Profile)]
    /\ current \in Some(Names)
    /\ issuer \in [Tokens -> Some(Servers)]
    /\ live \subseteq Tokens
    /\ cmd \in Command
    /\ told \subseteq Tokens
    /\ broken \in BOOLEAN

(* "current" names a profile there is, after any sequence of logins,        *)
(* logouts, removals, renames and switches, unless a command was stopped    *)
(* between the profile's file and "current".                                *)
CurrentValid ==
    (~broken /\ ~At("repoint") /\ ~At("follow")) => (current = None \/ Exists(current))

(* A token a server still accepts is in a profile, or in the hands of the   *)
(* running command, or was left by a command that said so: a login never    *)
(* leaves one behind in silence.                                            *)
NoSilentStray ==
    \A t \in live :
      \/ \E n \in Names : Exists(n) /\ saved[n].token = t
      \/ (At("write") \/ At("revokeNew") \/ At("revokeOld")) /\ cmd.token = t
      \/ (At("write") \/ At("select")) /\ cmd.old # None /\ cmd.old.token = t
      \/ t \in told

(* A request goes to the server that issued the token it carries, also      *)
(* after a profile was moved to another server, unless the user chose the   *)
(* URL or the token on the command line or in the environment.              *)
TokensGoHome ==
    (cmd.step \in {"revoke", "revokeNew", "revokeOld", "call"} /\ ~cmd.mixed)
      => issuer[cmd.token] = cmd.url

(* logout deletes a profile only when its token is dead: a request or an    *)
(* answer that is lost keeps the profile, as cli.md says.                   *)
LogoutRevokes ==
    [][(At("unlink") /\ cmd.logout /\ saved' # saved)
         => saved[cmd.name].token \notin live]_vars

=============================================================================
