----------------------------- MODULE Authority ------------------------------
(***************************************************************************)
(* What the account store promises about access, whatever forms, cookies,  *)
(* stale requests and expiries it is made of.  A session or an API token   *)
(* is a grant: a secret and whose it is.  A grant is made with a new       *)
(* secret and to an enabled account; a secret withdrawn never comes back   *)
(* and never changes hands; an account that is disabled loses all its      *)
(* grants in that step; and from the first account on an administrator is  *)
(* enabled at every moment.                                                *)
(***************************************************************************)
EXTENDS Naturals

CONSTANT Users  \* accounts

VARIABLES
    enabled,  \* accounts that may be granted access
    admins,   \* those of them that administer the others
    granted,  \* pairs of a secret and its owner
    drawn     \* number of secrets ever drawn

vars == <<enabled, admins, granted, drawn>>

Init ==
    /\ enabled = {}
    /\ admins = {}
    /\ granted = {}
    /\ drawn = 0

(* A new account, or one changed by an administrator. *)
SetAccount(u, on, adm) ==
    /\ enabled' = IF on THEN enabled \cup {u} ELSE enabled \ {u}
    /\ admins' = IF on /\ adm THEN admins \cup {u} ELSE admins \ {u}
    /\ admins' # {}
    /\ granted' = IF on THEN granted ELSE {g \in granted : g[2] # u}
    /\ UNCHANGED drawn

(* A grant may end others, and may itself not outlast the limits set to     *)
(* their number.                                                            *)
Grant(u) ==
    /\ u \in enabled
    /\ drawn' = drawn + 1
    /\ granted' \subseteq granted \cup {<<drawn', u>>}
    /\ UNCHANGED <<enabled, admins>>

(* Signed out, revoked or ended with a change of password. *)
Withdraw ==
    /\ granted' \subseteq granted
    /\ UNCHANGED <<enabled, admins, drawn>>

Next ==
    \/ \E u \in Users :
         \/ \E on \in BOOLEAN, adm \in BOOLEAN : SetAccount(u, on, adm)
         \/ Grant(u)
    \/ Withdraw

Spec == Init /\ [][Next]_vars

=============================================================================
