----------------------------- MODULE Credential -----------------------------
(***************************************************************************)
(* What signing in through a browser promises, whatever polls, expiries,   *)
(* cancellations and failures it is made of: a login gets a token of the   *)
(* account that approved it and of no other, has one at a time, is handed  *)
(* one at most once, and gets no further one after that.                   *)
(***************************************************************************)
EXTENDS Naturals

CONSTANTS
    Logins,  \* login runs
    Users,   \* accounts
    None     \* not approved

VARIABLES
    approver,  \* the account that approved each login
    tokens,    \* API tokens there are: whose login they are for, and whose they are
    handed     \* tokens handed to each login

vars == <<approver, tokens, handed>>

Init ==
    /\ approver = [l \in Logins |-> None]
    /\ tokens = {}
    /\ handed = [l \in Logins |-> 0]

Approve(l, u) ==
    /\ approver[l] = None
    /\ approver' = [approver EXCEPT ![l] = u]
    /\ UNCHANGED <<tokens, handed>>

Issue(l) ==
    /\ approver[l] # None
    /\ handed[l] = 0
    /\ \A t \in tokens : t[1] # l
    /\ tokens' = tokens \cup {<<l, approver[l]>>}
    /\ UNCHANGED <<approver, handed>>

(* The token may have been withdrawn by then. *)
HandOver(l) ==
    /\ approver[l] # None
    /\ handed[l] = 0
    /\ handed' = [handed EXCEPT ![l] = 1]
    /\ UNCHANGED <<approver, tokens>>

(* Taken back by the server, or revoked by its user. *)
Withdraw(t) ==
    /\ tokens' = tokens \ {t}
    /\ UNCHANGED <<approver, handed>>

Next ==
    \/ \E l \in Logins : (\E u \in Users : Approve(l, u)) \/ Issue(l) \/ HandOver(l)
    \/ \E t \in tokens : Withdraw(t)

Spec == Init /\ [][Next]_vars

=============================================================================
