---------------------------- MODULE SystemAlerts ----------------------------
(***************************************************************************)
(* System alerts: the system_alerts table (auth/sqlite.go), the monitor    *)
(* goroutine that raises and resolves alerts (server/system_alerts.go) and *)
(* the administrators who mark them read while it runs.                    *)
(*                                                                         *)
(* Each store call is one transaction on the single SQLite connection, so  *)
(* it is one step; a health check is a fetch followed by up to two of      *)
(* them, and either may fail: the monitor only logs the error and goes on. *)
(*                                                                         *)
(* Time is counted in monitor intervals.  The code compares timestamps     *)
(* with the two windows only, so a resolved alert keeps its age, which     *)
(* stops counting once it is past the retention.                           *)
(***************************************************************************)
EXTENDS Naturals, FiniteSets, Sequences

CONSTANTS
    AlertIds,    \* ids randomToken returns; bounds the rows held at a time
    Admins,      \* administrators marking alerts read
    None,        \* no row, nobody
    Threshold,   \* ttsUnreachableThreshold
    Window,      \* systemAlertReopenWindow
    Retention,   \* systemAlertRetention
    MaxTroubles  \* bound on the store calls that fail and the restarts, together

ASSUME SystemAlertsAssumption ==
    /\ Threshold \in Nat \ {0} /\ Retention \in Nat /\ Window \in 0 .. Retention
    /\ MaxTroubles \in Nat
    /\ None \notin AlertIds \cup Admins

VARIABLES
    alerts,       \* the system_alerts table: a row or None for each id
    unreachable,  \* ttsMonitor.unreachable, counted to just past the threshold
    tick,         \* a tick is waiting in ticker.C
    todo,         \* store calls the running check has yet to make
    troubles      \* store calls that failed and restarts so far

vars == <<alerts, unreachable, tick, todo, troubles>>

service == "tts.service"
upstream == "tts.upstream"
Keys == {service, upstream}

\* What fetch returns: 404, no usable answer, or the status in the JSON body,
\* where every status but failing and ok ("suspect", "unknown") is the same.
Answers == {"unsupported", "error", "failing", "ok", "other"}

Ages == 0 .. Retention + 1
Alert == [key : Keys, open : BOOLEAN, age : Ages, reader : Admins \cup {None}]
Call == [op : {"raise", "resolve"}, key : Keys]

raise(k) == [op |-> "raise", key |-> k]
resolve(k) == [op |-> "resolve", key |-> k]

-----------------------------------------------------------------------------
(* The store *)

Rows == {i \in AlertIds : alerts[i] # None}
Open(k) == {i \in Rows : alerts[i].key = k /\ alerts[i].open}
Resolved(k) == {i \in Rows : alerts[i].key = k /\ ~alerts[i].open}

Recent_NoWindow(i) == FALSE
Recent(i) == alerts[i].age <= Window

\* The most recently resolved alert of k, if the reopen window covers it.
Reopenable(k) ==
    {i \in Resolved(k) : Recent(i) /\ \A j \in Resolved(k) : alerts[i].age <= alerts[j].age}

Reopened_StillRead(row) == [row EXCEPT !.open = TRUE, !.age = 0]
Reopened(row) == [row EXCEPT !.open = TRUE, !.age = 0, !.reader = None]
NewAlert(k) == [key |-> k, open |-> TRUE, age |-> 0, reader |-> None]

\* DELETE of the resolved alerts past the retention, when an alert opens.
Outdated(row) == ~row.open /\ row.age > Retention
Purged(table) ==
    [i \in AlertIds |-> IF table[i] # None /\ Outdated(table[i]) THEN None ELSE table[i]]

AlreadyOpen_Unread(k) == \E i \in Open(k) : alerts[i].reader = None
AlreadyOpen(k) == Open(k) # {}

RaiseSystemAlert(k) ==
    \/ AlreadyOpen(k) /\ UNCHANGED alerts
    \/ /\ ~AlreadyOpen(k)
       /\ \E i \in Reopenable(k) :
             alerts' = Purged([alerts EXCEPT ![i] = Reopened(alerts[i])])
    \/ /\ ~AlreadyOpen(k) /\ Reopenable(k) = {} /\ Rows # AlertIds
       /\ LET id == CHOOSE i \in AlertIds : alerts[i] = None
          IN  alerts' = Purged([alerts EXCEPT ![id] = NewAlert(k)])

ResolveSystemAlert(k) ==
    alerts' = [i \in AlertIds |->
                  IF i \in Open(k) THEN [alerts[i] EXCEPT !.open = FALSE, !.age = 0]
                                   ELSE alerts[i]]

FirstReader(reader, admin) == IF reader = None THEN admin ELSE reader

AcknowledgeSystemAlert(admin, i) ==
    /\ i \in Rows
    /\ alerts' = [alerts EXCEPT ![i].reader = FirstReader(@, admin)]
    /\ UNCHANGED <<unreachable, tick, todo, troubles>>

AcknowledgeAllSystemAlerts(admin) ==
    /\ Rows # {}
    /\ alerts' = [i \in AlertIds |->
                     IF alerts[i] = None \/ alerts[i].reader # None THEN alerts[i]
                     ELSE [alerts[i] EXCEPT !.reader = admin]]
    /\ UNCHANGED <<unreachable, tick, todo, troubles>>

-----------------------------------------------------------------------------
(* The monitor *)

Counted(n) == IF n <= Threshold THEN n + 1 ELSE n

Reaction_AtThreshold(answer, streak) ==
    CASE answer = "error" -> IF streak = Threshold THEN <<raise(service)>> ELSE <<>>
      [] answer = "failing" -> <<resolve(service), raise(upstream)>>
      [] answer = "ok" -> <<resolve(service), resolve(upstream)>>
      [] answer \in {"unsupported", "other"} -> <<resolve(service)>>

\* The store calls that follow each answer; streak is m.unreachable after it.
Reaction(answer, streak) ==
    CASE answer = "unsupported" -> <<resolve(service)>>
      [] answer = "error" -> IF streak >= Threshold THEN <<raise(service)>> ELSE <<>>
      [] answer = "failing" -> <<resolve(service), raise(upstream)>>
      [] answer = "ok" -> <<resolve(service), resolve(upstream)>>
      [] answer = "other" -> <<resolve(service)>>

\* fetch, and the part of checkTTSHealth before its first store call.
Check(answer) ==
    /\ tick /\ todo = <<>>
    /\ tick' = FALSE
    /\ unreachable' = IF answer = "error" THEN Counted(unreachable) ELSE 0
    /\ todo' = Reaction(answer, unreachable')
    /\ UNCHANGED <<alerts, troubles>>

CallStore ==
    /\ todo # <<>>
    /\ \/ Head(todo).op = "raise" /\ RaiseSystemAlert(Head(todo).key)
       \/ Head(todo).op = "resolve" /\ ResolveSystemAlert(Head(todo).key)
    /\ todo' = Tail(todo)
    /\ UNCHANGED <<unreachable, tick, troubles>>

\* raiseSystemAlert and resolveSystemAlert log an error and return.
CallFails ==
    /\ todo # <<>> /\ troubles < MaxTroubles
    /\ todo' = Tail(todo)
    /\ troubles' = troubles + 1
    /\ UNCHANGED <<alerts, unreachable, tick>>

\* A minute passes; ticker.C holds one tick and drops the others.
Older(row) == IF row.open \/ row.age > Retention THEN row
              ELSE [row EXCEPT !.age = @ + 1]
Minute ==
    /\ tick' = TRUE
    /\ alerts' = [i \in AlertIds |-> IF alerts[i] = None THEN None ELSE Older(alerts[i])]
    /\ UNCHANGED <<unreachable, todo, troubles>>

\* BookBrowser is restarted: the table survives, the monitor starts afresh and
\* checks at once.
Restart ==
    /\ troubles < MaxTroubles
    /\ troubles' = troubles + 1
    /\ unreachable' = 0 /\ tick' = TRUE /\ todo' = <<>>
    /\ UNCHANGED alerts

Acknowledge ==
    \E admin \in Admins :
        AcknowledgeAllSystemAlerts(admin) \/ \E i \in AlertIds : AcknowledgeSystemAlert(admin, i)

-----------------------------------------------------------------------------
Init ==
    /\ alerts = [i \in AlertIds |-> None]
    /\ unreachable = 0 /\ tick = TRUE /\ todo = <<>>
    /\ troubles = 0

Next ==
    \/ \E answer \in Answers : Check(answer)
    \/ CallStore
    \/ CallFails
    \/ Minute
    \/ Restart
    \/ Acknowledge

Spec == Init /\ [][Next]_vars

-----------------------------------------------------------------------------
(* Properties *)

\* Each variable has the type its declaration gives it.
TypeOK ==
    /\ alerts \in [AlertIds -> Alert \cup {None}]
    /\ unreachable \in 0 .. Threshold + 1
    /\ tick \in BOOLEAN
    /\ todo \in Seq(Call)
    /\ troubles \in 0 .. MaxTroubles

\* The channel holds at most one open alert per key, whatever RaiseSystemAlert
\* finds open, reopenable, read or outdated.
OneOpenPerKey ==
    \A i, j \in Rows :
        alerts[i].open /\ alerts[j].open /\ alerts[i].key = alerts[j].key => i = j

\* A flapping dependency cannot fill the channel: with the reopen window and
\* the purge, a key never has more rows than windows fit in the retention.
ChannelBounded ==
    \A k \in Keys :
        Cardinality({i \in Rows : alerts[i].key = k}) <= Retention \div (Window + 1) + 1

\* A problem that comes back is unread again, and otherwise the first
\* administrator to read an alert stays its reader.
ReadMarkHonest ==
    [][\A i \in Rows : alerts'[i] # None =>
          LET reopens == ~alerts[i].open /\ alerts'[i].open
          IN  /\ reopens => alerts'[i].reader = None
              /\ alerts[i].reader # None /\ ~reopens => alerts'[i].reader = alerts[i].reader]_vars
=============================================================================
