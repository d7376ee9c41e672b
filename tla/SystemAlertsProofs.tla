------------------------- MODULE SystemAlertsProofs -------------------------
(***************************************************************************)
(* Proofs about SystemAlerts, for any windows, threshold and number of     *)
(* rows and administrators.  OneOpenPerKey is inductive with the types:    *)
(* RaiseSystemAlert opens a row only when none of its key is open, and no  *)
(* other call opens one.  ChannelBounded rests on the ages of a key's rows *)
(* being a reopen window apart (Spaced): after a purge each row is then in *)
(* a window of its own, and only so many fit in the retention.             *)
(***************************************************************************)
EXTENDS SystemAlerts, TLAPS, SequenceTheorems, FiniteSetTheorems

\* A row opened or closed now has an age.
LEMMA ZeroAge == 0 \in Ages
BY SystemAlertsAssumption DEF Ages

\* Opening or closing a row now, with or without its reader, gives a row.
LEMMA UpdatedRow ==
    ASSUME NEW row \in Alert, NEW open \in BOOLEAN
    PROVE  /\ [row EXCEPT !.open = open, !.age = 0] \in Alert
           /\ [row EXCEPT !.open = open, !.age = 0, !.reader = None] \in Alert
BY ZeroAge DEF Alert

\* A row taken from the table of a typed state is an alert.
LEMMA RowIsAlert ==
    ASSUME TypeOK, NEW i \in Rows
    PROVE  i \in AlertIds /\ alerts[i] \in Alert /\ alerts[i] # None
BY DEF TypeOK, Rows

\* Purging outdated rows keeps the type of the table and changes no other row.
LEMMA PurgedType ==
    ASSUME NEW table \in [AlertIds -> Alert \cup {None}]
    PROVE  /\ Purged(table) \in [AlertIds -> Alert \cup {None}]
           /\ \A i \in AlertIds : Purged(table)[i] = None \/ Purged(table)[i] = table[i]
BY DEF Purged

\* The three ways RaiseSystemAlert(k) can end: an open alert is kept, a resolved
\* one of the same key is reopened unread, or a new one takes an unused id.
LEMMA RaiseCases ==
    ASSUME TypeOK, NEW k \in Keys, RaiseSystemAlert(k)
    PROVE  \/ alerts' = alerts
           \/ /\ Open(k) = {}
              /\ \E i \in Reopenable(k) : alerts' = Purged([alerts EXCEPT ![i] = Reopened(alerts[i])])
           \/ /\ Open(k) = {} /\ Reopenable(k) = {}
              /\ \E i \in AlertIds : /\ alerts[i] = None
                                     /\ alerts' = Purged([alerts EXCEPT ![i] = NewAlert(k)])
<1>1. CASE AlreadyOpen(k) /\ UNCHANGED alerts
  BY <1>1
<1>2. CASE /\ ~AlreadyOpen(k)
           /\ \E i \in Reopenable(k) :
                 alerts' = Purged([alerts EXCEPT ![i] = Reopened(alerts[i])])
  BY <1>2 DEF AlreadyOpen
<1>3. CASE /\ ~AlreadyOpen(k) /\ Reopenable(k) = {} /\ Rows # AlertIds
           /\ LET id == CHOOSE i \in AlertIds : alerts[i] = None
              IN  alerts' = Purged([alerts EXCEPT ![id] = NewAlert(k)])
  <2> DEFINE id == CHOOSE i \in AlertIds : alerts[i] = None
  <2>1. \E i \in AlertIds : alerts[i] = None
    BY <1>3 DEF Rows
  <2>2. id \in AlertIds /\ alerts[id] = None
    BY <2>1
  <2>3. alerts' = Purged([alerts EXCEPT ![id] = NewAlert(k)])
    BY <1>3
  <2> HIDE DEF id
  <2>4. QED
    BY <1>3, <2>2, <2>3 DEF AlreadyOpen
<1>4. QED
  BY <1>1, <1>2, <1>3 DEF RaiseSystemAlert

\* A store call keeps the type of the table.
LEMMA RaiseType ==
    ASSUME TypeOK, NEW k \in Keys, RaiseSystemAlert(k)
    PROVE  alerts' \in [AlertIds -> Alert \cup {None}]
<1>1. CASE alerts' = alerts
  BY <1>1 DEF TypeOK
<1>2. ASSUME NEW i \in Resolved(k), alerts' = Purged([alerts EXCEPT ![i] = Reopened(alerts[i])])
      PROVE  alerts' \in [AlertIds -> Alert \cup {None}]
  <2>1. i \in AlertIds /\ alerts[i] \in Alert
    BY RowIsAlert DEF Resolved
  <2>2. Reopened(alerts[i]) \in Alert
    BY <2>1, UpdatedRow DEF Reopened
  <2>3. [alerts EXCEPT ![i] = Reopened(alerts[i])] \in [AlertIds -> Alert \cup {None}]
    BY <2>1, <2>2 DEF TypeOK
  <2>4. QED
    BY <1>2, <2>3, PurgedType
<1>3. ASSUME NEW i \in AlertIds, alerts' = Purged([alerts EXCEPT ![i] = NewAlert(k)])
      PROVE  alerts' \in [AlertIds -> Alert \cup {None}]
  <2>1. NewAlert(k) \in Alert
    BY ZeroAge DEF NewAlert, Alert
  <2>2. [alerts EXCEPT ![i] = NewAlert(k)] \in [AlertIds -> Alert \cup {None}]
    BY <2>1 DEF TypeOK
  <2>3. QED
    BY <1>3, <2>2, PurgedType
<1>4. QED
  BY <1>1, <1>2, <1>3, RaiseCases DEF Reopenable

\* Closing the open alert of a key keeps the type of the table.
LEMMA ResolveType ==
    ASSUME TypeOK, NEW k \in Keys, ResolveSystemAlert(k)
    PROVE  alerts' \in [AlertIds -> Alert \cup {None}]
<1>1. ASSUME NEW i \in Open(k) PROVE [alerts[i] EXCEPT !.open = FALSE, !.age = 0] \in Alert
  BY RowIsAlert, UpdatedRow DEF Open
<1>2. QED
  BY <1>1 DEF ResolveSystemAlert, TypeOK

\* The reaction to any answer is a sequence of store calls.
LEMMA ReactionType ==
    ASSUME NEW answer \in Answers, NEW streak PROVE Reaction(answer, streak) \in Seq(Call)
<1>1. \A k \in Keys : raise(k) \in Call /\ resolve(k) \in Call
  BY DEF Call, raise, resolve
<1>2. \A c, d \in Call : <<>> \in Seq(Call) /\ <<c>> \in Seq(Call) /\ <<c, d>> \in Seq(Call)
  OBVIOUS
<1>3. QED
  BY <1>1, <1>2 DEF Reaction, Answers, Keys

\* Every step keeps the types.
LEMMA TypeStep == TypeOK /\ [Next]_vars => TypeOK'
<1> SUFFICES ASSUME TypeOK, [Next]_vars PROVE TypeOK'
  OBVIOUS
<1> USE SystemAlertsAssumption
<1>1. ASSUME NEW answer \in Answers, Check(answer) PROVE TypeOK'
  <2>1. unreachable' \in 0 .. Threshold + 1
    BY <1>1 DEF TypeOK, Check, Counted
  <2>2. todo' \in Seq(Call)
    BY <1>1, ReactionType DEF Check
  <2>3. QED
    BY <1>1, <2>1, <2>2 DEF TypeOK, Check
<1>2. CASE CallStore
  <2>1. Head(todo) \in Call /\ Tail(todo) \in Seq(Call)
    BY <1>2 DEF CallStore, TypeOK
  <2>2. Head(todo).key \in Keys
    BY <2>1 DEF Call
  <2>3. alerts' \in [AlertIds -> Alert \cup {None}]
    BY <1>2, <2>2, RaiseType, ResolveType DEF CallStore
  <2>4. QED
    BY <1>2, <2>1, <2>3 DEF CallStore, TypeOK
<1>3. CASE CallFails
  BY <1>3 DEF CallFails, TypeOK
<1>4. CASE Minute
  <2>1. ASSUME NEW i \in AlertIds, alerts[i] # None PROVE Older(alerts[i]) \in Alert
    <3>1. alerts[i] \in Alert
      BY <2>1 DEF TypeOK
    <3>2. QED
      BY <3>1 DEF Older, Alert, Ages
  <2>2. alerts' \in [AlertIds -> Alert \cup {None}]
    BY <1>4, <2>1 DEF Minute
  <2>3. QED
    BY <1>4, <2>2 DEF Minute, TypeOK
<1>5. CASE Restart
  BY <1>5 DEF Restart, TypeOK
<1>6. ASSUME NEW admin \in Admins, AcknowledgeAllSystemAlerts(admin) PROVE TypeOK'
  <2>1. ASSUME NEW i \in AlertIds, alerts[i] # None
        PROVE  [alerts[i] EXCEPT !.reader = admin] \in Alert
    BY <2>1 DEF TypeOK, Alert
  <2>2. alerts' \in [AlertIds -> Alert \cup {None}]
    BY <1>6, <2>1 DEF AcknowledgeAllSystemAlerts, TypeOK
  <2>3. QED
    BY <1>6, <2>2 DEF AcknowledgeAllSystemAlerts, TypeOK
<1>7. ASSUME NEW admin \in Admins, NEW i \in AlertIds, AcknowledgeSystemAlert(admin, i) PROVE TypeOK'
  <2>1. alerts[i] \in Alert
    BY <1>7, RowIsAlert DEF AcknowledgeSystemAlert
  <2>2. [alerts[i] EXCEPT !.reader = FirstReader(@, admin)] \in Alert
    BY <2>1 DEF Alert, FirstReader
  <2>3. alerts' \in [AlertIds -> Alert \cup {None}]
    BY <1>7, <2>2 DEF AcknowledgeSystemAlert, TypeOK
  <2>4. QED
    BY <1>7, <2>3 DEF AcknowledgeSystemAlert, TypeOK
<1>8. CASE UNCHANGED vars
  BY <1>8 DEF vars, TypeOK
<1>9. QED
  BY <1>1, <1>2, <1>3, <1>4, <1>5, <1>6, <1>7, <1>8 DEF Next, Acknowledge

\* Every reachable state is typed.
THEOREM AlertsTypeCorrect == Spec => []TypeOK
<1>1. Init => TypeOK
  BY SystemAlertsAssumption DEF Init, TypeOK
<1>2. QED
  BY <1>1, TypeStep, PTL DEF Spec

-----------------------------------------------------------------------------
(* What a step does to the table *)

\* Row i stays what it was, except that it may be closed, get a first reader,
\* grow older or be deleted.
Quiet(i) ==
    alerts'[i] # None =>
        /\ alerts[i] # None
        /\ alerts'[i].key = alerts[i].key
        /\ alerts'[i].open => alerts[i].open
        /\ alerts[i].reader # None => alerts'[i].reader = alerts[i].reader

\* Row i is opened for k, which had no open row, and is unread.
Opens(i, k) ==
    /\ Open(k) = {}
    /\ alerts[i] # None => alerts[i].key = k /\ ~alerts[i].open
    /\ alerts'[i] # None => alerts'[i].key = k /\ alerts'[i].open /\ alerts'[i].reader = None

\* Raising an alert opens at most one row and leaves the others quiet.
LEMMA RaiseTable ==
    ASSUME TypeOK, NEW k \in Keys, RaiseSystemAlert(k)
    PROVE  \/ \A i \in AlertIds : Quiet(i)
           \/ \E i \in AlertIds : Opens(i, k) /\ \A j \in AlertIds \ {i} : Quiet(j)
<1>1. CASE alerts' = alerts
  BY <1>1 DEF Quiet
<1>2. ASSUME NEW i \in Resolved(k), Open(k) = {},
             alerts' = Purged([alerts EXCEPT ![i] = Reopened(alerts[i])])
      PROVE  Opens(i, k) /\ \A j \in AlertIds \ {i} : Quiet(j)
  <2>1. /\ i \in AlertIds /\ alerts[i] \in Alert
        /\ alerts[i].key = k /\ ~alerts[i].open
    BY RowIsAlert DEF Resolved
  <2>2. Reopened(alerts[i]) \in Alert
    BY <2>1, UpdatedRow DEF Reopened
  <2>3. /\ Reopened(alerts[i]).key = k /\ Reopened(alerts[i]).open
        /\ Reopened(alerts[i]).reader = None
    BY <2>1 DEF Reopened, Alert
  <2> DEFINE table == [alerts EXCEPT ![i] = Reopened(alerts[i])]
  <2>4. /\ table \in [AlertIds -> Alert \cup {None}]
        /\ table[i] = Reopened(alerts[i])
        /\ \A j \in AlertIds \ {i} : table[j] = alerts[j]
    BY <2>1, <2>2 DEF TypeOK
  <2>5. \A j \in AlertIds : alerts'[j] = None \/ alerts'[j] = table[j]
    BY <1>2, <2>4, PurgedType
  <2> HIDE DEF table
  <2>6. QED
    BY <1>2, <2>1, <2>3, <2>4, <2>5 DEF Opens, Quiet
<1>3. ASSUME NEW i \in AlertIds, Open(k) = {}, alerts[i] = None,
             alerts' = Purged([alerts EXCEPT ![i] = NewAlert(k)])
      PROVE  Opens(i, k) /\ \A j \in AlertIds \ {i} : Quiet(j)
  <2>1. /\ NewAlert(k) \in Alert
        /\ NewAlert(k).key = k /\ NewAlert(k).open /\ NewAlert(k).reader = None
    BY ZeroAge DEF NewAlert, Alert
  <2> DEFINE table == [alerts EXCEPT ![i] = NewAlert(k)]
  <2>2. /\ table \in [AlertIds -> Alert \cup {None}]
        /\ table[i] = NewAlert(k)
        /\ \A j \in AlertIds \ {i} : table[j] = alerts[j]
    BY <2>1 DEF TypeOK
  <2>3. \A j \in AlertIds : alerts'[j] = None \/ alerts'[j] = table[j]
    BY <1>3, <2>2, PurgedType
  <2> HIDE DEF table
  <2>4. QED
    BY <1>3, <2>1, <2>2, <2>3 DEF Opens, Quiet
<1>4. Resolved(k) \subseteq AlertIds
  BY DEF Resolved, Rows
<1>5. QED
  BY <1>1, <1>2, <1>3, <1>4, RaiseCases DEF Reopenable

\* Every other step leaves every row quiet.
LEMMA TableStep ==
    ASSUME TypeOK, [Next]_vars
    PROVE  \/ \A i \in AlertIds : Quiet(i)
           \/ \E k \in Keys, i \in AlertIds :
                 Opens(i, k) /\ \A j \in AlertIds \ {i} : Quiet(j)
<1>1. CASE alerts' = alerts
  BY <1>1 DEF Quiet
<1>2. CASE CallStore
  <2>1. Head(todo).key \in Keys
    <3>1. Head(todo) \in Call
      BY <1>2 DEF CallStore, TypeOK
    <3>2. QED
      BY <3>1 DEF Call
  <2>2. CASE RaiseSystemAlert(Head(todo).key)
    BY <2>1, <2>2, RaiseTable
  <2>3. CASE ResolveSystemAlert(Head(todo).key)
    <3>1. ASSUME NEW i \in AlertIds PROVE Quiet(i)
      <4>1. CASE i \in Open(Head(todo).key)
        <5>1. alerts[i] \in Alert /\ alerts[i] # None
          BY <4>1, RowIsAlert DEF Open
        <5>2. alerts'[i] = [alerts[i] EXCEPT !.open = FALSE, !.age = 0]
          BY <2>3, <4>1 DEF ResolveSystemAlert
        <5>3. QED
          BY <5>1, <5>2 DEF Quiet, Alert
      <4>2. CASE i \notin Open(Head(todo).key)
        BY <2>3, <4>2 DEF ResolveSystemAlert, Quiet
      <4>3. QED
        BY <4>1, <4>2
    <3>2. QED
      BY <3>1
  <2>4. QED
    BY <1>2, <2>2, <2>3 DEF CallStore
<1>3. CASE Minute
  <2>1. ASSUME NEW i \in AlertIds PROVE Quiet(i)
    <3>1. CASE alerts[i] = None
      BY <1>3, <3>1 DEF Minute, Quiet
    <3>2. CASE alerts[i] # None
      <4>1. alerts[i] \in Alert /\ alerts'[i] = Older(alerts[i])
        BY <1>3, <3>2 DEF Minute, TypeOK
      <4>2. QED
        BY <3>2, <4>1 DEF Older, Quiet, Alert
    <3>3. QED
      BY <3>1, <3>2
  <2>2. QED
    BY <2>1
<1>4. ASSUME NEW admin \in Admins, AcknowledgeAllSystemAlerts(admin)
      PROVE  \A i \in AlertIds : Quiet(i)
  <2>1. ASSUME NEW i \in AlertIds PROVE Quiet(i)
    <3>1. CASE alerts[i] = None \/ alerts[i].reader # None
      BY <1>4, <3>1 DEF AcknowledgeAllSystemAlerts, Quiet
    <3>2. CASE alerts[i] # None /\ alerts[i].reader = None
      <4>1. alerts[i] \in Alert /\ alerts'[i] = [alerts[i] EXCEPT !.reader = admin]
        BY <1>4, <3>2 DEF AcknowledgeAllSystemAlerts, TypeOK
      <4>2. QED
        BY <3>2, <4>1 DEF Quiet, Alert
    <3>3. QED
      BY <3>1, <3>2
  <2>2. QED
    BY <2>1
<1>5. ASSUME NEW admin \in Admins, NEW n \in AlertIds, AcknowledgeSystemAlert(admin, n)
      PROVE  \A i \in AlertIds : Quiet(i)
  <2>1. alerts[n] \in Alert /\ alerts[n] # None
    BY <1>5, RowIsAlert DEF AcknowledgeSystemAlert
  <2>2. /\ alerts'[n] = [alerts[n] EXCEPT !.reader = FirstReader(alerts[n].reader, admin)]
        /\ \A i \in AlertIds \ {n} : alerts'[i] = alerts[i]
    BY <1>5, <2>1 DEF AcknowledgeSystemAlert, TypeOK, Alert
  <2>3. Quiet(n)
    BY <2>1, <2>2 DEF Quiet, FirstReader, Alert
  <2>4. QED
    BY <2>2, <2>3 DEF Quiet
<1>6. CASE Next
  BY <1>1, <1>2, <1>3, <1>4, <1>5, <1>6
  DEF Next, Check, CallFails, Restart, Acknowledge
<1>7. QED
  BY <1>1, <1>6 DEF vars

\* At most one alert per key is open, in every reachable state: the comment on
\* the alert keys of system_alerts.go, and the index system_alerts_open_key_idx.
THEOREM OneAlertPerProblem == Spec => []OneOpenPerKey
<1>1. Init => OneOpenPerKey
  BY DEF Init, OneOpenPerKey, Rows
<1>2. TypeOK /\ OneOpenPerKey /\ [Next]_vars => OneOpenPerKey'
  <2> SUFFICES ASSUME TypeOK, OneOpenPerKey, [Next]_vars,
                      NEW i \in Rows', NEW j \in Rows',
                      alerts'[i].open, alerts'[j].open, alerts'[i].key = alerts'[j].key
               PROVE  i = j
    BY DEF OneOpenPerKey
  <2>1. i \in AlertIds /\ j \in AlertIds /\ alerts'[i] # None /\ alerts'[j] # None
    BY DEF Rows
  <2>2. CASE \A n \in AlertIds : Quiet(n)
    BY <2>1, <2>2 DEF Quiet, OneOpenPerKey, Rows
  <2>3. ASSUME NEW k \in Keys, NEW n \in AlertIds,
               Opens(n, k), \A m \in AlertIds \ {n} : Quiet(m)
        PROVE  i = j
    <3>1. ASSUME NEW m \in AlertIds \ {n}, alerts'[m] # None, alerts'[m].open
          PROVE  m \in Rows /\ alerts[m].open /\ alerts'[m].key = alerts[m].key /\ alerts[m].key # k
      BY <2>3, <3>1 DEF Quiet, Opens, Open, Rows
    <3>2. QED
      BY <2>1, <2>3, <3>1 DEF Opens, OneOpenPerKey
  <2>4. QED
    BY <2>2, <2>3, TableStep
<1>3. QED
  BY <1>1, <1>2, AlertsTypeCorrect, PTL DEF Spec

\* A problem that comes back is unread again, and otherwise an alert keeps its
\* first reader, whichever administrators and checks interleave.
THEOREM ReadMarksHonest == Spec => ReadMarkHonest
<1> DEFINE Step == \A i \in Rows : alerts'[i] # None =>
          LET reopens == ~alerts[i].open /\ alerts'[i].open
          IN  /\ reopens => alerts'[i].reader = None
              /\ alerts[i].reader # None /\ ~reopens => alerts'[i].reader = alerts[i].reader
<1>1. TypeOK /\ [Next]_vars => [Step]_vars
  <2> SUFFICES ASSUME TypeOK, [Next]_vars, NEW i \in Rows, alerts'[i] # None
               PROVE  /\ ~alerts[i].open /\ alerts'[i].open => alerts'[i].reader = None
                      /\ alerts[i].reader # None /\ ~(~alerts[i].open /\ alerts'[i].open)
                            => alerts'[i].reader = alerts[i].reader
    OBVIOUS
  <2>1. i \in AlertIds /\ alerts[i] # None
    BY DEF Rows
  <2>2. Quiet(i) \/ \E k \in Keys : Opens(i, k)
    BY <2>1, TableStep
  <2>3. QED
    BY <2>1, <2>2 DEF Quiet, Opens
<1>2. QED
  BY <1>1, AlertsTypeCorrect, PTL DEF Spec, ReadMarkHonest

-----------------------------------------------------------------------------
(* How many rows a problem can have                                        *)

\* Of two ages of one key the greater is a reopen window above the other, unless
\* it is past the retention, where ages are not counted.
Apart(a, b) == b >= a + Window + 1 \/ b = Retention + 1

RowsOf(k) == {i \in Rows : alerts[i].key = k}

Spaced ==
    /\ \A i \in Rows : alerts[i].open => alerts[i].age = 0
    /\ \A i, j \in Rows : i # j /\ alerts[i].key = alerts[j].key /\ alerts[i].age <= alerts[j].age
          => Apart(alerts[i].age, alerts[j].age)

Few ==
    \A k \in Keys : /\ IsFiniteSet(RowsOf(k))
                    /\ Cardinality(RowsOf(k)) <= Retention \div (Window + 1) + 1

\* Ages a window apart fall into different windows.
LEMMA WindowsDiffer ==
    ASSUME NEW a \in Nat, NEW b \in Nat, NEW w \in Nat \ {0}, a + w <= b
    PROVE  a \div w # b \div w
<1>1. (a \div w) + 1 <= b \div w
  OBVIOUS
<1>2. a \div w \in Int /\ b \div w \in Int
  OBVIOUS
<1>3. QED
  BY <1>1, <1>2

\* An age up to the retention is in one of its windows.
LEMMA WindowInRetention ==
    ASSUME NEW a \in Nat, NEW r \in Nat, NEW w \in Nat \ {0}, a <= r
    PROVE  a \div w \in 0 .. (r \div w)
<1>1. a \div w \in Nat /\ r \div w \in Nat
  OBVIOUS
<1>2. a \div w <= r \div w
  OBVIOUS
<1>3. QED
  BY <1>1, <1>2

\* Rows a purge leaves, with their ages apart, are in windows of their own.
LEMMA ApartFew ==
    ASSUME NEW S, NEW age \in [S -> 0 .. Retention],
           \A i, j \in S : i # j /\ age[i] <= age[j] => Apart(age[i], age[j])
    PROVE  /\ IsFiniteSet(S)
           /\ Cardinality(S) <= Retention \div (Window + 1) + 1
<1> DEFINE w == Window + 1
           last == Retention \div w
           f == [i \in S |-> age[i] \div w]
<1>1. w \in Nat \ {0} /\ Window \in Nat /\ Retention \in Nat
  BY SystemAlertsAssumption
<1>2. last \in Nat
  BY <1>1, WindowInRetention
<1>3. \A i \in S : age[i] \div w \in 0 .. last
  BY <1>1, WindowInRetention
<1>4. ASSUME NEW i \in S, NEW j \in S, i # j, age[i] <= age[j]
      PROVE  age[i] \div w # age[j] \div w
  <2>1. age[i] + w <= age[j]
    BY <1>1, <1>4 DEF Apart
  <2> HIDE DEF w
  <2>2. QED
    BY <1>1, <2>1, WindowsDiffer
<1>5. \A i, j \in S : f[i] = f[j] => i = j
  <2> HIDE DEF w
  <2>1. \A i, j \in S : age[i] <= age[j] \/ age[j] <= age[i]
    BY <1>1
  <2>2. QED
    BY <1>4, <2>1
<1>6. f \in [S -> 0 .. last]
  BY <1>3
<1> HIDE DEF f, last
<1>7. f \in Injection(S, 0 .. last)
  BY <1>5, <1>6 DEF Injection, IsInjective
<1>8. IsFiniteSet(0 .. last) /\ Cardinality(0 .. last) = last + 1
  BY <1>2, FS_Interval
<1>9. IsFiniteSet(S) /\ Cardinality(S) <= last + 1
  BY <1>7, <1>8, FS_Injection
<1>10. QED
  BY <1>9 DEF last

\* Among the resolved alerts of a key there is one resolved last.
LEMMA LatestResolved ==
    ASSUME TypeOK, NEW k \in Keys, Reopenable(k) = {}, NEW i \in Resolved(k)
    PROVE  alerts[i].age > Window
<1> DEFINE R == OpToRel(<, Nat)
           S == {alerts[j].age : j \in Resolved(k)}
<1>1. IsWellFoundedOn(R, Nat)
  BY NatLessThanWellFounded
<1>2. \A j \in Resolved(k) : alerts[j].age \in Nat
  BY SystemAlertsAssumption, RowIsAlert DEF Resolved, Alert, Ages
<1>3. S \subseteq Nat /\ S # {}
  BY <1>2
<1> HIDE DEF R
<1>4. PICK a \in S : \A b \in S : ~ (<<b, a>> \in R)
  BY <1>1, <1>3, WFMin
<1>5. ASSUME NEW b \in S PROVE a <= b
  <2>1. ~ (b < a)
    BY <1>3, <1>4 DEF R, OpToRel
  <2>2. QED
    BY <1>3, <2>1
<1>6. PICK j \in Resolved(k) : alerts[j].age = a
  OBVIOUS
<1>7. ~Recent(j)
  BY <1>5, <1>6 DEF Reopenable
<1>8. QED
  BY <1>2, <1>3, <1>5, <1>6, <1>7, SystemAlertsAssumption DEF Recent

\* A row is what it was for the spacing, or gone.
KeepsAge(i) ==
    alerts'[i] # None =>
        /\ alerts[i] # None
        /\ alerts'[i].key = alerts[i].key
        /\ alerts'[i].age = alerts[i].age
        /\ alerts'[i].open => alerts[i].open

\* An alert opens for k: it is new in its window, and the table is purged.
OpensApart(i, k) ==
    /\ alerts'[i] # None => alerts'[i].key = k /\ alerts'[i].age = 0
    /\ \A j \in AlertIds \ {i} : KeepsAge(j)
    /\ \A j \in AlertIds \ {i} : alerts'[j] # None /\ alerts'[j].key = k => alerts'[j].age > Window
    /\ \A j \in AlertIds : alerts'[j] # None => alerts'[j].age <= Retention

\* A purge leaves no row past the retention.
LEMMA PurgedAges ==
    ASSUME NEW table \in [AlertIds -> Alert \cup {None}], NEW i \in AlertIds,
           \A j \in AlertIds : table[j] # None /\ table[j].open => table[j].age = 0
    PROVE  Purged(table)[i] = None \/ (Purged(table)[i] = table[i] /\ table[i].age <= Retention)
BY SystemAlertsAssumption DEF Purged, Outdated, Alert, Ages

\* The table after a row is opened in it and the purge.
LEMMA OpenedApart ==
    ASSUME TypeOK, Spaced, NEW k \in Keys, NEW i \in AlertIds, NEW row \in Alert,
           row.key = k, row.age = 0,
           alerts' = Purged([alerts EXCEPT ![i] = row]),
           \A j \in AlertIds \ {i} : alerts[j] # None /\ alerts[j].key = k => alerts[j].age > Window
    PROVE  OpensApart(i, k)
<1> DEFINE table == [alerts EXCEPT ![i] = row]
<1>1. /\ table \in [AlertIds -> Alert \cup {None}] /\ table[i] = row
      /\ \A j \in AlertIds \ {i} : table[j] = alerts[j]
  BY DEF TypeOK
<1>2. \A j \in AlertIds : table[j] # None /\ table[j].open => table[j].age = 0
  BY <1>1 DEF Spaced, Rows
<1> HIDE DEF table
<1>3. \A j \in AlertIds : alerts'[j] = None \/ (alerts'[j] = table[j] /\ table[j].age <= Retention)
  BY <1>1, <1>2, PurgedAges DEF table
<1>4. QED
  BY <1>1, <1>3 DEF OpensApart, KeepsAge

\* Raising an alert that is not open: the row reopened was the last resolved, and a
\* new row is inserted only with all others of the key past the window.
LEMMA RaiseApart ==
    ASSUME TypeOK, Spaced, NEW k \in Keys, RaiseSystemAlert(k)
    PROVE  alerts' = alerts \/ \E i \in AlertIds : OpensApart(i, k)
<1>0. \A j \in Rows : alerts[j].age \in Nat /\ alerts[j] \in Alert
  BY SystemAlertsAssumption, RowIsAlert DEF Alert, Ages
<1>1. ASSUME NEW i \in Reopenable(k), Open(k) = {},
             alerts' = Purged([alerts EXCEPT ![i] = Reopened(alerts[i])])
      PROVE  i \in AlertIds /\ OpensApart(i, k)
  <2>1. i \in Resolved(k) /\ i \in AlertIds /\ i \in Rows /\ alerts[i] \in Alert /\ alerts[i].key = k
    BY <1>0, <1>1 DEF Reopenable, Resolved, Rows
  <2>2. Reopened(alerts[i]) \in Alert /\ Reopened(alerts[i]).key = k /\ Reopened(alerts[i]).age = 0
    <3>1. Reopened(alerts[i]) \in Alert
      BY <2>1, UpdatedRow DEF Reopened
    <3>2. QED
      BY <2>1, <3>1 DEF Reopened, Alert
  <2>3. ASSUME NEW j \in AlertIds \ {i}, alerts[j] # None, alerts[j].key = k
        PROVE  alerts[j].age > Window
    <3>1. j \in Resolved(k) /\ j \in Rows
      BY <1>1, <2>3 DEF Open, Resolved, Rows
    <3>2. alerts[i].age <= alerts[j].age
      BY <1>1, <3>1 DEF Reopenable
    <3>3. Apart(alerts[i].age, alerts[j].age)
      BY <2>1, <2>3, <3>1, <3>2 DEF Spaced
    <3>4. QED
      BY <1>0, <2>1, <3>1, <3>3, SystemAlertsAssumption DEF Apart
  <2>4. QED
    BY <1>1, <2>1, <2>2, <2>3, OpenedApart
<1>2. ASSUME NEW i \in AlertIds, Open(k) = {}, Reopenable(k) = {}, alerts[i] = None,
             alerts' = Purged([alerts EXCEPT ![i] = NewAlert(k)])
      PROVE  OpensApart(i, k)
  <2>1. NewAlert(k) \in Alert /\ NewAlert(k).key = k /\ NewAlert(k).age = 0
    BY ZeroAge DEF NewAlert, Alert
  <2>2. ASSUME NEW j \in AlertIds \ {i}, alerts[j] # None, alerts[j].key = k
        PROVE  alerts[j].age > Window
    <3>1. j \in Resolved(k)
      BY <1>2, <2>2 DEF Open, Resolved, Rows
    <3>2. QED
      BY <1>2, <3>1, LatestResolved
  <2>3. QED
    BY <1>2, <2>1, <2>2, OpenedApart
<1>3. QED
  BY <1>1, <1>2, RaiseCases

\* A step ages the table, opens an alert apart from the others, or keeps ages.
LEMMA AgesStep ==
    ASSUME TypeOK, Spaced, [Next]_vars
    PROVE  \/ \A i \in AlertIds : KeepsAge(i)
           \/ Minute
           \/ \E k \in Keys, i \in AlertIds : OpensApart(i, k)
<1>1. CASE alerts' = alerts
  BY <1>1 DEF KeepsAge
<1>2. CASE CallStore
  <2>1. Head(todo).key \in Keys
    <3>1. Head(todo) \in Call
      BY <1>2 DEF CallStore, TypeOK
    <3>2. QED
      BY <3>1 DEF Call
  <2>2. CASE RaiseSystemAlert(Head(todo).key)
    BY <1>1, <2>1, <2>2, RaiseApart
  <2>3. CASE ResolveSystemAlert(Head(todo).key)
    <3>1. ASSUME NEW i \in AlertIds PROVE KeepsAge(i)
      <4>1. CASE i \in Open(Head(todo).key)
        <5>1. alerts[i] \in Alert /\ alerts[i] # None /\ alerts[i].open /\ alerts[i].age = 0
          BY <4>1, RowIsAlert DEF Open, Spaced
        <5>2. alerts'[i] = [alerts[i] EXCEPT !.open = FALSE, !.age = 0]
          BY <2>3, <4>1 DEF ResolveSystemAlert
        <5>3. QED
          BY <5>1, <5>2 DEF KeepsAge, Alert
      <4>2. CASE i \notin Open(Head(todo).key)
        BY <2>3, <4>2 DEF ResolveSystemAlert, KeepsAge
      <4>3. QED
        BY <4>1, <4>2
    <3>2. QED
      BY <3>1
  <2>4. QED
    BY <1>2, <2>2, <2>3 DEF CallStore
<1>3. ASSUME NEW admin \in Admins, AcknowledgeAllSystemAlerts(admin)
      PROVE  \A i \in AlertIds : KeepsAge(i)
  <2>1. ASSUME NEW i \in AlertIds, alerts[i] # None, alerts'[i] = [alerts[i] EXCEPT !.reader = admin]
        PROVE  KeepsAge(i)
    BY <2>1 DEF TypeOK, Alert, KeepsAge
  <2>2. QED
    BY <1>3, <2>1 DEF AcknowledgeAllSystemAlerts, KeepsAge
<1>4. ASSUME NEW admin \in Admins, NEW n \in AlertIds, AcknowledgeSystemAlert(admin, n)
      PROVE  \A i \in AlertIds : KeepsAge(i)
  <2>1. alerts[n] \in Alert /\ alerts[n] # None
    BY <1>4, RowIsAlert DEF AcknowledgeSystemAlert
  <2>2. /\ alerts'[n] = [alerts[n] EXCEPT !.reader = FirstReader(alerts[n].reader, admin)]
        /\ \A i \in AlertIds \ {n} : alerts'[i] = alerts[i]
    BY <1>4, <2>1 DEF AcknowledgeSystemAlert, TypeOK, Alert
  <2>3. KeepsAge(n)
    BY <2>1, <2>2 DEF KeepsAge, FirstReader, Alert
  <2>4. QED
    BY <2>2, <2>3 DEF KeepsAge
<1>5. QED
  BY <1>1, <1>2, <1>3, <1>4 DEF Next, Check, CallFails, Restart, Acknowledge, vars

\* A key that gets no row keeps its bound.
LEMMA FewShrinks ==
    ASSUME Few, NEW k \in Keys, RowsOf(k)' \subseteq RowsOf(k)
    PROVE  /\ IsFiniteSet(RowsOf(k)')
           /\ Cardinality(RowsOf(k)') <= Retention \div (Window + 1) + 1
<1> DEFINE n == Retention \div (Window + 1) + 1
<1>1. n \in Int
  BY SystemAlertsAssumption
<1>2. IsFiniteSet(RowsOf(k)) /\ Cardinality(RowsOf(k)) <= n
  BY DEF Few
<1> HIDE DEF n
<1>3. IsFiniteSet(RowsOf(k)') /\ Cardinality(RowsOf(k)') <= Cardinality(RowsOf(k))
  BY <1>2, FS_Subset
<1>4. Cardinality(RowsOf(k)) \in Nat /\ Cardinality(RowsOf(k)') \in Nat
  BY <1>2, <1>3, FS_CardinalityType
<1>5. Cardinality(RowsOf(k)') <= n
  BY <1>1, <1>2, <1>3, <1>4
<1>6. QED
  BY <1>3, <1>5 DEF n

\* The three kinds of step keep rows apart and few.
LEMMA SpacedKept ==
    ASSUME TypeOK, Spaced, Few, \A i \in AlertIds : KeepsAge(i)
    PROVE  Spaced' /\ Few'
<1>1. \A i \in Rows' : i \in Rows /\ i \in AlertIds /\ KeepsAge(i) /\ alerts'[i] # None
  BY DEF Rows, KeepsAge
<1>2. Spaced'
  BY <1>1 DEF Spaced, KeepsAge
<1>3. \A k \in Keys : RowsOf(k)' \subseteq RowsOf(k)
  BY <1>1 DEF RowsOf, KeepsAge
<1>4. QED
  BY <1>2, <1>3, FewShrinks DEF Few

LEMMA SpacedMinute ==
    ASSUME TypeOK, Spaced, Few, Minute
    PROVE  Spaced' /\ Few'
<1>1. ASSUME NEW i \in Rows'
      PROVE  /\ i \in Rows /\ alerts'[i].key = alerts[i].key /\ alerts'[i].open = alerts[i].open
             /\ alerts[i].age \in Ages
             /\ alerts'[i].age = IF alerts[i].open \/ alerts[i].age > Retention THEN alerts[i].age
                                 ELSE alerts[i].age + 1
  <2>1. i \in Rows /\ i \in AlertIds /\ alerts'[i] = Older(alerts[i])
    BY DEF Minute, Rows
  <2>2. alerts[i] \in Alert
    BY <2>1, RowIsAlert
  <2>3. QED
    BY <2>1, <2>2 DEF Older, Alert
<1>2. Spaced'
  <2>1. ASSUME NEW i \in Rows', alerts'[i].open PROVE alerts'[i].age = 0
    BY <1>1, <2>1 DEF Spaced
  <2>2. ASSUME NEW i \in Rows', NEW j \in Rows', i # j, alerts'[i].key = alerts'[j].key,
               alerts'[i].age <= alerts'[j].age
        PROVE  Apart(alerts'[i].age, alerts'[j].age)
    <3> DEFINE a == alerts[i].age
               b == alerts[j].age
    <3>1. a \in Ages /\ b \in Ages /\ Window \in Nat /\ Retention \in Nat /\ Window <= Retention
      BY <1>1, SystemAlertsAssumption
    <3>2. /\ a <= b => b >= a + Window + 1 \/ b = Retention + 1
          /\ b <= a => a >= b + Window + 1 \/ a = Retention + 1
      BY <1>1, <2>2 DEF Spaced, Apart
    <3>3. alerts[i].open => a = 0
      BY <1>1 DEF Spaced
    <3>4. alerts[j].open => b = 0
      BY <1>1 DEF Spaced
    <3>5. /\ alerts'[i].age = IF alerts[i].open \/ a > Retention THEN a ELSE a + 1
          /\ alerts'[j].age = IF alerts[j].open \/ b > Retention THEN b ELSE b + 1
      BY <1>1
    <3> HIDE DEF a, b
    <3>6. QED
      BY <2>2, <3>1, <3>2, <3>3, <3>4, <3>5 DEF Apart, Ages
  <2>3. QED
    BY <2>1, <2>2 DEF Spaced
<1>3. \A k \in Keys : RowsOf(k)' \subseteq RowsOf(k)
  BY <1>1 DEF RowsOf
<1>4. QED
  BY <1>2, <1>3, FewShrinks DEF Few

LEMMA SpacedOpens ==
    ASSUME TypeOK, TypeOK', Spaced, NEW k \in Keys, NEW i \in AlertIds, OpensApart(i, k)
    PROVE  Spaced' /\ Few'
<1>1. ASSUME NEW j \in Rows', j # i
      PROVE  /\ j \in Rows /\ alerts'[j].key = alerts[j].key /\ alerts'[j].age = alerts[j].age
             /\ alerts'[j].open => alerts[j].open
             /\ alerts'[j].key = k => alerts'[j].age > Window
  BY <1>1 DEF OpensApart, KeepsAge, Rows
<1>2. i \in Rows' => alerts'[i].key = k /\ alerts'[i].age = 0
  BY DEF OpensApart, Rows
<1>3. \A j \in Rows' : alerts'[j].age \in Nat /\ alerts'[j].age <= Retention
  <2>1. \A j \in Rows' : alerts'[j] \in Alert
    BY DEF TypeOK, Rows
  <2>2. QED
    BY <2>1, SystemAlertsAssumption DEF OpensApart, Rows, Alert, Ages
<1>4. Spaced'
  <2>1. ASSUME NEW j \in Rows', alerts'[j].open PROVE alerts'[j].age = 0
    BY <1>1, <1>2, <2>1 DEF Spaced
  <2>2. ASSUME NEW j \in Rows', NEW n \in Rows', j # n, alerts'[j].key = alerts'[n].key,
               alerts'[j].age <= alerts'[n].age
        PROVE  Apart(alerts'[j].age, alerts'[n].age)
    <3>1. CASE j = i
      BY <1>1, <1>2, <1>3, <2>2, <3>1, SystemAlertsAssumption DEF Apart
    <3>2. CASE n = i
      <4>1. FALSE
        BY <1>1, <1>2, <1>3, <2>2, <3>2, SystemAlertsAssumption
      <4>2. QED
        BY <4>1
    <3>3. CASE j # i /\ n # i
      BY <1>1, <2>2, <3>3 DEF Spaced
    <3>4. QED
      BY <3>1, <3>2, <3>3
  <2>3. QED
    BY <2>1, <2>2 DEF Spaced
<1>5. ASSUME NEW m \in Keys
      PROVE  /\ IsFiniteSet(RowsOf(m)')
             /\ Cardinality(RowsOf(m)') <= Retention \div (Window + 1) + 1
  <2> DEFINE S == RowsOf(m)'
             age == [j \in S |-> alerts'[j].age]
  <2>1. \A j \in S : j \in Rows' /\ alerts'[j].key = m
    BY DEF RowsOf
  <2>2. age \in [S -> 0 .. Retention]
    BY <1>3, <2>1, SystemAlertsAssumption
  <2>3. \A n, j \in S : n # j /\ age[n] <= age[j] => Apart(age[n], age[j])
    BY <1>4, <2>1 DEF Spaced, Apart
  <2> HIDE DEF S, age
  <2>4. IsFiniteSet(S) /\ Cardinality(S) <= Retention \div (Window + 1) + 1
    BY <2>2, <2>3, ApartFew
  <2>5. QED
    BY <2>4 DEF S
<1>6. QED
  BY <1>4, <1>5 DEF Few

\* However a dependency flaps and calls fail, a key never has more rows than
\* reopen windows fit in the retention.
THEOREM ChannelAlwaysBounded == Spec => []ChannelBounded
<1>1. Init => Spaced /\ Few
  <2> SUFFICES ASSUME Init PROVE Spaced /\ Few
    OBVIOUS
  <2>1. Rows = {} /\ \A k \in Keys : RowsOf(k) = {}
    BY DEF Init, Rows, RowsOf
  <2>2. Retention \div (Window + 1) \in Nat
    <3>1. Retention \in Nat /\ Window + 1 \in Nat \ {0}
      BY SystemAlertsAssumption
    <3>2. QED
      BY <3>1, WindowInRetention
  <2>3. IsFiniteSet({}) /\ Cardinality({}) = 0
    BY FS_EmptySet
  <2>4. QED
    BY <2>1, <2>2, <2>3 DEF Spaced, Few
<1>2. TypeOK /\ TypeOK' /\ Spaced /\ Few /\ [Next]_vars => (Spaced /\ Few)'
  BY AgesStep, SpacedKept, SpacedMinute, SpacedOpens
<1>3. Few => ChannelBounded
  BY DEF Few, RowsOf, ChannelBounded
<1>4. QED
  BY <1>1, <1>2, <1>3, AlertsTypeCorrect, PTL DEF Spec
=============================================================================
