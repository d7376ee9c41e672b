----------------------------- MODULE TTSHealth ------------------------------
(***************************************************************************)
(* The TTS service's view of its upstream (UpstreamHealth and the probe    *)
(* loop of scripts/tts_server.py), composed with the alert monitor that    *)
(* polls it.                                                               *)
(*                                                                         *)
(* The chain from a synthesis that fails to an alert an administrator sees *)
(* crosses two processes: readers' requests and the probe record outcomes  *)
(* in the order the calls end, status() needs a streak that has lasted,    *)
(* probe_due decides whether anyone will find out when nobody is reading,  *)
(* and the monitor only sees the status at its ticks.                      *)
(*                                                                         *)
(* Times are ages in monitor intervals, as in SystemAlerts, each counted   *)
(* up to the interval it is compared with.  Administrators' read marks,    *)
(* which none of these steps reads, are left to SystemAlerts.              *)
(***************************************************************************)
EXTENDS SystemAlerts

CONSTANTS
    Confirm,          \* HEALTH_CONFIRM_SECONDS
    FailingInterval,  \* HEALTH_FAILING_PROBE_INTERVAL
    ProbeInterval     \* HEALTH_PROBE_INTERVAL

ASSUME TTSHealthAssumption ==
    /\ Confirm \in Nat \ {0} /\ FailingInterval \in Nat \ {0} /\ ProbeInterval \in Nat \ {0}
    /\ Confirm <= ProbeInterval /\ FailingInterval <= ProbeInterval

VARIABLES
    up,       \* edge-tts synthesizes
    net,      \* how the monitor's GET fares: answered, or 404, or not at all
    health,   \* the UpstreamHealth object
    probe     \* the probe's synthesis in flight: up when it began, or None

ttsVars == <<up, net, health, probe>>
allVars == <<vars, ttsVars>>

\* consecutive_failures up to 2; now - failing_since; last_failure_at -
\* failing_since; now - last_outcome_at; last_success_at # 0.
NewHealth == [failures |-> 0, since |-> 0, span |-> 0, idle |-> 0, succeeded |-> FALSE]

-----------------------------------------------------------------------------
(* UpstreamHealth *)

record_success(h) ==
    [h EXCEPT !.failures = 0, !.since = 0, !.span = 0, !.idle = 0, !.succeeded = TRUE]

record_failure_Restarts(h) ==
    [h EXCEPT !.failures = IF @ < 2 THEN @ + 1 ELSE @, !.since = 0, !.span = 0, !.idle = 0]
record_failure(h) ==
    IF h.failures = 0 THEN [h EXCEPT !.failures = 1, !.since = 0, !.span = 0, !.idle = 0]
    ELSE [h EXCEPT !.failures = 2, !.span = h.since, !.idle = 0]

Status(h) ==
    CASE h.failures >= 2 /\ h.span >= Confirm -> "failing"
      [] h.failures = 0 /\ h.succeeded -> "ok"
      [] OTHER -> "other"

NoOutcome(h) == h.failures = 0 /\ ~h.succeeded
probe_due_WhenHealthy(h) ==
    \/ NoOutcome(h)
    \/ h.failures = 0 /\ h.idle >= ProbeInterval
    \/ h.failures > 0 /\ Status(h) # "failing" /\ h.idle >= Confirm
probe_due(h) ==
    \/ NoOutcome(h)
    \/ h.failures = 0 /\ h.idle >= ProbeInterval
    \/ h.failures > 0 /\ Status(h) = "failing" /\ h.idle >= FailingInterval
    \/ h.failures > 0 /\ Status(h) # "failing" /\ h.idle >= Confirm

\* A call ends well or badly as the upstream was when it began or is now.
Outcomes(began) == {began, up}
Recorded(well) == IF well THEN record_success(health) ELSE record_failure(health)

ProbeBegin ==
    /\ probe = None /\ probe_due(health)
    /\ probe' = up
    /\ UNCHANGED <<vars, up, net, health>>

ProbeEnd ==
    /\ probe # None
    /\ \E well \in Outcomes(probe) : health' = Recorded(well)
    /\ probe' = None
    /\ UNCHANGED <<vars, up, net>>

\* handle_tts and handle_track, for text that is not in the cache.  A call that
\* outlives a change of the upstream is the probe's case.
Request ==
    /\ health' = Recorded(up)
    /\ UNCHANGED <<vars, up, net, probe>>

-----------------------------------------------------------------------------
(* The environment, and the monitor's steps *)

UpstreamChanges == up' = ~up /\ UNCHANGED <<vars, net, health, probe>>
NetChanges ==
    /\ net' \in {"answered", "unsupported", "error"} \ {net}
    /\ UNCHANGED <<vars, up, health, probe>>

\* The TTS service is restarted: a call in flight and the streak are gone.
TTSRestart ==
    /\ troubles < MaxTroubles
    /\ troubles' = troubles + 1
    /\ health' = NewHealth /\ probe' = None
    /\ UNCHANGED <<alerts, unreachable, tick, todo, up, net>>

Answer == IF net = "answered" THEN Status(health) ELSE net

CheckTTS == Check(Answer) /\ UNCHANGED ttsVars

Pass(age, limit) == IF age < limit THEN age + 1 ELSE age
MinutePasses ==
    /\ Minute
    /\ health' = [health EXCEPT !.since = IF health.failures = 0 THEN 0 ELSE Pass(@, Confirm),
                                !.idle = IF NoOutcome(health) THEN 0 ELSE Pass(@, ProbeInterval)]
    /\ UNCHANGED <<up, net, probe>>

MonitorCalls == CallStore /\ UNCHANGED ttsVars
MonitorCallFails == CallFails /\ UNCHANGED ttsVars
MonitorRestart == Restart /\ UNCHANGED ttsVars

-----------------------------------------------------------------------------
TTSInit ==
    /\ Init
    /\ up \in BOOLEAN /\ net \in {"answered", "unsupported", "error"}
    /\ health = NewHealth /\ probe = None

TTSNext ==
    \/ ProbeBegin \/ ProbeEnd \/ Request
    \/ UpstreamChanges \/ NetChanges \/ TTSRestart
    \/ CheckTTS \/ MonitorCalls \/ MonitorCallFails \/ MonitorRestart
    \/ MinutePasses

\* Both loops run for as long as their process does, calls end (wait_for) and
\* time passes; nobody has to read, and nothing has to change or break.
Fairness ==
    /\ WF_allVars(ProbeBegin) /\ WF_allVars(ProbeEnd)
    /\ WF_allVars(CheckTTS) /\ WF_allVars(MonitorCalls) /\ WF_allVars(MinutePasses)

TTSSpec == TTSInit /\ [][TTSNext]_allVars /\ Fairness

-----------------------------------------------------------------------------
(* Properties *)

\* If synthesis stays broken and the service keeps answering, an upstream alert
\* opens and stays open, even when no reader asks for speech and even when the
\* failure began between two probes or across a restart of either process.
FailureReported == <>[](~up /\ net = "answered") => <>[](Open(upstream) # {})

\* Alerts close by themselves and stay closed: the one about the service once
\* it keeps answering, with or without /health, and the one about synthesis once
\* that works and is reported, even when nobody is reading.
RecoveryCloses ==
    /\ <>[](net # "error") => <>[](Open(service) = {})
    /\ <>[](up /\ net = "answered") => <>[](Open(upstream) = {})

\* If the service stays unreachable, an alert about it opens and stays open.
OutageReported == <>[](net = "error") => <>[](Open(service) # {})
=============================================================================
