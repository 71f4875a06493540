--------------------------- MODULE SelfMonitoring ---------------------------
(***************************************************************************)
(* Cockpit watching itself: run_self_monitoring of                         *)
(* backend/app/self_monitoring.py, composed with the incident engine it    *)
(* evaluates its findings with, with the outbox that the incidents fill,   *)
(* and with the notification worker that empties it and is watched too.    *)
(*                                                                         *)
(* One cycle is one transaction that observes every collector, then the    *)
(* notification worker, the age of the outbox and the last delivery.  It   *)
(* evaluates them one by one; the worker commits in between, and sees the  *)
(* events of the cycle once it has committed.  A cycle that breaks off     *)
(* rolls back and is no step.  Ages are counted in units of time and stop  *)
(* at the first that every threshold has passed.  An observation of a      *)
(* cycle is newer than all before it, so the engine needs one time only.   *)
(***************************************************************************)
EXTENDS IncidentEngine, FiniteSetsExt

CONSTANTS
  Sources,        \* what must be heard: the active collectors, each reporting
                  \* on a target of its own, and the notification worker
  MaxAttempts,    \* notification_max_attempts
  WarningAge,     \* per signal, the age above which it is a WARNING
  CriticalAge,    \* per signal, the age above which it is CRITICAL
  MaxAge          \* bound: ages stop there, beyond every threshold

Aged == Sources \cup {"outbox"}

ASSUME SelfMonitoringAssumption ==
  /\ Signals = Aged \cup {"delivery"}
  /\ CodeOf \in [Signals -> Codes]
  /\ \A s, t \in Sources : CodeOf[s] = CodeOf[t] => s = t
  /\ \A s \in Sources : CodeOf[s] \notin {CodeOf["outbox"], CodeOf["delivery"]}
  /\ CodeOf["outbox"] = CodeOf["delivery"]
  /\ MaxAttempts \in Nat \ {0}
  /\ WarningAge \in [Aged -> Nat] /\ CriticalAge \in [Aged -> Nat] /\ MaxAge \in Nat
  /\ \A s \in Aged : WarningAge[s] < CriticalAge[s] /\ CriticalAge[s] < MaxAge
  /\ Times = {0}
  /\ InputStates = HealthStates

VARIABLES
  silence,      \* per source, how long ago it was heard, or Never
  known,        \* per source, how long ago it was first checked, or Never
  rows,         \* per event of the outbox how its delivery stands
  visible,      \* how many events are committed
  left,         \* the signals the running cycle has still to observe
  configured,   \* notifications_configured
  missed,       \* history: per source, checks since it was heard that were too late
  alarms        \* history: per source, incidents opened since it was heard

cycle == <<recent, incidents, outbox, requests, observed, known, visible, left>>
monitorVars == <<cycle, silence, rows, configured, missed, alarms>>

Never == -1
Ages == 0 .. MaxAge

-----------------------------------------------------------------------------
Freshness(age, s) ==
  IF age > CriticalAge[s] THEN "CRITICAL"
  ELSE IF age > WarningAge[s] THEN "WARNING"
  ELSE "HEALTHY"

(* A fault for the runs to find: a source that was never heard is fresh.   *)
SourceFreshUntilHeard(s) == Freshness(IF silence[s] = Never THEN 0 ELSE silence[s], s)

(* A fault for the runs to find: no margin before the first check is old.  *)
SourceWithoutMargin(s) ==
  IF silence[s] # Never THEN Freshness(silence[s], s) ELSE "CRITICAL"

(* A source that was never heard is unknown until its first check is older *)
(* than the warning age, and then as stale as that.                        *)
SourceState(s) ==
  IF silence[s] # Never THEN Freshness(silence[s], s)
  ELSE IF known[s] > WarningAge[s] THEN Freshness(known[s], s)
  ELSE "UNKNOWN"

PendingAges == {rows[k].age : k \in {l \in DOMAIN rows : rows[l].state = "PENDING"}}

(* The age of the oldest event that waits, if there is mail to send it by. *)
OutboxState == IF configured THEN Freshness(Max({0} \cup PendingAges), "outbox") ELSE "UNKNOWN"

(* The newest event that is sent or failed; events of one transaction      *)
(* share their time of creation and come in any order.                     *)
Terminal == {k \in DOMAIN rows : rows[k].state \in {"SENT", "FAILED"}}
LastTerminal == {k \in Terminal : \A l \in Terminal : rows[l].after <= rows[k].after}

DeliveryStates ==
  IF ~configured \/ Terminal = {} THEN {"UNKNOWN"}
  ELSE {IF rows[k].state = "SENT" THEN "HEALTHY" ELSE "CRITICAL" : k \in LastTerminal}

States(s) ==
  IF s \in Sources THEN {SourceState(s)}
  ELSE IF s = "outbox" THEN {OutboxState}
  ELSE DeliveryStates

-----------------------------------------------------------------------------
InitMonitor ==
  /\ Init
  /\ silence = [s \in Sources |-> Never]
  /\ known = [s \in Sources |-> Never]
  /\ rows = <<>>
  /\ visible = 0
  /\ left = {}
  /\ configured \in BOOLEAN
  /\ missed = [s \in Sources |-> 0]
  /\ alarms = [s \in Sources |-> 0]

Resting == left = {}

StartCycle ==
  /\ Resting
  /\ observed + Cardinality(Signals) <= MaxObservations
  /\ left' = Signals
  /\ UNCHANGED <<vars, known, visible, silence, rows, configured, missed, alarms>>

(* The sources, whose order makes no difference, the outbox, the delivery. *)
Due(s) ==
  /\ s \in left
  /\ s = "outbox" => left \cap Sources = {}
  /\ s = "delivery" => left = {"delivery"}

(* A source is overdue when the margin since it was heard, or since the    *)
(* first check if it never was, has passed.                                *)
Overdue(s) == (IF silence[s] = Never THEN known[s] ELSE silence[s]) > WarningAge[s]

Grows == Len(outbox') > Len(outbox)

(* A new event waits for its delivery; it is newer than all committed.     *)
NewRow == [state |-> "PENDING", attempts |-> 0, age |-> 0, after |-> visible]

(* One signal is observed and evaluated; the last one commits the cycle. *)
Check(s) ==
  /\ Due(s)
  /\ \E state \in States(s) :
       LET o == [at |-> 0, state |-> state] IN Evaluate(s, o, <<o, recent[s][1]>>)
  /\ rows' = IF Grows THEN Append(rows, NewRow) ELSE rows
  /\ left' = left \ {s}
  /\ visible' = IF left' = {} THEN Len(outbox') ELSE visible
  /\ IF s \in Sources
     THEN /\ known' = [known EXCEPT ![s] = IF @ = Never THEN 0 ELSE @]
          /\ missed' = IF Overdue(s) THEN [missed EXCEPT ![s] = IF @ < 2 THEN @ + 1 ELSE 2] ELSE missed
          /\ alarms' = IF Len(incidents') > Len(incidents)
                       THEN [alarms EXCEPT ![s] = @ + 1] ELSE alarms
     ELSE UNCHANGED <<known, missed, alarms>>
  /\ UNCHANGED <<silence, configured>>

(* A round of the worker tries every waiting event once, the oldest first. *)
Turn(k) ==
  /\ k <= visible
  /\ rows[k].state = "PENDING"
  /\ \A l \in 1 .. visible :
       rows[l].state = "PENDING" /\ rows[l].after < rows[k].after
         => rows[l].attempts > rows[k].attempts

(* A fault for the runs to find: one attempt too many. *)
ExhaustedLate(row) == row.attempts >= MaxAttempts

(* The attempt being made is the last one. *)
Exhausted(row) == row.attempts + 1 >= MaxAttempts

(* The notification worker tries a waiting event. *)
Deliver(k) ==
  /\ configured
  /\ Turn(k)
  /\ \/ rows' = [rows EXCEPT ![k].state = "SENT", ![k].attempts = @ + 1]
     \/ rows' = [rows EXCEPT
                   ![k].attempts = @ + 1,
                   ![k].state = IF Exhausted(rows[k]) THEN "FAILED" ELSE @]
  /\ UNCHANGED <<cycle, silence, configured, missed, alarms>>

(* A collector's snapshot is accepted, or the worker ends a round. *)
Hear(s) ==
  /\ silence' = [silence EXCEPT ![s] = 0]
  /\ missed' = [missed EXCEPT ![s] = 0]
  /\ alarms' = [alarms EXCEPT ![s] = 0]
  /\ UNCHANGED <<cycle, rows, configured>>

Older(age) == IF age \in {Never, MaxAge} THEN age ELSE age + 1

Tick ==
  /\ Resting
  /\ silence' = [s \in Sources |-> Older(silence[s])]
  /\ known' = [s \in Sources |-> Older(known[s])]
  /\ rows' = [k \in DOMAIN rows |-> 
                IF rows[k].state = "PENDING" THEN [rows[k] EXCEPT !.age = Older(@)] ELSE rows[k]]
  /\ UNCHANGED <<vars, visible, left, configured, missed, alarms>>

(* The services are started again with other mail settings. *)
Configure ==
  /\ Resting
  /\ configured' = ~configured
  /\ UNCHANGED <<cycle, silence, rows, missed, alarms>>

NextMonitor ==
  \/ StartCycle
  \/ \E s \in Signals : Check(s)
  \/ \E k \in DOMAIN rows : Deliver(k)
  \/ \E s \in Sources : Hear(s)
  \/ Tick
  \/ Configure

SpecMonitor == InitMonitor /\ [][NextMonitor]_monitorVars
-----------------------------------------------------------------------------
(* The type invariant: the engine's tables, one delivery row per event of  *)
(* the outbox, and events that are committed only when no cycle runs.      *)
Rows == [state : {"PENDING", "SENT", "FAILED"}, attempts : 0 .. MaxAttempts,
         age : Ages, after : Nat]

TypeOKMonitor ==
  /\ TypeOK
  /\ rows \in Seq(Rows) /\ Len(rows) = Len(outbox)
  /\ \A k \in DOMAIN rows : rows[k].state = "FAILED" => rows[k].attempts = MaxAttempts
  /\ visible \in 0 .. Len(rows)
  /\ Resting => visible = Len(rows)
  /\ left \subseteq Signals
  /\ silence \in [Sources -> Ages \cup {Never}]
  /\ known \in [Sources -> Ages \cup {Never}]
  /\ configured \in BOOLEAN
  /\ missed \in [Sources -> 0 .. 2]
  /\ alarms \in [Sources -> Nat]

(* A collector or a worker that two checks in a row found overdue has an   *)
(* active incident until it is heard again, a critical one as soon as the  *)
(* silence was checked beyond the critical age.                            *)
SilenceNoticed ==
  \A s \in Sources : missed[s] = 2 =>
    \E i \in Active(CodeOf[s]) :
      recent[s][1].state = "CRITICAL" => incidents[i].severity = "CRITICAL"

(* Nobody is called for a source that is in time: an incident opened since *)
(* a source was heard, or since Cockpit knows it, means that the margin    *)
(* has passed and that a check saw it.                                     *)
AlarmIsEarned ==
  \A s \in Sources : alarms[s] > 0 => Overdue(s) /\ missed[s] > 0

(* One silence, however long and however often it is checked, is one       *)
(* incident.                                                               *)
OneAlarmPerSilence == \A s \in Sources : alarms[s] <= 1

(* docs/SELF-MONITORING.md: a last delivery that failed is CRITICAL until  *)
(* a newer one is sent.  A failed delivery that two checks have seen, and  *)
(* that is still the last one, keeps the incident of its code active.      *)
FailedDeliveryStands ==
  [][\A i \in DOMAIN incidents :
       /\ incidents[i].code = CodeOf["delivery"]
       /\ IsActive(i) /\ incidents'[i].lifecycle = "RESOLVED"
       => ~(Both(recent["delivery"], {"CRITICAL"}) /\ DeliveryStates = {"CRITICAL"})]_monitorVars
=============================================================================
